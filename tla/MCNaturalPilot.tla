--------------------------- MODULE MCNaturalPilot ---------------------------
(* NaturalPilot for TLC: two repositories, one of them with two advisories. *)
EXTENDS NaturalPilot, TLC
CONSTANTS r1, r2, a1, a2, a3, f1, f2, f3, f4

MCRepositoryOf == a1 :> r1 @@ a2 :> r1 @@ a3 :> r2
FixSymmetry == Permutations({f1, f2, f3, f4})

\* What is run depends on the catalog by the partitions and the sufficiency of the corpus
\* only, and a catalog that is never edited gives all of them: after an edit, the commands
\* that run are explored up to the first run.
EditedUpToFirstRun == edits > 0 => dirs["decisions"] = Absent /\ runs["original-limits"] = Absent
=============================================================================
