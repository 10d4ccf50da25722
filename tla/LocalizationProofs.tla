------------------------ MODULE LocalizationProofs ------------------------
(***************************************************************************)
(* For repositories of any size and every bound: the strict enumeration    *)
(* holds no more than one candidate over its bound, whatever does not fit  *)
(* makes the product abstain, what was built is what the verifiers accept, *)
(* and a complete shortlist is the best of the ranking, each path once.    *)
(***************************************************************************)
EXTENDS Localization, InductionLemmas

Pcs == {"enumerate", "rank", "decide", "verify", "project", "verify_set", "done", "raised",
        "refused"}

AnyCandidate == [path : Nat, line : Nat, kind : {"file", "symbol"}, guided : Nat, score : Int]

\* The walk and what it has collected.
WalkType ==
    /\ files \in Seq(SourceFiles \cup ExcludedFiles)
    /\ position \in Nat /\ position <= Len(files)
    /\ pc = "enumerate" => candidates \in Seq(AnyCandidate)
    /\ Len(candidates) \in Nat
    /\ candidate_universe_truncated \in BOOLEAN
    /\ universe \in Nat
    /\ pc \in Pcs

\* While it walks: what is collected is the universe, or there is too much of it.  Only the
\* strict enumeration takes note before its end.
EnumerateInv ==
    pc = "enumerate" =>
        /\ ~candidate_universe_truncated =>
              /\ Len(candidates) = universe
              /\ strict_candidate_bound => universe <= MaximumCandidates
        /\ candidate_universe_truncated => strict_candidate_bound

\* Truncation is the truth about the universe, once it is decided.
UniverseInv ==
    /\ candidate_universe_truncated => universe > MaximumCandidates
    /\ pc \notin {"enumerate", "refused"} /\ universe > MaximumCandidates =>
          candidate_universe_truncated

\* The raw result repeats it, and nothing is projected from a result that is truncated.
RawInv ==
    /\ pc \in {"enumerate", "rank", "decide", "refused"} => raw = NoRaw
    /\ raw # NoRaw =>
          /\ pc \notin {"enumerate", "refused"}
          /\ raw.truncated = candidate_universe_truncated
          /\ raw.truncated /\ strict_candidate_bound =>
                raw.abstained /\ raw.reason = TRUNCATION /\ candidate_set.candidates = <<>>
    /\ pc \in {"enumerate", "rank", "decide", "verify", "project"} => candidate_set = NoSet

LocalizationInv ==
    /\ WalkType
    /\ CandidatesBounded
    /\ EnumerateInv
    /\ UniverseInv
    /\ RawInv

LEMMA InitInv == Init => LocalizationInv
<1> SUFFICES ASSUME Init PROVE LocalizationInv
  OBVIOUS
<1>1. files \in Seq(SourceFiles \cup ExcludedFiles)
  <2>1. PICK n \in 0..MaxFiles : files \in [1..n -> SourceFiles \cup ExcludedFiles]
    BY DEF Init
  <2> QED BY <2>1, LocalizationAssumption
<1>2. candidates = <<>> /\ Len(candidates) = 0 /\ candidates \in Seq(AnyCandidate)
  BY DEF Init
<1>3. /\ pc = "enumerate" /\ position = 0 /\ universe = 0 /\ raw = NoRaw /\ candidate_set = NoSet
      /\ candidate_universe_truncated = FALSE
  BY DEF Init
<1>4. WalkType
  <2>1. 0 <= Len(files)
    BY <1>1
  <2>2. candidate_universe_truncated \in BOOLEAN
    BY <1>3
  <2> QED BY <1>1, <1>2, <1>3, <2>1, <2>2 DEF WalkType, Pcs
<1>5. CandidatesBounded /\ EnumerateInv /\ UniverseInv
  BY <1>2, <1>3, LocalizationAssumption DEF CandidatesBounded, EnumerateInv, UniverseInv
<1>6. RawInv
  BY <1>3 DEF RawInv
<1> QED BY <1>4, <1>5, <1>6 DEF LocalizationInv

-----------------------------------------------------------------------------
(* Enumeration.                                                            *)

LEMMA ConcatSeq ==
    ASSUME NEW S, NEW s \in Seq(S), NEW t \in Seq(S)
    PROVE  /\ s \o t \in Seq(S) /\ Len(s \o t) = Len(s) + Len(t)
           /\ \A i \in 1..Len(s) : (s \o t)[i] = s[i]
           /\ \A i \in (Len(s) + 1)..(Len(s) + Len(t)) :
                 (s \o t)[i] = t[i - Len(s)] /\ i - Len(s) \in 1..Len(t)
OBVIOUS

\* The scores of a source file: its own, and those of its symbols.
LEMMA SourceScores ==
    ASSUME NEW f \in SourceFiles
    PROVE  /\ Len(f.scores) \in Nat \ {0}
           /\ \A k \in 1..Len(f.scores) : f.scores[k] \in Scores
<1>1. PICK n \in 1..(MaxSymbols + 1) : f.scores \in [1..n -> Scores]
  BY DEF SourceFiles
<1>2. Len(f.scores) = n /\ n \in Nat \ {0}
  BY <1>1, LocalizationAssumption
<1> QED BY <1>1, <1>2

LEMMA FileType ==
    ASSUME WalkType, Walking
    PROVE  File \in SourceFiles \cup ExcludedFiles /\ Current \in Nat /\ Current <= Len(files)
BY DEF WalkType, Walking, File, Current

LEMMA SourceFile ==
    ASSUME WalkType, Walking, File.kind = "source"
    PROVE  File \in SourceFiles
BY FileType DEF ExcludedFiles

\* The file that is walked over adds what fits to a bound that is not reached.
LEMMA AddCandidatesInv ==
    ASSUME LocalizationInv, AddCandidates
    PROVE  LocalizationInv'
<1> DEFINE n == Len(File.scores)
           taken == SymbolsTaken
           added == [k \in 1..(1 + taken) |-> Candidate(k)]
<1>1. /\ WalkType /\ Walking /\ pc = "enumerate" /\ pc' = pc
      /\ files' = files /\ config' = config /\ raw' = raw /\ candidate_set' = candidate_set
  BY DEF LocalizationInv, AddCandidates, Walking, inputs
<1>2. File \in SourceFiles /\ n \in Nat \ {0}
  BY <1>1, SourceFile, SourceScores DEF AddCandidates
<1>3. Len(candidates) \in Nat /\ universe \in Nat /\ candidates \in Seq(AnyCandidate)
  BY <1>1 DEF WalkType
<1>4. MaximumCandidates \in Nat \ {0}
  BY LocalizationAssumption
<1>5. Len(candidates) = universe /\ (strict_candidate_bound => universe <= MaximumCandidates)
      /\ ~candidate_universe_truncated
  BY <1>1 DEF LocalizationInv, EnumerateInv, AddCandidates
<1>6. taken \in 0..(n - 1) /\ (~strict_candidate_bound => taken = n - 1)
      /\ (strict_candidate_bound =>
            taken = IF n - 1 > MaximumCandidates - universe
                    THEN MaximumCandidates - universe ELSE n - 1)
  BY <1>2, <1>3, <1>4, <1>5 DEF SymbolsTaken, Symbols, SymbolLimit, AtMost, AtLeast
<1>7. added \in Seq(AnyCandidate) /\ Len(added) = 1 + taken
  <2>1. ASSUME NEW k \in 1..(1 + taken) PROVE Candidate(k) \in AnyCandidate
    <3>1. k \in 1..n
      BY <1>2, <1>6
    <3>2. File.scores[k] \in Scores
      BY <1>2, <3>1, SourceScores
    <3>3. File.scores[k].guided \in Nat /\ File.scores[k].prior \in Int
      BY <3>2, LocalizationAssumption
    <3>4. Current \in Nat
      BY <1>1, FileType
    <3> QED BY <3>1, <3>3, <3>4 DEF Candidate, AnyCandidate
  <2> HIDE DEF taken
  <2> QED BY <1>2, <1>6, <2>1
<1>8. candidates' = candidates \o added /\ universe' = universe + n
  BY DEF AddCandidates
<1>9. candidate_universe_truncated'
        = (strict_candidate_bound
             /\ (n - 1 > MaximumCandidates - universe \/ universe + 1 + taken > MaximumCandidates))
  <2>1. strict_candidate_bound => SymbolLimit = MaximumCandidates - universe
    BY <1>3, <1>4, <1>5 DEF SymbolLimit, AtLeast
  <2>2. Symbols = n - 1
    BY DEF Symbols
  <2>3. candidate_universe_truncated'
          = (strict_candidate_bound
               /\ (Symbols > SymbolLimit \/ Len(candidates) + 1 + taken > MaximumCandidates))
    BY DEF AddCandidates, OverTheBound
  <2> HIDE DEF taken, n
  <2>4. CASE strict_candidate_bound
    BY <1>5, <2>1, <2>2, <2>3, <2>4
  <2>5. CASE ~strict_candidate_bound
    BY <2>3, <2>5
  <2> QED BY <2>4, <2>5
<1>10. position' = position + 1 /\ position + 1 <= Len(files)
  BY <1>1, FileType DEF AddCandidates, Count, Current
<1>11. strict_candidate_bound' = strict_candidate_bound
  BY <1>1 DEF strict_candidate_bound
<1> HIDE DEF n, taken, added
<1>12. candidates' \in Seq(AnyCandidate) /\ Len(candidates') = universe + 1 + taken
       /\ universe' \in Nat
  <2>1. candidates' \in Seq(AnyCandidate) /\ Len(candidates') = Len(candidates) + Len(added)
    BY <1>3, <1>7, <1>8, ConcatSeq
  <2>2. taken \in Nat
    BY <1>2, <1>6
  <2> QED BY <1>2, <1>3, <1>5, <1>7, <1>8, <2>1, <2>2
<1>13. WalkType'
  <2>1. candidate_universe_truncated' \in BOOLEAN
    BY <1>9
  <2> QED BY <1>1, <1>10, <1>12, <2>1 DEF WalkType
<1> DEFINE over == n - 1 > MaximumCandidates - universe \/ universe + 1 + taken > MaximumCandidates
<1>14. over \in BOOLEAN /\ candidate_universe_truncated' = (strict_candidate_bound /\ over)
  BY <1>9
<1>15. CASE strict_candidate_bound
  <2>1. Len(candidates') <= MaximumCandidates + 1
    BY <1>2, <1>3, <1>4, <1>5, <1>6, <1>12, <1>15
  <2>2. candidate_universe_truncated' => universe' > MaximumCandidates
    <3>1. over => universe + n > MaximumCandidates
      BY <1>2, <1>3, <1>4, <1>5, <1>6, <1>15
    <3> HIDE DEF over
    <3>2. candidate_universe_truncated' => over
      BY <1>14, <1>15
    <3> QED BY <1>8, <3>1, <3>2
  <2>3. ~candidate_universe_truncated' =>
            Len(candidates') = universe' /\ universe' <= MaximumCandidates
    <3>1. ~over => universe + 1 + taken = universe + n /\ universe + n <= MaximumCandidates
      BY <1>2, <1>3, <1>4, <1>5, <1>6, <1>15
    <3> HIDE DEF over
    <3>2. ~candidate_universe_truncated' => ~over
      BY <1>14, <1>15
    <3> QED BY <1>8, <1>12, <3>1, <3>2
  <2>4. CandidatesBounded' /\ EnumerateInv' /\ UniverseInv'
    BY <1>1, <1>11, <1>15, <2>1, <2>2, <2>3 DEF CandidatesBounded, EnumerateInv, UniverseInv
  <2> QED BY <1>1, <1>11, <1>13, <2>4 DEF LocalizationInv, RawInv
<1>16. CASE ~strict_candidate_bound
  <2>1. ~candidate_universe_truncated' /\ Len(candidates') = universe'
    <3>1. universe + 1 + taken = universe + n
      BY <1>2, <1>3, <1>6, <1>16
    <3> HIDE DEF over
    <3>2. ~candidate_universe_truncated'
      BY <1>14, <1>16
    <3> QED BY <1>8, <1>12, <3>1, <3>2
  <2>2. CandidatesBounded' /\ EnumerateInv' /\ UniverseInv'
    BY <1>1, <1>11, <1>16, <2>1 DEF CandidatesBounded, EnumerateInv, UniverseInv
  <2> QED BY <1>1, <1>11, <1>13, <2>1, <2>2 DEF LocalizationInv, RawInv
<1> QED BY <1>15, <1>16

\* A file that adds nothing: it is left out, or only counted.
LEMMA PassFileInv ==
    ASSUME LocalizationInv, EnumerateRefuses \/ Exclude \/ Inventory
    PROVE  LocalizationInv'
<1>1. /\ WalkType /\ Walking /\ pc = "enumerate" /\ files' = files /\ config' = config
      /\ raw' = raw /\ candidate_set' = candidate_set /\ candidates' = candidates
      /\ candidate_universe_truncated' = candidate_universe_truncated
      /\ raw = NoRaw /\ candidate_set = NoSet /\ pc' \in {"enumerate", "refused"}
  BY DEF LocalizationInv, RawInv, Walking, EnumerateRefuses, Exclude, Inventory, inputs, walk
<1>2. position' \in {position, position + 1} /\ position + 1 <= Len(files)
  BY <1>1, FileType DEF EnumerateRefuses, Exclude, Inventory, Count, Current, walk
<1>3. universe' \in Nat /\ universe' >= universe
      /\ (~candidate_universe_truncated => universe' = universe)
  <2>1. CASE EnumerateRefuses \/ Exclude
    BY <1>1, <2>1 DEF EnumerateRefuses, Exclude, walk, WalkType
  <2>2. CASE Inventory
    <3>1. Len(File.scores) \in Nat
      BY <1>1, <2>2, SourceFile, SourceScores DEF Inventory
    <3>2. candidate_universe_truncated /\ universe' = universe + Len(File.scores)
      BY <2>2 DEF Inventory
    <3> QED BY <1>1, <3>1, <3>2 DEF WalkType
  <2> QED BY <2>1, <2>2
<1>4. strict_candidate_bound' = strict_candidate_bound
  BY <1>1 DEF strict_candidate_bound
<1>5. WalkType'
  BY <1>1, <1>2, <1>3 DEF WalkType, Pcs
<1>6. CandidatesBounded' /\ EnumerateInv'
  BY <1>1, <1>3, <1>4 DEF LocalizationInv, CandidatesBounded, EnumerateInv
<1>7. UniverseInv'
  <2>1. candidate_universe_truncated => universe > MaximumCandidates
    BY DEF LocalizationInv, UniverseInv
  <2> QED BY <1>1, <1>3, <2>1, LocalizationAssumption DEF UniverseInv, WalkType
<1>8. RawInv'
  BY <1>1 DEF RawInv
<1> QED BY <1>5, <1>6, <1>7, <1>8 DEF LocalizationInv

\* What is kept of a universe over the bound is within it.
LEMMA SelectedWithinBound ==
    ASSUME WalkType, NEW fs \in SUBSET OfKind("file"), NEW ss \in SUBSET OfKind("symbol"),
           candidates \in Seq(AnyCandidate),
           Cardinality(fs) = FileBudget,
           Cardinality(ss) = AtMost(Cardinality(OfKind("symbol")), MaximumCandidates - FileBudget)
    PROVE  Cardinality(fs \cup ss) \in Nat /\ Cardinality(fs \cup ss) <= MaximumCandidates
<1>1. IsFiniteSet(1..Len(candidates))
  <2>1. Len(candidates) \in Nat
    BY DEF WalkType
  <2> QED BY <2>1, FS_Interval
<1>2. OfKind("file") \subseteq 1..Len(candidates) /\ OfKind("symbol") \subseteq 1..Len(candidates)
  BY DEF WalkType, OfKind
<1>3. IsFiniteSet(fs) /\ IsFiniteSet(ss) /\ IsFiniteSet(OfKind("file"))
      /\ IsFiniteSet(OfKind("symbol"))
  <2>1. \A T \in SUBSET (1..Len(candidates)) : IsFiniteSet(T)
    BY <1>1, FS_Subset
  <2> QED BY <1>2, <2>1
<1>4. /\ Cardinality(fs) \in Nat /\ Cardinality(ss) \in Nat
      /\ Cardinality(OfKind("file")) \in Nat /\ Cardinality(OfKind("symbol")) \in Nat
  BY <1>3, FS_CardinalityType
<1>5. Cardinality(fs \cup ss) \in Nat
      /\ Cardinality(fs \cup ss) <= Cardinality(fs) + Cardinality(ss)
  <2>1. IsFiniteSet(fs \cup ss) /\ IsFiniteSet(fs \cap ss)
        /\ Cardinality(fs \cup ss)
              = Cardinality(fs) + Cardinality(ss) - Cardinality(fs \cap ss)
    BY <1>3, FS_Union, FS_Intersection
  <2>2. Cardinality(fs \cap ss) \in Nat /\ Cardinality(fs \cup ss) \in Nat
    BY <2>1, FS_CardinalityType
  <2> QED BY <1>4, <2>1, <2>2
<1>6. FileBudget \in Nat /\ FileBudget <= MaximumCandidates
  BY <1>4, LocalizationAssumption DEF FileBudget, AtMost, AtLeast
<1>7. Cardinality(ss) <= MaximumCandidates - FileBudget
  BY <1>4, <1>6, LocalizationAssumption DEF AtMost
<1> QED BY <1>4, <1>5, <1>6, <1>7, LocalizationAssumption

\* The end of the enumeration: too much is cut and known to be cut, the rest is whole.
LEMMA EndOfWalkInv ==
    ASSUME LocalizationInv, SelectCandidates \/ KeepCandidates
    PROVE  LocalizationInv'
<1>1. /\ WalkType /\ pc = "enumerate" /\ pc' = "rank" /\ files' = files /\ config' = config
      /\ raw' = raw /\ candidate_set' = candidate_set /\ position' = position
      /\ universe' = universe /\ raw = NoRaw /\ candidate_set = NoSet
  BY DEF LocalizationInv, RawInv, SelectCandidates, KeepCandidates, inputs, walk
<1>2. strict_candidate_bound' = strict_candidate_bound
  BY <1>1 DEF strict_candidate_bound
<1>3. Len(candidates) \in Nat /\ universe \in Nat /\ MaximumCandidates \in Nat
  BY <1>1, LocalizationAssumption DEF WalkType
<1>4. RawInv'
  BY <1>1 DEF RawInv
<1>5. CASE KeepCandidates
  <2>1. candidates' = candidates /\ Len(candidates) <= MaximumCandidates
        /\ candidate_universe_truncated' = candidate_universe_truncated
    BY <1>5 DEF KeepCandidates, walk
  <2>2. ~candidate_universe_truncated => universe <= MaximumCandidates
    BY <1>1, <2>1 DEF LocalizationInv, EnumerateInv
  <2>3. WalkType' /\ EnumerateInv'
    BY <1>1, <2>1 DEF WalkType, EnumerateInv, Pcs
  <2>4. UniverseInv'
    BY <1>1, <1>3, <2>1, <2>2 DEF LocalizationInv, UniverseInv
  <2>5. CandidatesBounded'
    BY <1>3, <2>1 DEF CandidatesBounded
  <2> QED BY <1>4, <2>3, <2>4, <2>5 DEF LocalizationInv
<1>6. CASE SelectCandidates
  <2>1. PICK fs \in SUBSET OfKind("file"), ss \in SUBSET OfKind("symbol") :
          /\ Cardinality(fs) = FileBudget
          /\ Cardinality(ss)
                = AtMost(Cardinality(OfKind("symbol")), MaximumCandidates - FileBudget)
          /\ candidates' = Pick(candidates, fs \cup ss)
    BY <1>6 DEF SelectCandidates
  <2> DEFINE c == Cardinality(fs \cup ss)
  <2>2. candidates \in Seq(AnyCandidate)
    BY <1>1 DEF WalkType
  <2>3. c \in Nat /\ c <= MaximumCandidates
    BY <1>1, <2>1, <2>2, SelectedWithinBound
  <2>4. Len(candidates') = c
    <3>1. fs \cup ss \subseteq DOMAIN candidates
      BY DEF OfKind
    <3> QED BY <2>1, <2>2, <3>1, PickIs
  <2> HIDE DEF c
  <2>5. candidate_universe_truncated' = TRUE /\ Len(candidates) > MaximumCandidates
    BY <1>6 DEF SelectCandidates
  <2>6. universe > MaximumCandidates
    BY <1>1, <1>3, <2>5 DEF LocalizationInv, EnumerateInv, UniverseInv
  <2>7. WalkType' /\ EnumerateInv' /\ UniverseInv' /\ CandidatesBounded'
    BY <1>1, <1>3, <2>3, <2>4, <2>5, <2>6
       DEF WalkType, EnumerateInv, UniverseInv, CandidatesBounded, Pcs
  <2> QED BY <1>4, <2>7 DEF LocalizationInv
<1> QED BY <1>5, <1>6

-----------------------------------------------------------------------------
(* Ranking, decision, verification and projection.                         *)

\* The steps after the enumeration leave it alone.
LEMMA AfterWalkInv ==
    ASSUME LocalizationInv,
           Rank \/ Decide \/ VerifyRaw \/ Project \/ ProjectRaises \/ VerifySet
    PROVE  /\ pc \notin {"enumerate", "refused"} /\ config' = config
           /\ WalkType' /\ CandidatesBounded' /\ EnumerateInv' /\ UniverseInv'
<1>1. /\ files' = files /\ config' = config /\ position' = position /\ candidates' = candidates
      /\ candidate_universe_truncated' = candidate_universe_truncated /\ universe' = universe
      /\ pc' \in Pcs \ {"enumerate", "refused"} /\ pc \notin {"enumerate", "refused"}
  BY DEF Rank, Decide, VerifyRaw, Project, ProjectRaises, VerifySet, inputs, walk, Pcs
<1>2. strict_candidate_bound' = strict_candidate_bound
  BY <1>1 DEF strict_candidate_bound
<1> QED BY <1>1, <1>2
     DEF LocalizationInv, WalkType, CandidatesBounded, EnumerateInv, UniverseInv

\* A result of a truncated universe abstains for that reason.
LEMMA DecideInv ==
    ASSUME LocalizationInv, Decide
    PROVE  RawInv'
<1> DEFINE selected == SubSeq(ranked, 1, AtMost(Len(ranked), RawTopK))
           reason == IF config.runtime = "step1" THEN Decision(selected)
                     ELSE HistoricalDecision(selected)
<1>1. /\ raw' = [candidates |-> selected, ranked |-> Len(ranked),
                 truncated |-> candidate_universe_truncated,
                 abstained |-> reason # "none", reason |-> reason]
      /\ pc = "decide" /\ pc' = "verify" /\ candidate_set' = candidate_set
      /\ candidate_universe_truncated' = candidate_universe_truncated /\ config' = config
  BY DEF Decide, inputs, walk
<1>2. candidate_set = NoSet
  BY <1>1 DEF LocalizationInv, RawInv
<1>3. strict_candidate_bound /\ candidate_universe_truncated => reason = TRUNCATION
  BY DEF strict_candidate_bound, Decision
<1> HIDE DEF reason, selected
<1>4. raw'.truncated = candidate_universe_truncated /\ raw'.reason = reason
      /\ raw'.abstained = (reason # "none")
  BY <1>1
<1>5. ASSUME raw'.truncated, strict_candidate_bound'
      PROVE  raw'.abstained /\ raw'.reason = TRUNCATION /\ candidate_set'.candidates = <<>>
  <2>1. reason = TRUNCATION
    BY <1>1, <1>3, <1>4, <1>5 DEF strict_candidate_bound
  <2> QED BY <1>1, <1>2, <1>4, <2>1 DEF TRUNCATION, NoSet
<1> QED BY <1>1, <1>2, <1>4, <1>5 DEF RawInv

LEMMA LaterRawInv ==
    ASSUME LocalizationInv, Rank \/ VerifyRaw \/ Project \/ ProjectRaises \/ VerifySet
    PROVE  RawInv'
<1>1. /\ raw' = raw /\ config' = config
      /\ candidate_universe_truncated' = candidate_universe_truncated
      /\ pc \notin {"enumerate", "refused"}
  BY DEF Rank, VerifyRaw, Project, ProjectRaises, VerifySet, inputs, walk
<1>2. strict_candidate_bound' = strict_candidate_bound
  BY <1>1 DEF strict_candidate_bound
<1>3. CASE Project
  <2>1. raw.abstained => candidate_set'.candidates = <<>>
    BY <1>3 DEF Project
  <2>2. pc = "project" /\ pc' = "verify_set"
    BY <1>3 DEF Project
  <2> QED BY <1>1, <1>2, <2>1, <2>2 DEF LocalizationInv, RawInv
<1>4. CASE Rank \/ VerifyRaw \/ ProjectRaises \/ VerifySet
  <2>1. /\ candidate_set' = candidate_set
        /\ \/ pc = "rank" /\ pc' = "decide"
           \/ pc = "verify" /\ pc' \in {"project", "raised"}
           \/ pc = "project" /\ pc' = "raised"
           \/ pc = "verify_set" /\ pc' \in {"done", "raised"}
    BY <1>4 DEF Rank, VerifyRaw, ProjectRaises, VerifySet
  <2> QED BY <1>1, <1>2, <2>1 DEF LocalizationInv, RawInv
<1> QED BY <1>3, <1>4

LEMMA NextInv == LocalizationInv /\ [Next]_vars => LocalizationInv'
<1> SUFFICES ASSUME LocalizationInv, [Next]_vars PROVE LocalizationInv'
  OBVIOUS
<1>1. CASE UNCHANGED vars
  BY <1>1 DEF vars, inputs, walk, LocalizationInv, WalkType, CandidatesBounded, EnumerateInv,
              UniverseInv, RawInv, strict_candidate_bound
<1>2. CASE Enumerate
  BY <1>2, AddCandidatesInv, PassFileInv, EndOfWalkInv DEF Enumerate
<1>3. CASE Rank \/ Decide \/ VerifyRaw \/ Project \/ ProjectRaises \/ VerifySet
  <2>1. RawInv'
    BY <1>3, DecideInv, LaterRawInv
  <2> QED BY <1>3, <2>1, AfterWalkInv DEF LocalizationInv
<1> QED BY <1>1, <1>2, <1>3 DEF Next

\* The inductive invariant.
THEOREM LocalizationInvariant == Spec => []LocalizationInv
BY InitInv, NextInv, PTL DEF Spec

\* However large the repository is, no more than one candidate over the bound is held.
THEOREM LocalizationBounded == Spec => []CandidatesBounded
<1>1. LocalizationInv => CandidatesBounded
  BY DEF LocalizationInv
<1> QED BY <1>1, LocalizationInvariant, PTL

\* A raw result is truncated exactly if the universe is over the bound, and the product
\* then abstains with an empty candidate set.
THEOREM LocalizationTruncation == Spec => []TruncationAbstains
<1>1. LocalizationInv => TruncationAbstains
  BY DEF LocalizationInv, UniverseInv, RawInv, TruncationAbstains
<1> QED BY <1>1, LocalizationInvariant, PTL

-----------------------------------------------------------------------------
(* The order of the candidates, and what is built from it.                 *)

PlaceBefore(a, b) ==
    \/ a.path < b.path
    \/ a.path = b.path /\ a.line < b.line

\* The walk adds candidates in the order of their files and lines: no two have one place.
PlacesInv ==
    /\ candidates \in Seq(AnyCandidate)
    /\ \A i, j \in DOMAIN candidates : i < j => PlaceBefore(candidates[i], candidates[j])
    /\ pc = "enumerate" => \A i \in DOMAIN candidates : candidates[i].path <= position

\* All candidates, each before those the ranking puts behind it.
Ranking(s) ==
    /\ s \in Seq(AnyCandidate)
    /\ Len(s) = Len(candidates)
    /\ ToSet(s) = ToSet(candidates)
    /\ \A i, j \in DOMAIN s : i < j => RankedBefore(s[i], s[j])

LEMMA RankedIsStrict ==
    ASSUME NEW a \in AnyCandidate, NEW b \in AnyCandidate, NEW c \in AnyCandidate
    PROVE  /\ ~RankedBefore(a, a)
           /\ RankedBefore(a, b) => ~RankedBefore(b, a)
           /\ RankedBefore(a, b) /\ RankedBefore(b, c) => RankedBefore(a, c)
           /\ PlaceBefore(a, b) => RankedBefore(a, b) \/ RankedBefore(b, a)
<1>1. /\ a.path \in Nat /\ a.line \in Nat /\ a.score \in Int
      /\ b.path \in Nat /\ b.line \in Nat /\ b.score \in Int
      /\ c.path \in Nat /\ c.line \in Nat /\ c.score \in Int
  BY DEF AnyCandidate
<1> QED BY <1>1 DEF RankedBefore, PlaceBefore

LEMMA ByScoreIsRanking ==
    ASSUME PlacesInv
    PROVE  Ranking(ByScore)
<1> DEFINE S == DOMAIN candidates
           n == Len(candidates)
           B(i, j) == \/ RankedBefore(candidates[i], candidates[j])
                      \/ ~RankedBefore(candidates[j], candidates[i]) /\ i < j
           R == {p \in S \X S : B(p[1], p[2])}
           order == [k \in 1..Cardinality(S) |->
                        CHOOSE x \in S : Cardinality({y \in S : B(y, x)}) = k - 1]
<1>1. /\ n \in Nat /\ S = 1..n
      /\ \A i \in S : candidates[i] \in AnyCandidate
  BY DEF PlacesInv
<1>2. IsFiniteSet(S) /\ Cardinality(S) = n
  BY <1>1, FS_Interval
<1>3. \A i, j \in S : i # j =>
         (RankedBefore(candidates[i], candidates[j]) <=> ~RankedBefore(candidates[j], candidates[i]))
  <2> SUFFICES ASSUME NEW i \in S, NEW j \in S, i # j
               PROVE  RankedBefore(candidates[i], candidates[j])
                        <=> ~RankedBefore(candidates[j], candidates[i])
    OBVIOUS
  <2>1. PlaceBefore(candidates[i], candidates[j]) \/ PlaceBefore(candidates[j], candidates[i])
    BY <1>1 DEF PlacesInv
  <2> QED BY <1>1, <2>1, RankedIsStrict
<1>4. \A i, j \in S : <<i, j>> \in R <=> RankedBefore(candidates[i], candidates[j])
  <2> SUFFICES ASSUME NEW i \in S, NEW j \in S
               PROVE  B(i, j) <=> RankedBefore(candidates[i], candidates[j])
    OBVIOUS
  <2>1. CASE i = j
    BY <1>1, <2>1, RankedIsStrict
  <2>2. CASE i # j
    BY <1>3, <2>2
  <2> QED BY <2>1, <2>2
<1>5. \A x \in S : Below(R, S, x) = {y \in S : B(y, x)}
  BY DEF Below
<1>6. ByScore = [k \in S |-> candidates[order[k]]]
  BY <1>1, <1>2 DEF ByScore, StableSort, InOrder
<1>7. StrictOrder(R, S)
  <2> HIDE DEF R
  <2>1. \A i \in S : <<i, i>> \notin R
    BY <1>1, <1>4, RankedIsStrict
  <2>2. \A i, j, k \in S : <<i, j>> \in R /\ <<j, k>> \in R => <<i, k>> \in R
    BY <1>1, <1>4, RankedIsStrict
  <2>3. \A i, j \in S : i # j => <<i, j>> \in R \/ <<j, i>> \in R
    BY <1>3, <1>4
  <2> QED BY <2>1, <2>2, <2>3 DEF StrictOrder
<1>8. \A k \in 1..n : order[k] \in S /\ Cardinality(Below(R, S, order[k])) = k - 1
  <2> SUFFICES ASSUME NEW k \in 1..n
               PROVE  order[k] \in S /\ Cardinality(Below(R, S, order[k])) = k - 1
    OBVIOUS
  <2>1. \E x \in S : Cardinality(Below(R, S, x)) = k - 1
    <3> HIDE DEF R, S, n
    <3> QED BY <1>2, <1>7, NthExists
  <2>2. \E x \in S : Cardinality({y \in S : B(y, x)}) = k - 1
    <3> HIDE DEF R, B
    <3> QED BY <1>5, <2>1
  <2>3. order[k] = CHOOSE x \in S : Cardinality({y \in S : B(y, x)}) = k - 1
    BY <1>2
  <2>4. order[k] \in S /\ Cardinality({y \in S : B(y, order[k])}) = k - 1
    <3> HIDE DEF B, order
    <3> QED BY <2>2, <2>3
  <2> HIDE DEF R, B, order
  <2> QED BY <1>5, <2>4
<1>9. order \in [1..Cardinality(S) -> S]
  BY <1>2, <1>8
<1> HIDE DEF order, R, B
<1>10. /\ \A i, j \in 1..n : i < j => <<order[i], order[j]>> \in R
       /\ \A x \in S : \E i \in 1..n : order[i] = x
  <2> HIDE DEF S, n
  <2>1. \A i \in 1..Cardinality(S) : Cardinality(Below(R, S, order[i])) = i - 1
    BY <1>2, <1>8
  <2>2. /\ \A i, j \in 1..Cardinality(S) : i < j => <<order[i], order[j]>> \in R
        /\ \A x \in S : \E i \in 1..Cardinality(S) : order[i] = x
    BY <1>2, <1>7, <1>9, <2>1, OrderIs
  <2> QED BY <1>2, <2>2
<1>11. ByScore \in Seq(AnyCandidate) /\ Len(ByScore) = n /\ DOMAIN ByScore = 1..n
  BY <1>1, <1>6, <1>8
<1>12. \A i \in 1..n : ByScore[i] = candidates[order[i]]
  BY <1>1, <1>6
<1>13. ToSet(ByScore) = ToSet(candidates)
  <2>1. ASSUME NEW i \in 1..n PROVE ByScore[i] \in ToSet(candidates)
    BY <1>1, <1>8, <1>12 DEF ToSet
  <2>2. ASSUME NEW x \in S PROVE candidates[x] \in ToSet(ByScore)
    <3>1. PICK i \in 1..n : order[i] = x
      BY <1>10
    <3> QED BY <1>11, <1>12, <3>1 DEF ToSet
  <2> QED BY <1>11, <2>1, <2>2 DEF ToSet
<1>14. \A i, j \in 1..n : i < j => RankedBefore(ByScore[i], ByScore[j])
  BY <1>4, <1>8, <1>10, <1>12
<1> QED BY <1>11, <1>13, <1>14 DEF Ranking

\* What the ranking keeps of the candidates, and the decision, verify.
Cut == SubSeq(ranked, 1, AtMost(Len(ranked), RawTopK))

RawIs ==
    raw = [candidates |-> Cut, ranked |-> Len(ranked),
           truncated |-> candidate_universe_truncated,
           abstained |-> Decision(Cut) # "none", reason |-> Decision(Cut)]

SetIs ==
    candidate_set = [candidates |-> IF raw.abstained THEN <<>> ELSE Projected(raw.candidates),
                     abstained |-> raw.abstained, reason |-> raw.reason]

LEMMA CutIs ==
    ASSUME Ranking(ranked)
    PROVE  /\ Cut \in Seq(AnyCandidate)
           /\ Len(Cut) = AtMost(Len(ranked), RawTopK)
           /\ \A i \in 1..Len(Cut) : Cut[i] = ranked[i]
           /\ Len(Cut) \in Nat /\ Len(Cut) <= Len(ranked) /\ Len(ranked) \in Nat
<1>1. ranked \in Seq(AnyCandidate) /\ Len(ranked) \in Nat
  BY DEF Ranking
<1>2. RawTopK \in Nat
  BY LocalizationAssumption
<1>3. AtMost(Len(ranked), RawTopK) \in 0..Len(ranked)
  BY <1>1, <1>2 DEF AtMost
<1> DEFINE k == AtMost(Len(ranked), RawTopK)
<1> HIDE DEF k
<1>4. k \in 0..Len(ranked) /\ Cut = SubSeq(ranked, 1, k)
  BY <1>3 DEF Cut, k
<1>5. Cut \in Seq(AnyCandidate) /\ Len(Cut) = k /\ \A i \in 1..k : Cut[i] = ranked[i]
  BY <1>1, <1>4
<1> QED BY <1>1, <1>4, <1>5 DEF k

\* Two candidates of a cut are not the same.
LEMMA CutSorted ==
    ASSUME Ranking(ranked)
    PROVE  \A i, j \in DOMAIN Cut : i < j => RankedBefore(Cut[i], Cut[j])
<1>1. DOMAIN Cut = 1..Len(Cut) /\ DOMAIN ranked = 1..Len(ranked)
  BY CutIs DEF Ranking
<1> QED BY <1>1, CutIs DEF Ranking

LEMMA RawResultVerifies ==
    ASSUME Ranking(ranked), ProductContract, RawIs
    PROVE  RawVerifies(raw)
<1>1. /\ raw.candidates = Cut /\ raw.ranked = Len(ranked)
      /\ raw.truncated = candidate_universe_truncated
      /\ raw.reason = Decision(Cut) /\ raw.abstained = (Decision(Cut) # "none")
  BY DEF RawIs
<1>2. config.runtime = "step1"
  BY DEF ProductContract
<1>3. ExpectedReason(raw) = Decision(Cut)
  <2>1. CASE candidate_universe_truncated
    BY <1>1, <1>2, <2>1 DEF ExpectedReason, Decision
  <2>2. CASE ~candidate_universe_truncated
    BY <1>1, <1>2, <2>2 DEF ExpectedReason, Decision
  <2> QED BY <2>1, <2>2
<1>4. \A i, j \in DOMAIN Cut : i # j => Cut[i] # Cut[j]
  <2> SUFFICES ASSUME NEW i \in DOMAIN Cut, NEW j \in DOMAIN Cut, i # j
               PROVE  Cut[i] # Cut[j]
    OBVIOUS
  <2>1. i \in Nat /\ j \in Nat /\ Cut[i] \in AnyCandidate /\ Cut[j] \in AnyCandidate
    BY CutIs
  <2>2. RankedBefore(Cut[i], Cut[j]) \/ RankedBefore(Cut[j], Cut[i])
    BY <2>1, CutSorted
  <2> QED BY <2>1, <2>2, RankedIsStrict
<1>5. ToSet(Cut) \subseteq ToSet(candidates)
  <2>1. ToSet(Cut) \subseteq ToSet(ranked)
    <3>1. \A i \in 1..Len(Cut) : i \in 1..Len(ranked) /\ Cut[i] = ranked[i]
      BY CutIs
    <3>2. DOMAIN Cut = 1..Len(Cut) /\ DOMAIN ranked = 1..Len(ranked)
      BY CutIs DEF Ranking
    <3> QED BY <3>1, <3>2 DEF ToSet
  <2> QED BY <2>1 DEF Ranking
<1>6. Len(ranked) = Len(candidates)
  BY DEF Ranking
<1> QED BY <1>1, <1>3, <1>4, <1>5, <1>6 DEF RawVerifies

\* The projection of the product ranker: the first candidates of their paths, in order.
LEMMA ProjectedIs ==
    ASSUME NEW s \in Seq(AnyCandidate), config \in Configurations, config.ranker = "v0.6"
    PROVE  LET F == FirstsOfPaths(s)
               p == Projected(s)
           IN /\ p \in Seq(AnyCandidate)
              /\ IsFiniteSet(F) /\ F \subseteq DOMAIN s /\ Cardinality(F) \in Nat
              /\ Len(p) = AtMost(Cardinality(F), config.top_k)
              /\ Len(p) \in 0..Cardinality(F)
              /\ \A n \in 1..Len(p) : p[n] = s[Ascending(F)[n]]
<1> DEFINE F == FirstsOfPaths(s)
           c == Cardinality(F)
           q == Pick(s, F)
           p == Projected(s)
<1>1. F \subseteq DOMAIN s
  BY DEF FirstsOfPaths
<1>2. /\ IsFiniteSet(F) /\ c \in Nat /\ q \in Seq(AnyCandidate) /\ Len(q) = c
      /\ \A n \in 1..c : q[n] = s[Ascending(F)[n]]
  <2> HIDE DEF F
  <2> QED BY <1>1, PickIs
<1>3. config.top_k \in Nat
  BY LocalizationAssumption DEF Configurations
<1>4. p = SubSeq(q, 1, AtMost(c, config.top_k))
  BY <1>2 DEF Projected, Prefix
<1>5. AtMost(c, config.top_k) \in 0..c
  BY <1>2, <1>3 DEF AtMost
<1> HIDE DEF F, c, q, p
<1>6. p \in Seq(AnyCandidate) /\ Len(p) = AtMost(c, config.top_k) /\ Len(p) \in 0..c
      /\ \A n \in 1..Len(p) : p[n] = q[n] /\ n \in 1..c
  BY <1>2, <1>4, <1>5
<1> QED BY <1>1, <1>2, <1>6 DEF F, c, p

\* The shortlist of v0.6 at two places, and its first.
LEMMA ShortlistOrder ==
    ASSUME NEW s \in Seq(AnyCandidate), config \in Configurations, config.ranker = "v0.6"
    PROVE  LET p == Projected(s)
           IN /\ \A m, n \in 1..Len(p) : m < n => p[m].path # p[n].path
              /\ s # <<>> => p # <<>> /\ p[1] = s[1]
              /\ \A m, n \in 1..Len(p) : m < n =>
                    \E i, j \in DOMAIN s : i < j /\ p[m] = s[i] /\ p[n] = s[j]
<1> DEFINE F == FirstsOfPaths(s)
           A == Ascending(F)
           c == Cardinality(F)
           p == Projected(s)
<1>1. /\ p \in Seq(AnyCandidate) /\ IsFiniteSet(F) /\ F \subseteq DOMAIN s /\ c \in Nat
      /\ Len(p) = AtMost(c, config.top_k) /\ Len(p) \in 0..c
      /\ \A n \in 1..Len(p) : p[n] = s[A[n]]
  BY ProjectedIs
<1>2. /\ A \in [1..c -> F]
      /\ \A m, n \in 1..c : m < n => A[m] < A[n]
      /\ \A x \in F : \E n \in 1..c : A[n] = x
  <2>1. F \subseteq Nat
    BY <1>1
  <2> HIDE DEF F
  <2> QED BY <1>1, <2>1, AscendingIs
<1>3. \A x \in F, y \in DOMAIN s : y < x => s[y].path # s[x].path
  BY DEF FirstsOfPaths
<1>4. s # <<>> => 1 \in F
  BY DEF FirstsOfPaths
<1>5. config.top_k \in Nat \ {0}
  BY LocalizationAssumption DEF Configurations
<1> HIDE DEF F, A, c, p
<1>6. ASSUME NEW m \in 1..Len(p), NEW n \in 1..Len(p), m < n
      PROVE  /\ p[m].path # p[n].path
             /\ \E i, j \in DOMAIN s : i < j /\ p[m] = s[i] /\ p[n] = s[j]
  <2>1. m \in 1..c /\ n \in 1..c /\ A[m] < A[n] /\ A[m] \in F /\ A[n] \in F
    BY <1>1, <1>2, <1>6
  <2>2. p[m] = s[A[m]] /\ p[n] = s[A[n]]
    BY <1>1
  <2> QED BY <1>1, <1>3, <2>1, <2>2
<1>7. ASSUME s # <<>> PROVE p # <<>> /\ p[1] = s[1]
  <2>1. PICK n \in 1..c : A[n] = 1
    BY <1>2, <1>4, <1>7
  <2>2. 1 \in 1..c
    BY <1>1, <2>1
  <2>3. n = 1
    <3>1. A[1] \in DOMAIN s
      BY <1>1, <1>2, <2>2
    <3>2. A[1] >= 1
      BY <3>1
    <3> QED BY <1>1, <1>2, <2>1, <2>2, <3>2
  <2>4. Len(p) >= 1
    BY <1>1, <1>5, <2>2 DEF AtMost
  <2>5. p[1] = s[1]
    BY <1>1, <2>1, <2>3, <2>4
  <2> QED BY <1>1, <2>4, <2>5
<1> QED BY <1>6, <1>7 DEF p

LEMMA SetResultVerifies ==
    ASSUME config \in Configurations, Ranking(ranked), ProductContract, RawIs, SetIs
    PROVE  SetVerifies(candidate_set)
<1> DEFINE cs == candidate_set.candidates
           reason == Decision(Cut)
           k == config.top_k
<1>1. /\ raw.candidates = Cut /\ raw.reason = reason /\ raw.abstained = (reason # "none")
      /\ Cut \in Seq(AnyCandidate)
  BY CutIs DEF RawIs
<1>2. /\ cs = IF raw.abstained THEN <<>> ELSE Projected(Cut)
      /\ candidate_set.abstained = raw.abstained /\ candidate_set.reason = raw.reason
  BY <1>1 DEF SetIs
<1>3. k \in Nat \ {0}
  BY LocalizationAssumption DEF Configurations
<1>4. CASE reason # "none"
  <2>1. cs = <<>> /\ candidate_set.abstained = TRUE /\ candidate_set.reason = reason
    BY <1>1, <1>2, <1>4
  <2>2. reason \in {NO_SIGNAL, TRUNCATION}
    BY <1>4 DEF Decision
  <2>3. DOMAIN cs = {} /\ Len(cs) = 0
    BY <2>1
  <2> HIDE DEF cs, reason
  <2>4. Len(cs) <= config.top_k
    BY <1>3, <2>3
  <2> QED BY <2>1, <2>2, <2>3, <2>4 DEF SetVerifies, cs
<1>5. CASE reason = "none"
  <2>1. cs = Projected(Cut) /\ candidate_set.abstained = FALSE /\ candidate_set.reason = "none"
    BY <1>1, <1>2, <1>5
  <2>2. Cut # <<>> /\ ~(Cut[1].guided <= 0)
    BY <1>5 DEF Decision, NO_SIGNAL, TRUNCATION
  <2>3. Cut[1] \in AnyCandidate
    BY <1>1, <2>2
  <2>4. Cut[1].guided > 0
    BY <2>2, <2>3 DEF AnyCandidate
  <2>5. /\ cs \in Seq(AnyCandidate) /\ Len(cs) <= k /\ cs # <<>> /\ cs[1] = Cut[1]
        /\ config.ranker = "v0.6" =>
              \A i, j \in DOMAIN cs : i # j => cs[i].path # cs[j].path
    <3>1. CASE config.ranker = "v0.6"
      <4>1. /\ cs \in Seq(AnyCandidate) /\ Len(cs) <= k
        <5>1. Len(cs) = AtMost(Cardinality(FirstsOfPaths(Cut)), k)
              /\ Cardinality(FirstsOfPaths(Cut)) \in Nat /\ cs \in Seq(AnyCandidate)
          BY <1>1, <2>1, <3>1, ProjectedIs
        <5> QED BY <1>3, <5>1 DEF AtMost
      <4>2. /\ cs # <<>> /\ cs[1] = Cut[1]
            /\ \A m, n \in 1..Len(cs) : m < n => cs[m].path # cs[n].path
        BY <1>1, <2>1, <2>2, <3>1, ShortlistOrder
      <4> HIDE DEF cs
      <4>3. \A i, j \in DOMAIN cs : i # j => cs[i].path # cs[j].path
        BY <4>1, <4>2
      <4> QED BY <4>1, <4>2, <4>3
    <3>2. CASE config.ranker # "v0.6"
      <4>1. cs = SubSeq(Cut, 1, AtMost(Len(Cut), k))
        BY <2>1, <3>2 DEF Projected, Prefix
      <4>2. AtMost(Len(Cut), k) \in 1..Len(Cut) /\ AtMost(Len(Cut), k) <= k
        BY <1>1, <1>3, <2>2 DEF AtMost
      <4> HIDE DEF cs
      <4>3. cs \in Seq(AnyCandidate) /\ Len(cs) = AtMost(Len(Cut), k) /\ cs[1] = Cut[1]
        BY <1>1, <4>1, <4>2
      <4> QED BY <3>2, <4>2, <4>3
    <3> QED BY <3>1, <3>2
  <2>6. "none" \notin {NO_SIGNAL, TRUNCATION}
    BY DEF NO_SIGNAL, TRUNCATION
  <2> HIDE DEF cs
  <2> QED BY <2>1, <2>4, <2>5, <2>6 DEF SetVerifies, cs
<1> QED BY <1>4, <1>5

\* Behind the cut of the raw ranking there is only what the whole cut goes before.
LEMMA BehindTheCut ==
    ASSUME Ranking(ranked), NEW m \in DOMAIN ranked, m > Len(Cut)
    PROVE  Cardinality({d \in ToSet(candidates) : RankedBefore(d, ranked[m])}) >= RawTopK
<1> DEFINE D == {d \in ToSet(candidates) : RankedBefore(d, ranked[m])}
           n == Len(ranked)
           f == [i \in 1..RawTopK |-> ranked[i]]
<1>1. /\ n \in Nat /\ ranked \in Seq(AnyCandidate) /\ RawTopK \in Nat
      /\ m \in 1..n /\ ToSet(ranked) = ToSet(candidates)
      /\ \A i, j \in 1..n : i < j => RankedBefore(ranked[i], ranked[j])
  BY CutIs, LocalizationAssumption DEF Ranking
<1>2. RawTopK < m
  BY <1>1, CutIs DEF AtMost
<1>3. IsFiniteSet(D)
  <2> DEFINE g == [i \in 1..n |-> ranked[i]]
  <2>1. g \in Surjection(1..n, ToSet(ranked))
    <3>1. DOMAIN ranked = 1..n
      BY <1>1
    <3> QED BY <3>1 DEF ToSet, Surjection
  <2>2. IsFiniteSet(1..n)
    BY <1>1, FS_Interval
  <2>3. IsFiniteSet(ToSet(ranked))
    <3> HIDE DEF g
    <3> QED BY <2>1, <2>2, FS_Surjection
  <2> QED BY <1>1, <2>3, FS_Subset
<1>4. f \in Injection(1..RawTopK, D)
  <2>1. ASSUME NEW i \in 1..RawTopK PROVE ranked[i] \in D
    <3>1. i \in 1..n /\ i < m
      BY <1>1, <1>2
    <3>2. ranked[i] \in ToSet(candidates)
      <4>1. i \in DOMAIN ranked
        BY <1>1, <3>1
      <4>2. ranked[i] \in ToSet(ranked)
        BY <4>1 DEF ToSet
      <4> QED BY <1>1, <4>2
    <3> QED BY <1>1, <3>1, <3>2
  <2>2. ASSUME NEW i \in 1..RawTopK, NEW j \in 1..RawTopK, ranked[i] = ranked[j], i # j
        PROVE  FALSE
    <3>1. i \in 1..n /\ j \in 1..n /\ (i < j \/ j < i)
      BY <1>1, <1>2, <2>2
    <3>2. RankedBefore(ranked[i], ranked[i]) /\ ranked[i] \in AnyCandidate
      BY <1>1, <2>2, <3>1
    <3> QED BY <3>2, RankedIsStrict
  <2> HIDE DEF D
  <2>3. f \in [1..RawTopK -> D]
    BY <2>1
  <2>4. \A i, j \in 1..RawTopK : f[i] = f[j] => i = j
    BY <2>2
  <2> HIDE DEF f
  <2> QED BY <2>3, <2>4 DEF Injection, IsInjective
<1>5. Cardinality(1..RawTopK) = RawTopK
  BY <1>1, FS_Interval
<1>6. Cardinality(1..RawTopK) <= Cardinality(D)
  <2> HIDE DEF D, f
  <2> QED BY <1>3, <1>4, FS_Injection
<1>7. Cardinality(D) \in Nat
  BY <1>3, FS_CardinalityType
<1> HIDE DEF D
<1>8. Cardinality(D) >= RawTopK
  BY <1>1, <1>5, <1>6, <1>7
<1> QED BY <1>8 DEF D

LEMMA ShortlistIsExact ==
    ASSUME config \in Configurations, config.ranker = "v0.6",
           Ranking(ranked), RawIs, SetIs, ~candidate_set.abstained
    PROVE  LET p == candidate_set.candidates
           IN /\ \A i, j \in DOMAIN p : i < j => RankedBefore(p[i], p[j])
              /\ \A i \in DOMAIN p, c \in ToSet(candidates) :
                    c.path = p[i].path => c = p[i] \/ RankedBefore(p[i], c)
              /\ \A c \in ToSet(candidates) :
                    \/ \E i \in DOMAIN p : p[i].path = c.path
                    \/ Len(p) = config.top_k /\ RankedBefore(Last(p), c)
                    \/ Cardinality({d \in ToSet(candidates) : RankedBefore(d, c)}) >= RawTopK
<1> DEFINE p == candidate_set.candidates
           F == FirstsOfPaths(Cut)
           A == Ascending(F)
           k == Cardinality(F)
           n == Len(ranked)
<1>1. p = Projected(Cut)
  BY DEF RawIs, SetIs
<1>2. /\ Cut \in Seq(AnyCandidate) /\ n \in Nat /\ Len(Cut) \in 0..n
      /\ \A i \in DOMAIN Cut : i \in 1..n /\ Cut[i] = ranked[i]
      /\ DOMAIN Cut = 1..Len(Cut)
  BY CutIs
<1>3. /\ ranked \in Seq(AnyCandidate)
      /\ ToSet(candidates) = {ranked[m] : m \in 1..n}
      /\ \A i, j \in 1..n : i < j => RankedBefore(ranked[i], ranked[j])
  <2>1. DOMAIN ranked = 1..n
    BY <1>2 DEF Ranking
  <2> QED BY <2>1 DEF Ranking, ToSet
<1>4. /\ p \in Seq(AnyCandidate) /\ IsFiniteSet(F) /\ F \subseteq DOMAIN Cut /\ k \in Nat
      /\ Len(p) = AtMost(k, config.top_k) /\ Len(p) \in 0..k
      /\ \A i \in 1..Len(p) : p[i] = Cut[A[i]]
  BY <1>1, <1>2, ProjectedIs
<1>5. /\ A \in [1..k -> F]
      /\ \A i, j \in 1..k : i < j => A[i] < A[j]
      /\ \A x \in F : \E i \in 1..k : A[i] = x
  <2>1. F \subseteq Nat
    BY <1>2, <1>4
  <2> HIDE DEF F
  <2> QED BY <1>4, <2>1, AscendingIs
<1>6. \A x \in F, y \in DOMAIN Cut : y < x => Cut[y].path # Cut[x].path
  BY <1>2 DEF FirstsOfPaths
<1>7. \A x \in DOMAIN Cut : (\A y \in DOMAIN Cut : y < x => Cut[y].path # Cut[x].path) => x \in F
  BY <1>2 DEF FirstsOfPaths
<1>8. DOMAIN p = 1..Len(p)
  BY <1>4
<1>9. \A i \in DOMAIN p : i \in 1..k /\ A[i] \in F /\ A[i] \in DOMAIN Cut
                          /\ A[i] \in 1..n /\ p[i] = ranked[A[i]]
  <2> HIDE DEF F, A, k, n, p
  <2> QED BY <1>2, <1>4, <1>5, <1>8
<1> HIDE DEF p, F, A, k, n
<1>10. ASSUME NEW i \in DOMAIN p, NEW j \in DOMAIN p, i < j
       PROVE  RankedBefore(p[i], p[j])
  BY <1>3, <1>5, <1>9, <1>10
<1>11. ASSUME NEW i \in DOMAIN p, NEW c \in ToSet(candidates), c.path = p[i].path
       PROVE  c = p[i] \/ RankedBefore(p[i], c)
  <2>1. PICK m \in 1..n : c = ranked[m]
    BY <1>3
  <2>2. CASE m = A[i]
    BY <1>9, <2>1, <2>2
  <2>3. CASE m > A[i]
    BY <1>3, <1>9, <2>1, <2>3
  <2>4. CASE m < A[i]
    <3>1. m \in DOMAIN Cut /\ Cut[m] = ranked[m] /\ Cut[A[i]] = ranked[A[i]]
      BY <1>2, <1>9, <2>4
    <3>2. Cut[m].path # Cut[A[i]].path
      BY <1>6, <1>9, <2>4, <3>1
    <3> QED BY <1>9, <1>11, <2>1, <3>1, <3>2
  <2>5. A[i] \in Int /\ m \in Int
    BY <1>9
  <2> QED BY <2>2, <2>3, <2>4, <2>5
<1>12. ASSUME NEW c \in ToSet(candidates)
       PROVE  \/ \E i \in DOMAIN p : p[i].path = c.path
              \/ Len(p) = config.top_k /\ RankedBefore(Last(p), c)
              \/ Cardinality({d \in ToSet(candidates) : RankedBefore(d, c)}) >= RawTopK
  <2>1. PICK m \in 1..n : c = ranked[m]
    BY <1>3
  <2>2. CASE m > Len(Cut)
    BY <1>3, <2>1, <2>2, BehindTheCut DEF n
  <2>3. CASE m <= Len(Cut)
    <3> DEFINE T == {y \in DOMAIN Cut : Cut[y].path = c.path}
    <3>1. T \subseteq Nat /\ m \in T
      BY <1>2, <2>1, <2>3
    <3>2. PICK j \in T : \A y \in T : j <= y
      <4> HIDE DEF T
      <4> QED BY <3>1, LeastNatural
    <3>3. j \in DOMAIN Cut /\ Cut[j].path = c.path /\ j <= m /\ j \in Nat
      BY <1>2, <3>1, <3>2
    <3>4. j \in F
      <4>1. \A y \in DOMAIN Cut : y < j => Cut[y].path # Cut[j].path
        BY <1>2, <3>2, <3>3
      <4> QED BY <1>7, <3>3, <4>1
    <3>5. PICK i \in 1..k : A[i] = j
      BY <1>5, <3>4
    <3>6. CASE i <= Len(p)
      <4>1. i \in DOMAIN p
        BY <1>8, <3>6
      <4>2. p[i].path = c.path
        BY <1>2, <1>9, <3>3, <3>5, <4>1
      <4> QED BY <4>1, <4>2
    <3>7. CASE i > Len(p)
      <4>1. config.top_k \in Nat \ {0}
        BY LocalizationAssumption DEF Configurations
      <4>2. Len(p) = config.top_k /\ Len(p) \in 1..k /\ Len(p) \in DOMAIN p
        BY <1>4, <1>8, <3>7, <4>1 DEF AtMost
      <4>3. A[Len(p)] < j
        BY <1>5, <3>5, <3>7, <4>2
      <4>4. RankedBefore(ranked[A[Len(p)]], ranked[m])
        BY <1>3, <1>9, <2>1, <3>3, <4>2, <4>3
      <4>5. Last(p) = ranked[A[Len(p)]]
        BY <1>9, <4>2 DEF Last
      <4> QED BY <2>1, <4>2, <4>4, <4>5
    <3>8. i \in Int /\ Len(p) \in Int
      BY <1>4
    <3> QED BY <3>6, <3>7, <3>8
  <2>4. Len(Cut) \in Int
    BY <1>2
  <2> QED BY <2>2, <2>3, <2>4
<1> QED BY <1>10, <1>11, <1>12 DEF p

-----------------------------------------------------------------------------
(* Every step keeps the order, and passes on what verifies.                *)

\* The results of the product are made from the ranking; those of others may be refused.
ResultInv ==
    /\ pc \in {"decide", "verify", "project", "verify_set", "done"} /\ ProductContract =>
          Ranking(ranked)
    /\ pc \in {"verify", "project", "verify_set", "done"} /\ ProductContract => RawIs
    /\ pc \in {"verify_set", "done"} => ProductContract /\ SetIs
    /\ BuiltVerifies

OrderInv == config \in Configurations /\ PlacesInv /\ ResultInv

LEMMA InitOrder == Init => OrderInv
<1> SUFFICES ASSUME Init PROVE OrderInv
  OBVIOUS
<1>1. candidates = <<>> /\ pc = "enumerate" /\ config \in Configurations
  BY DEF Init
<1> QED BY <1>1 DEF OrderInv, PlacesInv, ResultInv, BuiltVerifies

\* Steps that leave the candidates and what is made of them.
LEMMA SameResults ==
    ASSUME UNCHANGED <<config, candidates, candidate_universe_truncated, ranked>>
    PROVE  /\ ProductContract' = ProductContract
           /\ Ranking(ranked)' = Ranking(ranked)
           /\ UNCHANGED raw => RawIs' = RawIs
           /\ UNCHANGED <<raw, candidate_set>> => SetIs' = SetIs
<1>1. ProductContract' = ProductContract /\ Ranking(ranked)' = Ranking(ranked)
  BY DEF ProductContract, Ranking
<1>2. ASSUME UNCHANGED raw PROVE RawIs' = RawIs
  BY <1>2 DEF RawIs, Cut, Decision
<1>3. ASSUME UNCHANGED <<raw, candidate_set>> PROVE SetIs' = SetIs
  BY <1>3 DEF SetIs, Projected, Prefix
<1> QED BY <1>1, <1>2, <1>3

LEMMA AddCandidatesOrder ==
    ASSUME LocalizationInv, OrderInv, AddCandidates
    PROVE  PlacesInv'
<1> DEFINE taken == SymbolsTaken
           added == [k \in 1..(1 + taken) |-> Candidate(k)]
<1>1. LocalizationInv' /\ pc' = pc /\ pc = "enumerate"
  BY AddCandidatesInv DEF AddCandidates, Walking
<1>2. candidates' = candidates \o added /\ position' = position + 1
  BY DEF AddCandidates, Count, Current
<1>3. candidates' \in Seq(AnyCandidate)
  BY <1>1 DEF LocalizationInv, WalkType
<1>4. /\ candidates \in Seq(AnyCandidate) /\ position \in Nat
      /\ \A i \in DOMAIN candidates : candidates[i].path <= position
      /\ \A i, j \in DOMAIN candidates : i < j => PlaceBefore(candidates[i], candidates[j])
  BY <1>1 DEF OrderInv, PlacesInv, LocalizationInv, WalkType
<1>5. taken \in Nat
  <2>1. Walking /\ File.kind = "source" /\ WalkType
    BY DEF AddCandidates, LocalizationInv
  <2>2. Len(File.scores) \in Nat \ {0}
    BY <2>1, SourceFile, SourceScores
  <2>3. MaximumCandidates \in Nat /\ Len(candidates) \in Nat
    BY <1>4, LocalizationAssumption
  <2>4. SymbolLimit \in Nat
    BY <2>3 DEF SymbolLimit, AtLeast
  <2> QED BY <2>2, <2>4 DEF SymbolsTaken, Symbols, AtMost
<1>6. \A k \in 1..(1 + taken) : Candidate(k).path = position + 1 /\ Candidate(k).line = k
  BY DEF Candidate, Current
<1>7. /\ Len(added) = 1 + taken
      /\ \A k \in 1..Len(added) : added[k].path = position + 1 /\ added[k].line = k
  <2> HIDE DEF taken
  <2>1. added \in Seq({Candidate(k) : k \in 1..(1 + taken)}) /\ Len(added) = 1 + taken
    BY <1>5
  <2> QED BY <1>6, <2>1
<1> DEFINE n == Len(candidates)
<1> HIDE DEF added, taken
<1>8. /\ n \in Nat /\ Len(candidates') = n + Len(added) /\ Len(added) \in Nat
      /\ \A i \in 1..n : candidates'[i] = candidates[i]
      /\ \A i \in (n + 1)..Len(candidates') :
            candidates'[i] = added[i - n] /\ i - n \in 1..Len(added)
  <2> DEFINE X == AnyCandidate \cup {Candidate(k) : k \in 1..(1 + taken)}
  <2>1. candidates \in Seq(X) /\ added \in Seq(X)
    BY <1>4, <1>5 DEF added
  <2>2. n \in Nat /\ Len(added) \in Nat
    BY <1>4, <1>5, <1>7
  <2> HIDE DEF X
  <2> QED BY <1>2, <2>1, <2>2, ConcatSeq DEF n
<1>9. ASSUME NEW i \in DOMAIN candidates', NEW j \in DOMAIN candidates', i < j
      PROVE  PlaceBefore(candidates'[i], candidates'[j])
  <2>1. i \in 1..Len(candidates') /\ j \in 1..Len(candidates')
    BY <1>3
  <2>2. CASE j <= n
    <3>1. i \in DOMAIN candidates /\ j \in DOMAIN candidates
      BY <1>4, <1>8, <1>9, <2>1, <2>2
    <3> QED BY <1>4, <1>8, <1>9, <3>1
  <2>3. CASE i <= n /\ j > n
    <3>1. i \in DOMAIN candidates
      BY <1>4, <2>1, <2>3
    <3>2. candidates'[i].path <= position /\ candidates[i] \in AnyCandidate
      BY <1>4, <1>8, <3>1
    <3>3. j \in (n + 1)..Len(candidates')
      BY <1>8, <2>1, <2>3
    <3>4. candidates'[j].path = position + 1
      BY <1>7, <1>8, <3>3
    <3>5. candidates'[i].path \in Nat
      BY <1>8, <3>1, <3>2 DEF AnyCandidate
    <3>6. candidates'[i].path < candidates'[j].path
      BY <1>4, <3>2, <3>4, <3>5
    <3> QED BY <3>6 DEF PlaceBefore
  <2>4. CASE i > n
    <3>1. i \in (n + 1)..Len(candidates') /\ j \in (n + 1)..Len(candidates')
      BY <1>8, <1>9, <2>1, <2>4
    <3>2. /\ candidates'[i].path = position + 1 /\ candidates'[i].line = i - n
          /\ candidates'[j].path = position + 1 /\ candidates'[j].line = j - n
      BY <1>7, <1>8, <3>1
    <3> QED BY <1>8, <1>9, <2>1, <3>2 DEF PlaceBefore
  <2> QED BY <1>8, <2>1, <2>2, <2>3, <2>4
<1>10. ASSUME NEW i \in DOMAIN candidates' PROVE candidates'[i].path <= position'
  <2>1. i \in 1..Len(candidates')
    BY <1>3
  <2>2. CASE i <= n
    <3>1. i \in DOMAIN candidates /\ candidates[i] \in AnyCandidate
      BY <1>4, <2>1, <2>2
    <3>2. candidates'[i] = candidates[i]
      BY <1>8, <2>1, <2>2
    <3>3. candidates[i].path \in Nat /\ candidates[i].path <= position
      BY <1>4, <3>1 DEF AnyCandidate
    <3> QED BY <1>2, <1>4, <3>2, <3>3
  <2>3. CASE i > n
    <3>1. i \in (n + 1)..Len(candidates')
      BY <1>8, <2>1, <2>3
    <3> QED BY <1>2, <1>4, <1>7, <1>8, <3>1
  <2> QED BY <1>8, <2>1, <2>2, <2>3
<1> QED BY <1>3, <1>9, <1>10 DEF PlacesInv

LEMMA EnumerateOrder ==
    ASSUME LocalizationInv, OrderInv, Enumerate
    PROVE  OrderInv'
<1>1. config' = config /\ pc' \in {"enumerate", "rank", "refused"} /\ pc = "enumerate"
  BY DEF Enumerate, EnumerateRefuses, Exclude, Inventory, AddCandidates, SelectCandidates,
         KeepCandidates, inputs, Walking
<1>2. ResultInv'
  BY <1>1 DEF ResultInv, BuiltVerifies
<1>3. CASE EnumerateRefuses \/ KeepCandidates
  <2>1. candidates' = candidates /\ position' = position
    BY <1>3 DEF EnumerateRefuses, KeepCandidates, walk
  <2> QED BY <1>1, <1>2, <2>1 DEF OrderInv, PlacesInv
<1>4. CASE Exclude \/ Inventory
  <2>1. candidates' = candidates /\ position' = position + 1 /\ pc' = "enumerate"
    BY <1>4 DEF Exclude, Inventory, Count, Current, Walking
  <2>2. position \in Nat /\ \A i \in DOMAIN candidates : candidates[i].path \in Nat
    <3>1. position \in Nat /\ candidates \in Seq(AnyCandidate)
      BY DEF OrderInv, PlacesInv, LocalizationInv, WalkType
    <3>2. \A i \in DOMAIN candidates : candidates[i] \in AnyCandidate
      BY <3>1
    <3> QED BY <3>1, <3>2 DEF AnyCandidate
  <2>3. \A i \in DOMAIN candidates : candidates[i].path <= position + 1
    BY <1>1, <2>2 DEF OrderInv, PlacesInv
  <2> QED BY <1>1, <1>2, <2>1, <2>3 DEF OrderInv, PlacesInv
<1>5. CASE AddCandidates
  BY <1>1, <1>2, <1>5, AddCandidatesOrder DEF OrderInv
<1>6. CASE SelectCandidates
  <2>1. PICK fs \in SUBSET OfKind("file"), ss \in SUBSET OfKind("symbol") :
           candidates' = Pick(candidates, fs \cup ss) /\ pc' = "rank"
    BY <1>6 DEF SelectCandidates
  <2> DEFINE S == fs \cup ss
             c == Cardinality(S)
             A == Ascending(S)
  <2>2. S \subseteq DOMAIN candidates
    BY DEF OfKind
  <2>3. /\ candidates \in Seq(AnyCandidate)
        /\ \A i, j \in DOMAIN candidates : i < j => PlaceBefore(candidates[i], candidates[j])
    BY DEF OrderInv, PlacesInv
  <2> HIDE DEF S, c, A
  <2>4. /\ IsFiniteSet(S) /\ S \subseteq Nat /\ c \in Nat
        /\ candidates' \in Seq(AnyCandidate) /\ Len(candidates') = c
        /\ \A n \in 1..c : candidates'[n] = candidates[A[n]]
    BY <2>1, <2>2, <2>3, PickIs DEF S, c, A
  <2>5. /\ A \in [1..c -> S]
        /\ \A m, n \in 1..c : m < n => A[m] < A[n]
    BY <2>4, AscendingIs DEF c, A
  <2>6. \A i, j \in DOMAIN candidates' : i < j => PlaceBefore(candidates'[i], candidates'[j])
    BY <2>2, <2>3, <2>4, <2>5
  <2> QED BY <1>1, <1>2, <2>1, <2>4, <2>6 DEF OrderInv, PlacesInv
<1> QED BY <1>3, <1>4, <1>5, <1>6 DEF Enumerate

LEMMA RankOrder ==
    ASSUME OrderInv, Rank
    PROVE  OrderInv'
<1>1. /\ UNCHANGED <<config, candidates, position, candidate_universe_truncated>>
      /\ pc' = "decide"
      /\ ranked' = IF config.ranker = "structured" THEN Structured(ByScore) ELSE ByScore
  BY DEF Rank, inputs, walk
<1>2. PlacesInv'
  BY <1>1 DEF OrderInv, PlacesInv
<1>3. ASSUME ProductContract' PROVE Ranking(ranked)'
  <2>1. ranked' = ByScore
    BY <1>1, <1>3 DEF ProductContract
  <2>2. Ranking(ByScore)
    BY ByScoreIsRanking DEF OrderInv
  <2> HIDE DEF ByScore
  <2> QED BY <1>1, <2>1, <2>2 DEF Ranking
<1> QED BY <1>1, <1>2, <1>3 DEF OrderInv, ResultInv, BuiltVerifies

LEMMA DecideOrder ==
    ASSUME OrderInv, Decide
    PROVE  OrderInv'
<1> DEFINE reason == IF config.runtime = "step1" THEN Decision(Cut) ELSE HistoricalDecision(Cut)
<1>1. /\ UNCHANGED <<config, candidates, position, candidate_universe_truncated, ranked>>
      /\ pc = "decide" /\ pc' = "verify"
      /\ raw' = [candidates |-> Cut, ranked |-> Len(ranked),
                 truncated |-> candidate_universe_truncated,
                 abstained |-> reason # "none", reason |-> reason]
  BY DEF Decide, inputs, walk, Cut
<1>2. PlacesInv'
  BY <1>1 DEF OrderInv, PlacesInv
<1>3. ProductContract' = ProductContract /\ Ranking(ranked)' = Ranking(ranked)
  BY <1>1, SameResults
<1>4. ASSUME ProductContract PROVE RawIs'
  <2>1. reason = Decision(Cut)
    BY <1>4 DEF ProductContract
  <2>2. Cut' = Cut /\ Decision(Cut)' = Decision(Cut)
    BY <1>1 DEF Cut, Decision
  <2> HIDE DEF reason
  <2> QED BY <1>1, <2>1, <2>2 DEF RawIs
<1> QED BY <1>1, <1>2, <1>3, <1>4 DEF OrderInv, ResultInv, BuiltVerifies

LEMMA LaterOrder ==
    ASSUME OrderInv, VerifyRaw \/ Project \/ ProjectRaises \/ VerifySet
    PROVE  OrderInv'
<1>1. /\ UNCHANGED <<config, candidates, position, candidate_universe_truncated, ranked, raw>>
      /\ pc # "enumerate" /\ pc' # "enumerate"
  BY DEF VerifyRaw, Project, ProjectRaises, VerifySet, inputs, walk
<1>2. PlacesInv' /\ config' \in Configurations
  BY <1>1 DEF OrderInv, PlacesInv
<1>3. /\ ProductContract' = ProductContract /\ Ranking(ranked)' = Ranking(ranked)
      /\ RawIs' = RawIs
      /\ (UNCHANGED candidate_set => SetIs' = SetIs)
  BY <1>1, SameResults
<1>4. ResultInv
  BY DEF OrderInv
<1>5. CASE VerifyRaw
  <2>1. pc = "verify" /\ pc' = IF RawVerifies(raw) THEN "project" ELSE "raised"
    BY <1>5 DEF VerifyRaw
  <2>2. ProductContract => pc' = "project"
    BY <1>4, <2>1, RawResultVerifies DEF ResultInv
  <2>3. pc' \in {"project", "raised"}
    BY <2>1
  <2> QED BY <1>2, <1>3, <1>4, <2>1, <2>2, <2>3 DEF OrderInv, ResultInv, BuiltVerifies
<1>6. CASE Project
  <2>1. /\ pc = "project" /\ ProductContract /\ pc' = "verify_set"
        /\ candidate_set' = [candidates |-> IF raw.abstained THEN <<>> ELSE Projected(raw.candidates),
                             abstained |-> raw.abstained, reason |-> raw.reason]
    BY <1>6 DEF Project
  <2>2. Projected(raw.candidates)' = Projected(raw.candidates)
    BY <1>1 DEF Projected, Prefix
  <2>3. SetIs'
    BY <1>1, <2>1, <2>2 DEF SetIs
  <2> QED BY <1>2, <1>3, <1>4, <2>1, <2>3 DEF OrderInv, ResultInv, BuiltVerifies
<1>7. CASE ProjectRaises
  <2>1. ~ProductContract /\ pc' = "raised"
    BY <1>7 DEF ProjectRaises
  <2> QED BY <1>2, <1>3, <1>4, <2>1 DEF OrderInv, ResultInv, BuiltVerifies
<1>8. CASE VerifySet
  <2>1. /\ pc = "verify_set" /\ candidate_set' = candidate_set
        /\ pc' = IF SetVerifies(candidate_set) THEN "done" ELSE "raised"
    BY <1>8 DEF VerifySet
  <2>2. pc' = "done"
    BY <1>4, <2>1, SetResultVerifies DEF OrderInv, ResultInv
  <2> QED BY <1>2, <1>3, <1>4, <2>1, <2>2 DEF OrderInv, ResultInv, BuiltVerifies
<1> QED BY <1>5, <1>6, <1>7, <1>8

LEMMA NextOrder == LocalizationInv /\ OrderInv /\ [Next]_vars => OrderInv'
<1> SUFFICES ASSUME LocalizationInv, OrderInv, [Next]_vars PROVE OrderInv'
  OBVIOUS
<1>1. CASE UNCHANGED vars
  <2>1. /\ UNCHANGED <<config, candidates, position, candidate_universe_truncated, ranked, raw>>
        /\ UNCHANGED <<pc, candidate_set>>
    BY <1>1 DEF vars, inputs, walk
  <2>2. PlacesInv' /\ config' \in Configurations
    BY <2>1 DEF OrderInv, PlacesInv
  <2>3. /\ ProductContract' = ProductContract /\ Ranking(ranked)' = Ranking(ranked)
        /\ RawIs' = RawIs /\ SetIs' = SetIs
    BY <2>1, SameResults
  <2> QED BY <2>1, <2>2, <2>3 DEF OrderInv, ResultInv, BuiltVerifies
<1>2. CASE Enumerate
  BY <1>2, EnumerateOrder
<1>3. CASE Rank \/ Decide
  BY <1>3, RankOrder, DecideOrder
<1>4. CASE VerifyRaw \/ Project \/ ProjectRaises \/ VerifySet
  BY <1>4, LaterOrder
<1> QED BY <1>1, <1>2, <1>3, <1>4 DEF Next

\* The candidates keep the order of the walk, the ranking is all of them by score, and every
\* result of the product is made from that.
THEOREM LocalizationOrder == Spec => []OrderInv
<1>1. Init => OrderInv
  BY InitOrder
<1>2. LocalizationInv /\ OrderInv /\ [Next]_vars => OrderInv'
  BY NextOrder
<1> QED BY <1>1, <1>2, LocalizationInvariant, PTL DEF Spec

\* For repositories and bounds of every size, the verifiers of the raw result and of the
\* candidate set accept whatever the product's own steps build.
THEOREM LocalizationVerifies == Spec => []BuiltVerifies
<1>1. OrderInv => BuiltVerifies
  BY DEF OrderInv, ResultInv
<1> QED BY <1>1, LocalizationOrder, PTL

\* The shortlist of the product ranker is the order of the paths by their best candidates,
\* and leaves a path out only for the length asked for or for the cut of the raw ranking.
THEOREM LocalizationExact == Spec => []ShortlistExact
<1>1. OrderInv => ShortlistExact
  <2> SUFFICES ASSUME OrderInv, pc = "done", ~candidate_set.abstained, config.ranker = "v0.6"
               PROVE  ShortlistExact
    BY DEF ShortlistExact
  <2>1. config \in Configurations /\ Ranking(ranked) /\ RawIs /\ SetIs
    BY DEF OrderInv, ResultInv
  <2> QED BY <2>1, ShortlistIsExact DEF ShortlistExact
<1> QED BY <1>1, LocalizationOrder, PTL
=============================================================================
