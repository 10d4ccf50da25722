------------------------------ MODULE Ordering ------------------------------
(***************************************************************************)
(* Sorting and filtering, by the place of each element rather than by a    *)
(* loop.  SortSeq and SelectSeq, which say the same of a sequence, are     *)
(* evaluated by TLC but hidden from the provers.                           *)
(***************************************************************************)
EXTENDS Naturals, FiniteSets, Sequences

\* The members of S, strictly ordered by Before: the n-th has n - 1 of them before it.
InOrder(S, Before(_, _)) ==
    [n \in 1..Cardinality(S) |->
        CHOOSE x \in S : Cardinality({y \in S : Before(y, x)}) = n - 1]

\* A set of numbers in ascending order.
Ascending(S) == InOrder(S, <)

\* The elements of s at the positions in S, in the order of s.
Pick(s, S) ==
    LET order == Ascending(S) IN [n \in 1..Cardinality(S) |-> s[order[n]]]

\* sorted(): stable, by a strict order on the keys.
StableSort(s, Before(_, _)) ==
    LET order == InOrder(DOMAIN s, LAMBDA i, j : \/ Before(s[i], s[j])
                                                 \/ ~Before(s[j], s[i]) /\ i < j)
    IN [k \in DOMAIN s |-> s[order[k]]]
=============================================================================
