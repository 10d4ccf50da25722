------------------------------ MODULE MCCorpus ------------------------------
(* Two organizations, one of them with two repositories; two candidates for one fix, the  *)
(* first of them rejected before, and one over the limit of its repository.               *)
EXTENDS Corpus

CONSTANTS r1, r2, r3, c1, c2, c3, c4, c5

LineageVal == r1 :> "alpha" @@ r2 :> "alpha" @@ r3 :> "beta"

RegisterVal ==
    c1 :> [repository |-> r1, fix |-> "f1"] @@ c2 :> [repository |-> r1, fix |-> "f1"]
    @@ c3 :> [repository |-> r2, fix |-> "f3"] @@ c4 :> [repository |-> r3, fix |-> "f4"]
    @@ c5 :> [repository |-> r1, fix |-> "f5"]

FingerprintsVal == c1 :> {"a", "f1"} @@ c2 :> {"b", "f1"} @@ c3 :> {"c"} @@ c4 :> {"d"} @@ c5 :> {"e"}

CaseOrderVal ==
    << <<c1, "original">>, <<c2, "original">>, <<c1, "reconsidered">>, <<c3, "original">>,
       <<c4, "original">>, <<c2, "reconsidered">>, <<c3, "reconsidered">>,
       <<c4, "reconsidered">>, <<c5, "original">>, <<c5, "reconsidered">> >>

RejectedBeforeVal == {c1}
=============================================================================
