----------------------------- MODULE MCRecovery -----------------------------
(* Recovery for TLC. *)
EXTENDS Recovery
CONSTANTS t1, d1

\* A supply that is ready stops the sealing for good: it is explored before the rankings
\* and the validations, and then again once the evidence says it was insufficient.
SupplyFirstOrLast ==
    sources > 0 =>
        \/ rankings = {} /\ watching = Idle /\ validations = {}
        \/ Exists("data_readiness")

\* Validating and packaging touch nothing that preparing, training and screening touch: the
\* orders of their steps are equal.  They are explored when there is something to seal.
WatchingAlone == watching # Idle => preparing = Idle /\ Exists("learned_summary")
=============================================================================
