--------------------------- MODULE MCLocalization ---------------------------
(* The instance TLC checks: three scores, of which one is all prior and one *)
(* has its signal outweighed by a negative prior.                           *)
EXTENDS Localization

MCScores ==
    {[guided |-> 0, prior |-> 2], [guided |-> 1, prior |-> 0], [guided |-> 2, prior |-> -3]}
=============================================================================
