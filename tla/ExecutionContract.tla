-------------------------- MODULE ExecutionContract --------------------------
(***************************************************************************)
(* What DockerSandbox._execute_container promises DockerSandbox.run: the   *)
(* call returns, once, and what it returns is one of Results.              *)
(* ContainerExecution implements this; Reproduction relies on it.          *)
(***************************************************************************)
EXTENDS ExecutionResult

VARIABLE returned   \* NoExecution, or what the call returned

Init == returned = NoExecution

Return ==
    /\ returned = NoExecution
    /\ returned' \in Results

Safety == Init /\ [][Return]_returned

Spec == Safety /\ WF_returned(Return)
=============================================================================
