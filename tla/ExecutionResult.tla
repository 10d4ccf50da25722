--------------------------- MODULE ExecutionResult ---------------------------
(***************************************************************************)
(* The values DockerSandbox._execute_container can return: the _Execution  *)
(* records of sandbox.py, their two streams left out.                      *)
(***************************************************************************)
EXTENDS Integers

None == "None"
NoExit == -1    \* exit_code None

\* Exit status 1 stands for every status but 0.
Execution(termination, exit, timedOut, overLimit, oom, policy, killed, removed, code) ==
    [termination_reason |-> termination, exit_code |-> exit, timed_out |-> timedOut,
     output_limit_exceeded |-> overLimit, oom_killed |-> oom, policy_verified |-> policy,
     kill_attempted |-> killed, remove_succeeded |-> removed, setup_reason_code |-> code]

\* Before any is built.
NoExecution == Execution(None, NoExit, FALSE, FALSE, FALSE, FALSE, FALSE, FALSE, None)

\* The end of the container was inspected.
Judged(termination, exit, timedOut, overLimit, oom, killed, removed) ==
    Execution(termination, exit, timedOut, overLimit, oom, TRUE, killed, removed, None)

\* Something around the container failed.
SetupFailure(code, timedOut, overLimit, policy, killed, removed) ==
    Execution("setup_failure", NoExit, timedOut, overLimit, FALSE, policy, killed, removed, code)

\* Failures before the container is started.
EarlyCodes == {"CONTAINER_CREATE_FAILED", "CONTAINER_INSPECT_FAILED",
               "CONTAINER_INSPECT_INVALID", "CONTAINER_POLICY_MISMATCH"}

JudgedAs(termination, timedOut, overLimit, killed) ==
    [termination_reason : {termination}, exit_code : {0, 1}, timed_out : timedOut,
     output_limit_exceeded : overLimit, oom_killed : BOOLEAN, policy_verified : {TRUE},
     kill_attempted : killed, remove_succeeded : BOOLEAN, setup_reason_code : {None}]

FailedWith(codes, timedOut, overLimit, policy, killed) ==
    [termination_reason : {"setup_failure"}, exit_code : {NoExit}, timed_out : timedOut,
     output_limit_exceeded : overLimit, oom_killed : {FALSE}, policy_verified : policy,
     kill_attempted : killed, remove_succeeded : BOOLEAN, setup_reason_code : codes]

\* A limit that is hit may leave a container that ends before it is killed, and
\* output that only turns out to be over the limit once the pipes are closed: a
\* timeout may carry both flags, and so may a capture that is incomplete.
Results ==
    LET no == {FALSE}
        yes == {TRUE}
    IN       JudgedAs("completed", no, no, no)
        \cup JudgedAs("timeout", yes, BOOLEAN, BOOLEAN)
        \cup JudgedAs("output_limit", no, yes, BOOLEAN)
        \cup FailedWith(EarlyCodes, no, no, no, no)
        \cup FailedWith({"CONTAINER_RUNTIME_FAILURE"}, no, no, no, BOOLEAN)
        \cup FailedWith({"CONTAINER_FINAL_STATE_UNATTESTED"}, no, no, yes, BOOLEAN)
        \cup FailedWith({"OUTPUT_CAPTURE_INCOMPLETE"}, BOOLEAN, BOOLEAN, yes, BOOLEAN)

\* verify_reproduction_receipt: a step's two limit flags repeat its termination.
FlagsMatchTermination(e) ==
    /\ e.timed_out <=> e.termination_reason = "timeout"
    /\ e.output_limit_exceeded <=> e.termination_reason = "output_limit"
=============================================================================
