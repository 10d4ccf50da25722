------------------------- MODULE ContainerExecution -------------------------
(***************************************************************************)
(* One call of DockerSandbox._execute_container (sandbox.py): the thread   *)
(* that creates, attests, starts, watches, kills, inspects and removes one *)
(* container through the docker client, the `docker start --attach`        *)
(* process it watches, the two threads that drain that process (module     *)
(* OutputBudget), the container, and the daemon.                           *)
(*                                                                         *)
(* Every docker command runs under a timeout.  When it expires the client  *)
(* is killed, but the daemon may have carried the request out already, or  *)
(* may do so at any later time: such a request stays in `pending`.         *)
(***************************************************************************)
EXTENDS OutputBudget, ExecutionResult

VARIABLES
    cpc,            \* where _execute_container is
    container,      \* the container, as the daemon knows it
    policyHeld,     \* it was created with the requested policy
    ending,         \* its exit status and OOM flag once it has exited
    pending,        \* timed-out requests the daemon may still carry out
    attach,         \* the `docker start --attach` process
    deadlinePassed, \* time.monotonic() >= deadline
    container_id,   \* container_id is not None
    timed_out,
    kill_attempted,
    execution       \* the local `execution`; the caller sees it at "returned"

clientVars == <<container_id, timed_out, kill_attempted, execution>>
daemonVars == <<container, policyHeld, ending, pending>>
watchVars == <<attach, deadlinePassed>>
executionVars == <<cpc, clientVars, daemonVars, watchVars, budgetVars>>

NoEnding == [exit |-> 0, oom |-> FALSE]
Endings == [exit : {0, 1}, oom : BOOLEAN]
Killed == [exit |-> 1, oom |-> FALSE]

ExecutionInit ==
    /\ BudgetInit
    /\ cpc = "create"
    /\ container = "none"
    /\ policyHeld = FALSE
    /\ ending = NoEnding
    /\ pending = {}
    /\ attach = "none"
    /\ deadlinePassed = FALSE
    /\ container_id = FALSE
    /\ timed_out = FALSE
    /\ kill_attempted = FALSE
    /\ execution = NoExecution

Goto(from, to) == cpc = from /\ cpc' = to

\* The calling thread goes on and changes nothing else.
Step(from, to) ==
    Goto(from, to) /\ UNCHANGED <<clientVars, daemonVars, watchVars, budgetVars>>

-----------------------------------------------------------------------------
(* The daemon, the container, the attach process and the clock.            *)

\* A create that succeeds yields a container with or without the policy.
Created == container' = "created" /\ policyHeld' \in BOOLEAN

LateCreate ==
    /\ "create" \in pending
    /\ Created
    /\ pending' = pending \ {"create"}
    /\ UNCHANGED <<cpc, clientVars, ending, watchVars, budgetVars>>

ContainerStarts ==
    /\ attach = "starting"
    /\ container = "created"
    /\ container' = "running"
    /\ attach' = "attached"
    /\ UNCHANGED <<cpc, clientVars, policyHeld, ending, pending, deadlinePassed, budgetVars>>

LateStart ==
    /\ "start" \in pending
    /\ container = "created"
    /\ container' = "running"
    /\ pending' = pending \ {"start"}
    /\ UNCHANGED <<cpc, clientVars, policyHeld, ending, watchVars, budgetVars>>

ContainerExits ==
    /\ container = "running"
    /\ container' = "exited"
    /\ ending' \in Endings
    /\ UNCHANGED <<cpc, clientVars, policyHeld, pending, watchVars, budgetVars>>

LateKill ==
    /\ "kill" \in pending
    /\ container = "running"
    /\ container' = "exited"
    /\ ending' = Killed
    /\ pending' = pending \ {"kill"}
    /\ UNCHANGED <<cpc, clientVars, policyHeld, watchVars, budgetVars>>

LateRemove ==
    /\ "remove" \in pending
    /\ container \in {"created", "running", "exited"}
    /\ container' = "removed"
    /\ pending' = pending \ {"remove"}
    /\ UNCHANGED <<cpc, clientVars, policyHeld, ending, watchVars, budgetVars>>

\* The attach process passes output on, its own error text included.
AttachDelivers ==
    /\ attach \in {"starting", "attached"}
    /\ \E s \in Streams, n \in 1..MaxBytes : Deliver(s, n)
    /\ UNCHANGED <<cpc, clientVars, daemonVars, watchVars>>

\* It ends: after the container, because the start failed, because it lost the
\* daemon, or killed; the daemon may still start the container.
AttachEnds ==
    /\ attach \in {"starting", "attached"}
    /\ attach' = "ended"
    /\ ClosePipes
    /\ \/ UNCHANGED pending
       \/ attach = "starting" /\ pending' = pending \cup {"start"}
    /\ UNCHANGED <<cpc, clientVars, container, policyHeld, ending, deadlinePassed>>

DeadlinePasses ==
    /\ attach # "none"
    /\ ~deadlinePassed
    /\ deadlinePassed' = TRUE
    /\ UNCHANGED <<cpc, clientVars, daemonVars, attach, budgetVars>>

DrainThread(s) ==
    /\ attach # "none"
    /\ Drain(s)
    /\ UNCHANGED <<cpc, clientVars, daemonVars, watchVars>>

Environment ==
    \/ LateCreate \/ LateStart \/ LateKill \/ LateRemove
    \/ ContainerStarts \/ ContainerExits
    \/ AttachDelivers \/ AttachEnds
    \/ DeadlinePasses

-----------------------------------------------------------------------------
(* Leaving the try block: the execution is built and finally runs.         *)

Finish(from, result) ==
    /\ Goto(from, IF container_id THEN "remove" ELSE "find")
    /\ execution' = result
    /\ UNCHANGED <<container_id, timed_out, kill_attempted, watchVars, budgetVars>>

\* A docker command timed out or could not be run: FileNotFoundError,
\* SubprocessError or OSError.
Raise(from) ==
    Finish(from, SetupFailure("CONTAINER_RUNTIME_FAILURE", FALSE, FALSE, FALSE,
                              kill_attempted, FALSE))

Early(from, code) == Finish(from, SetupFailure(code, FALSE, FALSE, FALSE, FALSE, FALSE))

\* The request was carried out before its client gave up, or may be later.
LeftPending(request) == pending' = pending \cup {request}

-----------------------------------------------------------------------------
(* docker create, docker inspect and the policy attestation.               *)

CreateSucceeds ==
    /\ Goto("create", "inspect")
    /\ Created
    /\ container_id' = TRUE
    /\ UNCHANGED <<timed_out, kill_attempted, execution, ending, pending,
                   watchVars, budgetVars>>

CreateFails ==
    /\ Early("create", "CONTAINER_CREATE_FAILED")
    /\ Created \/ UNCHANGED <<container, policyHeld>>
    /\ UNCHANGED <<ending, pending>>

CreateRaises ==
    /\ Raise("create")
    /\ \/ Created /\ UNCHANGED pending
       \/ LeftPending("create") /\ UNCHANGED <<container, policyHeld>>
    /\ UNCHANGED ending

\* Mutation: what inspect reports is not compared with the policy.
PolicyUnchecked == TRUE

PolicyAttested == policyHeld

InspectAttests == PolicyAttested /\ Step("inspect", "start")

InspectRejects ==
    /\ \/ ~PolicyAttested /\ Early("inspect", "CONTAINER_POLICY_MISMATCH")
       \/ Early("inspect", "CONTAINER_INSPECT_FAILED")
       \/ Early("inspect", "CONTAINER_INSPECT_INVALID")
       \/ Raise("inspect")
    /\ UNCHANGED daemonVars

-----------------------------------------------------------------------------
(* docker start --attach, watched by the polling loop.                     *)

Start ==
    /\ Goto("start", "poll")
    /\ attach' = "starting"
    /\ UNCHANGED <<clientVars, daemonVars, deadlinePassed, budgetVars>>

StartRaises == Raise("start") /\ UNCHANGED daemonVars

\* One turn of the loop reads three things, one after the other.
Poll == Step("poll", IF attach = "ended" THEN "stop" ELSE "poll_budget")

PollBudget == Step("poll_budget", IF exceeded THEN "stop" ELSE "poll_deadline")

\* Mutation: the loop has no deadline.
PollForever == Step("poll_deadline", "poll")

PollDeadline ==
    /\ Goto("poll_deadline", IF deadlinePassed THEN "stop" ELSE "poll")
    /\ timed_out' = deadlinePassed
    /\ UNCHANGED <<container_id, kill_attempted, execution, daemonVars, watchVars, budgetVars>>

-----------------------------------------------------------------------------
(* Stopping: docker kill, the waits, the joins.                            *)

Stop ==
    /\ Goto("stop", IF attach = "ended" THEN "wait" ELSE "kill")
    /\ kill_attempted' = (attach # "ended")
    /\ UNCHANGED <<container_id, timed_out, execution, daemonVars, watchVars, budgetVars>>

\* The exit status of docker kill is not looked at.
Kill ==
    /\ Goto("kill", "wait")
    /\ \/ container = "running" /\ container' = "exited" /\ ending' = Killed
       \/ UNCHANGED <<container, ending>>
    /\ UNCHANGED <<clientVars, policyHeld, pending, watchVars, budgetVars>>

KillRaises ==
    /\ Raise("kill")
    /\ LeftPending("kill")
    /\ UNCHANGED <<container, policyHeld, ending>>

\* process.wait(timeout=10), then process.kill() and process.wait(timeout=5).
Wait ==
    \/ attach = "ended" /\ (Step("wait", "join") \/ Step("reap", "join"))
    \/ attach # "ended" /\ Step("wait", "reap")

ReapRaises ==
    /\ attach # "ended"
    /\ Raise("reap")
    /\ UNCHANGED daemonVars

\* Mutation: the threads are not asked whether they are alive.
JoinUnchecked == Step("join", "final")

Join == Drained /\ Step("join", "final")

JoinTimesOut ==
    /\ ~Drained
    /\ Finish("join", SetupFailure("OUTPUT_CAPTURE_INCOMPLETE", timed_out, exceeded,
                                   TRUE, kill_attempted, FALSE))
    /\ UNCHANGED daemonVars

-----------------------------------------------------------------------------
(* The final state and what it is judged to be.                            *)

Termination ==
    IF timed_out THEN "timeout" ELSE IF exceeded THEN "output_limit" ELSE "completed"

FinalStateAttested ==
    /\ container = "exited"
    /\ Finish("final", Judged(Termination, ending.exit, timed_out, exceeded, ending.oom,
                              kill_attempted, FALSE))
    /\ UNCHANGED daemonVars

FinalStateUnattested ==
    /\ \/ Finish("final", SetupFailure("CONTAINER_FINAL_STATE_UNATTESTED", FALSE, FALSE,
                                       TRUE, kill_attempted, FALSE))
       \/ Raise("final")
    /\ UNCHANGED daemonVars

-----------------------------------------------------------------------------
(* The finally block.                                                      *)

Exists == container \in {"created", "running", "exited"}

Returning(from, removed) ==
    /\ Goto(from, "returned")
    /\ execution' = [execution EXCEPT !.remove_succeeded = removed]
    /\ UNCHANGED <<container_id, timed_out, kill_attempted, watchVars, budgetVars>>

\* docker inspect by name, when create did not tell the identity.
FindTarget == Exists /\ Step("find", "remove")

FindNothing == Returning("find", FALSE) /\ UNCHANGED daemonVars

RemoveSucceeds ==
    /\ Returning("remove", TRUE)
    /\ container' = "removed"
    /\ UNCHANGED <<policyHeld, ending, pending>>

RemoveFails == Returning("remove", FALSE) /\ UNCHANGED daemonVars

\* Mutation: a removal that timed out is taken to have happened.
RemoveRaisesAssumed ==
    /\ Returning("remove", TRUE)
    /\ LeftPending("remove")
    /\ UNCHANGED <<container, policyHeld, ending>>

RemoveRaises ==
    /\ Returning("remove", FALSE)
    /\ LeftPending("remove")
    /\ UNCHANGED <<container, policyHeld, ending>>

-----------------------------------------------------------------------------
ExecuteContainer ==
    \/ CreateSucceeds \/ CreateFails \/ CreateRaises
    \/ InspectAttests \/ InspectRejects
    \/ Start \/ StartRaises
    \/ Poll \/ PollBudget \/ PollDeadline
    \/ Stop \/ Kill \/ KillRaises
    \/ Wait \/ ReapRaises
    \/ Join \/ JoinTimesOut
    \/ FinalStateAttested \/ FinalStateUnattested
    \/ FindTarget \/ FindNothing
    \/ RemoveSucceeds \/ RemoveFails \/ RemoveRaises

ExecutionNext ==
    \/ ExecuteContainer
    \/ Environment
    \/ \E s \in Streams : DrainThread(s)

Safety == ExecutionInit /\ [][ExecutionNext]_executionVars

\* The calling thread runs (each of its docker commands has a timeout) and the
\* monotonic clock reaches the deadline.  Nothing is assumed of the daemon, the
\* container, the attach process or the drain threads.
ExecutionSpec ==
    /\ Safety
    /\ WF_executionVars(ExecuteContainer)
    /\ WF_executionVars(DeadlinePasses)

-----------------------------------------------------------------------------
TypeOK ==
    /\ BudgetTypeOK
    /\ cpc \in {"create", "inspect", "start", "poll", "poll_budget", "poll_deadline", "stop",
              "kill", "wait", "reap", "join", "final", "find", "remove", "returned"}
    /\ container \in {"none", "created", "running", "exited", "removed"}
    /\ policyHeld \in BOOLEAN
    /\ ending \in Endings
    /\ pending \subseteq {"create", "start", "kill", "remove"}
    /\ attach \in {"none", "starting", "attached", "ended"}
    /\ deadlinePassed \in BOOLEAN
    /\ container_id \in BOOLEAN
    /\ timed_out \in BOOLEAN
    /\ kill_attempted \in BOOLEAN
    /\ execution \in Results \cup {NoExecution}

\* A removal that is reported is a fact, then and ever after, whichever requests
\* the daemon still carries out late: run qualifies a sandbox, and classify
\* confirms a finding, on the word of remove_succeeded.
RemovalTruthful ==
    cpc = "returned" /\ execution.remove_succeeded => container = "removed"

\* Nothing of the plan runs in a container whose inspected configuration was not
\* the policy asked for, on no path and by no late request.
OnlyAttestedRuns == container = "running" => policyHeld

JudgedNow == cpc = "returned" /\ execution.termination_reason # "setup_failure"

\* An execution that is judged tells what happened: the container has ended as
\* recorded, its attach process is gone and all it wrote was hashed and counted;
\* the over-limit flag is right; and one that "completed" was neither killed nor
\* cut short, so its witnesses were searched in everything that arrived.
JudgedTruthfully ==
    JudgedNow =>
        /\ container \in {"exited", "removed"}
        /\ policyHeld
        /\ attach = "ended"
        /\ Drained
        /\ \A s \in Streams : digested[s] = count[s] /\ pipe[s] = 0
        /\ execution.exit_code = ending.exit
        /\ execution.oom_killed = ending.oom
        /\ execution.output_limit_exceeded <=> count["stdout"] + count["stderr"] > Limit
        /\ execution.termination_reason = "completed" =>
              ~execution.kill_attempted /\ \A s \in Streams : retained[s] = count[s]

\* The call returns, once, with one of the results its caller is written for.
Contract == INSTANCE ExecutionContract
                WITH returned <- IF cpc = "returned" THEN execution ELSE NoExecution

ReturnsAResult == Contract!Spec

\* The joins are not in vain: if the system runs the two drain threads, a pipe that
\* is closed ends its thread, whatever the calling thread does meanwhile.
ThreadsRun == \A s \in Streams : WF_executionVars(DrainThread(s))
JoinsCanReturn == ThreadsRun => ClosedPipesDrain
=============================================================================
