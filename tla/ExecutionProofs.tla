--------------------------- MODULE ExecutionProofs ---------------------------
(***************************************************************************)
(* Proofs about the execution of a plan in containers.  OutputBudget and   *)
(* ContainerExecution: for every limit, read size and output, and every    *)
(* behaviour of the daemon.  Reproduction: for plans of any length, any    *)
(* snapshot that changes at any time and any result a container can        *)
(* return, a package is CONFIRMED only on what was really executed.        *)
(***************************************************************************)
EXTENDS ContainerExecution, Reproduction, InductionLemmas

-----------------------------------------------------------------------------
(* The drain threads by themselves (OutputBudget).                         *)

\* The bytes of s that reserve has charged to the budget.
Charged(s) == count[s] - (IF tpc[s] = "reserve" THEN chunk[s] ELSE 0)

\* Between its steps a thread counts what it hashed, and extends with a prefix.
ThreadInv(s) ==
    /\ digested[s] = count[s] + (IF tpc[s] = "count" THEN chunk[s] ELSE 0)
    /\ tpc[s] \in {"reserve", "extend"} => chunk[s] <= count[s]
    /\ tpc[s] = "extend" => retained[s] = count[s] - chunk[s]
    /\ tpc[s] = "extend" => keep[s] > 0
    /\ tpc[s] = "done" => eof /\ pipe[s] = 0
    /\ Held(s) <= Charged(s)

\* The budget's total is what both threads charged, and they hold all of it up
\* to the limit.
SharedInv ==
    /\ total = Charged("stdout") + Charged("stderr")
    /\ exceeded <=> total > Limit
    /\ total <= Limit => Held("stdout") + Held("stderr") = total
    /\ total > Limit => Held("stdout") + Held("stderr") = Limit

BudgetInv == BudgetTypeOK /\ SharedInv /\ \A s \in Streams : ThreadInv(s)

LEMMA BudgetInitInv == BudgetInit => BudgetInv
<1> SUFFICES ASSUME BudgetInit PROVE BudgetInv
  OBVIOUS
<1>1. BudgetTypeOK
  BY DEF BudgetInit, BudgetTypeOK
<1>2. SharedInv
  BY BudgetAssumption DEF BudgetInit, SharedInv, Charged, Held, Streams
<1>3. \A s \in Streams : ThreadInv(s)
  BY DEF BudgetInit, ThreadInv, Charged, Held
<1> QED BY <1>1, <1>2, <1>3 DEF BudgetInv

LEMMA EnvironmentStepInv ==
    ASSUME BudgetInv, (\E s \in Streams, n \in 1..MaxBytes : Deliver(s, n)) \/ ClosePipes
    PROVE  BudgetInv'
<1>1. ASSUME NEW s \in Streams, NEW n \in 1..MaxBytes, Deliver(s, n) PROVE BudgetInv'
  BY <1>1, BudgetAssumption DEF Deliver, BudgetInv, BudgetTypeOK, SharedInv, ThreadInv,
     Charged, Held, Streams
<1>2. CASE ClosePipes
  BY <1>2 DEF ClosePipes, BudgetInv, BudgetTypeOK, SharedInv, ThreadInv,
     Charged, Held, Streams
<1> QED BY <1>1, <1>2

LEMMA DrainStepInv ==
    ASSUME BudgetInv, NEW s \in Streams, Drain(s)
    PROVE  BudgetInv'
<1> USE BudgetAssumption DEF BudgetInv, BudgetTypeOK, SharedInv, ThreadInv,
        Charged, Held, Streams
<1>1. CASE ReadAndDigest(s)  BY <1>1 DEF ReadAndDigest, Readable
<1>2. CASE ReadEnd(s)  BY <1>2 DEF ReadEnd
<1>3. CASE Count(s)  BY <1>3 DEF Count
<1>4. CASE Reserve(s)
  <2>1. /\ Granted(s) \in Nat
        /\ Granted(s) <= chunk[s]
        /\ total + chunk[s] <= Limit => Granted(s) = chunk[s]
        /\ total <= Limit /\ total + chunk[s] > Limit => Granted(s) = Limit - total
        /\ total > Limit => Granted(s) = 0
    BY DEF Granted, Available
  <2>2. exceeded' \in BOOLEAN /\ (exceeded' <=> total' > Limit)
    <3>1. exceeded' = (exceeded \/ total + chunk[s] > Limit) /\ total' = total + chunk[s]
      BY <1>4 DEF Reserve
    <3>2. exceeded => total + chunk[s] > Limit
      OBVIOUS
    <3> QED BY <3>1, <3>2
  <2>3. BudgetTypeOK'
    BY <1>4, <2>1, <2>2 DEF Reserve
  <2>4. SharedInv'
    <3>1. total' = Charged("stdout")' + Charged("stderr")'
      BY <1>4, <2>1 DEF Reserve
    <3>2. total' <= Limit => Held("stdout")' + Held("stderr")' = total'
      BY <1>4, <2>1 DEF Reserve
    <3>3. total' > Limit => Held("stdout")' + Held("stderr")' = Limit
      BY <1>4, <2>1 DEF Reserve
    <3> HIDE DEF Charged, Held
    <3> QED BY <2>2, <3>1, <3>2, <3>3, Zenon
  <2>5. \A r \in Streams : ThreadInv(r)'
    BY <1>4, <2>1 DEF Reserve
  <2> QED BY <2>3, <2>4, <2>5
<1>5. CASE Extend(s)  BY <1>5 DEF Extend
<1> QED BY <1>1, <1>2, <1>3, <1>4, <1>5 DEF Drain

LEMMA BudgetStutterInv == BudgetInv /\ UNCHANGED budgetVars => BudgetInv'
BY DEF budgetVars, BudgetInv, BudgetTypeOK, SharedInv, ThreadInv, Charged, Held

LEMMA BudgetNextInv == BudgetInv /\ [BudgetNext]_budgetVars => BudgetInv'
BY EnvironmentStepInv, DrainStepInv, BudgetStutterInv DEF BudgetNext

\* The strengthened invariant: types, per-thread facts and the shared total.
THEOREM BudgetInvariant == BudgetSafety => []BudgetInv
BY BudgetInitInv, BudgetNextInv, PTL DEF BudgetSafety

\* Every variable keeps its type.
THEOREM BudgetTypeCorrect == BudgetSafety => []BudgetTypeOK
BY BudgetInvariant, PTL DEF BudgetInv

\* The two threads never retain more than the limit between them.
THEOREM BudgetRespected == BudgetSafety => []RetainedWithinLimit
<1>1. BudgetInv => RetainedWithinLimit
  BY BudgetAssumption DEF BudgetInv, BudgetTypeOK, SharedInv, RetainedWithinLimit,
     Charged, Held, Streams
<1> QED BY <1>1, BudgetInvariant, PTL

\* Once both threads are done, the verdict and the retained bytes are exact.
THEOREM BudgetVerdictExact == BudgetSafety => []VerdictExact
<1>1. BudgetInv => VerdictExact
  BY BudgetAssumption DEF BudgetInv, BudgetTypeOK, SharedInv, ThreadInv, VerdictExact,
     Drained, Charged, Held, Streams
<1> QED BY <1>1, BudgetInvariant, PTL

\* A stream's retained bytes are a prefix of it.
THEOREM BudgetExtendsPrefix == BudgetSafety => ExtendsPrefix
<1> DEFINE Prefix == \A s \in Streams :
                        retained'[s] # retained[s] => retained[s] = count[s] - chunk[s]
<1>1. BudgetInv /\ [BudgetNext]_budgetVars => [Prefix]_budgetVars
  <2> SUFFICES ASSUME BudgetInv, BudgetNext PROVE Prefix
    BY DEF budgetVars
  <2>1. ASSUME NEW s \in Streams, Extend(s) PROVE Prefix
    BY <2>1 DEF Extend, BudgetInv, BudgetTypeOK, ThreadInv
  <2>2. CASE UNCHANGED retained
    BY <2>2
  <2> QED
    BY <2>1, <2>2 DEF BudgetNext, Deliver, ClosePipes, Drain, ReadAndDigest, ReadEnd,
       Count, Reserve
<1> QED BY <1>1, BudgetInvariant, PTL DEF BudgetSafety, ExtendsPrefix

-----------------------------------------------------------------------------
(* The drain threads and their pipes are those of OutputBudget.            *)

LEMMA StepsDrain == [ExecutionNext]_executionVars => [BudgetNext]_budgetVars
<1> SUFFICES ASSUME [ExecutionNext]_executionVars PROVE BudgetNext \/ UNCHANGED budgetVars
  OBVIOUS
<1>1. CASE UNCHANGED executionVars
  BY <1>1 DEF executionVars
<1>2. CASE ExecuteContainer
  <2>1. ASSUME NEW from, NEW result, Finish(from, result) PROVE UNCHANGED budgetVars
    BY <2>1 DEF Finish
  <2>2. ASSUME NEW from, NEW to, Step(from, to) PROVE UNCHANGED budgetVars
    BY <2>2 DEF Step
  <2>3. ASSUME NEW from, NEW removed, Returning(from, removed) PROVE UNCHANGED budgetVars
    BY <2>3 DEF Returning
  <2> QED
    BY <1>2, <2>1, <2>2, <2>3 DEF ExecuteContainer, Early, Raise, CreateSucceeds,
       CreateFails, CreateRaises, InspectAttests, InspectRejects, Start, StartRaises, Poll,
       PollBudget, PollDeadline, Stop, Kill, KillRaises, Wait, ReapRaises, Join,
       JoinTimesOut, FinalStateAttested, FinalStateUnattested, FindTarget, FindNothing,
       RemoveSucceeds, RemoveFails, RemoveRaises
<1>3. CASE Environment
  BY <1>3 DEF Environment, LateCreate, LateStart, LateKill, LateRemove, ContainerStarts,
     ContainerExits, AttachDelivers, AttachEnds, DeadlinePasses, BudgetNext
<1>4. CASE \E s \in Streams : DrainThread(s)
  BY <1>4 DEF DrainThread, BudgetNext
<1> QED BY <1>1, <1>2, <1>3, <1>4 DEF ExecutionNext

\* The drains of a container execution are an OutputBudget, and everything proved
\* of that module holds of them.
THEOREM DrainsImplementBudget == Safety => BudgetSafety
BY StepsDrain, PTL DEF Safety, ExecutionInit, BudgetSafety

LEMMA DrainInvariant == Safety => []BudgetInv
BY DrainsImplementBudget, BudgetInvariant, PTL

-----------------------------------------------------------------------------
(* The inductive invariant.                                                *)

ExecTypeOK ==
    /\ cpc \in {"create", "inspect", "start", "poll", "poll_budget", "poll_deadline", "stop",
              "kill", "wait", "reap", "join", "final", "find", "remove", "returned"}
    /\ container \in {"none", "created", "running", "exited", "removed"}
    /\ policyHeld \in BOOLEAN
    /\ ending \in Endings
    /\ pending \subseteq {"create", "start", "kill", "remove"}
    /\ attach \in {"none", "starting", "attached", "ended"}
    /\ deadlinePassed \in BOOLEAN
    /\ container_id \in BOOLEAN
    /\ timed_out \in BOOLEAN
    /\ kill_attempted \in BOOLEAN

\* Only an attested container is ever started or asked to start, and a create
\* that may still come is of a container nothing was asked of.
PolicyInv ==
    /\ cpc \in {"create", "inspect"} =>
          attach = "none" /\ "start" \notin pending /\ container # "running"
    /\ cpc = "create" => container = "none" /\ pending = {} /\ ~container_id
    /\ cpc = "start" => policyHeld
    /\ attach # "none" \/ "start" \in pending \/ container = "running" => policyHeld
    /\ "create" \in pending =>
          /\ cpc \in {"find", "returned"}
          /\ ~container_id /\ attach = "none" /\ "start" \notin pending
          /\ container = "none"
    /\ container_id \/ cpc \notin {"create", "find", "returned"} => container # "none"
    /\ cpc \notin {"create", "find", "remove", "returned"} => container_id

\* What each stage of the watch knows when it is entered.
WatchInv ==
    /\ cpc \in {"join", "final"} => attach = "ended"
    /\ cpc = "final" => Drained
    /\ kill_attempted => timed_out \/ exceeded
    /\ cpc \in {"create", "inspect", "start", "poll", "poll_budget", "poll_deadline"} =>
          ~timed_out /\ ~kill_attempted
    /\ cpc = "stop" => attach = "ended" \/ timed_out \/ exceeded

IsJudged == execution.termination_reason \in {"completed", "timeout", "output_limit"}

\* Once the execution is judged, nothing it records can change.
JudgedInv ==
    IsJudged =>
        /\ cpc \in {"remove", "find", "returned"}
        /\ container \in {"exited", "removed"}
        /\ policyHeld
        /\ attach = "ended"
        /\ Drained
        /\ execution.exit_code = ending.exit
        /\ execution.oom_killed = ending.oom
        /\ execution.output_limit_exceeded = exceeded
        /\ execution.termination_reason = "completed" =>
              ~execution.kill_attempted /\ ~exceeded

\* The execution is built when the try block is left.
ResultInv ==
    /\ execution \in Results \cup {NoExecution}
    /\ cpc \in {"remove", "find", "returned"} => execution \in Results

ExecInv ==
    /\ ExecTypeOK
    /\ PolicyInv
    /\ WatchInv
    /\ JudgedInv
    /\ ResultInv
    /\ RemovalTruthful

-----------------------------------------------------------------------------
(* The records an execution can be.                                        *)

LEMMA SetupFailureResults ==
    ASSUME NEW t \in BOOLEAN, NEW l \in BOOLEAN, NEW k \in BOOLEAN
    PROVE  /\ \A c \in EarlyCodes : SetupFailure(c, FALSE, FALSE, FALSE, FALSE, FALSE) \in Results
           /\ SetupFailure("CONTAINER_RUNTIME_FAILURE", FALSE, FALSE, FALSE, k, FALSE) \in Results
           /\ SetupFailure("CONTAINER_FINAL_STATE_UNATTESTED", FALSE, FALSE, TRUE, k, FALSE)
                 \in Results
           /\ SetupFailure("OUTPUT_CAPTURE_INCOMPLETE", t, l, TRUE, k, FALSE) \in Results
BY DEF Results, FailedWith, SetupFailure, Execution

LEMMA JudgedResults ==
    ASSUME NEW x \in {0, 1}, NEW l \in BOOLEAN, NEW o \in BOOLEAN, NEW k \in BOOLEAN
    PROVE  /\ Judged("completed", x, FALSE, FALSE, o, FALSE, FALSE) \in Results
           /\ Judged("timeout", x, TRUE, l, o, k, FALSE) \in Results
           /\ Judged("output_limit", x, FALSE, TRUE, o, k, FALSE) \in Results
BY DEF Results, JudgedAs, Judged, Execution

\* remove_succeeded is written after the rest.
LEMMA RemovalRecorded ==
    ASSUME NEW e \in Results, NEW r \in BOOLEAN
    PROVE  /\ [e EXCEPT !.remove_succeeded = r] \in Results
           /\ [e EXCEPT !.remove_succeeded = r].remove_succeeded = r
           /\ [e EXCEPT !.remove_succeeded = r].termination_reason = e.termination_reason
           /\ [e EXCEPT !.remove_succeeded = r].exit_code = e.exit_code
           /\ [e EXCEPT !.remove_succeeded = r].oom_killed = e.oom_killed
           /\ [e EXCEPT !.remove_succeeded = r].output_limit_exceeded = e.output_limit_exceeded
           /\ [e EXCEPT !.remove_succeeded = r].kill_attempted = e.kill_attempted
BY DEF Results, JudgedAs, FailedWith

-----------------------------------------------------------------------------
(* Initially, and around the calling thread.                               *)

LEMMA ExecInitInv == ExecutionInit => ExecInv
<1> SUFFICES ASSUME ExecutionInit PROVE ExecInv
  OBVIOUS
<1>1. ExecTypeOK
  BY DEF ExecutionInit, ExecTypeOK, NoEnding, Endings
<1>2. PolicyInv /\ WatchInv /\ RemovalTruthful
  BY DEF ExecutionInit, PolicyInv, WatchInv, RemovalTruthful
<1>3. JudgedInv
  BY DEF ExecutionInit, JudgedInv, IsJudged, NoExecution, Execution, None
<1>4. ResultInv
  BY DEF ExecutionInit, ResultInv
<1> QED BY <1>1, <1>2, <1>3, <1>4 DEF ExecInv

\* The execution changes only when the calling thread leaves its try block or
\* returns: until then a step need only keep what JudgedInv says of the rest.
LEMMA EnvironmentInv ==
    ASSUME ExecInv, Environment
    PROVE  ExecInv'
<1> USE DEF ExecInv, ExecTypeOK, PolicyInv, WatchInv, JudgedInv, IsJudged, ResultInv,
            RemovalTruthful, Drained
<1>1. CASE LateCreate
  BY <1>1 DEF LateCreate, Created, clientVars, watchVars, budgetVars
<1>2. CASE LateStart
  BY <1>2 DEF LateStart, clientVars, watchVars, budgetVars
<1>3. CASE LateKill
  <2>1. Killed \in Endings
    BY DEF Killed, Endings
  <2> QED BY <1>3, <2>1 DEF LateKill, clientVars, watchVars, budgetVars
<1>4. CASE LateRemove
  BY <1>4 DEF LateRemove, clientVars, watchVars, budgetVars
<1>5. CASE ContainerStarts
  BY <1>5 DEF ContainerStarts, clientVars, watchVars, budgetVars
<1>6. CASE ContainerExits
  BY <1>6 DEF ContainerExits, clientVars, watchVars, budgetVars
<1>7. CASE AttachDelivers
  BY <1>7 DEF AttachDelivers, Deliver, clientVars, daemonVars, watchVars
<1>8. CASE AttachEnds
  BY <1>8 DEF AttachEnds, ClosePipes, clientVars
<1>9. CASE DeadlinePasses
  BY <1>9 DEF DeadlinePasses, clientVars, daemonVars, budgetVars
<1> QED BY <1>1, <1>2, <1>3, <1>4, <1>5, <1>6, <1>7, <1>8, <1>9 DEF Environment

\* A thread that is done takes no step, and one that is not only raises the flag.
LEMMA DrainThreadInv ==
    ASSUME ExecInv, BudgetInv, NEW s \in Streams, DrainThread(s)
    PROVE  ExecInv'
<1>1. ~Drained
  BY DEF DrainThread, Drain, Drained, ReadAndDigest, ReadEnd, Count, Reserve, Extend
<1>2. exceeded => exceeded'
  BY DEF DrainThread, Drain, ReadAndDigest, ReadEnd, Count, Reserve, Extend
<1>3. UNCHANGED <<cpc, clientVars, daemonVars, watchVars>>
  BY DEF DrainThread
<1> QED
  BY <1>1, <1>2, <1>3 DEF ExecInv, ExecTypeOK, PolicyInv, WatchInv, JudgedInv, IsJudged,
     ResultInv, RemovalTruthful, clientVars, daemonVars, watchVars

-----------------------------------------------------------------------------
(* The calling thread.                                                     *)

\* The steps inside the try block, which build no execution yet.
Proceeds ==
    \/ CreateSucceeds \/ InspectAttests \/ Start \/ Poll \/ PollBudget \/ PollDeadline
    \/ Stop \/ Kill \/ Wait \/ Join \/ FindTarget

LEMMA ProceedsInv ==
    ASSUME ExecInv, Proceeds
    PROVE  ExecInv'
<1> USE DEF ExecInv, ExecTypeOK, PolicyInv, WatchInv, JudgedInv, IsJudged, ResultInv,
            RemovalTruthful, Drained, Goto, Step, clientVars, daemonVars, watchVars, budgetVars
<1>1. CASE CreateSucceeds
  BY <1>1 DEF CreateSucceeds, Created
<1>2. CASE InspectAttests
  BY <1>2 DEF InspectAttests, PolicyAttested
<1>3. CASE Start
  BY <1>3 DEF Start
<1>4. CASE Poll \/ PollBudget
  <2>1. CASE Poll
    BY <2>1 DEF Poll
  <2>2. CASE PollBudget /\ exceeded
    BY <2>2 DEF PollBudget
  <2>3. CASE PollBudget /\ ~exceeded
    BY <2>3 DEF PollBudget
  <2> QED BY <1>4, <2>1, <2>2, <2>3
<1>5. CASE PollDeadline
  <2>1. CASE deadlinePassed
    BY <1>5, <2>1 DEF PollDeadline
  <2>2. CASE ~deadlinePassed
    BY <1>5, <2>2 DEF PollDeadline
  <2> QED BY <2>1, <2>2
<1>6. CASE Stop
  BY <1>6 DEF Stop
<1>7. CASE Kill
  <2>1. Killed \in Endings
    BY DEF Killed, Endings
  <2> QED BY <1>7, <2>1 DEF Kill
<1>8. CASE Wait \/ Join
  <2>1. CASE attach = "ended" /\ Step("wait", "join")
    BY <2>1
  <2>2. CASE attach = "ended" /\ Step("reap", "join")
    BY <2>2
  <2>3. CASE Step("wait", "reap")
    BY <2>3
  <2>4. CASE Join
    BY <2>4 DEF Join
  <2> QED BY <1>8, <2>1, <2>2, <2>3, <2>4 DEF Wait
<1>9. CASE FindTarget
  <2>1. /\ cpc = "find" /\ cpc' = "remove" /\ container # "none"
        /\ UNCHANGED <<clientVars, daemonVars, watchVars, budgetVars>>
    BY <1>9 DEF FindTarget, Exists
  <2>2. ExecTypeOK' /\ PolicyInv' /\ WatchInv'
    BY <2>1
  <2>3. JudgedInv'
    BY <2>1
  <2>4. ResultInv' /\ RemovalTruthful'
    BY <2>1
  <2> QED BY <2>2, <2>3, <2>4
<1> QED BY <1>1, <1>2, <1>3, <1>4, <1>5, <1>6, <1>7, <1>8, <1>9 DEF Proceeds

\* The steps that leave the try block with a failure.
FailsSetup ==
    \/ CreateFails \/ CreateRaises \/ InspectRejects \/ StartRaises \/ KillRaises
    \/ ReapRaises \/ JoinTimesOut \/ FinalStateUnattested

\* Each of them builds a setup failure and goes to the finally block.
LEMMA FailsSetupResult ==
    ASSUME ExecInv, BudgetInv, FailsSetup
    PROVE  /\ execution' \in Results
           /\ execution'.termination_reason = "setup_failure"
           /\ cpc' = IF container_id THEN "remove" ELSE "find"
           /\ cpc # "returned"
           /\ UNCHANGED <<container_id, timed_out, kill_attempted, watchVars, budgetVars>>
<1>1. /\ timed_out \in BOOLEAN /\ exceeded \in BOOLEAN /\ kill_attempted \in BOOLEAN
  BY DEF ExecInv, ExecTypeOK, BudgetInv, BudgetTypeOK
<1>2. ASSUME NEW from \in {"create", "inspect", "start", "kill", "reap", "final"}, Raise(from)
      PROVE  /\ Finish(from, execution') /\ execution' \in Results
             /\ execution'.termination_reason = "setup_failure"
  BY <1>1, <1>2, SetupFailureResults DEF Raise, Finish, SetupFailure, Execution
<1>3. ASSUME NEW from \in {"create", "inspect"}, NEW code \in EarlyCodes, Early(from, code)
      PROVE  /\ Finish(from, execution') /\ execution' \in Results
             /\ execution'.termination_reason = "setup_failure"
  BY <1>1, <1>3, SetupFailureResults DEF Early, Finish, SetupFailure, Execution
<1>4. ASSUME NEW from \in {"join", "final"}, NEW result,
             Finish(from, result),
             \/ result = SetupFailure("OUTPUT_CAPTURE_INCOMPLETE", timed_out, exceeded, TRUE,
                                      kill_attempted, FALSE)
             \/ result = SetupFailure("CONTAINER_FINAL_STATE_UNATTESTED", FALSE, FALSE, TRUE,
                                      kill_attempted, FALSE)
      PROVE  /\ Finish(from, execution') /\ execution' \in Results
             /\ execution'.termination_reason = "setup_failure"
  <2>1. result \in Results
    BY <1>1, <1>4, SetupFailureResults
  <2>2. result.termination_reason = "setup_failure"
    BY <1>4 DEF SetupFailure, Execution
  <2> QED BY <1>4, <2>1, <2>2 DEF Finish
<1>5. \E from \in {"create", "inspect", "start", "kill", "reap", "join", "final"} :
         /\ Finish(from, execution') /\ execution' \in Results
         /\ execution'.termination_reason = "setup_failure"
  BY <1>2, <1>3, <1>4 DEF FailsSetup, CreateFails, CreateRaises, InspectRejects,
     StartRaises, KillRaises, ReapRaises, JoinTimesOut, FinalStateUnattested, EarlyCodes
<1> QED BY <1>5 DEF Finish, Goto

LEMMA FailsSetupInv ==
    ASSUME ExecInv, BudgetInv, FailsSetup
    PROVE  ExecInv'
<1>1. /\ execution' \in Results
      /\ execution'.termination_reason = "setup_failure"
      /\ cpc' = IF container_id THEN "remove" ELSE "find"
      /\ cpc # "returned"
      /\ UNCHANGED <<container_id, timed_out, kill_attempted, attach, deadlinePassed, exceeded>>
  BY FailsSetupResult DEF watchVars, budgetVars
<1>2. JudgedInv' /\ ResultInv' /\ RemovalTruthful' /\ WatchInv'
  BY <1>1 DEF JudgedInv, IsJudged, ResultInv, RemovalTruthful, ExecInv, WatchInv
<1>3. ExecTypeOK' /\ PolicyInv'
  <2> USE <1>1 DEF ExecInv, ExecTypeOK, PolicyInv, LeftPending, Finish, Goto
  <2>1. CASE CreateFails
    BY <2>1 DEF CreateFails, Early, Created
  <2>2. CASE CreateRaises
    <3>1. cpc = "create" /\ cpc' = "find" /\ ~container_id /\ container = "none"
      BY <2>2 DEF CreateRaises, Raise
    <3>2. CASE Created /\ UNCHANGED <<pending, ending>>
      BY <3>1, <3>2 DEF Created
    <3>3. CASE LeftPending("create") /\ UNCHANGED <<container, policyHeld, ending>>
      BY <3>1, <3>3
    <3> QED BY <2>2, <3>2, <3>3 DEF CreateRaises
  <2>3. CASE InspectRejects \/ StartRaises \/ ReapRaises \/ JoinTimesOut \/ FinalStateUnattested
    <3>1. UNCHANGED daemonVars /\ cpc \notin {"create", "find", "remove", "returned"}
      BY <2>3 DEF InspectRejects, StartRaises, ReapRaises, JoinTimesOut, FinalStateUnattested,
         Early, Raise
    <3> QED BY <3>1 DEF daemonVars
  <2>4. CASE KillRaises
    BY <2>4 DEF KillRaises, Raise
  <2> QED BY <2>1, <2>2, <2>3, <2>4 DEF FailsSetup
<1> QED BY <1>2, <1>3 DEF ExecInv

LEMMA FinalStateAttestedInv ==
    ASSUME ExecInv, BudgetInv, FinalStateAttested
    PROVE  ExecInv'
<1>1. /\ cpc = "final" /\ container = "exited"
      /\ cpc' = IF container_id THEN "remove" ELSE "find"
      /\ execution' = Judged(Termination, ending.exit, timed_out, exceeded, ending.oom,
                             kill_attempted, FALSE)
      /\ UNCHANGED <<container_id, timed_out, kill_attempted, watchVars, daemonVars, budgetVars>>
  BY DEF FinalStateAttested, Finish, Goto
<1>2. /\ ending.exit \in {0, 1} /\ ending.oom \in BOOLEAN
      /\ timed_out \in BOOLEAN /\ exceeded \in BOOLEAN /\ kill_attempted \in BOOLEAN
      /\ kill_attempted => timed_out \/ exceeded
      /\ attach = "ended" /\ Drained /\ policyHeld
  BY <1>1 DEF ExecInv, ExecTypeOK, Endings, BudgetInv, BudgetTypeOK, WatchInv, PolicyInv
<1>3. execution' \in Results
  <2>1. CASE timed_out
    BY <1>1, <1>2, <2>1, JudgedResults DEF Termination
  <2>2. CASE ~timed_out /\ exceeded
    BY <1>1, <1>2, <2>2, JudgedResults DEF Termination
  <2>3. CASE ~timed_out /\ ~exceeded
    BY <1>1, <1>2, <2>3, JudgedResults DEF Termination
  <2> QED BY <2>1, <2>2, <2>3
<1>4. /\ execution'.termination_reason = Termination
      /\ execution'.exit_code = ending.exit
      /\ execution'.oom_killed = ending.oom
      /\ execution'.output_limit_exceeded = exceeded
      /\ execution'.kill_attempted = kill_attempted
  BY <1>1 DEF Judged, Execution
<1>5. execution'.termination_reason = "completed" =>
         ~execution'.kill_attempted /\ ~exceeded
  BY <1>2, <1>4 DEF Termination
<1>6. JudgedInv'
  BY <1>1, <1>2, <1>4, <1>5
  DEF JudgedInv, Drained, daemonVars, watchVars, budgetVars
<1>7. ResultInv' /\ RemovalTruthful' /\ WatchInv'
  BY <1>1, <1>3 DEF ResultInv, RemovalTruthful, ExecInv, WatchInv, watchVars, budgetVars
<1>8. ExecTypeOK' /\ PolicyInv'
  BY <1>1 DEF ExecInv, ExecTypeOK, PolicyInv, daemonVars, watchVars
<1> QED BY <1>3, <1>6, <1>7, <1>8 DEF ExecInv

\* The steps that return.
Returns == FindNothing \/ RemoveSucceeds \/ RemoveFails \/ RemoveRaises

LEMMA ReturnsInv ==
    ASSUME ExecInv, Returns
    PROVE  ExecInv'
<1>1. PICK removed \in BOOLEAN :
         /\ cpc \in {"find", "remove"} /\ cpc' = "returned"
         /\ execution' = [execution EXCEPT !.remove_succeeded = removed]
         /\ removed => container' = "removed"
         /\ UNCHANGED <<container_id, timed_out, kill_attempted, watchVars, budgetVars>>
  BY DEF Returns, FindNothing, RemoveSucceeds, RemoveFails, RemoveRaises, Returning, Goto
<1>2. execution \in Results
  BY <1>1 DEF ExecInv, ResultInv
<1>3. /\ execution' \in Results
      /\ execution'.remove_succeeded = removed
      /\ execution'.termination_reason = execution.termination_reason
      /\ execution'.exit_code = execution.exit_code
      /\ execution'.oom_killed = execution.oom_killed
      /\ execution'.output_limit_exceeded = execution.output_limit_exceeded
      /\ execution'.kill_attempted = execution.kill_attempted
  BY <1>1, <1>2, RemovalRecorded
<1>4. /\ container' = container \/ (cpc = "remove" /\ container' = "removed")
      /\ UNCHANGED <<policyHeld, ending>>
      /\ pending' = pending \/ (cpc = "remove" /\ pending' = pending \cup {"remove"})
  BY DEF Returns, FindNothing, RemoveSucceeds, RemoveFails, RemoveRaises, Returning, Goto,
     LeftPending, daemonVars
<1>5. JudgedInv'
  BY <1>1, <1>3, <1>4
  DEF ExecInv, JudgedInv, IsJudged, Drained, watchVars, budgetVars
<1>6. ResultInv' /\ RemovalTruthful' /\ WatchInv'
  BY <1>1, <1>3 DEF ResultInv, RemovalTruthful, ExecInv, WatchInv, watchVars, budgetVars
<1>7. ExecTypeOK' /\ PolicyInv'
  BY <1>1, <1>4 DEF ExecInv, ExecTypeOK, PolicyInv, watchVars
<1> QED BY <1>5, <1>6, <1>7 DEF ExecInv

-----------------------------------------------------------------------------
(* The theorems.                                                           *)

LEMMA ExecNextInv == ExecInv /\ BudgetInv /\ [ExecutionNext]_executionVars => ExecInv'
<1> SUFFICES ASSUME ExecInv, BudgetInv, [ExecutionNext]_executionVars PROVE ExecInv'
  OBVIOUS
<1>1. CASE ExecuteContainer
  BY <1>1, ProceedsInv, FailsSetupInv, FinalStateAttestedInv, ReturnsInv
  DEF ExecuteContainer, Proceeds, FailsSetup, Returns
<1>2. CASE Environment
  BY <1>2, EnvironmentInv
<1>3. CASE \E s \in Streams : DrainThread(s)
  BY <1>3, DrainThreadInv
<1>4. CASE UNCHANGED executionVars
  BY <1>4 DEF executionVars, clientVars, daemonVars, watchVars, budgetVars, ExecInv, ExecTypeOK,
     PolicyInv, WatchInv, JudgedInv, IsJudged, ResultInv, RemovalTruthful, Drained
<1> QED BY <1>1, <1>2, <1>3, <1>4 DEF ExecutionNext

\* The strengthened invariant of an execution.
THEOREM ExecInvariant == Safety => [](BudgetInv /\ ExecInv)
<1>1. ExecutionInit => ExecInv
  BY ExecInitInv
<1>2. ExecInv /\ BudgetInv /\ [ExecutionNext]_executionVars => ExecInv'
  BY ExecNextInv
<1> QED BY <1>1, <1>2, DrainInvariant, PTL DEF Safety

\* Every variable keeps its type; what is returned is one of Results.
THEOREM ExecTypeCorrect == Safety => []TypeOK
<1>1. BudgetInv /\ ExecInv => TypeOK
  BY DEF BudgetInv, ExecInv, ExecTypeOK, ResultInv, TypeOK
<1> QED BY <1>1, ExecInvariant, PTL

\* A removal that is reported happened, whatever the daemon does late.
THEOREM RemovalIsTruthful == Safety => []RemovalTruthful
<1>1. BudgetInv /\ ExecInv => RemovalTruthful
  BY DEF ExecInv
<1> QED BY <1>1, ExecInvariant, PTL

\* Only a container that was created with the requested policy ever runs.
THEOREM OnlyAttestedContainersRun == Safety => []OnlyAttestedRuns
<1>1. BudgetInv /\ ExecInv => OnlyAttestedRuns
  BY DEF ExecInv, PolicyInv, OnlyAttestedRuns
<1> QED BY <1>1, ExecInvariant, PTL

\* A judged execution tells how the container ended and judges all it wrote.
THEOREM JudgementsAreTruthful == Safety => []JudgedTruthfully
<1>1. BudgetInv /\ ExecInv => JudgedTruthfully
  <2> SUFFICES ASSUME BudgetInv, ExecInv, JudgedNow PROVE JudgedTruthfully
    BY DEF JudgedTruthfully
  <2>1. IsJudged
    BY DEF JudgedNow, IsJudged, ExecInv, ResultInv, Results, JudgedAs, FailedWith
  <2>2. VerdictExact
    BY BudgetAssumption DEF BudgetInv, BudgetTypeOK, SharedInv, ThreadInv, VerdictExact,
       Drained, Charged, Held, Streams
  <2> QED BY <2>1, <2>2 DEF ExecInv, JudgedInv, JudgedTruthfully, VerdictExact
<1> QED BY <1>1, ExecInvariant, PTL

\* The safety part of the contract: the call returns at most once, and with one
\* of Results.
THEOREM ImplementsContract == Safety => Contract!Safety
<1>1. ExecutionInit => Contract!Init
  BY DEF ExecutionInit, Contract!Init, Contract!NoExecution, NoExecution, Contract!Execution,
         Execution,
     Contract!None, None, Contract!NoExit, NoExit
<1>2. ExecInv /\ ExecInv' /\ [ExecutionNext]_executionVars =>
         [Contract!Return]_(IF cpc = "returned" THEN execution ELSE NoExecution)
  <2> SUFFICES ASSUME ExecInv, ExecInv', [ExecutionNext]_executionVars
               PROVE  [Contract!Return]_(IF cpc = "returned" THEN execution ELSE NoExecution)
    OBVIOUS
  <2>1. CASE cpc = "returned"
    <3>1. UNCHANGED <<cpc, execution>>
      BY <2>1 DEF ExecutionNext, executionVars, clientVars, Environment, LateCreate, LateStart,
           LateKill,
         LateRemove, ContainerStarts, ContainerExits, AttachDelivers, AttachEnds,
         DeadlinePasses, DrainThread, ExecuteContainer, CreateSucceeds, CreateFails,
         CreateRaises, InspectAttests, InspectRejects, Start, StartRaises, Poll, PollBudget,
         PollDeadline, Stop, Kill, KillRaises, Wait, ReapRaises, Join, JoinTimesOut,
         FinalStateAttested, FinalStateUnattested, FindTarget, FindNothing, RemoveSucceeds,
         RemoveFails, RemoveRaises, Early, Raise, Finish, Returning, Step, Goto
    <3> QED BY <2>1, <3>1
  <2>2. CASE cpc # "returned" /\ cpc' = "returned"
    <3>1. Contract!Results = Results
      BY DEF Contract!Results, Results, Contract!JudgedAs, JudgedAs, Contract!FailedWith,
         FailedWith, Contract!EarlyCodes, EarlyCodes, Contract!None, None, Contract!NoExit, NoExit
    <3>2. Contract!NoExecution = NoExecution
      BY DEF Contract!NoExecution, NoExecution, Contract!Execution, Execution,
         Contract!None, None, Contract!NoExit, NoExit
    <3>3. execution' \in Results
      BY <2>2 DEF ExecInv, ResultInv
    <3> QED BY <2>2, <3>1, <3>2, <3>3 DEF Contract!Return
  <2>3. CASE cpc # "returned" /\ cpc' # "returned"
    BY <2>3
  <2> QED BY <2>1, <2>2, <2>3
<1> QED BY <1>1, <1>2, ExecInvariant, PTL DEF Safety, Contract!Safety

-----------------------------------------------------------------------------
(* The plan (Reproduction).                                                *)

Witnesses == [checks : SUBSET BOOLEAN, matched : BOOLEAN]
Launches == [execution : Results, witness : Witnesses]

\* A witness that matched had every predicate of its step satisfied.
Asked(l, s) ==
    l.witness.matched =>
        /\ AllTrue(l.witness.checks)
        /\ s.exit_code # NoExit => l.execution.exit_code = s.exit_code

\* The containers are those of the first steps of the plan.
LaunchedInv ==
    /\ plan \in Seq(PlanSteps)
    /\ launched \in Seq(Launches)
    /\ Len(launched) <= Len(plan)
    /\ \A i \in 1..Len(launched) : Asked(launched[i], plan[i])

\* Steps are only run in a qualified sandbox, and the loop only ends with its status still
\* COMPLETED when no step is left.
ProgressInv ==
    /\ pc \in {"start", "steps", "identity", "bundle", "published", "rejected", "raised"}
    /\ pc \in {"start", "steps"} => global_status = "COMPLETED"
    /\ pc = "identity" /\ global_status = "COMPLETED" => Len(launched) = Len(plan)
    /\ pc \in {"steps", "identity"} => requested /\ Qualifies(qualification, TRUE)
    /\ pc \in {"start", "steps", "identity", "raised"} => receipt = NoReceipt

\* A receipt that says COMPLETED is of all the steps, as they were executed.
ReceiptInv ==
    receipt.status = "COMPLETED" =>
        /\ requested
        /\ Qualifies(qualification, TRUE)
        /\ Len(launched) = Len(plan)
        /\ receipt.steps = [i \in DOMAIN launched |-> StepReceipt(launched[i])]
        /\ receipt.step_cleanup = Cleanup(launched)

\* Package and SARIF result carry the classification of the receipt.
OutcomeInv ==
    pc = "published" =>
        /\ outcome = Classify(receipt)
        /\ sarif.kind = "fail" => outcome = "CONFIRMED"

ReproductionInv == LaunchedInv /\ ProgressInv /\ ReceiptInv /\ OutcomeInv

\* Every execution that completed was under the attested policy and was not killed.
LEMMA CompletedResult ==
    ASSUME NEW e \in Results, e.termination_reason = "completed"
    PROVE  e.policy_verified /\ ~e.kill_attempted
BY DEF Results, JudgedAs, FailedWith

\* A step has no status beside the four that a container can return.
LEMMA ResultTerminations ==
    ASSUME NEW e \in Results
    PROVE  e.termination_reason \in {"completed", "timeout", "output_limit", "setup_failure"}
BY DEF Results, JudgedAs, FailedWith

\* The witness is of its type, and matches only what was asked.
LEMMA WitnessAsked ==
    ASSUME NEW e \in Results, NEW seen \in BOOLEAN
    PROVE  /\ Witness(e, seen) \in Witnesses
           /\ Witness(e, seen).matched =>
                /\ AllTrue(Witness(e, seen).checks)
                /\ NextStep.exit_code # NoExit => e.exit_code = NextStep.exit_code
<1> DEFINE exits == IF NextStep.exit_code # NoExit
                    THEN {e.exit_code = NextStep.exit_code} ELSE {}
           shows == IF NextStep.output THEN {seen} ELSE {}
<1>1. Witness(e, seen) = [checks |-> exits \cup shows, matched |-> AllTrue(exits \cup shows)]
  BY DEF Witness
<1>2. exits \in SUBSET BOOLEAN
  OBVIOUS
<1>3. shows \in SUBSET BOOLEAN
  OBVIOUS
<1>4. AllTrue(exits \cup shows) \in BOOLEAN
  BY DEF AllTrue
<1>5. Witness(e, seen) \in Witnesses
  <2> DEFINE all == exits \cup shows
             true == AllTrue(all)
  <2>1. all \in SUBSET BOOLEAN
    BY <1>2, <1>3
  <2>2. true \in BOOLEAN
    BY <1>4
  <2>3. Witness(e, seen) = [checks |-> all, matched |-> true]
    BY <1>1
  <2> HIDE DEF all, true
  <2> QED BY <2>1, <2>2, <2>3 DEF Witnesses
<1>6. ASSUME AllTrue(exits \cup shows), NextStep.exit_code # NoExit
      PROVE  e.exit_code = NextStep.exit_code
  BY <1>6 DEF AllTrue
<1>7. Witness(e, seen).matched = AllTrue(exits \cup shows)
  BY <1>1
<1>8. Witness(e, seen).checks = exits \cup shows
  BY <1>1
<1> HIDE DEF exits, shows
<1> QED BY <1>5, <1>6, <1>7, <1>8

-----------------------------------------------------------------------------
LEMMA InitInv == Init => ReproductionInv
<1> SUFFICES ASSUME Init PROVE ReproductionInv
  OBVIOUS
<1>1. plan \in Seq(PlanSteps)
  <2>1. ASSUME NEW n \in 1..MaxSteps, NEW q \in [1..n -> PlanSteps]
        PROVE  q \in Seq(PlanSteps)
    BY <2>1, StepsAssumption
  <2>2. \A q \in Plans : q \in Seq(PlanSteps)
    BY <2>1 DEF Plans
  <2>3. CASE plan \in Plans
    BY <2>2, <2>3
  <2>4. CASE plan = <<>>
    BY <2>4
  <2> QED BY <2>3, <2>4 DEF Init
<1>2. launched = <<>> /\ launched \in Seq(Launches) /\ Len(launched) = 0
  BY DEF Init
<1>3. LaunchedInv
  BY <1>1, <1>2 DEF LaunchedInv
<1> QED BY <1>3 DEF Init, ReproductionInv, ProgressInv, ReceiptInv, OutcomeInv, NoReceipt, None

\* The steps that launch nothing and build nothing.
LEMMA QuietInv ==
    ASSUME ReproductionInv,
           Skip \/ PlanRefused \/ StepWorkdirInvalid \/ StepWorkdirRaises \/ StepsEnd
             \/ IdentityRaises \/ HostChangesSnapshot \/ UNCHANGED vars
    PROVE  ReproductionInv'
<1> USE DEF ReproductionInv
<1>1. LaunchedInv'
  BY DEF LaunchedInv, Skip, PlanRefused, StepWorkdirInvalid, StepWorkdirRaises, StepsEnd,
         IdentityRaises, HostChangesSnapshot, vars
<1>2. ProgressInv'
  BY DEF LaunchedInv, ProgressInv, Qualifies, Skip, PlanRefused, StepWorkdirInvalid,
         StepWorkdirRaises, StepsEnd, StepsLeft, IdentityRaises, HostChangesSnapshot, vars
<1>3. ReceiptInv'
  BY DEF ProgressInv, ReceiptInv, Qualifies, NoReceipt, None, Cleanup, Skip, PlanRefused,
         StepWorkdirInvalid, StepWorkdirRaises, StepsEnd, IdentityRaises, HostChangesSnapshot, vars
<1>4. OutcomeInv'
  BY DEF OutcomeInv, Skip, PlanRefused, StepWorkdirInvalid, StepWorkdirRaises, StepsEnd,
         IdentityRaises, HostChangesSnapshot, vars
<1> QED BY <1>1, <1>2, <1>3, <1>4

\* What did not qualify is UNSUPPORTED, and nothing of the plan was run.
LEMMA QualifyInv ==
    ASSUME ReproductionInv, StatusFails \/ Qualify
    PROVE  ReproductionInv'
<1> USE DEF ReproductionInv
<1>1. LaunchedInv'
  BY DEF LaunchedInv, StatusFails, Qualify
<1>2. CASE StatusFails
  <2>1. receipt'.status = "UNSUPPORTED" /\ pc' = "bundle"
    BY <1>2 DEF StatusFails, Unsupported
  <2>2. ProgressInv' /\ ReceiptInv' /\ OutcomeInv'
    BY <2>1 DEF ProgressInv, ReceiptInv, OutcomeInv
  <2> QED BY <1>1, <2>2
<1>3. CASE Qualify
  <2>1. PICK e \in Results, probe \in BOOLEAN :
          /\ qualification' = e
          /\ IF Qualifies(e, probe)
             THEN pc' = "steps" /\ UNCHANGED receipt
             ELSE pc' = "bundle" /\ receipt'.status = "UNSUPPORTED"
    BY <1>3 DEF Qualify, Unsupported
  <2>2. requested' /\ global_status' = global_status /\ pc = "start"
    BY <1>3 DEF Qualify
  <2>3. receipt = NoReceipt
    BY <2>2 DEF ProgressInv
  <2>4. CASE Qualifies(e, probe)
    <3>1. Qualifies(qualification, TRUE)'
      BY <2>1, <2>4 DEF Qualifies
    <3>2. global_status' = "COMPLETED"
      BY <1>3, <2>2 DEF Qualify, ProgressInv
    <3>3. ProgressInv'
      BY <2>1, <2>2, <2>3, <2>4, <3>1, <3>2 DEF ProgressInv
    <3>4. receipt'.status = "None"
      BY <2>1, <2>3, <2>4 DEF NoReceipt, None
    <3>5. ReceiptInv'
      BY <3>4 DEF ReceiptInv
    <3>6. OutcomeInv'
      BY <2>1, <2>4 DEF OutcomeInv
    <3> QED BY <1>1, <3>3, <3>5, <3>6
  <2>5. CASE ~Qualifies(e, probe)
    <3>1. ProgressInv' /\ ReceiptInv' /\ OutcomeInv'
      BY <2>1, <2>5 DEF ProgressInv, ReceiptInv, OutcomeInv
    <3> QED BY <1>1, <3>1
  <2> QED BY <2>4, <2>5
<1> QED BY <1>2, <1>3

\* A step that is launched is the next one, and its witness is about what it asks.
LEMMA RunStepInv ==
    ASSUME ReproductionInv, RunStep
    PROVE  ReproductionInv'
<1> USE DEF ReproductionInv
<1>1. PICK e \in Results, seen \in BOOLEAN :
        /\ launched' = Append(launched, [execution |-> e, witness |-> Witness(e, seen)])
        /\ global_status' = StatusAfter(e)
        /\ pc' = IF GoesOn(e) THEN "steps" ELSE "identity"
  BY DEF RunStep
<1> DEFINE l == [execution |-> e, witness |-> Witness(e, seen)]
<1>2. /\ pc = "steps" /\ Len(launched) < Len(plan) /\ global_status = "COMPLETED"
      /\ requested' = requested /\ plan' = plan /\ qualification' = qualification
      /\ receipt' = receipt /\ outcome' = outcome /\ sarif' = sarif
  BY DEF RunStep, StepsLeft, ProgressInv
<1>3. l \in Launches
  BY WitnessAsked DEF Launches
<1>4. Asked(l, plan[Len(launched) + 1])
  BY WitnessAsked DEF Asked, NextStep
<1>5. launched' = Append(launched, l)
  BY <1>1
<1> HIDE DEF l
<1>6. LaunchedInv'
  <2>1. /\ launched' \in Seq(Launches)
        /\ Len(launched') = Len(launched) + 1
        /\ launched'[Len(launched) + 1] = l
        /\ \A i \in 1..Len(launched) : launched'[i] = launched[i]
    BY <1>3, <1>5 DEF LaunchedInv
  <2>2. ASSUME NEW i \in 1..Len(launched') PROVE Asked(launched'[i], plan'[i])
    <3>1. CASE i = Len(launched) + 1
      BY <1>2, <1>4, <2>1, <3>1
    <3>2. CASE i \in 1..Len(launched)
      BY <1>2, <2>1, <3>2 DEF LaunchedInv
    <3> QED BY <2>1, <3>1, <3>2 DEF LaunchedInv
  <2>3. Len(launched') <= Len(plan')
    BY <1>2, <2>1 DEF LaunchedInv
  <2> QED BY <1>2, <2>1, <2>2, <2>3 DEF LaunchedInv
<1>7. receipt = NoReceipt /\ Qualifies(qualification, TRUE) /\ requested
  BY <1>2 DEF ProgressInv
<1>8. ProgressInv'
  <2>1. CASE GoesOn(e)
    <3>1. global_status' = "COMPLETED" /\ pc' = "steps"
      BY <1>1, <1>2, <2>1 DEF GoesOn, StatusAfter
    <3> QED BY <1>2, <1>7, <3>1 DEF ProgressInv, Qualifies
  <2>2. CASE ~GoesOn(e)
    <3>1. global_status' \in {"TIMED_OUT", "OUTPUT_LIMIT", "UNSUPPORTED"} /\ pc' = "identity"
      BY <1>1, <2>2, ResultTerminations DEF GoesOn, StatusAfter
    <3> QED BY <1>2, <1>7, <3>1 DEF ProgressInv, Qualifies
  <2> QED BY <2>1, <2>2
<1>9. ReceiptInv'
  BY <1>2, <1>7 DEF ReceiptInv, NoReceipt, None
<1>10. OutcomeInv'
  BY <1>1 DEF OutcomeInv
<1> QED BY <1>6, <1>8, <1>9, <1>10

\* The receipt is a report of the steps that were launched.
LEMMA IdentityInv ==
    ASSUME ReproductionInv, Identity
    PROVE  ReproductionInv'
<1> USE DEF ReproductionInv
<1>1. LaunchedInv'
  BY DEF LaunchedInv, Identity
<1>2. /\ receipt'.status = global_status
      /\ receipt'.steps = [i \in DOMAIN launched |-> StepReceipt(launched[i])]
      /\ receipt'.step_cleanup = Cleanup(launched)
  BY DEF Identity, Report
<1>3. /\ pc = "identity" /\ pc' = "bundle"
      /\ global_status' = global_status /\ requested' = requested /\ plan' = plan
      /\ launched' = launched /\ qualification' = qualification
  BY DEF Identity
<1>4. ProgressInv'
  BY <1>3 DEF ProgressInv
<1>5. ReceiptInv'
  BY <1>2, <1>3 DEF ProgressInv, ReceiptInv, Qualifies, Cleanup
<1>6. OutcomeInv'
  BY <1>3 DEF OutcomeInv
<1> QED BY <1>1, <1>4, <1>5, <1>6

\* What is published is classified by the receipt in it.
LEMMA BundleInv ==
    ASSUME ReproductionInv, Bundle
    PROVE  ReproductionInv'
<1> USE DEF ReproductionInv
<1>1. /\ requested' = requested /\ plan' = plan /\ launched' = launched
      /\ qualification' = qualification /\ global_status' = global_status
      /\ receipt' = receipt /\ pc' \in {"published", "rejected"}
  BY DEF Bundle
<1>2. LaunchedInv'
  BY <1>1 DEF LaunchedInv
<1>3. ProgressInv'
  BY <1>1 DEF ProgressInv
<1>4. ReceiptInv'
  BY <1>1 DEF ReceiptInv, Qualifies, Cleanup
<1>5. OutcomeInv'
  <2>1. PICK set \in CandidateSets :
          /\ outcome' = BuildEvidenceBundle(set).classification
          /\ pc' = "published" => sarif' = ExportSarif(BuildEvidenceBundle(set))
    BY DEF Bundle
  <2>2. BuildEvidenceBundle(set).classification = Classify(receipt)
    BY DEF BuildEvidenceBundle
  <2>3. Classify(receipt)' = Classify(receipt)
    BY <1>1 DEF Classify, Confirms, StepCompleted, WitnessVerifies, AllTrue
  <2>4. ASSUME pc' = "published", sarif'.kind = "fail"
        PROVE  Classify(receipt) = "CONFIRMED"
    BY <2>1, <2>2, <2>4 DEF ExportSarif
  <2> QED BY <2>1, <2>2, <2>3, <2>4 DEF OutcomeInv
<1> QED BY <1>2, <1>3, <1>4, <1>5

LEMMA NextInv == ReproductionInv /\ [Next]_vars => ReproductionInv'
BY QuietInv, QualifyInv, RunStepInv, IdentityInv, BundleInv DEF Next, Trace

\* The inductive invariant.
THEOREM ReproductionInvariant == Spec => []ReproductionInv
BY InitInv, NextInv, PTL DEF Spec

-----------------------------------------------------------------------------
\* What classify_evidence confirms is what was executed.
LEMMA ConfirmedFromReceipt ==
    ASSUME ReproductionInv, pc = "published", outcome = "CONFIRMED" \/ sarif.kind = "fail"
    PROVE  /\ Confirms(receipt)
           /\ receipt.status = "COMPLETED"
<1>1. Classify(receipt) = "CONFIRMED"
  BY DEF ReproductionInv, OutcomeInv
<1> QED BY <1>1 DEF Classify, Confirms

\* A package is CONFIRMED, and its SARIF result a failure, only if a qualified sandbox ran
\* every step of the plan to its end, as the plan asks, on the declared content.
THEOREM ReproductionConfirmedSound == Spec => []ConfirmedSound
<1>1. ReproductionInv => ConfirmedSound
  <2> SUFFICES ASSUME ReproductionInv, pc = "published",
                      outcome = "CONFIRMED" \/ sarif.kind = "fail"
               PROVE  /\ requested
                      /\ Qualifies(qualification, TRUE)
                      /\ Len(launched) = Len(plan)
                      /\ \A i \in DOMAIN launched :
                           /\ AllTrue(launched[i].witness.checks)
                           /\ plan[i].exit_code # NoExit =>
                                  launched[i].execution.exit_code = plan[i].exit_code
                           /\ launched[i].execution.termination_reason = "completed"
                           /\ launched[i].execution.policy_verified
                           /\ launched[i].execution.remove_succeeded
                           /\ ~launched[i].execution.oom_killed
                           /\ ~launched[i].execution.kill_attempted
                      /\ receipt.after = "declared"
    BY DEF ConfirmedSound
  <2>1. Confirms(receipt) /\ receipt.status = "COMPLETED"
    BY ConfirmedFromReceipt
  <2>2. /\ requested /\ Qualifies(qualification, TRUE) /\ Len(launched) = Len(plan)
        /\ receipt.steps = [i \in DOMAIN launched |-> StepReceipt(launched[i])]
        /\ receipt.step_cleanup = Cleanup(launched)
    BY <2>1 DEF ReproductionInv, ReceiptInv
  <2>3. receipt.after = "declared"
    BY <2>1 DEF Confirms
  <2>4. ASSUME NEW i \in DOMAIN launched
        PROVE  /\ AllTrue(launched[i].witness.checks)
               /\ plan[i].exit_code # NoExit =>
                      launched[i].execution.exit_code = plan[i].exit_code
               /\ launched[i].execution.termination_reason = "completed"
               /\ launched[i].execution.policy_verified
               /\ launched[i].execution.remove_succeeded
               /\ ~launched[i].execution.oom_killed
               /\ ~launched[i].execution.kill_attempted
    <3>1. i \in 1..Len(launched) /\ launched[i].execution \in Results
      <4>1. launched \in Seq(Launches)
        BY DEF ReproductionInv, LaunchedInv
      <4>2. i \in 1..Len(launched) /\ launched[i] \in Launches
        BY <2>4, <4>1
      <4> QED BY <4>2 DEF Launches
    <3>2. i \in DOMAIN receipt.steps /\ receipt.steps[i] = StepReceipt(launched[i])
      BY <2>2, <2>4
    <3>3. StepCompleted(StepReceipt(launched[i])) /\ launched[i].witness.matched
      BY <2>1, <3>2 DEF Confirms, StepReceipt
    <3>4. /\ launched[i].execution.termination_reason = "completed"
          /\ ~launched[i].execution.oom_killed
      BY <3>3 DEF StepCompleted, StepReceipt
    <3>5. launched[i].execution.policy_verified /\ ~launched[i].execution.kill_attempted
      BY <3>1, <3>4, CompletedResult
    <3>6. launched[i].execution.remove_succeeded
      <4>1. i \in DOMAIN receipt.step_cleanup
            /\ receipt.step_cleanup[i] = launched[i].execution.remove_succeeded
        BY <2>2, <2>4 DEF Cleanup
      <4> QED BY <2>1, <4>1 DEF Confirms
    <3>7. Asked(launched[i], plan[i])
      BY <3>1 DEF ReproductionInv, LaunchedInv
    <3> QED BY <3>3, <3>4, <3>5, <3>6, <3>7 DEF Asked
  <2> QED BY <2>2, <2>3, <2>4
<1> QED BY <1>1, ReproductionInvariant, PTL

-----------------------------------------------------------------------------
(* What verify_evidence_bundle may say of the bundle that is built.        *)

CodeSet == {Codes[i] : i \in 1..16}

LEMMA CodesAre ==
    /\ Codes[1] = "CONTAINER_CREATE_FAILED" /\ Codes[2] = "CONTAINER_FINAL_STATE_UNATTESTED"
    /\ Codes[3] = "CONTAINER_INSPECT_FAILED" /\ Codes[4] = "CONTAINER_INSPECT_INVALID"
    /\ Codes[5] = "CONTAINER_POLICY_MISMATCH" /\ Codes[6] = "CONTAINER_RUNTIME_FAILURE"
    /\ Codes[7] = "EXECUTION_COMPLETED" /\ Codes[8] = "EXPLICIT_WITNESS_NOT_OBSERVED"
    /\ Codes[9] = "OUTPUT_CAPTURE_INCOMPLETE" /\ Codes[10] = "REPOSITORY_CHANGED"
    /\ Codes[11] = "REPRODUCTION_OOM_KILLED" /\ Codes[12] = "REPRODUCTION_OUTPUT_LIMIT"
    /\ Codes[13] = "REPRODUCTION_TIMEOUT" /\ Codes[14] = "SANDBOX_CLEANUP_FAILED"
    /\ Codes[15] = "SANDBOX_QUALIFICATION_FAILED" /\ Codes[16] = "STEP_WORKDIR_INVALID"
    /\ DOMAIN Codes = 1..16
BY DEF Codes

\* The primary reason code is one of the codes.
LEMMA FirstIs ==
    ASSUME NEW codes, codes \subseteq CodeSet, codes # {}
    PROVE  First(codes) \in codes
<1> DEFINE T == {i \in 1..16 : Codes[i] \in codes}
<1>1. PICK t : t \in T
  BY DEF CodeSet
<1>2. PICK m \in T : \A k \in T : m <= k
  <2>1. T \subseteq Nat
    OBVIOUS
  <2> HIDE DEF T
  <2> QED BY <1>1, <2>1, LeastNatural
<1>3. m \in DOMAIN Codes /\ Codes[m] \in codes
  BY CodesAre
<1>4. \A j \in 1..(m - 1) : Codes[j] \notin codes
  BY <1>2
<1> QED BY <1>3, <1>4 DEF First

\* Its status, its codes, its qualification and its witnesses are as they have to be; the
\* two flags of its steps are those of what was launched.
AllButFlagsVerify(r) ==
    /\ ReceiptHeadVerifies(r)
    /\ QualificationVerifies(r)
    /\ r.attempted \in BOOLEAN /\ r.qualified \in BOOLEAN
    /\ \/ r.steps = <<>> /\ r.step_cleanup = <<>>
       \/ /\ r.steps = [i \in DOMAIN launched |-> StepReceipt(launched[i])]
          /\ r.step_cleanup = Cleanup(launched)

RejectInv ==
    /\ \A i \in 1..Len(launched) :
          /\ WitnessVerifies(launched[i].witness)
          /\ i < Len(launched) \/ pc \in {"start", "steps"} =>
                launched[i].execution.termination_reason = "completed"
    /\ reasons \subseteq CodeSet
    /\ global_status \in Statuses
    /\ global_status = "TIMED_OUT" => "REPRODUCTION_TIMEOUT" \in reasons
    /\ global_status = "OUTPUT_LIMIT" => "REPRODUCTION_OUTPUT_LIMIT" \in reasons
    /\ receipt # NoReceipt => AllButFlagsVerify(receipt)
    /\ RejectedOnlyForFlags

LEMMA RejectInitInv == Init => RejectInv
<1> SUFFICES ASSUME Init PROVE RejectInv
  OBVIOUS
<1>1. /\ launched = <<>> /\ Len(launched) = 0
      /\ reasons = {} /\ global_status = "COMPLETED" /\ receipt = NoReceipt /\ pc = "start"
  BY DEF Init
<1> QED BY <1>1 DEF RejectInv, Statuses, RejectedOnlyForFlags

LEMMA CompletedFlags ==
    ASSUME NEW e \in Results, e.termination_reason = "completed"
    PROVE  FlagsMatchTermination(e)
BY DEF Results, JudgedAs, FailedWith, FlagsMatchTermination

LEMMA SetupFailureCode ==
    ASSUME NEW e \in Results, e.termination_reason = "setup_failure"
    PROVE  e.setup_reason_code \in CodeSet
<1>1. e.setup_reason_code \in
         EarlyCodes \cup {"CONTAINER_RUNTIME_FAILURE", "CONTAINER_FINAL_STATE_UNATTESTED",
                          "OUTPUT_CAPTURE_INCOMPLETE"}
  BY DEF Results, JudgedAs, FailedWith
<1>2. {Codes[1], Codes[2], Codes[3], Codes[4], Codes[5], Codes[6], Codes[9]} \subseteq CodeSet
  BY DEF CodeSet
<1> QED BY <1>1, <1>2, CodesAre DEF EarlyCodes

\* A step asks for something, so its witness has a check.
LEMMA WitnessIsVerified ==
    ASSUME NEW e \in Results, NEW seen \in BOOLEAN, NextStep \in PlanSteps
    PROVE  WitnessVerifies(Witness(e, seen))
<1> DEFINE checks == (IF NextStep.exit_code # NoExit
                      THEN {e.exit_code = NextStep.exit_code} ELSE {})
                \cup (IF NextStep.output THEN {seen} ELSE {})
<1>1. Witness(e, seen) = [checks |-> checks, matched |-> AllTrue(checks)]
  BY DEF Witness
<1>2. checks # {}
  BY DEF PlanSteps
<1> HIDE DEF checks
<1>3. Witness(e, seen).checks = checks
  BY <1>1
<1>4. Witness(e, seen).matched = AllTrue(checks)
  BY <1>1
<1>5. Witness(e, seen).matched = AllTrue(Witness(e, seen).checks)
  BY <1>3, <1>4, Zenon
<1> QED BY <1>2, <1>3, <1>5, Zenon DEF WitnessVerifies

LEMMA QuietRejectInv ==
    ASSUME ReproductionInv, RejectInv,
           Skip \/ PlanRefused \/ StepWorkdirInvalid \/ StepWorkdirRaises \/ StepsEnd
             \/ IdentityRaises \/ HostChangesSnapshot \/ UNCHANGED vars
    PROVE  RejectInv'
<1>1. /\ UNCHANGED <<launched, receipt>>
      /\ pc' \in {"start", "steps"} => pc' = pc
      /\ pc' = "rejected" => pc = "rejected"
      /\ \/ UNCHANGED <<reasons, global_status>>
         \/ reasons' = reasons \cup {"STEP_WORKDIR_INVALID"} /\ global_status' = "UNSUPPORTED"
  BY DEF Skip, PlanRefused, StepWorkdirInvalid, StepWorkdirRaises, StepsEnd, IdentityRaises,
         HostChangesSnapshot, vars
<1>2. "STEP_WORKDIR_INVALID" \in CodeSet
  <2>1. Codes[16] \in CodeSet
    BY DEF CodeSet
  <2> QED BY <2>1, CodesAre
<1>3. AllButFlagsVerify(receipt)' <=> AllButFlagsVerify(receipt)
  BY <1>1 DEF AllButFlagsVerify, ReceiptHeadVerifies, QualificationVerifies, StepReceipt, Cleanup
<1>4. RejectedOnlyForFlags'
  BY <1>1 DEF RejectInv, RejectedOnlyForFlags, FlagsMatchTermination, Last
<1>5. \A i \in 1..Len(launched)' :
         /\ WitnessVerifies(launched'[i].witness)
         /\ i < Len(launched') \/ pc' \in {"start", "steps"} =>
               launched'[i].execution.termination_reason = "completed"
  BY <1>1 DEF RejectInv
<1>6. /\ reasons' \subseteq CodeSet
      /\ global_status' \in Statuses
      /\ global_status' = "TIMED_OUT" => "REPRODUCTION_TIMEOUT" \in reasons'
      /\ global_status' = "OUTPUT_LIMIT" => "REPRODUCTION_OUTPUT_LIMIT" \in reasons'
  BY <1>1, <1>2 DEF RejectInv, Statuses
<1>7. receipt' # NoReceipt => AllButFlagsVerify(receipt)'
  BY <1>1, <1>3 DEF RejectInv
<1> QED BY <1>4, <1>5, <1>6, <1>7 DEF RejectInv, WitnessVerifies

\* A receipt of what did not qualify has no steps.
LEMMA UnsupportedVerifies ==
    ASSUME NEW code, NEW cleaned, NEW image
    PROVE  AllButFlagsVerify(Unsupported(code, cleaned, image))
BY DEF AllButFlagsVerify, ReceiptHeadVerifies, QualificationVerifies, Unsupported, Statuses

LEMMA QualifyRejectInv ==
    ASSUME ReproductionInv, RejectInv, StatusFails \/ Qualify
    PROVE  RejectInv'
<1>1. /\ UNCHANGED <<launched, reasons, global_status>>
      /\ pc = "start" /\ pc' \in {"bundle", "steps"}
      /\ \/ UNCHANGED receipt
         \/ \E code, cleaned, image : receipt' = Unsupported(code, cleaned, image)
  <2>1. CASE StatusFails
    <3>1. PICK code \in StatusCodes :
             receipt' = Unsupported(code, FALSE, code = "IMAGE_DECLARED_VOLUMES_UNSUPPORTED")
      BY <2>1 DEF StatusFails
    <3>2. \E c, cleaned, image : receipt' = Unsupported(c, cleaned, image)
      BY <3>1, Zenon
    <3> QED BY <2>1, <3>2 DEF StatusFails
  <2>2. CASE Qualify
    <3>1. PICK e \in Results, probe \in BOOLEAN :
             IF Qualifies(e, probe)
             THEN pc' = "steps" /\ UNCHANGED receipt
             ELSE /\ pc' = "bundle"
                  /\ receipt' = Unsupported(
                       IF e.setup_reason_code # None THEN e.setup_reason_code
                                                     ELSE "SANDBOX_QUALIFICATION_FAILED",
                       e.remove_succeeded, TRUE)
      BY <2>2 DEF Qualify
    <3>2. \/ pc' = "steps" /\ UNCHANGED receipt
          \/ pc' = "bundle" /\ \E code, cleaned, image : receipt' = Unsupported(code, cleaned, image)
      BY <3>1, Zenon
    <3> QED BY <2>2, <3>2 DEF Qualify
  <2> QED BY <2>1, <2>2
<1>2. receipt' # NoReceipt => AllButFlagsVerify(receipt)'
  <2>1. CASE UNCHANGED receipt
    <3>1. receipt = NoReceipt
      BY <1>1 DEF ReproductionInv, ProgressInv
    <3> QED BY <2>1, <3>1
  <2>2. CASE \E code, cleaned, image : receipt' = Unsupported(code, cleaned, image)
    <3>1. AllButFlagsVerify(receipt')
      BY <2>2, UnsupportedVerifies
    <3> QED BY <1>1, <3>1
        DEF AllButFlagsVerify, ReceiptHeadVerifies, QualificationVerifies, StepReceipt, Cleanup
  <2> QED BY <1>1, <2>1, <2>2
<1> QED BY <1>1, <1>2 DEF RejectInv, WitnessVerifies, RejectedOnlyForFlags

\* The reasons of a step are codes, and one is the primary of its status.
LEMMA ReasonsOfStep ==
    ASSUME NEW e \in Results, NEW matched, global_status = "COMPLETED"
    PROVE  /\ ReasonsAfter(e, matched) \subseteq CodeSet
           /\ StatusAfter(e) \in Statuses
           /\ StatusAfter(e) = "TIMED_OUT" => "REPRODUCTION_TIMEOUT" \in ReasonsAfter(e, matched)
           /\ StatusAfter(e) = "OUTPUT_LIMIT" =>
                 "REPRODUCTION_OUTPUT_LIMIT" \in ReasonsAfter(e, matched)
<1>1. e.termination_reason \in {"completed", "timeout", "output_limit", "setup_failure"}
  BY ResultTerminations
<1>2. {Codes[8], Codes[11], Codes[12], Codes[13], Codes[14]} \subseteq CodeSet
  BY DEF CodeSet
<1>3. {"EXPLICIT_WITNESS_NOT_OBSERVED", "REPRODUCTION_OOM_KILLED", "REPRODUCTION_OUTPUT_LIMIT",
       "REPRODUCTION_TIMEOUT", "SANDBOX_CLEANUP_FAILED"} \subseteq CodeSet
  BY <1>2, CodesAre
<1>4. CASE e.termination_reason = "completed"
  BY <1>3, <1>4 DEF ReasonsAfter, StatusAfter, Statuses
<1>5. CASE e.termination_reason = "timeout"
  BY <1>3, <1>5 DEF ReasonsAfter, StatusAfter, Statuses
<1>6. CASE e.termination_reason = "output_limit"
  BY <1>3, <1>6 DEF ReasonsAfter, StatusAfter, Statuses
<1>7. CASE e.termination_reason = "setup_failure"
  BY <1>7, SetupFailureCode DEF ReasonsAfter, StatusAfter, Statuses
<1> QED BY <1>1, <1>4, <1>5, <1>6, <1>7

LEMMA RunStepRejectInv ==
    ASSUME ReproductionInv, RejectInv, RunStep
    PROVE  RejectInv'
<1>1. PICK e \in Results, seen \in BOOLEAN :
        /\ launched' = Append(launched, [execution |-> e, witness |-> Witness(e, seen)])
        /\ global_status' = StatusAfter(e)
        /\ reasons' = reasons \cup ReasonsAfter(e, Witness(e, seen).matched)
        /\ pc' = IF GoesOn(e) THEN "steps" ELSE "identity"
  BY DEF RunStep
<1>2. /\ pc = "steps" /\ Len(launched) < Len(plan) /\ global_status = "COMPLETED"
      /\ UNCHANGED receipt /\ receipt = NoReceipt
      /\ launched \in Seq(Launches) /\ plan \in Seq(PlanSteps)
  BY DEF RunStep, StepsLeft, ReproductionInv, ProgressInv, LaunchedInv
<1> DEFINE l == [execution |-> e, witness |-> Witness(e, seen)]
           n == Len(launched) + 1
<1>3. /\ l.execution = e /\ l.witness = Witness(e, seen)
      /\ launched' = Append(launched, l)
  BY <1>1
<1> HIDE DEF l
<1>4. /\ Len(launched') = n /\ launched'[n] = l
      /\ \A i \in 1..Len(launched) : launched'[i] = launched[i]
  BY <1>2, <1>3
<1>5. WitnessVerifies(l.witness)
  <2>1. NextStep \in PlanSteps
    BY <1>2 DEF NextStep
  <2> QED BY <1>3, <2>1, WitnessIsVerified
<1>6. ASSUME NEW i \in 1..Len(launched')
      PROVE  /\ WitnessVerifies(launched'[i].witness)
             /\ i < Len(launched') \/ pc' \in {"start", "steps"} =>
                   launched'[i].execution.termination_reason = "completed"
  <2>1. CASE i = n
    <3>1. pc' \in {"start", "steps"} => e.termination_reason = "completed"
      BY <1>1 DEF GoesOn
    <3> QED BY <1>2, <1>3, <1>4, <1>5, <2>1, <3>1
  <2>2. CASE i \in 1..Len(launched)
    BY <1>2, <1>4, <2>2 DEF RejectInv
  <2> QED BY <1>2, <1>4, <2>1, <2>2
<1>7. /\ reasons' \subseteq CodeSet
      /\ global_status' \in Statuses
      /\ global_status' = "TIMED_OUT" => "REPRODUCTION_TIMEOUT" \in reasons'
      /\ global_status' = "OUTPUT_LIMIT" => "REPRODUCTION_OUTPUT_LIMIT" \in reasons'
  BY <1>1, <1>2, ReasonsOfStep DEF RejectInv
<1>8. RejectedOnlyForFlags'
  BY <1>1 DEF RejectedOnlyForFlags
<1> QED BY <1>2, <1>6, <1>7, <1>8 DEF RejectInv, WitnessVerifies

\* The report has the head that its verifier asks for.
LEMMA ReportVerifies ==
    ASSUME ReproductionInv, RejectInv, NEW after
    PROVE  AllButFlagsVerify(Report(after))
<1> DEFINE seen == reasons \cup (IF after # "declared" THEN {"REPOSITORY_CHANGED"} ELSE {})
           codes == IF seen = {} THEN {"EXECUTION_COMPLETED"} ELSE seen
           primary == CASE global_status = "TIMED_OUT" -> "REPRODUCTION_TIMEOUT"
                        [] global_status = "OUTPUT_LIMIT" -> "REPRODUCTION_OUTPUT_LIMIT"
                        [] OTHER -> First(codes)
           r == Report(after)
<1>1. codes \subseteq CodeSet /\ codes # {}
  <2>1. Codes[7] \in CodeSet /\ Codes[10] \in CodeSet
    BY DEF CodeSet
  <2> QED BY <2>1, CodesAre DEF RejectInv
<1>2. reasons # {} => codes = seen
  OBVIOUS
<1>3. primary \in codes
  <2>1. CASE global_status = "TIMED_OUT"
    BY <1>2, <2>1 DEF RejectInv
  <2>2. CASE global_status = "OUTPUT_LIMIT"
    BY <1>2, <2>2 DEF RejectInv
  <2>3. CASE global_status \notin {"TIMED_OUT", "OUTPUT_LIMIT"}
    <3>1. First(codes) \in codes
      <4> HIDE DEF codes
      <4> QED BY <1>1, FirstIs
    <3> QED BY <2>3, <3>1
  <2> QED BY <2>1, <2>2, <2>3
<1>4. /\ r.status = global_status /\ r.reason_code = primary /\ r.reason_codes = codes
      /\ r.qualified = TRUE /\ r.qualification = TRUE /\ r.image_id = TRUE
      /\ r.attempted = (launched # <<>>)
      /\ r.steps = [i \in DOMAIN launched |-> StepReceipt(launched[i])]
      /\ r.step_cleanup = Cleanup(launched)
  BY DEF Report
<1> HIDE DEF codes, primary, r
<1>5. ReceiptHeadVerifies(r)
  BY <1>1, <1>3, <1>4 DEF ReceiptHeadVerifies, RejectInv
<1>6. QualificationVerifies(r)
  BY <1>4 DEF QualificationVerifies
<1>7. AllButFlagsVerify(r)
  BY <1>4, <1>5, <1>6 DEF AllButFlagsVerify
<1> QED BY <1>7 DEF r

LEMMA IdentityRejectInv ==
    ASSUME ReproductionInv, RejectInv, Identity
    PROVE  RejectInv'
<1>1. /\ UNCHANGED <<launched, reasons, global_status>>
      /\ pc' = "bundle"
      /\ receipt' = Report(snapshot)
  BY DEF Identity
<1>2. AllButFlagsVerify(receipt')
  BY <1>1, ReportVerifies
<1>3. AllButFlagsVerify(receipt)'
  BY <1>1, <1>2
     DEF AllButFlagsVerify, ReceiptHeadVerifies, QualificationVerifies, StepReceipt, Cleanup
<1> QED BY <1>1, <1>3 DEF RejectInv, WitnessVerifies, RejectedOnlyForFlags

\* If the flags of the last step are right, those of all steps are.
LEMMA StepsVerify ==
    ASSUME ReproductionInv, RejectInv, receipt # NoReceipt,
           launched # <<>> => FlagsMatchTermination(Last(launched).execution)
    PROVE  ReceiptStepsVerify(receipt)
<1>1. launched \in Seq(Launches)
  BY DEF ReproductionInv, LaunchedInv
<1>2. CASE receipt.steps = <<>> /\ receipt.step_cleanup = <<>>
  BY <1>2 DEF ReceiptStepsVerify
<1>3. CASE /\ receipt.steps = [i \in DOMAIN launched |-> StepReceipt(launched[i])]
           /\ receipt.step_cleanup = Cleanup(launched)
  <2>1. DOMAIN launched = 1..Len(launched)
    BY <1>1
  <2>2. /\ DOMAIN receipt.steps = 1..Len(launched)
        /\ Len(receipt.step_cleanup) = Len(receipt.steps)
    BY <1>1, <1>3, <2>1 DEF Cleanup
  <2>3. ASSUME NEW i \in 1..Len(launched)
        PROVE  FlagsMatchTermination(launched[i].execution)
    <3>1. launched[i].execution \in Results
      <4>1. launched[i] \in Launches
        BY <1>1
      <4> QED BY <4>1 DEF Launches
    <3>2. CASE i < Len(launched)
      BY <3>1, <3>2, CompletedFlags DEF RejectInv
    <3>3. CASE i = Len(launched)
      BY <1>1, <3>3 DEF Last
    <3> QED BY <1>1, <3>2, <3>3
  <2>4. ASSUME NEW i \in DOMAIN receipt.steps
        PROVE  /\ FlagsMatchTermination(receipt.steps[i])
               /\ WitnessVerifies(receipt.steps[i].witness)
    <3>1. receipt.steps[i] = StepReceipt(launched[i]) /\ i \in 1..Len(launched)
      BY <1>3, <2>1, <2>2
    <3>2. /\ receipt.steps[i].timed_out = launched[i].execution.timed_out
          /\ receipt.steps[i].output_limit_exceeded = launched[i].execution.output_limit_exceeded
          /\ receipt.steps[i].termination_reason = launched[i].execution.termination_reason
          /\ receipt.steps[i].witness = launched[i].witness
      BY <3>1 DEF StepReceipt
    <3> QED BY <2>3, <3>1, <3>2 DEF FlagsMatchTermination, RejectInv
  <2> QED BY <2>2, <2>4 DEF ReceiptStepsVerify
<1> QED BY <1>2, <1>3 DEF RejectInv, AllButFlagsVerify

LEMMA BundleRejectInv ==
    ASSUME ReproductionInv, RejectInv, Bundle
    PROVE  RejectInv'
<1>1. /\ UNCHANGED <<launched, reasons, global_status, receipt>>
      /\ pc' \in {"published", "rejected"}
  BY DEF Bundle
<1>2. PICK set \in CandidateSets :
         pc' = "rejected" => ~BundleVerifies(BuildEvidenceBundle(set))
  BY DEF Bundle
<1> DEFINE b == BuildEvidenceBundle(set)
<1>3. /\ b.candidates = set.listed
      /\ b.ranking = [considered |-> set.considered, emitted |-> set.listed,
                      abstention |-> set.abstention, signal |-> set.abstention = None]
      /\ b.telemetry = [considered |-> set.considered, emitted |-> set.listed,
                        steps |-> IF receipt = NoReceipt THEN 0 ELSE Len(receipt.steps)]
      /\ b.classification = Classify(receipt)
      /\ b.receipts = IF receipt = NoReceipt THEN <<>> ELSE <<receipt>>
  BY DEF BuildEvidenceBundle
<1>4. /\ b.attempted = (receipt # NoReceipt /\ receipt.attempted)
      /\ b.sandbox_qualified = (receipt # NoReceipt /\ receipt.qualified)
  BY DEF BuildEvidenceBundle
<1> HIDE DEF b
<1>5. RankingVerifies(b)
  <2>1. /\ set.listed \in Nat /\ set.considered \in Nat /\ set.listed <= set.considered
        /\ set.abstention \in Abstentions \cup {None}
        /\ set.abstention = None <=> set.listed > 0
    BY StepsAssumption DEF CandidateSets
  <2>2. /\ b.ranking.emitted = set.listed /\ b.ranking.considered = set.considered
        /\ b.ranking.abstention = set.abstention
    BY <1>3
  <2> DEFINE signal == set.abstention = None
  <2>3. b.ranking.signal = signal
    <3>1. b.ranking = [considered |-> set.considered, emitted |-> set.listed,
                       abstention |-> set.abstention, signal |-> signal]
      BY <1>3
    <3> HIDE DEF signal
    <3> QED BY <3>1
  <2> QED BY <1>3, <2>1, <2>2, <2>3 DEF RankingVerifies
<1>6. /\ receipt = NoReceipt => b.receipts = <<>>
      /\ receipt # NoReceipt => b.receipts # <<>> /\ Head(b.receipts) = receipt /\ Len(b.receipts) = 1
  <2>1. CASE receipt = NoReceipt
    BY <1>3, <2>1
  <2>2. CASE receipt # NoReceipt
    <3>1. b.receipts = <<receipt>>
      BY <1>3, <2>2
    <3>2. <<receipt>> # <<>> /\ Head(<<receipt>>) = receipt /\ Len(<<receipt>>) = 1
      OBVIOUS
    <3> QED BY <2>2, <3>1, <3>2
  <2> QED BY <2>1, <2>2
<1>7. TelemetryVerifies(b)
  BY <1>3, <1>6 DEF TelemetryVerifies
<1>8. ASSUME launched # <<>> => FlagsMatchTermination(Last(launched).execution)
      PROVE  ReproductionVerifies(b)
  <2>1. CASE receipt = NoReceipt
    BY <1>4, <1>6, <2>1 DEF ReproductionVerifies
  <2>2. CASE receipt # NoReceipt
    <3>1. Verifies(receipt)
      BY <1>8, <2>2, StepsVerify DEF RejectInv, AllButFlagsVerify, Verifies
    <3>2. receipt.attempted \in BOOLEAN /\ receipt.qualified \in BOOLEAN
      BY <2>2 DEF RejectInv, AllButFlagsVerify
    <3>3. b.attempted = receipt.attempted /\ b.sandbox_qualified = receipt.qualified
      BY <1>4, <2>2, <3>2
    <3> QED BY <1>6, <2>2, <3>1, <3>3 DEF ReproductionVerifies
  <2> QED BY <2>1, <2>2
<1>9. b.classification = (IF b.receipts = <<>> THEN "INSUFFICIENT_EVIDENCE"
                          ELSE Classify(Head(b.receipts)))
  <2>1. CASE receipt = NoReceipt
    <3>1. Classify(receipt) = "INSUFFICIENT_EVIDENCE"
      BY <2>1 DEF Classify, NoReceipt, None
    <3> QED BY <1>3, <1>6, <2>1, <3>1
  <2>2. CASE receipt # NoReceipt
    BY <1>3, <1>6, <2>2
  <2> QED BY <2>1, <2>2
<1>10. RejectedOnlyForFlags'
  <2> SUFFICES ASSUME pc' = "rejected"
               PROVE  launched # <<>> /\ ~FlagsMatchTermination(Last(launched).execution)
    BY <1>1 DEF RejectedOnlyForFlags, FlagsMatchTermination, Last
  <2>1. ~BundleVerifies(b)
    BY <1>2 DEF b
  <2> QED BY <1>5, <1>7, <1>8, <1>9, <2>1 DEF BundleVerifies
<1>11. AllButFlagsVerify(receipt)' <=> AllButFlagsVerify(receipt)
  BY <1>1 DEF AllButFlagsVerify, ReceiptHeadVerifies, QualificationVerifies, StepReceipt, Cleanup
<1> QED BY <1>1, <1>10, <1>11 DEF RejectInv, WitnessVerifies

\* A bundle that trace_repository builds is rejected for nothing but the two limit flags of
\* the last step that was launched.
THEOREM RejectedForFlags == Spec => []RejectedOnlyForFlags
<1>1. ReproductionInv /\ RejectInv /\ [Next]_vars => RejectInv'
  BY QuietRejectInv, QualifyRejectInv, RunStepRejectInv, IdentityRejectInv, BundleRejectInv
     DEF Next, Trace
<1>2. RejectInv => RejectedOnlyForFlags
  BY DEF RejectInv
<1> QED BY <1>1, <1>2, RejectInitInv, ReproductionInvariant, PTL DEF Spec
=============================================================================
