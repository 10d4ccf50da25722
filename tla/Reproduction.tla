---------------------------- MODULE Reproduction ----------------------------
(***************************************************************************)
(* The reproduction of one finding and the evidence made of it:            *)
(* DockerSandbox.run qualifies the sandbox and executes the steps of the   *)
(* plan, one container each; reporting.py classifies the receipt, bundles  *)
(* it with the shortlist and the index summary, and verifies the bundle    *)
(* again before it is projected into SARIF and published.                  *)
(*                                                                         *)
(* What one container does is a member of Results, which ContainerExecution*)
(* implements.  The snapshot is a private copy, but a host process may     *)
(* change it at any time, back included.                                   *)
(***************************************************************************)
EXTENDS ExecutionResult, Sequences, SequencesExt

CONSTANTS
    MaxSteps,       \* bound on the steps of a plan; the code allows 64
    MaxConsidered   \* bound on the candidates that were ranked

ASSUME StepsAssumption == MaxSteps \in Nat \ {0} /\ MaxConsidered \in Nat

VARIABLES
    pc,             \* where run, and then trace_repository, is
    requested,      \* a plan was supplied
    plan,           \* each step: what its cwd is in the declared snapshot, and its predicates
    snapshot,       \* the content of the snapshot, against the declared identity
    qualification,  \* the execution of the qualification container
    launched,       \* one [execution, witness] for each step container
    global_status,
    reasons,
    receipt,
    outcome,        \* the outcome classify_evidence gave
    sarif           \* the kind and the number of locations of the SARIF result

vars == <<pc, requested, plan, snapshot, qualification, launched,
          global_status, reasons, receipt, outcome, sarif>>

Workdirs == {"directory", "missing", "below_a_file"}
Snapshots == {"declared", "changed", "unreadable"}
Statuses == {"COMPLETED", "TIMED_OUT", "OUTPUT_LIMIT", "UNSUPPORTED"}

\* Every reason code run may give a receipt, in the order sorted() gives them.
Codes == <<"CONTAINER_CREATE_FAILED", "CONTAINER_FINAL_STATE_UNATTESTED",
           "CONTAINER_INSPECT_FAILED", "CONTAINER_INSPECT_INVALID",
           "CONTAINER_POLICY_MISMATCH", "CONTAINER_RUNTIME_FAILURE",
           "EXECUTION_COMPLETED", "EXPLICIT_WITNESS_NOT_OBSERVED",
           "OUTPUT_CAPTURE_INCOMPLETE", "REPOSITORY_CHANGED", "REPRODUCTION_OOM_KILLED",
           "REPRODUCTION_OUTPUT_LIMIT", "REPRODUCTION_TIMEOUT", "SANDBOX_CLEANUP_FAILED",
           "SANDBOX_QUALIFICATION_FAILED", "STEP_WORKDIR_INVALID">>

First(codes) ==
    Codes[CHOOSE i \in DOMAIN Codes : Codes[i] \in codes /\ \A j \in 1..(i - 1) : Codes[j] \notin codes]

\* load_reproduction_plan accepts a plan with a step at least, and each of its steps
\* has a predicate: on the exit code, on the output, or both.
PlanSteps ==
    {s \in [cwd : Workdirs, exit_code : {NoExit, 0}, output : BOOLEAN] :
        s.exit_code # NoExit \/ s.output}

Plans == UNION {[1..n -> PlanSteps] : n \in 1..MaxSteps}

NoReceipt == [status |-> None]
NoSarif == [kind |-> None, locations |-> 0]

Init ==
    /\ pc = "start"
    /\ requested \in BOOLEAN
    /\ plan \in IF requested THEN Plans ELSE {<<>>}
    /\ snapshot = "declared"
    /\ qualification = NoExecution
    /\ launched = <<>>
    /\ global_status = "COMPLETED"
    /\ reasons = {}
    /\ receipt = NoReceipt
    /\ outcome = None
    /\ sarif = NoSarif

-----------------------------------------------------------------------------
(* The receipt, verify_reproduction_receipt and classify_evidence.         *)

StepReceipt(l) ==
    [exit_code |-> l.execution.exit_code,
     termination_reason |-> l.execution.termination_reason,
     timed_out |-> l.execution.timed_out,
     output_limit_exceeded |-> l.execution.output_limit_exceeded,
     oom_killed |-> l.execution.oom_killed,
     witness |-> l.witness]

\* Mutation: cleanup is recorded for the containers that completed only.
CleanupOfCompleted(ls) ==
    LET done == SelectSeq(ls, LAMBDA l : l.execution.termination_reason = "completed")
    IN [i \in DOMAIN done |-> done[i].execution.remove_succeeded]

Cleanup(ls) == [i \in DOMAIN ls |-> ls[i].execution.remove_succeeded]

\* What _unsupported returns: nothing of the plan was attempted.  A cleanup flag
\* of None counts as FALSE.
Unsupported(code, cleaned, image) ==
    [status |-> "UNSUPPORTED", reason_code |-> code, reason_codes |-> {code},
     attempted |-> FALSE, after |-> "declared", qualified |-> FALSE,
     qualification |-> FALSE, image_id |-> image,
     steps |-> <<>>, qualification_cleanup_verified |-> cleaned, step_cleanup |-> <<>>,
     setup_reason_code |-> code]

\* What run returns at its end; after is the identity it recomputed.
Report(after) ==
    LET seen == reasons \cup (IF after # "declared" THEN {"REPOSITORY_CHANGED"} ELSE {})
        codes == IF seen = {} THEN {"EXECUTION_COMPLETED"} ELSE seen
        primary == CASE global_status = "TIMED_OUT" -> "REPRODUCTION_TIMEOUT"
                     [] global_status = "OUTPUT_LIMIT" -> "REPRODUCTION_OUTPUT_LIMIT"
                     [] OTHER -> First(codes)
    IN [status |-> global_status, reason_code |-> primary, reason_codes |-> codes,
        attempted |-> launched # <<>>, after |-> after, qualified |-> TRUE,
        qualification |-> TRUE, image_id |-> TRUE,
        steps |-> [i \in DOMAIN launched |-> StepReceipt(launched[i])],
        qualification_cleanup_verified |-> qualification.remove_succeeded,
        step_cleanup |-> Cleanup(launched),
        setup_reason_code |-> IF global_status = "COMPLETED" THEN None ELSE primary]

\* verify_reproduction_receipt, as far as a receipt that run built can fail it.
ReceiptHeadVerifies(r) ==
    /\ r.status \in Statuses
    /\ r.reason_codes # {}
    /\ r.reason_code \in r.reason_codes
    /\ r.qualified => r.image_id

AllTrue(checks) == checks # {} /\ FALSE \notin checks

WitnessVerifies(w) == w.checks # {} /\ w.matched = AllTrue(w.checks)

ReceiptStepsVerify(r) ==
    /\ \A i \in DOMAIN r.steps :
        FlagsMatchTermination(r.steps[i]) /\ WitnessVerifies(r.steps[i].witness)
    /\ Len(r.step_cleanup) = Len(r.steps)

\* The record of the qualification is there exactly if the sandbox is qualified.
QualificationVerifies(r) ==
    /\ r.qualification = r.qualified
    /\ r.qualification => r.image_id

Verifies(r) == ReceiptHeadVerifies(r) /\ ReceiptStepsVerify(r) /\ QualificationVerifies(r)

StepCompleted(s) ==
    /\ s.termination_reason = "completed"
    /\ ~s.timed_out
    /\ ~s.output_limit_exceeded
    /\ ~s.oom_killed

\* classify_evidence leaves no reason to abstain.
Confirms(r) ==
    /\ r.status = "COMPLETED"
    /\ r.reason_codes = {"EXECUTION_COMPLETED"}
    /\ r.attempted
    /\ r.qualified
    /\ r.qualification
    /\ r.after = "declared"
    /\ r.steps # <<>>
    /\ \A i \in DOMAIN r.steps :
        /\ StepCompleted(r.steps[i])
        /\ WitnessVerifies(r.steps[i].witness) /\ r.steps[i].witness.matched
    /\ r.qualification_cleanup_verified
    /\ Len(r.step_cleanup) = Len(r.steps)
    /\ \A i \in DOMAIN r.step_cleanup : r.step_cleanup[i]

Classify(r) ==
    CASE r = NoReceipt -> "INSUFFICIENT_EVIDENCE"
      [] r.status = "UNSUPPORTED" -> "UNSUPPORTED"
      [] OTHER -> IF Confirms(r) THEN "CONFIRMED" ELSE "INSUFFICIENT_EVIDENCE"

-----------------------------------------------------------------------------
(* DockerSandbox.run.                                                      *)

Skip ==
    /\ pc = "start"
    /\ ~requested
    /\ pc' = "bundle"
    /\ UNCHANGED <<requested, plan, snapshot, qualification, launched,
                   global_status, reasons, receipt, outcome, sarif>>

\* A plan that is not JSON, has a field too many, a limit out of range or a step without a
\* predicate is an InputError.
PlanRefused ==
    /\ pc = "start"
    /\ requested
    /\ pc' = "raised"
    /\ UNCHANGED <<requested, plan, snapshot, qualification, launched,
                   global_status, reasons, receipt, outcome, sarif>>

\* _local_endpoint: the engine must be on this machine.
EndpointCodes == {"ENGINE_NOT_FOUND", "ENGINE_STATUS_TIMEOUT", "ENGINE_ENDPOINT_UNRESOLVED",
                  "LOCAL_ENGINE_ENDPOINT_REQUIRED"}

\* status(): it must answer, run Linux, and have the image by its digest.
StatusCodes == EndpointCodes \cup
    {"ENGINE_UNAVAILABLE", "ENGINE_STATUS_INVALID", "LINUX_CONTAINERS_REQUIRED",
     "IMAGE_REFERENCE_NOT_IMMUTABLE", "IMAGE_INSPECT_TIMEOUT", "LOCAL_IMAGE_NOT_FOUND",
     "IMAGE_INSPECT_INVALID", "IMAGE_ID_INVALID", "IMAGE_DECLARED_VOLUMES_UNSUPPORTED"}

\* The image is known only if its volumes are what is wrong.
StatusFails ==
    /\ pc = "start"
    /\ requested
    /\ \E code \in StatusCodes :
        receipt' = Unsupported(code, FALSE, code = "IMAGE_DECLARED_VOLUMES_UNSUPPORTED")
    /\ pc' = "bundle"
    /\ UNCHANGED <<requested, plan, snapshot, qualification, launched,
                   global_status, reasons, outcome, sarif>>

\* The probe saw everything it has to: the marker and uid 65532 are in `probe`.
Qualifies(e, probe) ==
    /\ e.termination_reason = "completed"
    /\ e.exit_code = 0
    /\ e.policy_verified
    /\ probe
    /\ e.remove_succeeded

Qualify ==
    /\ pc = "start"
    /\ requested
    /\ \E e \in Results, probe \in BOOLEAN :
         /\ qualification' = e
         /\ IF Qualifies(e, probe)
            THEN pc' = "steps" /\ UNCHANGED receipt
            ELSE /\ pc' = "bundle"
                 /\ receipt' = Unsupported(
                      IF e.setup_reason_code # None THEN e.setup_reason_code
                                                    ELSE "SANDBOX_QUALIFICATION_FAILED",
                      e.remove_succeeded, TRUE)
    /\ UNCHANGED <<requested, plan, snapshot, launched, global_status, reasons, outcome, sarif>>

\* Mutation: the loop ends before the last step.
StepsLeftButOne == Len(launched) + 1 < Len(plan)

StepsLeft == Len(launched) < Len(plan)

\* What resolving the next cwd finds: a snapshot that changed may hold anything.
NextStep == plan[Len(launched) + 1]
Resolved == IF snapshot = "declared" THEN {NextStep.cwd} ELSE Workdirs

\* _witness: the checks that were asked for; what the output shows is in `seen`.
Witness(e, seen) ==
    LET checks == (IF NextStep.exit_code # NoExit
                   THEN {e.exit_code = NextStep.exit_code} ELSE {})
             \cup (IF NextStep.output THEN {seen} ELSE {})
    IN [checks |-> checks, matched |-> AllTrue(checks)]

StatusAfter(e) ==
    CASE e.termination_reason = "timeout" -> "TIMED_OUT"
      [] e.termination_reason = "output_limit" -> "OUTPUT_LIMIT"
      [] e.termination_reason = "setup_failure" -> "UNSUPPORTED"
      [] OTHER -> global_status

ReasonsAfter(e, matched) ==
    CASE e.termination_reason = "timeout" -> {"REPRODUCTION_TIMEOUT"}
      [] e.termination_reason = "output_limit" -> {"REPRODUCTION_OUTPUT_LIMIT"}
      [] e.termination_reason = "setup_failure" -> {e.setup_reason_code}
      [] OTHER -> (IF e.oom_killed THEN {"REPRODUCTION_OOM_KILLED"} ELSE {})
             \cup (IF e.remove_succeeded THEN {} ELSE {"SANDBOX_CLEANUP_FAILED"})
             \cup (IF matched THEN {} ELSE {"EXPLICIT_WITNESS_NOT_OBSERVED"})

GoesOn(e) == e.termination_reason = "completed"

RunStep ==
    /\ pc = "steps"
    /\ StepsLeft
    /\ "directory" \in Resolved
    /\ \E e \in Results, seen \in BOOLEAN :
         /\ launched' = Append(launched, [execution |-> e, witness |-> Witness(e, seen)])
         /\ global_status' = StatusAfter(e)
         /\ reasons' = reasons \cup ReasonsAfter(e, Witness(e, seen).matched)
         /\ pc' = IF GoesOn(e) THEN "steps" ELSE "identity"
    /\ UNCHANGED <<requested, plan, snapshot, qualification, receipt, outcome, sarif>>

StepWorkdirInvalid ==
    /\ pc = "steps"
    /\ StepsLeft
    /\ "missing" \in Resolved
    /\ reasons' = reasons \cup {"STEP_WORKDIR_INVALID"}
    /\ global_status' = "UNSUPPORTED"
    /\ pc' = "identity"
    /\ UNCHANGED <<requested, plan, snapshot, qualification, launched, receipt, outcome, sarif>>

\* resolve(strict=True) of a path below a regular file raises NotADirectoryError,
\* which run does not catch.
StepWorkdirRaises ==
    /\ pc = "steps"
    /\ StepsLeft
    /\ "below_a_file" \in Resolved
    /\ pc' = "raised"
    /\ UNCHANGED <<requested, plan, snapshot, qualification, launched,
                   global_status, reasons, receipt, outcome, sarif>>

StepsEnd ==
    /\ pc = "steps"
    /\ ~StepsLeft
    /\ pc' = "identity"
    /\ UNCHANGED <<requested, plan, snapshot, qualification, launched,
                   global_status, reasons, receipt, outcome, sarif>>

\* compute_repository_identity reads the snapshot again.
Identity ==
    /\ pc = "identity"
    /\ snapshot # "unreadable"
    /\ receipt' = Report(snapshot)
    /\ pc' = "bundle"
    /\ UNCHANGED <<requested, plan, snapshot, qualification, launched,
                   global_status, reasons, outcome, sarif>>

\* A link or a special file in the snapshot: an error of repository_manifest.
IdentityRaises ==
    /\ pc = "identity"
    /\ snapshot = "unreadable"
    /\ pc' = "raised"
    /\ UNCHANGED <<requested, plan, snapshot, qualification, launched,
                   global_status, reasons, receipt, outcome, sarif>>

-----------------------------------------------------------------------------
(* build_evidence_bundle, verify_evidence_bundle and export_sarif.         *)

Abstentions == {"NO_POSITIVE_FINDING_GUIDED_SIGNAL", "CANDIDATE_GENERATION_TRUNCATED"}

\* What project_localization_candidates returns (Localization): it abstains, or it lists
\* candidates, no more than were ranked.
CandidateSets ==
    {c \in [considered : 0..MaxConsidered, listed : 0..MaxConsidered,
            abstention : Abstentions \cup {None}] :
        /\ c.listed <= c.considered
        /\ c.abstention = None <=> c.listed > 0}

BuildEvidenceBundle(set) ==
    [requested |-> requested,
     attempted |-> receipt # NoReceipt /\ receipt.attempted,
     receipts |-> IF receipt = NoReceipt THEN <<>> ELSE <<receipt>>,
     sandbox_qualified |-> receipt # NoReceipt /\ receipt.qualified,
     candidates |-> set.listed,
     ranking |-> [considered |-> set.considered, emitted |-> set.listed,
                  abstention |-> set.abstention,
                  signal |-> set.abstention = None],
     telemetry |-> [considered |-> set.considered, emitted |-> set.listed,
                    steps |-> IF receipt = NoReceipt THEN 0 ELSE Len(receipt.steps)],
     classification |-> Classify(receipt)]

\* The ranking summary and the candidates tell the same story.
RankingVerifies(b) ==
    /\ b.ranking.emitted = b.candidates
    /\ b.ranking.considered >= b.candidates
    /\ b.ranking.abstention \in Abstentions \cup {None}
    /\ b.ranking.abstention = None <=> b.candidates > 0
    /\ b.ranking.signal <=> b.ranking.abstention = None

\* A bundle has one receipt at most, and says of the reproduction what the receipt says.
ReproductionVerifies(b) ==
    IF b.receipts = <<>> THEN ~b.attempted ELSE
        LET r == Head(b.receipts)
        IN /\ Len(b.receipts) = 1
           /\ Verifies(r)
           /\ b.sandbox_qualified = r.qualified
           /\ b.attempted = r.attempted

TelemetryVerifies(b) ==
    /\ b.telemetry.emitted = b.candidates /\ b.telemetry.emitted = b.ranking.emitted
    /\ b.telemetry.considered = b.ranking.considered
    /\ b.telemetry.steps = (IF b.receipts = <<>> THEN 0 ELSE Len(Head(b.receipts).steps))

BundleVerifies(b) ==
    /\ RankingVerifies(b)
    /\ ReproductionVerifies(b)
    /\ TelemetryVerifies(b)
    /\ b.classification = (IF b.receipts = <<>> THEN "INSUFFICIENT_EVIDENCE"
                           ELSE Classify(Head(b.receipts)))

\* One result, with the first candidate as its location and the others related to it.
ExportSarif(b) ==
    [kind |-> IF b.classification = "CONFIRMED" THEN "fail" ELSE "informational",
     locations |-> b.candidates]

\* trace_repository exports what it has built, and publishes both.
Bundle ==
    /\ pc = "bundle"
    /\ \E set \in CandidateSets :
        LET b == BuildEvidenceBundle(set)
        IN /\ outcome' = b.classification
           /\ IF BundleVerifies(b)
              THEN pc' = "published" /\ sarif' = ExportSarif(b)
              ELSE pc' = "rejected" /\ UNCHANGED sarif
    /\ UNCHANGED <<requested, plan, snapshot, qualification, launched,
                   global_status, reasons, receipt>>

Trace ==
    \/ Skip \/ PlanRefused \/ StatusFails \/ Qualify
    \/ RunStep \/ StepWorkdirInvalid \/ StepWorkdirRaises \/ StepsEnd
    \/ Identity \/ IdentityRaises
    \/ Bundle

\* Until the identity was computed again: nothing reads the snapshot later.
HostChangesSnapshot ==
    /\ pc \in {"start", "steps", "identity"}
    /\ snapshot' \in Snapshots \ {snapshot}
    /\ UNCHANGED <<pc, requested, plan, qualification, launched,
                   global_status, reasons, receipt, outcome, sarif>>

Next == Trace \/ HostChangesSnapshot

Spec == Init /\ [][Next]_vars

-----------------------------------------------------------------------------
\* A CONFIRMED package, and a SARIF result that fails a scan, stand on what really ran: a
\* qualified sandbox that was removed; every step of the plan, none left out, each in a
\* container under the attested policy that completed, was not killed, ended as the plan
\* asks and is gone; and the declared content found again at the end
\* (reporting.py:185-191, sandbox.py:1309-1427).
ConfirmedSound ==
    pc = "published" /\ (outcome = "CONFIRMED" \/ sarif.kind = "fail") =>
        /\ requested
        /\ Qualifies(qualification, TRUE)
        /\ Len(launched) = Len(plan)
        /\ \A i \in DOMAIN launched :
             /\ AllTrue(launched[i].witness.checks)
             /\ plan[i].exit_code # NoExit => launched[i].execution.exit_code = plan[i].exit_code
             /\ launched[i].execution.termination_reason = "completed"
             /\ launched[i].execution.policy_verified
             /\ launched[i].execution.remove_succeeded
             /\ ~launched[i].execution.oom_killed
             /\ ~launched[i].execution.kill_attempted
        /\ receipt.after = "declared"

\* The bundle that trace_repository builds is rejected by nothing but the two limit flags of
\* the last step of its receipt, which contradict the termination of that step: never for
\* its ranking, its telemetry, its classification or the rest of its receipt
\* (reporting.py:336-610, sandbox.py:378-381).
RejectedOnlyForFlags ==
    pc = "rejected" =>
        /\ launched # <<>>
        /\ ~FlagsMatchTermination(Last(launched).execution)

=============================================================================
