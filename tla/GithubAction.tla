---------------------------- MODULE GithubAction ----------------------------
(***************************************************************************)
(* The composite action (action.yml) around a batch: the adapter           *)
(* (tools/github_action.py) runs `lumi-trace triage` (module Triage) in    *)
(* its own process, verifies the package it finds, loads it, decides, and  *)
(* writes a job summary and then its step outputs; later steps upload the  *)
(* package and apply the CI policy, whatever became of the earlier ones.   *)
(*                                                                         *)
(* Any write of the adapter may fail, and the outputs may then be there in *)
(* part; the adapter starts over once, as an adapter error.  A process of  *)
(* the job may write to the package once it is published.                  *)
(***************************************************************************)
EXTENDS Triage

VARIABLES
    apc,            \* where the action is; "none" if a user runs the batch
    asked,          \* the CI policy: fail_on_partial and fail_on_severity
    edited,         \* the package on disk is not what the batch published
    result,         \* what _finish is to report
    fallback,       \* it is called from an exception handler
    step_outputs,   \* GITHUB_OUTPUT: the last value of each key
    failed,         \* a step of the action has failed
    uploaded        \* the artifact

actionVars == <<apc, asked, edited, result, fallback, step_outputs, failed, uploaded>>
allVars == <<vars, actionVars>>

NoThreshold == -1
Unset == -1
NoOutputs == [exit_code |-> Unset, ready |-> FALSE]
Report(status, exit_code, ready) == [status |-> status, exit_code |-> exit_code, ready |-> ready]
NoPackageReport(status) == Report(status, 2, FALSE)

ActionInit ==
    /\ Init
    /\ apc \in {"none", "configure"}
    /\ asked = [fail_on_partial |-> TRUE, fail_on_severity |-> NoThreshold]
    /\ edited = FALSE
    /\ result = NoPackageReport("none")
    /\ fallback = FALSE
    /\ step_outputs = NoOutputs
    /\ failed = FALSE
    /\ uploaded = FALSE

\* A step of the adapter that leaves the batch alone.
Go(from, to) == apc = from /\ apc' = to /\ UNCHANGED <<vars, edited>>

Finishing(from, reported, handler) ==
    /\ Go(from, "summary")
    /\ result' = reported
    /\ fallback' = handler
    /\ UNCHANGED <<step_outputs, failed, uploaded>>

-----------------------------------------------------------------------------
(* main.                                                                   *)

Configure ==
    /\ Go("configure", "cli")
    /\ UNCHANGED <<asked, result, fallback, step_outputs, failed, uploaded>>

ConfigureFails ==
    /\ \E status \in {"input-error", "adapter-error"} :
           Finishing("configure", NoPackageReport(status), TRUE)
    /\ UNCHANGED asked

\* There is not even a file to report to: the process returns 2.
ConfigureFailsMutely ==
    /\ Go("configure", "upload")
    /\ failed' = TRUE
    /\ UNCHANGED <<asked, result, fallback, step_outputs, uploaded>>

CliFails ==
    /\ pc \in {"refused", "rejected", "raised"}
    /\ \/ Finishing("cli", NoPackageReport("fatal-error"), FALSE)
       \/ pc = "raised" /\ Finishing("cli", NoPackageReport("adapter-error"), TRUE)
    /\ UNCHANGED asked

\* verify_triage_package: an edited package may pass if its identities were made anew.
VerifyPackage ==
    /\ pc = "published"
    /\ Go("cli", "load")
    /\ UNCHANGED <<asked, result, fallback, step_outputs, failed, uploaded>>

VerifyOrLoadFails ==
    /\ pc = "published"
    /\ \E from \in {"cli", "load"} : Finishing(from, NoPackageReport("integrity-failure"), FALSE)
    /\ UNCHANGED asked

\* Mutation: the threshold itself does not trigger.
MeetsStrictly(severity, threshold) == severity < threshold

Meets(severity, threshold) == severity <= threshold

Triggered(findings, threshold) ==
    /\ threshold # NoThreshold
    /\ \E i \in DOMAIN findings : Meets(findings[i].severity, threshold)

Decision(partial, fail_on_partial, triggered) ==
    IF partial /\ fail_on_partial THEN Report("partial-failed", 5, TRUE)
    ELSE IF triggered THEN Report("policy-failed", 1, TRUE)
    ELSE IF partial THEN Report("partial-success", 0, TRUE)
    ELSE Report("complete", 0, TRUE)

\* The findings are those on disk by now, the exit code is that of the batch.
LoadAndDecide ==
    /\ pc = "published"
    /\ asked' \in [fail_on_partial : BOOLEAN, fail_on_severity : Severities \cup {NoThreshold}]
    /\ \E triggered \in IF edited /\ asked'.fail_on_severity # NoThreshold THEN BOOLEAN
                        ELSE {Triggered(package.findings, asked'.fail_on_severity)} :
           Finishing("load",
                     Decision(package.summary.exit_code = 5, asked'.fail_on_partial, triggered),
                     FALSE)

-----------------------------------------------------------------------------
(* _finish, and the handlers of main around it.                            *)

WriteSummary ==
    /\ Go("summary", "outputs")
    /\ UNCHANGED <<asked, result, fallback, step_outputs, failed, uploaded>>

WriteOutputs ==
    /\ Go("outputs", "upload")
    /\ step_outputs' = [exit_code |-> result.exit_code, ready |-> result.ready]
    /\ UNCHANGED <<asked, result, fallback, failed, uploaded>>

\* The file is appended to, in the order of OUTPUT_KEYS.
WrittenInPart ==
    {step_outputs,
     [step_outputs EXCEPT !.exit_code = result.exit_code],
     [exit_code |-> result.exit_code, ready |-> result.ready]}

\* An exception in _finish, outside a handler, starts it over as an adapter error.
Handled(parts) ==
    /\ ~fallback
    /\ apc \in {"summary", "outputs"}
    /\ Go(apc, "summary")
    /\ result' = NoPackageReport("adapter-error")
    /\ fallback' = TRUE
    /\ step_outputs' \in parts
    /\ UNCHANGED <<asked, failed, uploaded>>

\* Mutation: one in a handler is swallowed, and the process returns 0.
UnhandledQuietly(parts) ==
    /\ fallback
    /\ apc \in {"summary", "outputs"}
    /\ Go(apc, "upload")
    /\ step_outputs' \in parts
    /\ UNCHANGED <<asked, result, fallback, failed, uploaded>>

\* One in a handler ends the process.
Unhandled(parts) ==
    /\ fallback
    /\ apc \in {"summary", "outputs"}
    /\ Go(apc, "upload")
    /\ failed' = TRUE
    /\ step_outputs' \in parts
    /\ UNCHANGED <<asked, result, fallback, uploaded>>

SummaryFails == apc = "summary" /\ (Handled({step_outputs}) \/ Unhandled({step_outputs}))
OutputsFail == apc = "outputs" /\ (Handled(WrittenInPart) \/ Unhandled(WrittenInPart))

-----------------------------------------------------------------------------
(* The later steps of action.yml, both always().                           *)

Upload ==
    /\ Go("upload", "policy")
    /\ step_outputs.ready
    /\ uploaded' = TRUE
    /\ UNCHANGED <<asked, result, fallback, step_outputs, failed>>

\* It is not asked for, or there is nothing to upload.
UploadSkipped ==
    /\ Go("upload", "policy")
    /\ UNCHANGED <<asked, result, fallback, step_outputs, failed, uploaded>>

UploadFails ==
    /\ Go("upload", "policy")
    /\ step_outputs.ready
    /\ failed' = TRUE
    /\ UNCHANGED <<asked, result, fallback, step_outputs, uploaded>>

PolicyPasses == step_outputs.exit_code = 0

ApplyPolicy ==
    /\ Go("policy", "end")
    /\ failed' = (failed \/ ~PolicyPasses)
    /\ UNCHANGED <<asked, result, fallback, step_outputs, uploaded>>

-----------------------------------------------------------------------------
Action ==
    \/ Configure \/ ConfigureFails \/ ConfigureFailsMutely
    \/ CliFails \/ VerifyPackage \/ VerifyOrLoadFails \/ LoadAndDecide
    \/ WriteSummary \/ WriteOutputs \/ SummaryFails \/ OutputsFail
    \/ Upload \/ UploadSkipped \/ UploadFails \/ ApplyPolicy

\* The batch runs for a user, who then reads its package, or for the action.
BatchStep ==
    /\ apc = "none" \/ (apc = "cli" /\ pc # "published")
    /\ Batch
    /\ UNCHANGED actionVars

HostChanges ==
    \/ HostChangesSnapshot /\ UNCHANGED actionVars
    \/ /\ pc = "published"
       /\ apc \in {"cli", "load"}
       /\ edited' = TRUE
       /\ UNCHANGED <<vars, apc, asked, result, fallback, step_outputs, failed, uploaded>>

ActionNext == BatchStep \/ Action \/ HostChanges

\* The batch, its reader and the steps of the action go on.
ActionSpec == ActionInit /\ [][ActionNext]_allVars /\ WF_allVars(BatchStep \/ Action)

-----------------------------------------------------------------------------
Green == apc = "end" /\ ~failed

\* docs/GITHUB_ACTIONS.md, "Exit behaviour": a job passes only over a verified package
\* that accounts for every result, all completed unless a partial one was allowed, and
\* no result of the report whose severity could be read meets the threshold.  That the
\* policy reads completed findings only is enough because a package with a finding
\* that could not be localised is never published.
GreenMeansVerified ==
    Green =>
        /\ Published
        /\ package.errors # <<>> => ~asked.fail_on_partial
        /\ ~edited /\ asked.fail_on_severity # NoThreshold =>
              \A i \in DOMAIN report :
                  HasFinding(i) => report[i].severity > asked.fail_on_severity

\* "package-ready" names a package which the action has verified, and only such a one
\* is uploaded, however many writes failed on the way; if the adapter could report that
\* it failed, that is the last word, and the package is not named.
ReadyMeansVerified ==
    /\ step_outputs.ready \/ uploaded => Published
    /\ apc = "end" /\ fallback /\ step_outputs.ready => failed

\* A batch ends with its reader at the end of the queue or with its job over.
JobEnds == <>(Ended \/ apc = "end")
=============================================================================
