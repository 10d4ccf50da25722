------------------------------ MODULE Triage ------------------------------
(***************************************************************************)
(* A batch (triage.py, triage_sarif): every result of a SARIF report is    *)
(* normalised, localised against one snapshot and entered in a package,    *)
(* with its evidence or with an error of its own.  The package is verified *)
(* (verify_triage_package) before it is published.  Then a reader pages    *)
(* through its queue (review_triage_package).                              *)
(*                                                                         *)
(* A result has a kind, a severity and the shortlist its localisation      *)
(* gives, which is cut at top_k, and empty if it abstains.  The snapshot   *)
(* is a private copy, but a host process may change it at any time, back   *)
(* included; each localisation reads it anew.                              *)
(***************************************************************************)
EXTENDS ReviewQueue

CONSTANTS
    MaxResults,         \* bound on the results of a report
    Paths,              \* the paths of the repository, a set of numbers
    Severities,         \* a set of numbers, 0 the highest
    MaxContributions    \* MAX_TRIAGE_CONTRIBUTIONS

ASSUME TriageAssumption ==
    /\ MaxResults \in Nat \ {0}
    /\ Paths \subseteq Nat
    /\ Severities \subseteq Nat
    /\ MaxContributions \in Nat \ {0}

VARIABLES
    pc,
    report,         \* the results of the SARIF report
    max_findings,
    top_k,
    snapshot,       \* the workspace, against its declared identity
    position,       \* results the loop is done with
    completed,
    errors,
    package,        \* what was staged
    after_rank,     \* the reader's cursor
    rows            \* what the reader has read

inputs == <<report, max_findings, top_k>>
reader == <<after_rank, rows>>
vars == <<pc, inputs, snapshot, position, completed, errors, package, reader>>

Shortlists == UNION {{f \in [1..n -> Paths] : IsInjective(f)} : n \in 0..Cardinality(Paths)}
Reported ==
    [kind : {"fine"}, severity : Severities, shortlist : Shortlists]
        \cup [kind : {"malformed", "unlocalizable"}, severity : {0}, shortlist : {<<>>}]
Snapshots == {"declared", "changed", "unreadable"}
NoPackage == [artifacts |-> "none"]

Init ==
    /\ pc = "import"
    /\ report \in UNION {[1..n -> Reported] : n \in 0..MaxResults}
    /\ max_findings \in 1..MaxResults
    /\ top_k \in 1..Cardinality(Paths)
    /\ \A i \in DOMAIN report : Len(report[i].shortlist) <= top_k
    /\ snapshot = "declared"
    /\ position = 0
    /\ completed = <<>>
    /\ errors = <<>>
    /\ package = NoPackage
    /\ after_rank = 0
    /\ rows = <<>>

-----------------------------------------------------------------------------
\* stable_id is injective.  A result is known by its place in the report; the key
\* of a completed one also depends on its finding.
ResultKey(source, finding) == [source |-> source, finding |-> finding]

\* A result that could not be normalised has no finding.
HasFinding(i) == report[i].kind # "malformed"

ImportedKey(i) == ResultKey(i, HasFinding(i))

\* The batch is refused as a whole.
ImportRefuses ==
    /\ pc = "import"
    /\ Len(report) > max_findings \/ max_findings * top_k > MaxContributions
    /\ pc' = "refused"
    /\ UNCHANGED <<inputs, snapshot, position, completed, errors, package, reader>>

Import ==
    /\ pc = "import"
    /\ Len(report) <= max_findings
    /\ max_findings * top_k <= MaxContributions
    /\ pc' = "materialise"
    /\ UNCHANGED <<inputs, snapshot, position, completed, errors, package, reader>>

\* RepositoryWorkspace and build_repository_index, shared by all results.
Materialise ==
    /\ pc = "materialise"
    /\ pc' = "localize"
    /\ UNCHANGED <<inputs, snapshot, position, completed, errors, package, reader>>

MaterialiseFails ==
    /\ pc = "materialise"
    /\ pc' = "refused"
    /\ UNCHANGED <<inputs, snapshot, position, completed, errors, package, reader>>

-----------------------------------------------------------------------------
(* The loop over the results.                                              *)

Current == position + 1
ResultsLeft == pc = "localize" /\ position < Len(report)

Advance ==
    /\ position' = Current
    /\ UNCHANGED <<pc, inputs, snapshot, package, reader>>

ResultError(code) ==
    [result_key |-> ImportedKey(Current), source |-> Current, error_code |-> code]

\* Mutation: every error of the loop is reported as one of localisation.
NormalizationErrorMislabelled == ResultError("LOCALIZATION_FAILED")

NormalizationError == ResultError("NORMALIZATION_FAILED")

SkipMalformed ==
    /\ ResultsLeft
    /\ ~HasFinding(Current)
    /\ errors' = Append(errors, NormalizationError)
    /\ Advance
    /\ UNCHANGED completed

Localize ==
    /\ ResultsLeft
    /\ report[Current].kind = "fine"
    /\ snapshot = "declared"
    /\ completed' = Append(completed,
           [result_key |-> ImportedKey(Current), source |-> Current,
            severity |-> report[Current].severity,
            candidates |-> report[Current].shortlist])
    /\ Advance
    /\ UNCHANGED errors

\* InputError or ValueError: the request of this result is refused, or the snapshot
\* cannot be read.
LocalizeFails ==
    /\ ResultsLeft
    /\ HasFinding(Current)
    /\ report[Current].kind = "unlocalizable" \/ snapshot = "unreadable"
    /\ errors' = Append(errors, ResultError("LOCALIZATION_FAILED"))
    /\ Advance
    /\ UNCHANGED completed

\* IntegrityError or UnsupportedError, which the loop does not catch.
LocalizeRaises ==
    /\ ResultsLeft
    /\ report[Current].kind = "fine"
    /\ snapshot # "declared"
    /\ pc' = "raised"
    /\ UNCHANGED <<inputs, snapshot, position, completed, errors, package, reader>>

-----------------------------------------------------------------------------
(* The package.                                                            *)

Abstentions == Cardinality({i \in DOMAIN completed : completed[i].candidates = <<>>})

Summary(queue) ==
    [selected_results |-> Len(report),
     completed_localizations |-> Len(completed),
     localization_abstentions |-> Abstentions,
     result_local_errors |-> Len(errors),
     unique_review_paths |-> Len(queue),
     exit_code |-> IF errors = <<>> THEN 0 ELSE 5]

OverContributions == Cardinality(Contributions(completed)) > MaxContributions

Stage ==
    /\ pc = "localize"
    /\ position = Len(report)
    /\ IF OverContributions
       THEN pc' = "raised" /\ UNCHANGED package
       ELSE LET queue == BuildReviewQueue(completed)
            IN /\ package' = [artifacts |-> "staged", findings |-> completed, errors |-> errors,
                              queue |-> queue, summary |-> Summary(queue)]
               /\ pc' = "verify"
    /\ UNCHANGED <<inputs, snapshot, position, completed, errors, reader>>

-----------------------------------------------------------------------------
(* verify_triage_package recomputes what it can from the findings and the  *)
(* errors.  The key of an error is recomputed without a finding.           *)

KeysOf(items) == {items[i].result_key : i \in DOMAIN items}

\* Mutation: the finding of a completed result is left out of its key as well.
KeysAgreeWithoutFinding(p) ==
    /\ \A i \in DOMAIN p.findings : p.findings[i].result_key = ResultKey(p.findings[i].source, FALSE)
    /\ \A i \in DOMAIN p.errors : p.errors[i].result_key = ResultKey(p.errors[i].source, FALSE)

KeysAgree(p) ==
    /\ \A i \in DOMAIN p.findings : p.findings[i].result_key = ResultKey(p.findings[i].source, TRUE)
    /\ \A i \in DOMAIN p.errors : p.errors[i].result_key = ResultKey(p.errors[i].source, FALSE)

SummaryAgrees(p) ==
    /\ p.summary.selected_results = Len(p.findings) + Len(p.errors)
    /\ p.summary.completed_localizations = Len(p.findings)
    /\ p.summary.localization_abstentions
          = Cardinality({i \in DOMAIN p.findings : p.findings[i].candidates = <<>>})
    /\ p.summary.result_local_errors = Len(p.errors)
    /\ p.summary.unique_review_paths = Len(p.queue)
    /\ p.summary.exit_code = IF p.errors = <<>> THEN 0 ELSE 5

Verifies(p) ==
    /\ KeysAgree(p)
    /\ Cardinality(KeysOf(p.findings)) = Len(p.findings)
    /\ Cardinality(KeysOf(p.errors)) = Len(p.errors)
    /\ KeysOf(p.findings) \cap KeysOf(p.errors) = {}
    /\ p.queue = BuildReviewQueue(p.findings)
    /\ SummaryAgrees(p)

Verify ==
    /\ pc = "verify"
    /\ pc' = IF Verifies(package) THEN "published" ELSE "rejected"
    /\ UNCHANGED <<inputs, snapshot, position, completed, errors, package, reader>>

-----------------------------------------------------------------------------
(* The reader follows next_after_rank, with any limit for each page.       *)

ReadPage(limit) ==
    /\ pc = "published"
    /\ LET page == Page(package.queue, after_rank, limit)
       IN /\ rows' = rows \o page.entries
          /\ after_rank' = IF page.next_after_rank = NoMore THEN after_rank ELSE page.next_after_rank
          /\ pc' = IF page.next_after_rank = NoMore THEN "read" ELSE "published"
    /\ UNCHANGED <<inputs, snapshot, position, completed, errors, package>>

-----------------------------------------------------------------------------
Batch ==
    \/ ImportRefuses \/ Import \/ Materialise \/ MaterialiseFails
    \/ SkipMalformed \/ Localize \/ LocalizeFails \/ LocalizeRaises
    \/ Stage \/ Verify
    \/ \E limit \in 1..Cardinality(Paths) : ReadPage(limit)

\* Before the loop there is none, and after it nothing reads it.
HostChangesSnapshot ==
    /\ pc = "localize"
    /\ snapshot' \in Snapshots \ {snapshot}
    /\ UNCHANGED <<pc, inputs, position, completed, errors, package, reader>>

Next == Batch \/ HostChangesSnapshot

\* The command runs, and its reader goes on.
Spec == Init /\ [][Next]_vars /\ WF_vars(Batch)

-----------------------------------------------------------------------------
Ended == pc \in {"refused", "raised", "rejected", "read"}

TypeOK ==
    /\ pc \in {"import", "materialise", "localize", "verify", "published"} \/ Ended
    /\ Len(report) <= MaxResults
    /\ snapshot \in Snapshots
    /\ position \in 0..Len(report)
    /\ Len(completed) + Len(errors) = position
    /\ \A i \in DOMAIN errors : errors[i].error_code \in {"NORMALIZATION_FAILED", "LOCALIZATION_FAILED"}
    /\ package # NoPackage => \A k \in DOMAIN package.queue : package.queue[k].queue_rank = k
    /\ after_rank \in Nat

Published == pc \in {"published", "read"}

\* A published package accounts for every result of the report, in one place: its
\* evidence or an error with the code of what went wrong; and the exit code is 0
\* exactly if all of them completed.
AccountedFor ==
    Published =>
        /\ \A i \in DOMAIN report :
            LET done == \E k \in DOMAIN package.findings : package.findings[k].source = i
                failed == {k \in DOMAIN package.errors : package.errors[k].source = i}
            IN /\ done <=> failed = {}
               /\ done => report[i].kind = "fine"
               /\ \A k \in failed : package.errors[k].error_code = "NORMALIZATION_FAILED"
                                       <=> report[i].kind = "malformed"
        /\ package.summary.exit_code = 0 <=> Len(package.findings) = Len(report)

\* No batch whose results all completed or were malformed is lost: only a result that
\* could not be localised makes the verifier reject what triage_sarif staged, and the
\* bound on contributions, checked at the start, is never met at the end.
LostOnlyForLocalization ==
    /\ pc = "rejected" => \E i \in DOMAIN errors : errors[i].error_code = "LOCALIZATION_FAILED"
    /\ pc = "raised" => ~OverContributions

\* What a reader has put together from the pages, whatever their limits, is what a
\* queue of the completed results is (_build_review_queue, review_triage_package):
\* every path once, under its most severe result, in order.
PagesAddUp ==
    /\ Published => IsPrefix(rows, package.queue)
    /\ pc = "read" => rows = package.queue /\ IsQueueOf(rows, completed)

\* The batch and its reader end, whatever the results and the host do.
BatchEnds == <>Ended

\* A result that fails does not cost the others their package.
ValidResultsComplete == pc # "rejected"
=============================================================================
