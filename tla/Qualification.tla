---------------------------- MODULE Qualification ----------------------------
(***************************************************************************)
(* The experiment protocol of V0.4 (scripts/run_v0_4_experiments.py,       *)
(* run_trace_001.py, record_v0_4_status.py, seal_v0_4.py): an operator     *)
(* prepares partitions, locks a candidate, may train a ranker if every     *)
(* entry gate holds, locks a selection, spends the only qualification run, *)
(* and records and seals the outcome.                                      *)
(*                                                                         *)
(* Each phase is a command that reads governed files, checks them, and     *)
(* then writes others, one after the other.  A governed file is written    *)
(* once: to write it again is to compare.  A command may die before any    *)
(* write or inside it, and leave a torn file.  Any command may be tried at *)
(* any time, one at a time, so that a command is one step with its writes; *)
(* the sources may be edited in between.                                   *)
(*                                                                         *)
(* An identity in a document is a stable_id of the other document, which   *)
(* is injective: here it is that document.  A partition has one card.      *)
(***************************************************************************)
EXTENDS Integers, Sequences, FiniteSets

CONSTANTS
    Versions,       \* of a source file, a set of numbers
    MaxSummaries,   \* bound: summaries of runs
    MaxIncidents    \* bound: edits of the sources and commands that die

ASSUME BoundsAssumption ==
    /\ 1 \in Versions
    /\ MaxSummaries \in Nat
    /\ MaxIncidents \in Nat

VARIABLES
    files,          \* the governed files that have a fixed name
    summaries,      \* those whose name holds the name of a run
    code,           \* the sources: trace001.py, features.py and its cache token
    advantage,      \* the learned ranker meets the selection rule
    evaluating,     \* the qualification run has its receipt and goes on
    openings,       \* runs that have read the labels of the qualification cards
    incidents

vars == <<files, summaries, code, advantage, evaluating, openings, incidents>>

FeaturePartitions == {"development", "training", "model_selection"}
FeatureFile(partition) ==
    [development |-> "development_features", training |-> "training_features",
     model_selection |-> "model_selection_features"][partition]
FeatureFiles == {FeatureFile(p) : p \in FeaturePartitions}

FileNames ==
    FeatureFiles \cup
    {"candidate_lock", "revised_lock", "supply", "revised_supply",
     "execution", "revised_execution", "remediated_execution", "preflight_failure",
     "gates", "readiness", "remediated_gates", "remediated_readiness",
     "checkpoint", "receipt", "qualification_lock", "budget_before", "consumption",
     "result", "budget_after", "status", "ledger", "evidence_directory", "evidence"}

None == [kind |-> "none"]
Torn == [kind |-> "torn"]
Exists(f) == files[f] # None
Whole(f) == Exists(f) /\ files[f] # Torn

Init ==
    /\ files = [f \in FileNames |-> None]
    /\ summaries = {}
    /\ code = [training |-> 1, feature |-> 1, token |-> 1]
    /\ advantage \in BOOLEAN
    /\ evaluating = FALSE
    /\ openings = 0
    /\ incidents = 0

-----------------------------------------------------------------------------
(* Writing.  _write_once compares with what is there, dump_json writes in  *)
(* place.                                                                  *)

\* Mutation: the lock of the qualification would hold a time as well.
NeverEqualWithLock ==
    {"receipt", "result", "status", "ledger", "evidence_directory", "evidence",
     "qualification_lock"}

\* These hold times, or are refused if they exist at all.
NeverEqual == {"receipt", "result", "status", "ledger", "evidence_directory", "evidence"}

Writing(f, value) == [file |-> f, value |-> value]

Put(fs, item) == [fs EXCEPT ![item.file] = item.value]

Conflicts(fs, item) ==
    /\ fs[item.file] # None
    /\ item.file \in NeverEqual \/ fs[item.file] # item.value

AddSummary(summary) ==
    /\ summaries' = summaries \cup {summary}
    /\ Cardinality(summaries') <= MaxSummaries

Incident ==
    /\ incidents < MaxIncidents
    /\ incidents' = incidents + 1

\* The command dies inside the write.
Tears(fs, item) ==
    /\ Incident
    /\ fs[item.file] = None
    /\ files' = Put(fs, Writing(item.file, Torn))

WriteOne(fs, item) ==
    \/ files' = (IF Conflicts(fs, item) THEN fs ELSE Put(fs, item)) /\ UNCHANGED incidents
    \/ Tears(fs, item)

\* A conflict in the first write ends the command, or it dies between the two.
WriteBoth(first, second) ==
    /\ ~Conflicts(files, first)
    /\ \/ Tears(files, first)
       \/ Incident /\ ~Exists(first.file) /\ files' = Put(files, first)
       \/ WriteOne(Put(files, first), second)

Command ==
    /\ ~evaluating
    /\ UNCHANGED <<code, advantage>>

-----------------------------------------------------------------------------
(* What is in force: a revision supersedes, whole or not.                  *)

ActiveLock == IF Exists("revised_lock") THEN files["revised_lock"] ELSE files["candidate_lock"]

ActiveSupply ==
    IF Exists("revised_supply") THEN files["revised_supply"] ELSE files["supply"]

ActiveExecution ==
    IF Exists("remediated_execution") THEN files["remediated_execution"]
    ELSE IF Exists("revised_execution") THEN files["revised_execution"]
    ELSE files["execution"]

GatesFile == IF Exists("remediated_execution") THEN "remediated_gates" ELSE "gates"
ReadinessFile ==
    IF Exists("remediated_execution") THEN "remediated_readiness" ELSE "readiness"

Loads(document) == document \notin {None, Torn}

TrainingLocksLoad ==
    /\ Exists("revised_supply") <=> Exists("revised_execution")
    /\ Loads(ActiveSupply)
    /\ Loads(ActiveExecution)
    /\ Exists("revised_execution") => Whole("revised_execution")

-----------------------------------------------------------------------------
(* prepare, lock-candidates, freeze-training-execution.                    *)

Features == [kind |-> "features", version |-> code.feature]

\* A card whose record is there is not processed again.
CachedOr(partition) ==
    IF Exists(FeatureFile(partition)) THEN files[FeatureFile(partition)] ELSE Features

Summary(partition, lock) ==
    [kind |-> "baseline", partition |-> partition, lock |-> lock,
     features |-> CachedOr(partition), algorithm |-> code.token]

\* A torn summary is no loss: another run has another name.
Prepare(partition) ==
    LET lock == IF partition = "development" THEN None ELSE ActiveLock
        record == Writing(FeatureFile(partition), CachedOr(partition))
    IN /\ Command
       /\ partition # "development" => Loads(lock)
       /\ files[FeatureFile(partition)] # Torn
       /\ \/ /\ files' = Put(files, record)
             /\ AddSummary(Summary(partition, lock))
             /\ UNCHANGED incidents
          \/ Tears(files, record) /\ UNCHANGED summaries
          \/ Incident /\ files' = Put(files, record) /\ UNCHANGED summaries
       /\ UNCHANGED <<evaluating, openings>>

BaselineOf(partition) ==
    {s \in summaries : s.kind = "baseline" /\ s.partition = partition}

CandidateLock(summary, supersedes) ==
    [kind |-> "candidate_lock", summary |-> summary, supersedes |-> supersedes]

LockCandidates(summary) ==
    /\ Command
    /\ summary \in BaselineOf("development")
    /\ ~Exists("revised_lock")
    /\ files["candidate_lock"] # Torn
    /\ Exists("candidate_lock") => summary.algorithm = code.token
    /\ WriteOne(files, Writing(IF Exists("candidate_lock") THEN "revised_lock"
                               ELSE "candidate_lock",
                               CandidateLock(summary, files["candidate_lock"])))
    /\ UNCHANGED <<summaries, evaluating, openings>>

Supply(lock) == [kind |-> "supply", lock |-> lock]

Execution(lock, training, feature, supersedes) ==
    [kind |-> "execution", lock |-> lock,
     training |-> training, feature |-> feature, supersedes |-> supersedes]

FreezeTrainingExecution ==
    /\ Command
    /\ Loads(ActiveLock)
    /\ LET revised == ActiveLock.supersedes # None
       IN WriteBoth(
              Writing(IF revised THEN "revised_supply" ELSE "supply", Supply(ActiveLock)),
              Writing(IF revised THEN "revised_execution" ELSE "execution",
                      Execution(ActiveLock, code.training, code.feature, None)))
    /\ UNCHANGED <<summaries, evaluating, openings>>

-----------------------------------------------------------------------------
(* assess-training-readiness, remediate-training-identity.                 *)

CodeMatches(execution) ==
    execution.training = code.training /\ execution.feature = code.feature

Gates(evidence_good, development) ==
    [cards_and_metrics |-> evidence_good,
     code |-> CodeMatches(ActiveExecution),
     baselines_locked |-> development = ActiveLock.summary,
     supply_chain |-> ActiveSupply.lock = ActiveLock,
     resources |-> ActiveExecution.lock = ActiveLock /\ ActiveSupply = Supply(ActiveExecution.lock)]

AllPass(gates) == \A g \in DOMAIN gates : gates[g]

FinalGates(gates, development, training) ==
    [kind |-> "gates", gates |-> gates,
     development |-> development, training |-> training,
     lock |-> ActiveLock, supply |-> ActiveSupply, execution |-> ActiveExecution]

Readiness(gates) ==
    [kind |-> "readiness", authorised |-> AllPass(gates)]

AssessTrainingReadiness(development, training) ==
    /\ Command
    /\ development \in BaselineOf("development")
    /\ training \in BaselineOf("training")
    /\ Loads(ActiveLock)
    /\ TrainingLocksLoad
    /\ \E evidence_good \in BOOLEAN :
          LET gates == Gates(evidence_good, development)
          IN WriteBoth(Writing(GatesFile, FinalGates(gates, development, training)),
                       Writing(ReadinessFile, Readiness(gates)))
    /\ UNCHANGED <<summaries, evaluating, openings>>

\* The training code was changed for a stated reason, and nothing else.
RemediateTrainingIdentity ==
    /\ Command
    /\ \A f \in {"revised_execution", "gates", "readiness", "revised_supply"} : Whole(f)
    /\ Loads(ActiveLock)
    /\ LET old == files["revised_execution"]
       IN /\ files["readiness"].authorised
          /\ files["gates"].execution = old
          /\ old.lock = ActiveLock
          /\ files["revised_supply"] = Supply(old.lock)
          /\ ~Exists("checkpoint") /\ ~Exists("receipt") /\ ~Exists("consumption")
          /\ code.training # old.training
          /\ code.feature = old.feature
          /\ WriteBoth(Writing("preflight_failure",
                               [kind |-> "failure", execution |-> old]),
                       Writing("remediated_execution",
                               Execution(ActiveLock, code.training, old.feature, old)))
    /\ UNCHANGED <<summaries, evaluating, openings>>

-----------------------------------------------------------------------------
(* run_trace_001.py: train and score-partition.                            *)

\* Mutation: the gates may have been passed under another candidate lock.
LoadAuthorityOfAnyLock ==
    /\ Whole(GatesFile) /\ Whole(ReadinessFile) /\ Loads(ActiveLock) /\ TrainingLocksLoad
    /\ files[ReadinessFile].authorised
    /\ AllPass(files[GatesFile].gates)
    /\ files[GatesFile].supply = ActiveSupply
    /\ files[GatesFile].execution = ActiveExecution

LoadAuthority ==
    /\ Whole(GatesFile) /\ Whole(ReadinessFile) /\ Loads(ActiveLock) /\ TrainingLocksLoad
    /\ files[ReadinessFile].authorised
    /\ AllPass(files[GatesFile].gates)
    /\ files[GatesFile].lock = ActiveLock
    /\ files[GatesFile].supply = ActiveSupply
    /\ files[GatesFile].execution = ActiveExecution

\* Mutation: the sources are taken to be what was locked.
ExecutionCodeTrusted == TRUE

ExecutionCodeVerified == CodeMatches(ActiveExecution)

Checkpoint ==
    [kind |-> "checkpoint", training |-> code.training, features |-> files["training_features"]]

\* The checkpoint is reproducible; its receipt, with the times taken, is not.
Train ==
    /\ Command
    /\ LoadAuthority
    /\ ExecutionCodeVerified
    /\ Whole("training_features")
    /\ WriteBoth(Writing("checkpoint", Checkpoint),
                 Writing("receipt",
                         [kind |-> "receipt", lock |-> ActiveLock,
                          execution |-> ActiveExecution, checkpoint |-> Checkpoint]))
    /\ UNCHANGED <<summaries, evaluating, openings>>

Learned(partition) ==
    [kind |-> "learned", partition |-> partition, lock |-> ActiveLock,
     checkpoint |-> files["checkpoint"], features |-> files[FeatureFile(partition)]]

ScorePartition(partition) ==
    /\ Command
    /\ LoadAuthority
    /\ ExecutionCodeVerified
    /\ Whole("checkpoint") /\ Whole("receipt")
    /\ files["receipt"].checkpoint = files["checkpoint"]
    /\ Whole(FeatureFile(partition))
    /\ AddSummary(Learned(partition))
    /\ UNCHANGED <<files, evaluating, openings, incidents>>

LearnedOf(partition) == {s \in summaries : s.kind = "learned" /\ s.partition = partition}

-----------------------------------------------------------------------------
(* lock-qualification and qualify.                                         *)

Selected(learned) ==
    IF learned # None /\ advantage
    THEN [trace_001 |-> TRUE, identity |-> learned.checkpoint]
    ELSE [trace_001 |-> FALSE, identity |-> None]

QualificationLock(baseline, learned) ==
    [kind |-> "qualification_lock", lock |-> ActiveLock, baseline |-> baseline,
     learned |-> learned, selected |-> Selected(learned)]

Budget(lock) == [kind |-> "budget", lock |-> lock]

LockableQualification(baseline, learned) ==
    /\ baseline \in BaselineOf("model_selection")
    /\ learned \in LearnedOf("model_selection") \cup {None}
    /\ Loads(ActiveLock)
    /\ baseline.lock = ActiveLock
    /\ learned # None => learned.lock = ActiveLock

LockQualification(baseline, learned) ==
    /\ Command
    /\ LockableQualification(baseline, learned)
    /\ LET lock == QualificationLock(baseline, learned)
       IN WriteBoth(Writing("qualification_lock", lock), Writing("budget_before", Budget(lock)))
    /\ UNCHANGED <<summaries, evaluating, openings>>

\* Mutation: only a result tells that the run was spent.
UnspentWithoutResult == ~Exists("result")

Unspent == ~Exists("consumption") /\ ~Exists("result")

QualifyAccepts ==
    /\ Whole("qualification_lock") /\ Whole("budget_before") /\ Loads(ActiveLock)
    /\ Unspent
    /\ files["qualification_lock"].lock = ActiveLock
    /\ files["budget_before"].lock = files["qualification_lock"]

Qualify ==
    LET receipt == Writing("consumption", [kind |-> "consumption"])
    IN /\ Command
       /\ QualifyAccepts
       /\ \/ /\ ~Conflicts(files, receipt)
             /\ files' = Put(files, receipt)
             /\ evaluating' = TRUE
             /\ UNCHANGED incidents
          \/ Tears(files, receipt) /\ UNCHANGED evaluating
       /\ UNCHANGED <<summaries, openings>>

\* The receipt is there: the cards are ranked and their labels read.
Evaluate ==
    LET selected == files["qualification_lock"].selected
    IN /\ evaluating
       /\ selected.trace_001 => files["checkpoint"] = selected.identity
       /\ evaluating' = FALSE
       /\ openings' = openings + 1
       /\ \E passed \in BOOLEAN :
             LET result == [kind |-> "result", passed |-> passed]
             IN WriteBoth(Writing("result", result),
                          Writing("budget_after", [kind |-> "budget_after", result |-> result]))
       /\ UNCHANGED <<summaries, code, advantage>>

\* A checkpoint that is not the selected one, a number of workers that is refused only
\* now, a card that fails, or the process dies.
EvaluateFails ==
    /\ evaluating
    /\ evaluating' = FALSE
    /\ openings' \in {openings, openings + 1}
    /\ UNCHANGED <<files, summaries, code, advantage, incidents>>

-----------------------------------------------------------------------------
(* record_v0_4_status.py and seal_v0_4.py.                                 *)

Closure(trained) ==
    IF files["result"].passed /\ files["qualification_lock"].selected.trace_001
    THEN "TRACE_001_VALIDATED"
    ELSE IF files["result"].passed THEN "DETERMINISTIC_GENERALISATION_QUALIFIED"
    ELSE IF trained THEN "NO_MODEL_ADVANTAGE"
    ELSE "CORPUS_ASSURANCE_IN_PROGRESS"

RecordStatus ==
    LET status == [kind |-> "status", closure |-> Closure(Exists("receipt")),
                   trained |-> Exists("receipt")]
    IN /\ Command
       /\ \A f \in {ReadinessFile, "qualification_lock", "result", "budget_after"} : Whole(f)
       /\ WriteBoth(Writing("status", status),
                    Writing("ledger", [kind |-> "ledger"]))
       /\ UNCHANGED <<summaries, evaluating, openings>>

\* Mutation: the readiness is not compared with the training that took place.
TrainingEvidenceTrusted(trained) ==
    trained => \A p \in {"development", "model_selection"} : LearnedOf(p) # {}

TrainingEvidenceConsistent(trained) ==
    /\ files[ReadinessFile].authorised <=> trained
    /\ (LearnedOf("development") = {}) <=> (LearnedOf("model_selection") = {})
    /\ trained => \A p \in {"development", "model_selection"} : LearnedOf(p) # {}

Seal ==
    LET trained == Exists("receipt")
    IN /\ Command
       /\ \A f \in {GatesFile, ReadinessFile, "qualification_lock", "result"} : Whole(f)
       /\ files["receipt"] # Torn
       /\ \A p \in {"development", "model_selection"} : BaselineOf(p) # {}
       /\ TrainingEvidenceConsistent(trained)
       /\ ~Exists("evidence_directory")
       /\ WriteBoth(Writing("evidence_directory", [kind |-> "directory"]),
                    Writing("evidence", [kind |-> "evidence", closure |-> Closure(trained),
                                         trained |-> trained]))
       /\ UNCHANGED <<summaries, evaluating, openings>>

-----------------------------------------------------------------------------
\* The name of a feature record holds the cache token: with a new one there is none.
Edit ==
    /\ ~evaluating
    /\ Incident
    /\ \E v \in Versions :
          \/ /\ v # code.training
             /\ code' = [code EXCEPT !.training = v]
             /\ UNCHANGED files
          \/ /\ v # code.feature
             /\ code' = [code EXCEPT !.feature = v]
             /\ UNCHANGED files
          \/ /\ v # code.token
             /\ code' = [code EXCEPT !.feature = v, !.token = v]
             /\ files' = [f \in FileNames |-> IF f \in FeatureFiles THEN None ELSE files[f]]
    /\ UNCHANGED <<summaries, advantage, evaluating, openings>>

-----------------------------------------------------------------------------
Commands ==
    \/ \E p \in FeaturePartitions : Prepare(p)
    \/ \E s \in summaries : LockCandidates(s)
    \/ FreezeTrainingExecution
    \/ \E d \in summaries, t \in summaries : AssessTrainingReadiness(d, t)
    \/ RemediateTrainingIdentity
    \/ Train
    \/ \E p \in {"development", "model_selection"} : ScorePartition(p)
    \/ \E b \in summaries, l \in summaries \cup {None} : LockQualification(b, l)
    \/ Qualify
    \/ RecordStatus
    \/ Seal

Next == Commands \/ Evaluate \/ EvaluateFails \/ Edit

Spec == Init /\ [][Next]_vars

-----------------------------------------------------------------------------
\* docs/research/V0.4_ASSURANCE.md, "Single-use qualification": the labels are read by
\* one run at most, after its receipt was written, and a run that was interrupted is
\* spent; a result is that of the one run.
OpenedOnce ==
    /\ openings <= 1
    /\ openings = 1 => Exists("consumption")
    /\ Exists("result") => openings = 1

\* A checkpoint was made by the training code of an execution lock under which every
\* gate passed, whatever was edited, superseded or interrupted since.
TrainedUnderAuthority ==
    Whole("checkpoint") =>
        \E f \in {"gates", "remediated_gates"} :
            /\ Whole(f)
            /\ AllPass(files[f].gates)
            /\ files[f].execution.training = files["checkpoint"].training

\* A learned candidate that goes into qualification was trained, scored and compared
\* under one candidate lock.
SelectionUnderOneLock ==
    Whole("qualification_lock") /\ files["qualification_lock"].selected.trace_001 =>
        LET q == files["qualification_lock"]
        IN /\ Whole("receipt")
           /\ files["receipt"].lock = q.lock
           /\ files["receipt"].checkpoint = q.selected.identity
           /\ files["checkpoint"] = q.selected.identity
           /\ q.baseline.lock = q.lock

\* What the public evidence says of the training stays true after it was sealed.
SealedStaysTrue ==
    Whole("evidence") => files["evidence"].trained = Exists("receipt")

\* No command that died between two writes, and no retry, leaves a qualification that
\* can be neither run nor locked: as long as the candidate lock it was made under is in
\* force and no file of it is torn, one of the two commands goes through.
Recoverable ==
    ~evaluating /\ Unspent /\ Exists("qualification_lock") =>
        \/ \E f \in {"qualification_lock", "budget_before", "revised_lock"} : files[f] = Torn
        \/ files["qualification_lock"].lock # ActiveLock
        \/ QualifyAccepts
        \/ \E baseline \in summaries, learned \in summaries \cup {None} :
              /\ LockableQualification(baseline, learned)
              /\ LET lock == QualificationLock(baseline, learned)
                 IN /\ ~Conflicts(files, Writing("qualification_lock", lock))
                    /\ ~Conflicts(files, Writing("budget_before", Budget(lock)))
=============================================================================
