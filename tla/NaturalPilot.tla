---------------------------- MODULE NaturalPilot ----------------------------
(***************************************************************************)
(* The natural pilot of V0.3.1 and the recovery of V0.3.2                  *)
(* (scripts/build_v0_3_1_natural.py, build_v0_3_2_recovery.py,             *)
(* build_v0_3_2_capability.py, seal_v0_3_1.py, seal_v0_3_2.py, and         *)
(* trace_eval's intake, runner, replay and package): cases that a catalog  *)
(* proposes are approved, acquired and made into a corpus with a           *)
(* development and a qualification partition, on which three runtimes are  *)
(* run.  The qualification partition may be opened once, for V0.3.1 or for *)
(* V0.3.2.                                                                 *)
(*                                                                         *)
(* Every command makes a directory of its own, refuses one that is there,  *)
(* and seals it with a manifest at its end: one that raises or dies leaves *)
(* it open for good.  Acquiring alone may be taken up again.  A command    *)
(* that reads only what is sealed is one step; one that runs a registry is *)
(* a process.  The catalog is a file that its keeper edits, and each       *)
(* command that needs it reads it again.                                   *)
(***************************************************************************)
EXTENDS Integers, FiniteSets, Functions

CONSTANTS
    Repositories, Advisories, Fixes,    \* slugs, advisory ids, revisions
    RepositoryOf,           \* the repository of an advisory
    TargetGroups, TargetRepositories,   \* sizes of a corpus that is sufficient
    MaxEdits                \* bound: edits of the catalog

ASSUME CatalogAssumption ==
    /\ IsFiniteSet(Advisories)
    /\ RepositoryOf \in [Advisories -> Repositories]
    /\ Advisories \cap {"idle", "next", "init", "fetch", "case"} = {}
    /\ MaxEdits \in Nat

VARIABLES
    catalog,        \* the fix of each advisory it lists, the split of each repository
    approved,       \* the sealed preparation: the fix of each advisory that was approved
    acquiring,      \* the acquire command
    bare,           \* the object store of each repository
    snapshots,      \* of each advisory
    records,        \* acquired-repository.json of each repository: the fixes it acquired
    acquired,       \* the sealed acquisition summary
    corpus,         \* what the corpus has, once its directory is there
    dirs,           \* the packages
    runs,           \* the run packages
    doing,          \* the step of each command that runs a registry
    facts,          \* what the decisions say
    opened,         \* how often each version opened the qualification partition
    edits

intake == <<approved, acquiring, bare, snapshots, records, acquired>>
evaluation == <<runs, doing, facts, opened>>
vars == <<catalog, edits, intake, corpus, dirs, evaluation>>

Idle == "idle"
Absent == "absent"
NotAcquiring == [step |-> Idle]
Splits == {"development", "qualification"}
Packages == {"corpus", "pre-run", "decisions", "control-original", "resource-diagnostic",
             "control-recovered", "baseline", "control", "lock", "qualification",
             "public 0.3.1", "public 0.3.2"}
Runs == {"development-raw", "qualification-raw", "original-limits", "recovered",
         "capability", "capability-qualification"}
Commands == {"baseline", "diagnostic", "recover", "development", "qualify"}
Versions == {"0.3.1", "0.3.2"}

Public(v) == IF v = "0.3.1" THEN "public 0.3.1" ELSE "public 0.3.2"

\* A catalog lists no revision twice, and no repository without a case.
Catalogs ==
    {c \in [fix : UNION {[as -> Fixes] : as \in SUBSET Advisories},
            split : [Repositories -> Splits]] :
        /\ DOMAIN c.fix # {}
        /\ \A a, b \in DOMAIN c.fix : c.fix[a] = c.fix[b] => a = b}

Listed(cases) == {RepositoryOf[a] : a \in DOMAIN cases}
CasesOf(r, cases) == {a \in DOMAIN cases : RepositoryOf[a] = r}

Init ==
    /\ catalog \in {c \in Catalogs : DOMAIN c.fix = Advisories}
    /\ approved = << >>
    /\ acquiring = NotAcquiring
    /\ bare = [r \in Repositories |-> Absent]
    /\ snapshots = [a \in Advisories |-> Absent]
    /\ records = [r \in Repositories |-> << >>]
    /\ acquired = << >>
    /\ corpus = Absent
    /\ dirs = [p \in Packages |-> Absent]
    /\ runs = [n \in Runs |-> Absent]
    /\ doing = [c \in Commands |-> Idle]
    /\ facts = [remediation |-> "none", authorised |-> {}, budget |-> "none",
                copy |-> "none", consumed |-> [v \in Versions |-> "none"]]
    /\ opened = [v \in Versions |-> 0]
    /\ edits = 0

EditCatalog(c) ==
    /\ edits < MaxEdits
    /\ c # catalog
    /\ catalog' = c
    /\ edits' = edits + 1
    /\ UNCHANGED <<intake, corpus, dirs, evaluation>>

-----------------------------------------------------------------------------
(* prepare: every case has an advisory that names its fix, and is approved *)
(* before anything is fetched.                                             *)

\* A preparation that fails leaves its directory, and nothing can be acquired.
PrepareIntake ==
    /\ DOMAIN approved = {}
    /\ approved' = catalog.fix
    /\ UNCHANGED <<catalog, edits, acquiring, bare, snapshots, records, acquired, corpus,
                   dirs, evaluation>>

-----------------------------------------------------------------------------
(* acquire.                                                                *)

IntakeStep == UNCHANGED <<catalog, edits, approved, corpus, dirs, evaluation>>

StartAcquire ==
    /\ acquiring = NotAcquiring
    /\ DOMAIN approved # {}
    /\ DOMAIN acquired = {}
    /\ acquiring' = [cases |-> catalog.fix, todo |-> Listed(catalog.fix),
                     left |-> {}, at |-> Idle, step |-> "next"]
    /\ UNCHANGED <<bare, snapshots, records, acquired>> /\ IntakeStep

Acquiring(step) == acquiring.step = step

Recorded == {r \in Repositories : DOMAIN records[r] # {}}

\* A repository with a record is taken as it was acquired, whatever is listed by now.
ReuseRepository(r) ==
    /\ Acquiring("next")
    /\ r \in acquiring.todo \cap Recorded
    /\ acquiring' = [acquiring EXCEPT !.todo = @ \ {r}]
    /\ UNCHANGED <<bare, snapshots, records, acquired>> /\ IntakeStep

\* Its proposal and the decision on it are on file.
Authorised(r) == r \in Listed(approved)

\* A store that is there is not fetched again.
TakeRepository(r) ==
    /\ Acquiring("next")
    /\ r \in acquiring.todo \ Recorded
    /\ Authorised(r)
    /\ acquiring' = [acquiring EXCEPT !.at = r, !.left = CasesOf(r, acquiring.cases),
                                      !.step = IF bare[r] = Absent THEN "init" ELSE "case"]
    /\ UNCHANGED <<bare, snapshots, records, acquired>> /\ IntakeStep

InitBare ==
    /\ Acquiring("init")
    /\ bare' = [bare EXCEPT ![acquiring.at] = "empty"]
    /\ acquiring' = [acquiring EXCEPT !.step = "fetch"]
    /\ UNCHANGED <<snapshots, records, acquired>> /\ IntakeStep

\* The plan fetches what was approved.
FetchBare ==
    /\ Acquiring("fetch")
    /\ bare' = [bare EXCEPT ![acquiring.at] = "fetched"]
    /\ acquiring' = [acquiring EXCEPT !.step = "case"]
    /\ UNCHANGED <<snapshots, records, acquired>> /\ IntakeStep

\* A store without a pack is refused, and a snapshot is never written twice.  A revision that
\* was not asked for may have come along with one that was.
Materialise(a) ==
    /\ Acquiring("case")
    /\ bare[acquiring.at] = "fetched"
    /\ a \in acquiring.left
    /\ snapshots[a] = Absent
    /\ snapshots' = [snapshots EXCEPT ![a] = "torn"]
    /\ acquiring' = [acquiring EXCEPT !.step = a]
    /\ UNCHANGED <<bare, records, acquired>> /\ IntakeStep

\* Mutation: the receipt is not compared with the proposal.
RequestedAny(r, fix) == TRUE

\* The revision is one that the proposal of the repository asks for.
Requested(r, fix) == \E a \in CasesOf(r, approved) : approved[a] = fix

\* Both trees are written and have the licence, and the receipt is verified.
WriteReceipt(a) ==
    /\ Acquiring(a)
    /\ Requested(acquiring.at, acquiring.cases[a])
    /\ snapshots' = [snapshots EXCEPT ![a] = "whole"]
    /\ acquiring' = [acquiring EXCEPT !.left = @ \ {a}, !.step = "case"]
    /\ UNCHANGED <<bare, records, acquired>> /\ IntakeStep

RecordRepository ==
    /\ Acquiring("case")
    /\ bare[acquiring.at] = "fetched"
    /\ acquiring.left = {}
    /\ records' = [records EXCEPT ![acquiring.at] =
                      Restrict(acquiring.cases, CasesOf(acquiring.at, acquiring.cases))]
    /\ acquiring' = [acquiring EXCEPT !.todo = @ \ {acquiring.at}, !.at = Idle,
                                      !.step = "next"]
    /\ UNCHANGED <<bare, snapshots, acquired>> /\ IntakeStep

AcquiredCases(rs) ==
    [a \in {b \in Advisories : /\ RepositoryOf[b] \in rs
                               /\ b \in DOMAIN records[RepositoryOf[b]]} |->
        records[RepositoryOf[a]][a]]

\* The summary is of the repositories that the catalog lists.
SealAcquisition ==
    /\ Acquiring("next")
    /\ acquiring.todo = {}
    /\ acquired' = AcquiredCases(Listed(acquiring.cases))
    /\ acquiring' = NotAcquiring
    /\ UNCHANGED <<bare, snapshots, records>> /\ IntakeStep

\* A Git command fails, a licence differs, a file or a record is missing: what is written
\* stays, and a snapshot that stays stops its repository for good.
AcquireDies ==
    /\ acquiring # NotAcquiring
    /\ acquiring' = NotAcquiring
    /\ UNCHANGED <<bare, snapshots, records, acquired>> /\ IntakeStep

-----------------------------------------------------------------------------
(* construct: cases come by the advisory, revisions from the acquisition,  *)
(* and splits from the catalog as it is now.                               *)

Sufficient(cases) ==
    /\ 2 * Cardinality(cases) \in TargetGroups
    /\ Cardinality({RepositoryOf[a] : a \in cases}) \in TargetRepositories

\* A case without a clear target in the diff is rejected, and one at least is not.
Acceptances(cases) == (SUBSET cases) \ {{}}

\* Each case makes a vulnerable and a fixed group, in the split of its repository.
CorpusOf(accepted) ==
    [cases |-> Restrict(acquired, accepted),
     partitions |-> {catalog.split[RepositoryOf[a]] : a \in accepted},
     sufficient |-> Sufficient(accepted)]

\* Every case that is listed was acquired, and what is accepted has its advisory on file.
Construct ==
    /\ DOMAIN acquired # {}
    /\ dirs["corpus"] = Absent
    /\ DOMAIN catalog.fix \subseteq DOMAIN acquired
    /\ \E accepted \in Acceptances(DOMAIN catalog.fix) :
        /\ accepted \subseteq DOMAIN approved
        /\ corpus' = CorpusOf(accepted)
    /\ dirs' = [dirs EXCEPT !["corpus"] = "sealed"]
    /\ UNCHANGED <<catalog, edits, intake, evaluation>>

\* A case or a record is missing, the splits are not independent, or the process dies.
ConstructFails ==
    /\ DOMAIN acquired # {}
    /\ dirs["corpus"] = Absent
    /\ dirs' = [dirs EXCEPT !["corpus"] = "open"]
    /\ UNCHANGED <<catalog, edits, intake, corpus, evaluation>>

-----------------------------------------------------------------------------
(* The steps that the commands with a run share.                           *)

At(c, step) == doing[c] = step
Goes(c, step) == doing' = [doing EXCEPT ![c] = step]
Sealed(p) == dirs[p] = "sealed"

RunStep == UNCHANGED <<catalog, edits, intake, corpus>>

\* Making a package that has to be there before the run.
Opens(c, p, step) ==
    /\ dirs[p] = Absent
    /\ dirs' = [dirs EXCEPT ![p] = "open"]
    /\ Goes(c, step)
    /\ UNCHANGED <<runs, facts, opened>> /\ RunStep

Seals(c, p, step) ==
    /\ dirs' = [dirs EXCEPT ![p] = "sealed"]
    /\ Goes(c, step)
    /\ UNCHANGED <<runs, facts, opened>> /\ RunStep

\* The registry is valid and has groups to run.
Schedulable(partition) == partition \in corpus.partitions

\* run_registry refuses an output that is there.
StartsRun(c, run, partition, version) ==
    /\ runs[run] = Absent
    /\ Schedulable(partition)
    /\ runs' = [runs EXCEPT ![run] = "open"]
    /\ opened' = IF partition = "qualification"
                 THEN [opened EXCEPT ![version] = @ + 1] ELSE opened
    /\ Goes(c, run)
    /\ UNCHANGED <<dirs, facts>> /\ RunStep

\* Attempts that do not complete were stopped at a limit of time or of disk, or otherwise.
Outcomes == {"completed", "limits", "failures"}

EndsRun(c, run, step) ==
    /\ \E outcome \in Outcomes : runs' = [runs EXCEPT ![run] = outcome]
    /\ Goes(c, step)
    /\ UNCHANGED <<dirs, facts, opened>> /\ RunStep

\* The labels are read once the run is sealed.
Scores(c) ==
    /\ At(c, "score")
    /\ Goes(c, "replay")
    /\ UNCHANGED <<runs, dirs, facts, opened>> /\ RunStep

\* The registry is run again: the identities are the same, or they are not.
Replays(c) ==
    /\ At(c, "replay")
    /\ \E step \in {"agreed", "differs"} : Goes(c, step)
    /\ UNCHANGED <<runs, dirs, facts, opened>> /\ RunStep

Decided(c) == doing[c] \in {"agreed", "differs"}

\* The gates are on the metrics, which may be anything, and on what the model has.
MayPass(c, run) == At(c, "agreed") /\ runs[run] = "completed"

\* What a decision package holds; it is there, sealed or left open.
Decides(c, p, decided) ==
    /\ dirs[p] = Absent
    /\ \E state \in {"open", "sealed"} : dirs' = [dirs EXCEPT ![p] = state]
    /\ facts' = decided
    /\ Goes(c, Idle)
    /\ UNCHANGED <<runs, opened>> /\ RunStep

CommandDies(c) ==
    /\ doing[c] # Idle
    /\ Goes(c, Idle)
    /\ UNCHANGED <<dirs, runs, facts, opened>> /\ RunStep

-----------------------------------------------------------------------------
(* baseline (V0.3.1).                                                      *)

StartBaseline ==
    /\ At("baseline", Idle)
    /\ Sealed("corpus")
    /\ corpus.sufficient
    /\ Opens("baseline", "pre-run", "control")

SealPreRun == At("baseline", "control") /\ Seals("baseline", "pre-run", "run")

RunDevelopment ==
    \/ /\ At("baseline", "run")
       /\ StartsRun("baseline", "development-raw", "development", "0.3.1")
    \/ /\ At("baseline", "development-raw")
       /\ EndsRun("baseline", "development-raw", "score")

\* The threshold decision opens the package of decisions.
DecideDevelopment ==
    /\ Decided("baseline")
    /\ dirs["decisions"] = Absent
    /\ dirs' = [dirs EXCEPT !["decisions"] = "open"]
    /\ \/ MayPass("baseline", "development-raw") /\ Goes("baseline", "qualify")
       \/ Goes("baseline", "unused")
    /\ UNCHANGED <<runs, facts, opened>> /\ RunStep

RunQualification ==
    \/ /\ At("baseline", "qualify")
       /\ StartsRun("baseline", "qualification-raw", "qualification", "0.3.1")
    \/ /\ At("baseline", "qualification-raw")
       /\ EndsRun("baseline", "qualification-raw", "consumed")

\* Mutation: the final budget is the one of the pre-run control.
BudgetOfControl == "unused"

\* The final budget says whether it was consumed.
FinalBudget == doing["baseline"]

WriteBudget ==
    /\ doing["baseline"] \in {"unused", "consumed"}
    /\ facts' = [facts EXCEPT !.budget = FinalBudget]
    /\ Goes("baseline", "close")
    /\ UNCHANGED <<runs, dirs, opened>> /\ RunStep

CloseBaseline == At("baseline", "close") /\ Seals("baseline", "decisions", Idle)

-----------------------------------------------------------------------------
(* prepare, diagnostic and recover (V0.3.2).                               *)

AtOnce == UNCHANGED <<catalog, edits, intake, corpus, evaluation>>

\* A package made in one step, or left open.
Makes(p) ==
    /\ dirs[p] = Absent
    /\ \E state \in {"open", "sealed"} : dirs' = [dirs EXCEPT ![p] = state]

\* The metric specification is taken from the pre-run control, sealed or not.
PrepareRecovery ==
    /\ Sealed("corpus")
    /\ dirs["pre-run"] # Absent
    /\ Makes("control-original")
    /\ AtOnce

Diagnostic ==
    \/ /\ At("diagnostic", Idle)
       /\ Sealed("control-original")
       /\ StartsRun("diagnostic", "original-limits", "development", "0.3.2")
    \/ /\ At("diagnostic", "original-limits")
       /\ EndsRun("diagnostic", "original-limits", "decide")

\* A longer time is the remedy only if the limits are what stopped every attempt that failed.
Remediation ==
    IF runs["original-limits"] = "limits" THEN "raise the limit" ELSE "diagnose"

DecideDiagnostic ==
    /\ At("diagnostic", "decide")
    /\ Decides("diagnostic", "resource-diagnostic",
               [facts EXCEPT !.remediation = Remediation])

StartRecover ==
    /\ At("recover", Idle)
    /\ Sealed("resource-diagnostic")
    /\ facts.remediation = "raise the limit"
    /\ Opens("recover", "control-recovered", "control")

SealRecovered == At("recover", "control") /\ Seals("recover", "control-recovered", "run")

RunRecovered ==
    \/ /\ At("recover", "run")
       /\ StartsRun("recover", "recovered", "development", "0.3.2")
    \/ /\ At("recover", "recovered")
       /\ EndsRun("recover", "recovered", "score")

Authorises(package, passed) ==
    [facts EXCEPT !.authorised = IF passed THEN @ \cup {package} ELSE @]

DecideRecovered ==
    /\ Decided("recover")
    /\ \E passed \in BOOLEAN :
        /\ passed => MayPass("recover", "recovered")
        /\ Decides("recover", "baseline", Authorises("baseline", passed))

-----------------------------------------------------------------------------
(* prepare, development and qualify of the capability (V0.3.2).            *)

\* It is read from the package of decisions, sealed or not.
BudgetUnopened == facts.budget = "unused"

PrepareCapability ==
    /\ Sealed("baseline")
    /\ "baseline" \notin facts.authorised
    /\ BudgetUnopened
    /\ Makes("control")
    /\ AtOnce

RunCapability ==
    \/ /\ At("development", Idle)
       /\ Sealed("control") /\ Sealed("corpus")
       /\ StartsRun("development", "capability", "development", "0.3.2")
    \/ /\ At("development", "capability")
       /\ EndsRun("development", "capability", "score")

\* The lock carries the configuration to qualify with, and a copy of the budget.
LockCapability ==
    /\ Decided("development")
    /\ \E passed \in BOOLEAN :
        /\ passed => MayPass("development", "capability")
        /\ Decides("development", "lock",
                   [Authorises("lock", passed) EXCEPT !.copy = facts.budget])

Qualify ==
    \/ /\ At("qualify", Idle)
       /\ Sealed("lock")
       /\ "lock" \in facts.authorised
       /\ facts.copy = "unused"
       /\ StartsRun("qualify", "capability-qualification", "qualification", "0.3.2")
    \/ /\ At("qualify", "capability-qualification")
       /\ EndsRun("qualify", "capability-qualification", "decide")

DecideQualification ==
    /\ At("qualify", "decide")
    /\ Decides("qualify", "qualification", facts)

-----------------------------------------------------------------------------
(* The public evidence.                                                    *)

Publishes(version, consumed) ==
    /\ Makes(Public(version))
    /\ facts' = [facts EXCEPT !.consumed[version] = consumed]
    /\ UNCHANGED <<catalog, edits, intake, corpus, runs, doing, opened>>

SealV031 ==
    /\ Sealed("corpus") /\ Sealed("pre-run") /\ Sealed("decisions")
    /\ Publishes("0.3.1", IF facts.budget = "consumed" THEN 1 ELSE 0)

\* Mutation: public evidence does not wait for a qualification.
EvidenceOfAnyQualification == TRUE

\* What is authorised must be sealed, what is not must not be there.
EvidenceOfQualification ==
    IF "lock" \in facts.authorised
    THEN Sealed("qualification") ELSE dirs["qualification"] = Absent

SealV032 ==
    /\ Sealed("public 0.3.1")
    /\ Sealed("baseline") /\ Sealed("control") /\ Sealed("lock")
    /\ EvidenceOfQualification
    /\ Sealed("resource-diagnostic")
    /\ Publishes("0.3.2",
                 IF dirs["qualification"] = Absent THEN 0 ELSE 1)

Next ==
    \/ \E c \in Catalogs : EditCatalog(c)
    \/ PrepareIntake
    \/ StartAcquire
    \/ \E r \in Repositories : ReuseRepository(r) \/ TakeRepository(r)
    \/ InitBare \/ FetchBare
    \/ \E a \in Advisories : Materialise(a) \/ WriteReceipt(a)
    \/ RecordRepository \/ SealAcquisition \/ AcquireDies
    \/ Construct \/ ConstructFails
    \/ StartBaseline \/ SealPreRun \/ RunDevelopment \/ Scores("baseline")
    \/ Replays("baseline")
    \/ DecideDevelopment \/ RunQualification \/ WriteBudget \/ CloseBaseline
    \/ PrepareRecovery \/ Diagnostic \/ DecideDiagnostic
    \/ StartRecover \/ SealRecovered \/ RunRecovered \/ Scores("recover")
    \/ Replays("recover")
    \/ DecideRecovered
    \/ PrepareCapability \/ RunCapability \/ Scores("development")
    \/ Replays("development")
    \/ LockCapability \/ Qualify \/ DecideQualification
    \/ SealV031 \/ SealV032
    \/ \E c \in Commands : CommandDies(c)

Spec == Init /\ [][Next]_vars

-----------------------------------------------------------------------------
(* What is claimed.                                                        *)

\* The qualification partition is opened at most once, over both versions, whatever command
\* dies and wherever (runner.py:412, build_v0_3_2_capability.py:131-139, 313-318).
PartitionOpenedOnce == opened["0.3.1"] + opened["0.3.2"] <= 1

\* Whatever was edited since the approval, a group that is run is made of a revision that
\* was approved for its repository before it was fetched, from snapshots that were written
\* to their end (build_v0_3_1_natural.py:459, 626; intake.py:498-513).
EvaluatedAsGoverned ==
    (\E n \in Runs : runs[n] # Absent) =>
        /\ Sealed("corpus")
        /\ \A a \in DOMAIN corpus.cases :
            /\ \E b \in DOMAIN approved :
                /\ RepositoryOf[b] = RepositoryOf[a]
                /\ approved[b] = corpus.cases[a]
            /\ snapshots[a] = "whole"

\* What sealed public evidence says of the budget is how often the version it is of opened
\* the partition, and stays so (seal_v0_3_1.py:163-172, seal_v0_3_2.py:163-186).
SealedBudgetStaysTrue ==
    \A v \in Versions :
        Sealed(Public(v)) => facts.consumed[v] = opened[v]
=============================================================================
