------------------------------ MODULE Recovery ------------------------------
(***************************************************************************)
(* The integrity recovery of V0.4.1 (scripts/build_v0_4_1_integrity.py,    *)
(* train_v0_4_1_ranker.py, train_v0_4_1_variant.py,                        *)
(* screen_v0_4_1_models.py, validate_v0_4_1.py, qualify_v0_4_1_package.py, *)
(* seal_v0_4_1.py): fresh partitions are planned if there is enough        *)
(* supply, the old development groups are ranked and scored again, models  *)
(* are trained and screened on them, the source is validated and packaged, *)
(* and the public evidence is sealed.                                      *)
(*                                                                         *)
(* Preparing, validating, packaging and sealing take long: they are        *)
(* processes that go on while the source is edited and other commands run. *)
(* The other commands are one step, with a death between two writes where  *)
(* it is felt.  Every governed document is written once: to write it again *)
(* is to compare.                                                          *)
(*                                                                         *)
(* A version of the source is a number, and an edit makes a new one: no    *)
(* edit restores the bytes of an earlier version.  A command that raises   *)
(* writes nothing more.                                                    *)
(***************************************************************************)
EXTENDS Integers, Sequences, FiniteSets

CONSTANTS
    TrainingGroups, DevelopmentGroups,  \* the groups of the old partitions
    Options,            \* values of --maximum-candidates, in the request and its name
    UsualOptions,       \* that of the training partition
    Workers,            \* threads that rank and score
    RequiredSources,    \* approved repositories that both fresh partitions need
    MaxSources,         \* bound: approved repositories
    MaxPrepares,        \* bound: prepare commands
    MaxScreens,         \* bound: screening records
    MaxValidations,     \* bound: validation records
    MaxIncidents        \* bound: edits of the source and commands that die

ASSUME GroupsAssumption ==
    /\ IsFiniteSet(TrainingGroups \cup DevelopmentGroups)
    /\ TrainingGroups \cap DevelopmentGroups = {}
    /\ UsualOptions \in Options
    /\ Workers \in 1..16

VARIABLES
    files,          \* the governed documents that have a fixed name
    source,         \* the version of the working tree
    sources,        \* approved repositories that no earlier partition uses
    opened,         \* fresh partitions whose cases were acquired
    rankings,       \* sealed raw rankings of the builder
    labels,         \* groups whose scoring labels are written
    scores,         \* rankings with their scorer record
    models,         \* model artifacts
    receipts,       \* models with a training receipt
    screens,        \* screening records
    validations,    \* validation records in which every command passed
    preparing, watching, sealing,  \* the processes
    prepares, incidents

data == <<rankings, labels, scores>>
learning == <<models, receipts, screens>>
processes == <<preparing, watching, sealing>>
world == <<source, sources, opened>>
recoveryVars == <<files, world, data, learning, validations, processes, prepares, incidents>>

Idle == [kind |-> "idle"]
NoModel == [kind |-> "no model"]
FreshPartitions == {"MODEL_SELECTION_FRESH", "QUALIFICATION_FRESH"}
Partitions == {"TRAINING", "ENGINEERING_DEVELOPMENT"}
Groups(partition) ==
    IF partition = "TRAINING" THEN TrainingGroups ELSE DevelopmentGroups
Model(config, trained_on) == [kind |-> "model", config |-> config, trained_on |-> trained_on]

\* After bootstrap: the predecessor is invalidated and its partitions are to be regenerated.
RecoveryInit ==
    /\ files = << >>
    /\ source = 0
    /\ sources = 0
    /\ opened = {}
    /\ rankings = {} /\ labels = {} /\ scores = {}
    /\ models = {} /\ receipts = {} /\ screens = {}
    /\ validations = {}
    /\ preparing = Idle /\ watching = Idle /\ sealing = Idle
    /\ prepares = 0
    /\ incidents = 0

Exists(name) == name \in DOMAIN files

\* Mutation: what is there is taken for what was to be written.
NeverConflicts(name, value) == FALSE

Conflicts(name, value) == Exists(name) /\ files[name] # value

\* What is there stays.
With(documents, name, value) ==
    [n \in DOMAIN documents \cup {name} |->
        IF n \in DOMAIN documents THEN documents[n] ELSE value]

Written(name, value) == With(files, name, value)

WriteOnce(name, value) ==
    /\ ~Conflicts(name, value)
    /\ files' = Written(name, value)

Incident ==
    /\ incidents < MaxIncidents
    /\ incidents' = incidents + 1

-----------------------------------------------------------------------------
(* stage-fresh-sources, plan-fresh, acquire-fresh.                         *)

\* An unused repository of the staged queue passes a new rights probe.
StageFreshSources ==
    /\ sources < MaxSources
    /\ sources' = sources + 1
    /\ UNCHANGED <<files, source, opened, data, learning, validations, processes,
                   prepares, incidents>>

FloorsMet == sources >= RequiredSources

Assessment == [eligible |-> sources, ready |-> FloorsMet]

\* Mutation: what is there is a plan.
PlannableAlways(assessment) == TRUE

Plannable(assessment) == assessment.ready

\* The assessment is written whatever it says; the plan, only if it is good.
PlanFresh ==
    /\ ~Conflicts("assessment", Assessment)
    /\ LET assessed == Written("assessment", Assessment)
           plan == [eligible |-> sources]
       IN \/ /\ Plannable(Assessment)
             /\ ~Conflicts("plan", plan)
             /\ files' = With(assessed, "plan", plan)
             /\ UNCHANGED incidents
          \/ ~Plannable(Assessment) /\ files' = assessed /\ UNCHANGED incidents
          \/ Plannable(Assessment) /\ Incident /\ files' = assessed
    /\ UNCHANGED <<world, data, learning, validations, processes, prepares>>

\* The lock that opens a partition is the operator's.  The seal says whether the members
\* that were left reach the floors; one that differs is refused, after the acquisition.
AcquireFresh(partition) ==
    /\ Exists("plan")
    /\ opened' = opened \cup {partition}
    /\ \/ \E floors \in BOOLEAN : WriteOnce(partition, floors)
       \/ UNCHANGED files
    /\ UNCHANGED <<source, sources, data, learning, validations, processes, prepares,
                   incidents>>

-----------------------------------------------------------------------------
(* prepare: the workers rank the groups in processes of their own, and     *)
(* score them.                                                             *)

Ranking(g) == [group |-> g, model |-> preparing.model, options |-> preparing.options]

\* A learned ranker has a model, the others have none.
StartPrepare(partition, model, options) ==
    /\ preparing = Idle
    /\ prepares < MaxPrepares
    /\ prepares' = prepares + 1
    /\ model \in models \cup {NoModel}
    /\ partition = "TRAINING" => model = NoModel /\ options = UsualOptions
    /\ preparing' = [partition |-> partition, model |-> model, options |-> options,
                     aggregator |-> source,
                     todo |-> Groups(partition), ranked |-> {}, labelled |-> {}, done |-> {}]
    /\ UNCHANGED <<files, world, data, learning, validations, watching, sealing,
                   incidents>>

Preparing == preparing # Idle
FreeWorker == Cardinality(preparing.ranked \cup preparing.labelled) < Workers

PrepareStep ==
    UNCHANGED <<files, world, learning, validations, watching, sealing, prepares,
                incidents>>

\* The reviews of its labels disagree, or the builder fails or is too slow.
GroupFails(g) ==
    /\ Preparing
    /\ FreeWorker
    /\ g \in preparing.todo
    /\ preparing' = [preparing EXCEPT !.todo = @ \ {g}]
    /\ UNCHANGED data
    /\ PrepareStep

\* A ranking that is there is verified and kept.
RankGroup(g) ==
    /\ Preparing
    /\ FreeWorker
    /\ g \in preparing.todo
    /\ rankings' = rankings \cup {Ranking(g)}
    /\ preparing' = [preparing EXCEPT !.todo = @ \ {g}, !.ranked = @ \cup {g}]
    /\ UNCHANGED <<labels, scores>>
    /\ PrepareStep

LabelGroup(g) ==
    /\ Preparing
    /\ g \in preparing.ranked
    /\ labels' = labels \cup {g}
    /\ preparing' = [preparing EXCEPT !.ranked = @ \ {g}, !.labelled = @ \cup {g}]
    /\ UNCHANGED <<rankings, scores>>
    /\ PrepareStep

ScoreGroup(g) ==
    /\ Preparing
    /\ g \in preparing.labelled
    /\ scores' = scores \cup {Ranking(g)}
    /\ preparing' = [preparing EXCEPT !.labelled = @ \ {g}, !.done = @ \cup {g}]
    /\ UNCHANGED <<rankings, labels>>
    /\ PrepareStep

SummaryFile(model) == IF model = NoModel THEN "deterministic_summary" ELSE "learned_summary"

\* Its metrics are those of the code the process was started with.
Summary ==
    [completed |-> {Ranking(g) : g \in preparing.done}, aggregator |-> preparing.aggregator]

FinishPrepare ==
    /\ Preparing
    /\ preparing.todo \cup preparing.ranked \cup preparing.labelled = {}
    /\ LET name == SummaryFile(preparing.model)
       IN IF preparing.partition = "TRAINING" \/ preparing.done = {}
                \/ Conflicts(name, Summary)
          THEN UNCHANGED files
          ELSE files' = Written(name, Summary)
    /\ preparing' = Idle
    /\ UNCHANGED <<world, data, learning, validations, watching, sealing, prepares,
                   incidents>>

PrepareDies ==
    /\ Preparing
    /\ Incident
    /\ preparing' = Idle
    /\ UNCHANGED <<files, world, data, learning, validations, watching, sealing,
                   prepares>>

-----------------------------------------------------------------------------
(* Training, the variants, and their screening.                            *)

OneForEach(rs) == \A r1 \in rs, r2 \in rs : r1.group = r2.group => r1 = r2

RankingsOf(partition, model) ==
    {r \in rankings : r.group \in Groups(partition) /\ r.model = model}

\* A group without a role target, or without a negative, is excluded.
TrainableGroups == {r.group : r \in scores \cap RankingsOf("TRAINING", NoModel)}

TrainingDone == UNCHANGED <<world, data, screens, validations, processes, prepares>>

\* The feature groups and the manifest come first, then the model, then its receipt.
TrainRanker ==
    LET model == Model("reference", TrainableGroups)
    IN /\ TrainableGroups # {}
       /\ WriteOnce("training_manifest", TrainableGroups)
       /\ \/ /\ models' = models \cup {model}
             /\ IF receipts \cap {Model("reference", gs) : gs \in SUBSET TrainingGroups}
                       \subseteq {model}
                THEN receipts' = receipts \cup {model}
                ELSE UNCHANGED receipts
             /\ UNCHANGED incidents
          \/ /\ Incident
             /\ models' \in {models, models \cup {model}}
             /\ UNCHANGED receipts
       /\ TrainingDone

\* On the feature groups that the manifest names, whatever was added since.
TrainVariant ==
    /\ Exists("training_manifest")
    /\ LET model == Model("variant", files["training_manifest"])
       IN /\ models' = models \cup {model}
          /\ \/ receipts' = receipts \cup {model} /\ UNCHANGED incidents
             \/ Incident /\ UNCHANGED receipts
    /\ UNCHANGED files
    /\ TrainingDone

\* What the screen counts, and what it compares: a ranking without labels is in the count.
Screening(compared, recommended) ==
    LET base == RankingsOf("ENGINEERING_DEVELOPMENT", NoModel)
    IN [completed |-> Cardinality(base),
        evaluated |-> {r \in base : r.group \in labels},
        models |-> compared, recommended |-> recommended]

\* It recommends by the metrics: the first model, or a challenger.
Screen(compared, recommended) ==
    /\ OneForEach(RankingsOf("ENGINEERING_DEVELOPMENT", NoModel))
    /\ compared \subseteq models
    /\ recommended \in compared
    /\ screens' = screens \cup {Screening(compared, recommended)}
    /\ Cardinality(screens') <= MaxScreens
    /\ UNCHANGED <<files, world, data, models, receipts, validations, processes, prepares,
                   incidents>>

-----------------------------------------------------------------------------
(* validate_v0_4_1.py and qualify_v0_4_1_package.py read the identity of   *)
(* the source, run their commands on it, and read it again.                *)

Watching(purpose, model) ==
    [purpose |-> purpose, version |-> source, model |-> model, seen |-> {}]

SameSource == watching.seen # {} /\ watching.version = source

Watch == UNCHANGED <<world, data, learning, preparing, sealing, prepares, incidents>>

StartValidation ==
    /\ watching = Idle
    /\ watching' = Watching("validation", NoModel)
    /\ UNCHANGED <<files, validations>> /\ Watch

\* One more command, on the source as it is by now.
RunValidationCommand ==
    /\ watching # Idle
    /\ watching.purpose = "validation"
    /\ watching' = [watching EXCEPT !.seen = @ \cup {source}]
    /\ UNCHANGED <<files, validations>> /\ Watch

\* A run has a name of its own.
FinishValidation ==
    /\ watching # Idle
    /\ watching.purpose = "validation"
    /\ SameSource
    /\ Cardinality(validations) < MaxValidations
    /\ validations' = validations \cup
           {[run |-> Cardinality(validations), version |-> watching.version,
             seen |-> watching.seen]}
    /\ watching' = Idle
    /\ UNCHANGED files /\ Watch

StartPackaging(model) ==
    /\ watching = Idle
    /\ model \in models
    /\ watching' = Watching("package", model)
    /\ UNCHANGED <<files, validations>> /\ Watch

\* Two builds are compared byte for byte: no build differs from the first in its sources.
BuildPackage ==
    /\ watching # Idle
    /\ watching.purpose = "package"
    /\ watching.seen \subseteq {source}
    /\ watching' = [watching EXCEPT !.seen = {source}]
    /\ UNCHANGED <<files, validations>> /\ Watch

\* The record holds times: a second one is never equal to the first.
FinishPackaging ==
    /\ watching # Idle
    /\ watching.purpose = "package"
    /\ SameSource
    /\ ~Exists("package")
    /\ files' = Written("package", [version |-> watching.version, model |-> watching.model,
                                    seen |-> watching.seen])
    /\ watching' = Idle
    /\ UNCHANGED validations /\ Watch

\* A command fails, the source was changed, or the process dies.
WatchingFails ==
    /\ watching # Idle
    /\ watching' = Idle
    /\ UNCHANGED <<files, validations>> /\ Watch

-----------------------------------------------------------------------------
(* seal_v0_4_1.py checks everything, and then writes one document after    *)
(* the other.                                                              *)

Aggregate(model) == RankingsOf("ENGINEERING_DEVELOPMENT", model)

\* Every ranking has its scorer record, and is the only one of its group.
Aggregable(model) == Aggregate(model) \subseteq scores /\ OneForEach(Aggregate(model))

ScreenBinds(screen, model) ==
    /\ Cardinality(screen.models) \in 1..3
    /\ screen.recommended = model
    /\ screen.completed = Cardinality(Aggregate(NoModel))

\* Mutation: the identities in the records are not compared with the source.
SourceUnbound(validation) == TRUE

SourceBound(validation) ==
    validation.version = source /\ files["package"].version = source

Sealable(model, screen, validation) ==
    /\ model \in receipts
    /\ Exists("training_manifest")
    /\ Exists("package") /\ files["package"].model = model
    /\ Exists("assessment") /\ ~files["assessment"].ready
    /\ Aggregable(NoModel) /\ Aggregable(model)
    /\ ScreenBinds(screen, model)
    /\ SourceBound(validation)
    /\ Exists("deterministic_summary") /\ Exists("learned_summary")

\* The documents that are not constant, in the order they are written.
Documents == <<"aggregate_disposition", "validation_disposition", "starting_state",
               "data_readiness", "development_summary", "model_summary",
               "runtime_integration">>

Contents(model, screen, validation) ==
    [aggregate_disposition |->
        [summaries |-> <<files["deterministic_summary"], files["learned_summary"]>>],
     validation_disposition |-> [validation |-> validation],
     starting_state |-> [version |-> source],
     data_readiness |-> [assessment |-> files["assessment"]],
     development_summary |->
        [deterministic |-> Aggregate(NoModel), learned |-> Aggregate(model)],
     model_summary |-> [model |-> model, screen |-> screen],
     runtime_integration |-> [package |-> files["package"], validation |-> validation]]

StartSeal(model, screen, validation) ==
    /\ sealing = Idle
    /\ Sealable(model, screen, validation)
    /\ sealing' = [contents |-> Contents(model, screen, validation), next |-> 1]
    /\ UNCHANGED <<files, world, data, learning, validations, preparing, watching,
                   prepares, incidents>>

Sealing == sealing # Idle

SealStep ==
    UNCHANGED <<world, data, learning, validations, preparing, watching, prepares>>

\* A document that differs from what an earlier attempt wrote ends this one.
WriteDocument ==
    /\ Sealing
    /\ sealing.next <= Len(Documents)
    /\ LET name == Documents[sealing.next]
       IN IF Conflicts(name, sealing.contents[name])
          THEN UNCHANGED files /\ sealing' = Idle
          ELSE /\ files' = Written(name, sealing.contents[name])
               /\ sealing' = [sealing EXCEPT !.next = @ + 1]
    /\ UNCHANGED incidents
    /\ SealStep

\* The members are read back, and the manifest has their hashes.
SealManifest ==
    /\ Sealing
    /\ sealing.next = Len(Documents) + 1
    /\ LET manifest ==
               [version |-> sealing.contents["starting_state"].version,
                members |-> [i \in 1..Len(Documents) |-> files[Documents[i]]]]
       IN files' = (IF Conflicts("seal_manifest", manifest) THEN files
                    ELSE Written("seal_manifest", manifest))
    /\ sealing' = Idle
    /\ UNCHANGED incidents
    /\ SealStep

SealDies ==
    /\ Sealing
    /\ Incident
    /\ sealing' = Idle
    /\ UNCHANGED files
    /\ SealStep

-----------------------------------------------------------------------------
EditSource ==
    /\ Incident
    /\ source' = source + 1
    /\ UNCHANGED <<files, sources, opened, data, learning, validations, processes, prepares>>

PrepareSteps ==
    \/ \E p \in Partitions, m \in models \cup {NoModel}, o \in Options : StartPrepare(p, m, o)
    \/ \E g \in TrainingGroups \cup DevelopmentGroups :
          GroupFails(g) \/ RankGroup(g) \/ LabelGroup(g) \/ ScoreGroup(g)
    \/ FinishPrepare
    \/ PrepareDies

FreshSteps ==
    \/ StageFreshSources
    \/ PlanFresh
    \/ \E p \in FreshPartitions : AcquireFresh(p)

LearningSteps ==
    \/ TrainRanker
    \/ TrainVariant
    \/ \E compared \in SUBSET models : \E m \in compared : Screen(compared, m)

WatchedSteps ==
    \/ StartValidation \/ RunValidationCommand \/ FinishValidation
    \/ \E m \in models : StartPackaging(m)
    \/ BuildPackage \/ FinishPackaging
    \/ WatchingFails

SealSteps ==
    \/ \E m \in receipts, s \in screens, v \in validations : StartSeal(m, s, v)
    \/ WriteDocument \/ SealManifest \/ SealDies

RecoveryNext == PrepareSteps \/ FreshSteps \/ LearningSteps \/ WatchedSteps \/ SealSteps \/ EditSource

RecoverySpec == RecoveryInit /\ [][RecoveryNext]_recoveryVars

-----------------------------------------------------------------------------
Sealed == Exists("seal_manifest")

\* docs/research/V0.4.1_EVIDENCE.md: final validation and package qualification are bound to
\* the sealed source: every one of their commands ran on the version that the manifest
\* names, though the source was edited meanwhile and attempts were given up.
SealedSourceValidated ==
    Sealed =>
        LET version == files["seal_manifest"].version
            runtime == files["runtime_integration"]
        IN runtime.validation.seen = {version} /\ runtime.package.seen = {version}

\* The documents that one manifest names tell one story, whichever attempts wrote them: one
\* source, one model, and a screen of as many rankings as the development summary counts.
EvidenceConsistent ==
    Sealed =>
        LET model == files["model_summary"].model
            development == files["development_summary"]
            runtime == files["runtime_integration"]
        IN /\ files["starting_state"].version = files["seal_manifest"].version
           /\ files["validation_disposition"].validation = runtime.validation
           /\ runtime.package.model = model
           /\ \A r \in development.learned : r.model = model
           /\ files["model_summary"].screen.completed = Cardinality(development.deterministic)

\* Once the evidence says that supply was insufficient, neither fresh partition is opened,
\* though the supply may have grown since.
FreshUnopened == Exists("data_readiness") => opened = {}
=============================================================================
