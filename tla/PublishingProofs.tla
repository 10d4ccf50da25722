-------------------------- MODULE PublishingProofs --------------------------
(***************************************************************************)
(* What is published is whole, and what is sealed is true.                 *)
(*                                                                         *)
(* PackagePublish, for any number of commands, files, interruptions and    *)
(* steps of the user: what is at the output path is a whole package or     *)
(* nothing of one, success is never claimed falsely, and publication is    *)
(* atomic.                                                                 *)
(*                                                                         *)
(* Recovery, for any groups, options, workers and bounds: the documents of *)
(* a sealed V0.4.1 are of one validated source, one model and one summary, *)
(* whichever attempts wrote them, and a fresh partition is not opened once *)
(* they say that supply fell short.                                        *)
(***************************************************************************)
EXTENDS PackagePublish, Recovery, TLAPS

-----------------------------------------------------------------------------
(* The package at the output path (PackagePublish).                        *)

\* What is staged when the rename is near is the whole package.
StagedInv ==
    \A c \in Commands : pc[c] \in {"verify", "replace"} => staged[c] = Files

\* Only directories have entries, and only the user puts other files there.
OutputInv ==
    /\ output.type # "directory" => output.entries = {}
    /\ \A e \in output.entries : e = Contract!Foreign \/ \E c \in Commands : e \in Package[c]

\* A command that has renamed its package and was not run again.
ResultInv ==
    \A c \in Commands :
        /\ result[c] = "ok" => c \in Owners \cup removed
        /\ pc[c] \notin {"cleanup", "ended", "interrupted"} => result[c] = "none"

PublishInv == TypeOK /\ StagedInv /\ OutputInv /\ OutputWhole /\ ResultInv

\* No file of one command is a file of another, or the user's.
LEMMA PackagesDisjoint ==
    \A c, d \in Commands, m, n \in Files :
        /\ <<c, m>> = <<d, n>> => c = d
        /\ <<c, m>> # Contract!Foreign
<1>1. ASSUME NEW c \in Commands, NEW m \in Files
      PROVE  <<c, m>> # Contract!Foreign
  <2>1. c # "host"
    BY PublishAssumption
  <2>2. QED
    BY <2>1 DEF Contract!Foreign
<1>2. QED
  BY <1>1

\* After a step that leaves output and removed alone, the owners are the same.
LEMMA OwnersStay ==
    ASSUME output' = output
    PROVE  Owners' = Owners
BY DEF Owners, Files

\* The initial state.
LEMMA PublishInitInv == Init => PublishInv
BY DEF Init, PublishInv, TypeOK, StagedInv, OutputInv, OutputWhole, ResultInv, Owners, Package,
       Files, Contract!Absent

\* The steps of a command that do not touch the output path.
LEMMA QuietStepInv ==
    ASSUME PublishInv, NEW c \in Commands,
           \/ Check(c) \/ Refuse(c) \/ WorkFails(c) \/ MakeStaging(c) \/ StageArtifact(c)
           \/ WriteManifest(c) \/ StageFails(c) \/ Verify(c) \/ VerifyFails(c)
           \/ ReplaceFails(c) \/ Cleanup(c) \/ Interrupt(c) \/ RunAgain(c)
    PROVE  PublishInv'
<1>1. output' = output /\ removed' = removed /\ kind' = kind /\ hostSteps' = hostSteps
  BY DEF Check, Refuse, WorkFails, MakeStaging, StageArtifact, WriteManifest, StageFails, Verify,
         VerifyFails, ReplaceFails, Cleanup, Interrupt, RunAgain, Fail, NothingElse
<1>2. Owners' = Owners
  BY <1>1, OwnersStay
<1>3. OutputInv' /\ OutputWhole'
  BY <1>1, <1>2 DEF PublishInv, OutputInv, OutputWhole, Package, Files, Contract!Foreign
<1>4. TypeOK'
  BY <1>1 DEF PublishInv, TypeOK, Check, Refuse, WorkFails, MakeStaging, StageArtifact,
         WriteManifest, StageFails, Verify, VerifyFails, ReplaceFails, Cleanup, Interrupt, RunAgain,
         Fail, NothingElse, Goto, Files, Package
<1>5. StagedInv'
  BY DEF PublishInv, TypeOK, StagedInv, Check, Refuse, WorkFails, MakeStaging, StageArtifact,
         WriteManifest, StageFails, Verify, VerifyFails, ReplaceFails, Cleanup, Interrupt, RunAgain,
         Fail, NothingElse, Goto, Files
<1>6. ResultInv'
  BY <1>1, <1>2 DEF PublishInv, TypeOK, ResultInv, Check, Refuse, WorkFails, MakeStaging,
         StageArtifact, WriteManifest, StageFails, Verify, VerifyFails, ReplaceFails, Cleanup,
         Interrupt, RunAgain, Fail, NothingElse, Goto
<1>7. QED
  BY <1>3, <1>4, <1>5, <1>6 DEF PublishInv

\* The rename: what was there had no owner, what is there now has one.
LEMMA ReplaceInv ==
    ASSUME PublishInv, NEW c \in Commands, Replace(c)
    PROVE  PublishInv' /\ Contract!Publish(c) /\ Owners' = {c}
<1>1. staged[c] = Files /\ pc[c] = "replace"
  BY DEF PublishInv, StagedInv, Replace, Goto
<1>2. output' = [type |-> "directory", entries |-> Package[c]]
  BY <1>1 DEF Replace, Contract!Directory, Package
<1>3. Owners' = {c}
  BY <1>2, PackagesDisjoint DEF Owners, Package, Files
<1>4. Owners = {}
  <2>1. output.entries = {}
    BY DEF Replace, Renames, Contract!Vacant, Contract!Absent, Contract!Directory
  <2>2. QED
    BY <2>1 DEF Owners
<1>5. TypeOK'
  <2>1. output' \in [type : {"absent", "file", "directory"},
                     entries : SUBSET ((UNION {Package[d] : d \in Commands}) \cup {Contract!Foreign})]
    BY <1>2
  <2>2. QED
    BY <2>1 DEF PublishInv, TypeOK, Replace, Goto, NothingElse, Package, Files, Contract!Foreign
<1>6. StagedInv'
  BY DEF PublishInv, TypeOK, StagedInv, Replace, Goto, Files
<1>7. OutputInv'
  BY <1>2 DEF OutputInv, Package, Files, Contract!Foreign
<1>8. OutputWhole'
  BY <1>2, <1>3 DEF OutputWhole, Package, Files
<1>9. ResultInv'
  BY <1>3, <1>4 DEF PublishInv, TypeOK, ResultInv, Replace, Goto, NothingElse
<1>10. Contract!Publish(c)
  <2>1. Contract!Vacant
    BY DEF Replace, Renames
  <2>2. c \notin Concluded /\ Concluded' = Concluded \cup {c}
    BY <1>1 DEF PublishInv, TypeOK, Replace, Goto, Concluded
  <2>3. QED
    BY <1>2, <2>1, <2>2 DEF Contract!Publish, Contract!Directory
<1>11. QED
  BY <1>3, <1>5, <1>6, <1>7, <1>8, <1>9, <1>10 DEF PublishInv

\* What the user does at the output path.
LEMMA HostInv ==
    ASSUME PublishInv, HostCreates \/ HostAddsFile \/ HostRemoves
    PROVE  PublishInv' /\ Contract!Host
<1>1. /\ kind' = kind /\ pc' = pc /\ staged' = staged /\ result' = result
      /\ interruptions' = interruptions /\ hostSteps' = hostSteps + 1
  BY DEF HostCreates, HostAddsFile, HostRemoves, HostActs
<1>2. StagedInv' /\ Concluded' = Concluded
  BY <1>1 DEF PublishInv, StagedInv, Concluded, Files
<1>3. CASE HostCreates
  <2>1. output = Contract!Absent /\ removed' = removed /\ output'.entries = {}
        /\ output'.type \in {"file", "directory"} /\ output' = [type |-> output'.type, entries |-> {}]
    BY <1>3 DEF HostCreates, Contract!File, Contract!Directory
  <2>2. Owners = {} /\ Owners' = {}
    BY <2>1 DEF Owners, Contract!Absent
  <2>3. PublishInv'
    BY <1>1, <1>2, <2>1, <2>2 DEF PublishInv, TypeOK, OutputInv, OutputWhole, ResultInv, Files,
       Package, Contract!Foreign
  <2>4. Contract!Host
    BY <1>2, <1>3 DEF HostCreates, Contract!Host, Contract!Occupies
  <2>5. QED
    BY <2>3, <2>4
<1>4. CASE HostAddsFile
  <2>1. /\ output.type = "directory" /\ removed' = removed
        /\ output' = [type |-> "directory", entries |-> output.entries \cup {Contract!Foreign}]
    BY <1>4 DEF HostAddsFile, Contract!Directory
  <2>2. Owners' = Owners
    BY <2>1, PackagesDisjoint DEF Owners, Files
  <2>3. TypeOK'
    <3> DEFINE Entries == (UNION {Package[c] : c \in Commands}) \cup {Contract!Foreign}
    <3>1. output.entries \in SUBSET Entries
      BY DEF PublishInv, TypeOK
    <3>2. Contract!Foreign \in Entries
      BY Zenon
    <3> HIDE DEF Entries
    <3>3. output' \in [type : {"absent", "file", "directory"}, entries : SUBSET Entries]
      BY <2>1, <3>1, <3>2
    <3>4. QED
      BY <1>1, <2>1, <3>3 DEF PublishInv, TypeOK, Files, Package, Entries
  <2>4. OutputInv' /\ OutputWhole' /\ ResultInv'
    BY <1>1, <2>1, <2>2 DEF PublishInv, OutputInv, OutputWhole, ResultInv, Package, Files,
       Contract!Foreign
  <2>5. Contract!Host
    BY <1>2, <1>4 DEF HostAddsFile, Contract!Host, Contract!Occupies
  <2>6. QED
    BY <1>2, <2>3, <2>4, <2>5 DEF PublishInv
<1>5. CASE HostRemoves
  <2>1. removed' = removed \cup Owners /\ output' = [type |-> "absent", entries |-> {}]
    BY <1>5 DEF HostRemoves, Contract!Absent
  <2>2. Owners' = {} /\ Owners \subseteq Commands
    BY <2>1 DEF Owners
  <2>3. TypeOK'
    BY <1>1, <2>1, <2>2 DEF PublishInv, TypeOK, Files, Package, Contract!Foreign
  <2>4. OutputInv' /\ OutputWhole' /\ ResultInv'
    BY <1>1, <2>1, <2>2 DEF PublishInv, OutputInv, OutputWhole, ResultInv
  <2>5. Contract!Host
    BY <1>2, <1>5 DEF HostRemoves, Contract!Host, Contract!Occupies
  <2>6. QED
    BY <1>2, <2>3, <2>4, <2>5 DEF PublishInv
<1>6. QED
  BY <1>3, <1>4, <1>5

LEMMA PublishNextInv ==
    ASSUME PublishInv, [Next]_vars
    PROVE  PublishInv'
<1>1. CASE UNCHANGED vars
  BY <1>1 DEF PublishInv, TypeOK, StagedInv, OutputInv, OutputWhole, ResultInv, vars, Owners,
     Package, Files, Contract!Foreign
<1>2. CASE Next
  BY <1>2, QuietStepInv, ReplaceInv, HostInv DEF Next, Command
<1>3. QED
  BY <1>1, <1>2

\* The invariant of publication: what is staged near the rename is whole, and what is at
\* the output path belongs to the user or is one whole package.
THEOREM PublishInvariant == Spec => []PublishInv
<1>1. Init => PublishInv
  BY PublishInitInv
<1>2. PublishInv /\ [Next]_vars => PublishInv'
  BY PublishNextInv
<1>3. QED
  BY <1>1, <1>2, PTL DEF Spec

\* Types of publication (pipeline.py, triage.py).
THEOREM PublishTypeCorrect == Spec => []TypeOK
BY PublishInvariant, PTL DEF PublishInv

\* No part of a package and no mixture of two is ever at the output path, for any number
\* of commands, interruptions and steps of the user.
THEOREM OutputIsWhole == Spec => []OutputWhole
BY PublishInvariant, PTL DEF PublishInv

\* A command that reports success published a package that only the user removes.
THEOREM SuccessIsTruthful == Spec => []SuccessMeansPublished
<1>1. PublishInv => SuccessMeansPublished
  BY DEF PublishInv, ResultInv, SuccessMeansPublished
<1>2. QED
  BY <1>1, PublishInvariant, PTL

\* Publication implements AtomicOutput: each step maps to one of its steps or a stutter.
THEOREM PublishesAtomicallyAlways == Spec => PublishesAtomically
<1>1. Init => Contract!AtomicInit
  BY DEF Init, Contract!AtomicInit, Concluded
<1>2. ASSUME PublishInv, [Next]_vars
      PROVE  [Contract!AtomicNext]_<<output, Concluded>>
  <2>1. CASE UNCHANGED vars
    BY <2>1 DEF vars, Concluded
  <2>2. ASSUME NEW c \in Commands, Replace(c)
        PROVE  Contract!AtomicNext
    BY <1>2, <2>2, ReplaceInv DEF Contract!AtomicNext
  <2>3. ASSUME NEW c \in Commands,
               \/ Check(c) \/ MakeStaging(c) \/ StageArtifact(c) \/ WriteManifest(c)
               \/ Verify(c) \/ Cleanup(c)
        PROVE  UNCHANGED <<output, Concluded>>
    BY <1>2, <2>3 DEF PublishInv, TypeOK, Concluded, Goto, Check, MakeStaging, StageArtifact,
       WriteManifest, Verify, Cleanup
  <2>4. ASSUME NEW c \in Commands,
               \/ Refuse(c) \/ WorkFails(c) \/ StageFails(c) \/ VerifyFails(c)
               \/ ReplaceFails(c) \/ Interrupt(c)
        PROVE  Contract!GiveUp(c) \/ UNCHANGED <<output, Concluded>>
    <3>1. output' = output /\ pc' = [pc EXCEPT ![c] = pc'[c]]
          /\ pc'[c] \in {"cleanup", "ended", "interrupted"}
      BY <1>2, <2>4 DEF PublishInv, TypeOK, Goto, Fail, Refuse, WorkFails, StageFails, VerifyFails,
         ReplaceFails, Interrupt
    <3>2. Concluded' = Concluded \cup {c}
      BY <1>2, <3>1 DEF PublishInv, TypeOK, Concluded
    <3>3. QED
      BY <3>1, <3>2 DEF Contract!GiveUp
  <2>5. ASSUME NEW c \in Commands, RunAgain(c)
        PROVE  Contract!Again(c)
    <3>1. c \in Concluded /\ Concluded' = Concluded \ {c}
      BY <1>2, <2>5 DEF PublishInv, TypeOK, Concluded, RunAgain, Goto
    <3>2. QED
      BY <2>5, <3>1 DEF RunAgain, Contract!Again
  <2>6. ASSUME HostCreates \/ HostAddsFile \/ HostRemoves
        PROVE  Contract!AtomicNext
    BY <1>2, <2>6, HostInv DEF Contract!AtomicNext
  <2>7. CASE Next
    BY <2>2, <2>3, <2>4, <2>5, <2>6, <2>7 DEF Next, Command, Contract!AtomicNext
  <2>8. QED
    BY <1>2, <2>1, <2>7
<1>3. QED
  BY <1>1, <1>2, PublishInvariant, PTL DEF Spec, PublishesAtomically, Contract!AtomicSpec

-----------------------------------------------------------------------------
(* The documents of a recovery (Recovery).                                 *)
(* Governed documents are written once.                                    *)

DocumentNames == {Documents[i] : i \in 1..7}

\* What is there stays, and only documents with these names are added.
Adds(names) ==
    /\ DOMAIN files \subseteq DOMAIN files'
    /\ DOMAIN files' \subseteq DOMAIN files \cup names
    /\ \A n \in DOMAIN files : files'[n] = files[n]

LEMMA WrittenAdds ==
    ASSUME NEW documents, NEW name, NEW value
    PROVE  /\ DOMAIN With(documents, name, value) = DOMAIN documents \cup {name}
           /\ \A n \in DOMAIN documents : With(documents, name, value)[n] = documents[n]
           /\ name \notin DOMAIN documents => With(documents, name, value)[name] = value
BY DEF With

LEMMA WriteAdds ==
    ASSUME NEW name, NEW value, files' = Written(name, value)
    PROVE  /\ Adds({name})
           /\ name \in DOMAIN files'
           /\ ~Conflicts(name, value) => files'[name] = value
<1>1. /\ DOMAIN files' = DOMAIN files \cup {name}
      /\ \A n \in DOMAIN files : files'[n] = files[n]
      /\ name \notin DOMAIN files => files'[name] = value
  <2> DEFINE w == Written(name, value)
  <2>1. /\ DOMAIN w = DOMAIN files \cup {name}
        /\ \A n \in DOMAIN files : w[n] = files[n]
        /\ name \notin DOMAIN files => w[name] = value
    BY WrittenAdds DEF Written
  <2>2. files' = w
    OBVIOUS
  <2> HIDE DEF w
  <2> QED BY <2>1, <2>2
<1>2. ~Conflicts(name, value) /\ name \in DOMAIN files => files[name] = value
  BY DEF Conflicts, Exists
<1> QED BY <1>1, <1>2 DEF Adds

\* The documents by their places.
LEMMA DocumentIs ==
    /\ Len(Documents) = 7
    /\ Documents[1] = "aggregate_disposition" /\ Documents[2] = "validation_disposition"
    /\ Documents[3] = "starting_state" /\ Documents[4] = "data_readiness"
    /\ Documents[5] = "development_summary" /\ Documents[6] = "model_summary"
    /\ Documents[7] = "runtime_integration"
BY DEF Documents

LEMMA NamesApart ==
    /\ DocumentNames = {"aggregate_disposition", "validation_disposition", "starting_state",
                        "data_readiness", "development_summary", "model_summary",
                        "runtime_integration"}
    /\ \A i \in 1..7 : Documents[i] \in DocumentNames
<1>1. \A i \in 1..7 : i = 1 \/ i = 2 \/ i = 3 \/ i = 4 \/ i = 5 \/ i = 6 \/ i = 7
  OBVIOUS
<1> QED BY <1>1, DocumentIs DEF DocumentNames

-----------------------------------------------------------------------------
(* The inductive invariant.                                                *)

\* A partition is opened by a plan, a plan is made of a supply that is ready, and what is
\* sealed says that it was not.
SupplyInv ==
    /\ Exists("plan") => Exists("assessment") /\ files["assessment"].ready
    /\ opened # {} => Exists("plan")
    /\ Exists("data_readiness") \/ sealing # Idle =>
          Exists("assessment") /\ ~files["assessment"].ready

\* Versions only grow, so one that is the same at the end was the same throughout.
WatchInv ==
    /\ source \in Nat
    /\ watching # Idle =>
          /\ watching = [purpose |-> watching.purpose, version |-> watching.version,
                         model |-> watching.model, seen |-> watching.seen]
          /\ watching.version \in Nat /\ watching.version <= source
          /\ \A v \in watching.seen : v \in Nat /\ watching.version <= v /\ v <= source
    /\ \A v \in validations : v.seen = {v.version}
    /\ Exists("package") => files["package"].seen = {files["package"].version}

\* What one attempt to seal has to say is one story.
OneStory(c) ==
    /\ c.validation_disposition.validation = c.runtime_integration.validation
    /\ c.runtime_integration.validation.seen = {c.starting_state.version}
    /\ c.runtime_integration.package.seen = {c.starting_state.version}
    /\ c.runtime_integration.package.model = c.model_summary.model
    /\ \A r \in c.development_summary.learned : r.model = c.model_summary.model
    /\ c.model_summary.screen.completed = Cardinality(c.development_summary.deterministic)

\* The documents an attempt is done with are its own, or equal to its own.
SealingInv ==
    sealing # Idle =>
        /\ sealing = [contents |-> sealing.contents, next |-> sealing.next]
        /\ OneStory(sealing.contents)
        /\ sealing.next \in 1..8
        /\ \A i \in 1..7 : i < sealing.next =>
              /\ Exists(Documents[i])
              /\ files[Documents[i]] = sealing.contents[Documents[i]]

SealedInv ==
    Sealed =>
        /\ \A n \in DocumentNames : Exists(n)
        /\ OneStory(files)
        /\ files["seal_manifest"].version = files["starting_state"].version

RecoveryInv == SupplyInv /\ WatchInv /\ SealingInv /\ SealedInv

LEMMA RecoveryInitInv == RecoveryInit => RecoveryInv
<1> SUFFICES ASSUME RecoveryInit PROVE RecoveryInv
  OBVIOUS
<1>1. \A n : ~Exists(n)
  BY DEF RecoveryInit, Exists
<1>2. /\ source = 0 /\ opened = {} /\ validations = {}
      /\ watching = Idle /\ sealing = Idle
  BY DEF RecoveryInit
<1> QED BY <1>1, <1>2 DEF RecoveryInv, SupplyInv, WatchInv, SealingInv, SealedInv, Sealed

-----------------------------------------------------------------------------
(* A step that seals nothing.                                              *)

\* Documents that are there keep what they say.
LEMMA StoryStays ==
    ASSUME NEW names, Adds(names), \A n \in DocumentNames : Exists(n), OneStory(files)
    PROVE  OneStory(files')
<1>1. \A n \in DocumentNames : files'[n] = files[n]
  BY DEF Adds, Exists
<1>2. /\ files'["validation_disposition"] = files["validation_disposition"]
      /\ files'["runtime_integration"] = files["runtime_integration"]
      /\ files'["starting_state"] = files["starting_state"]
      /\ files'["model_summary"] = files["model_summary"]
      /\ files'["development_summary"] = files["development_summary"]
  BY <1>1, NamesApart
<1> QED BY <1>2 DEF OneStory

LEMMA SealedStays ==
    ASSUME NEW names, Adds(names), "seal_manifest" \notin names, SealedInv
    PROVE  SealedInv'
<1> SUFFICES ASSUME Sealed'
             PROVE  /\ \A n \in DocumentNames : Exists(n)'
                    /\ OneStory(files')
                    /\ files'["seal_manifest"].version = files'["starting_state"].version
  BY DEF SealedInv, OneStory
<1>1. Sealed
  BY DEF Sealed, Exists, Adds
<1>2. /\ \A n \in DocumentNames : Exists(n)
      /\ OneStory(files)
      /\ files["seal_manifest"].version = files["starting_state"].version
  BY <1>1 DEF SealedInv
<1>3. \A n \in DocumentNames : Exists(n)'
  BY <1>2 DEF Adds, Exists
<1>4. OneStory(files')
  BY <1>2, StoryStays
<1>5. /\ files'["seal_manifest"] = files["seal_manifest"]
      /\ files'["starting_state"] = files["starting_state"]
  BY <1>1, <1>2, NamesApart DEF Sealed, Exists, Adds
<1> QED BY <1>2, <1>3, <1>4, <1>5

LEMMA SealingStays ==
    ASSUME NEW names, Adds(names), sealing' = sealing, SealingInv
    PROVE  SealingInv'
<1> SUFFICES ASSUME sealing # Idle, NEW i \in 1..7, i < sealing.next
             PROVE  /\ Exists(Documents[i])'
                    /\ files'[Documents[i]] = sealing.contents[Documents[i]]
  BY DEF SealingInv, Exists, OneStory
<1>1. Exists(Documents[i]) /\ files[Documents[i]] = sealing.contents[Documents[i]]
  BY DEF SealingInv
<1> QED BY <1>1 DEF Exists, Adds

\* Nothing that the supply, the package or the seal is about.
LEMMA OtherDocuments ==
    ASSUME RecoveryInv, NEW names, Adds(names),
           names \cap (DocumentNames \cup {"assessment", "plan", "package", "seal_manifest"}) = {},
           UNCHANGED <<opened, source, watching, sealing, validations>>
    PROVE  RecoveryInv'
<1>1. SealedInv' /\ SealingInv'
  BY SealedStays, SealingStays DEF RecoveryInv
<1>2. SupplyInv'
  BY NamesApart DEF RecoveryInv, SupplyInv, Adds, Exists
<1>3. WatchInv'
  BY DEF RecoveryInv, WatchInv, Adds, Exists
<1> QED BY <1>1, <1>2, <1>3 DEF RecoveryInv

LEMMA NothingWritten ==
    ASSUME UNCHANGED files
    PROVE  Adds({})
BY DEF Adds

-----------------------------------------------------------------------------
(* Preparing, training, screening and the supply.                          *)

LEMMA PrepareInv ==
    ASSUME RecoveryInv, PrepareSteps
    PROVE  RecoveryInv'
<1>1. UNCHANGED <<opened, source, watching, sealing, validations>>
  BY DEF PrepareSteps, StartPrepare, GroupFails, RankGroup, LabelGroup, ScoreGroup, PrepareStep,
     FinishPrepare, PrepareDies, world
<1>2. CASE FinishPrepare
  <2>1. UNCHANGED files \/ files' = Written(SummaryFile(preparing.model), Summary)
    BY <1>2 DEF FinishPrepare
  <2>2. SummaryFile(preparing.model) \in {"deterministic_summary", "learned_summary"}
    BY DEF SummaryFile
  <2>3. CASE UNCHANGED files
    BY <1>1, <2>3, NothingWritten, OtherDocuments
  <2>4. CASE files' = Written(SummaryFile(preparing.model), Summary)
    <3>1. Adds({SummaryFile(preparing.model)})
      BY <2>4, WriteAdds
    <3>2. {SummaryFile(preparing.model)} \cap
             (DocumentNames \cup {"assessment", "plan", "package", "seal_manifest"}) = {}
      BY <2>2, NamesApart
    <3> QED BY <1>1, <3>1, <3>2, OtherDocuments
  <2> QED BY <2>1, <2>3, <2>4
<1>3. CASE ~FinishPrepare
  <2>1. UNCHANGED files
    BY <1>3 DEF PrepareSteps, StartPrepare, GroupFails, RankGroup, LabelGroup, ScoreGroup,
       PrepareStep, PrepareDies
  <2> QED BY <1>1, <2>1, NothingWritten, OtherDocuments
<1> QED BY <1>2, <1>3

LEMMA LearningInv ==
    ASSUME RecoveryInv, LearningSteps
    PROVE  RecoveryInv'
<1>1. UNCHANGED <<opened, source, watching, sealing, validations>>
  BY DEF LearningSteps, TrainRanker, TrainVariant, TrainingDone, Screen, world, processes
<1>2. CASE TrainRanker
  <2>1. files' = Written("training_manifest", TrainableGroups)
    BY <1>2 DEF TrainRanker, WriteOnce
  <2>2. Adds({"training_manifest"})
    BY <2>1, WriteAdds
  <2>3. {"training_manifest"} \cap
           (DocumentNames \cup {"assessment", "plan", "package", "seal_manifest"}) = {}
    BY NamesApart
  <2> QED BY <1>1, <2>2, <2>3, OtherDocuments
<1>3. CASE ~TrainRanker
  <2>1. UNCHANGED files
    BY <1>3 DEF LearningSteps, TrainVariant, Screen
  <2> QED BY <1>1, <2>1, NothingWritten, OtherDocuments
<1> QED BY <1>2, <1>3

\* The plan is written with an assessment that is good, and so is one of before.
LEMMA PlanFreshInv ==
    ASSUME RecoveryInv, PlanFresh
    PROVE  RecoveryInv'
<1> DEFINE assessed == Written("assessment", Assessment)
           plan == [eligible |-> sources]
<1>1. /\ UNCHANGED <<opened, source, watching, sealing, validations>>
      /\ ~Conflicts("assessment", Assessment)
      /\ \/ files' = assessed
         \/ Plannable(Assessment) /\ files' = With(assessed, "plan", plan)
  BY DEF PlanFresh, world, processes
<1>2. /\ DOMAIN assessed = DOMAIN files \cup {"assessment"}
      /\ \A n \in DOMAIN files : assessed[n] = files[n]
      /\ assessed["assessment"] = Assessment
  <2>1. /\ DOMAIN assessed = DOMAIN files \cup {"assessment"}
        /\ \A n \in DOMAIN files : assessed[n] = files[n]
        /\ "assessment" \notin DOMAIN files => assessed["assessment"] = Assessment
    BY WrittenAdds DEF Written
  <2>2. "assessment" \in DOMAIN files => files["assessment"] = Assessment
    BY <1>1 DEF Conflicts, Exists
  <2> HIDE DEF assessed
  <2> QED BY <2>1, <2>2
<1> HIDE DEF assessed, plan
<1>3. /\ Adds({"assessment", "plan"})
      /\ "assessment" \in DOMAIN files' /\ files'["assessment"] = Assessment
      /\ "plan" \in DOMAIN files' => "plan" \in DOMAIN files \/ Plannable(Assessment)
  <2>1. CASE files' = assessed
    BY <1>2, <2>1 DEF Adds
  <2>2. CASE Plannable(Assessment) /\ files' = With(assessed, "plan", plan)
    <3>1. /\ DOMAIN files' = DOMAIN assessed \cup {"plan"}
          /\ \A n \in DOMAIN assessed : files'[n] = assessed[n]
      <4> DEFINE w == With(assessed, "plan", plan)
      <4>1. /\ DOMAIN w = DOMAIN assessed \cup {"plan"}
            /\ \A n \in DOMAIN assessed : w[n] = assessed[n]
        BY DEF With
      <4>2. files' = w
        BY <2>2
      <4> HIDE DEF w
      <4> QED BY <4>1, <4>2
    <3> QED BY <1>2, <2>2, <3>1 DEF Adds
  <2> QED BY <1>1, <2>1, <2>2
<1>4. SealedInv' /\ SealingInv'
  BY <1>1, <1>3, SealedStays, SealingStays DEF RecoveryInv
<1>5. WatchInv'
  BY <1>1, <1>3 DEF RecoveryInv, WatchInv, Adds, Exists
<1>6. SupplyInv'
  <2>1. Exists("assessment") => files["assessment"] = Assessment
    BY <1>3 DEF Adds, Exists
  <2>2. Plannable(Assessment) <=> Assessment.ready
    BY DEF Plannable
  <2>3. Exists("plan")' => Assessment.ready
    BY <1>3, <2>1, <2>2 DEF RecoveryInv, SupplyInv, Exists
  <2>4. Exists("data_readiness")' => Exists("data_readiness")
    BY <1>3, NamesApart DEF Adds, Exists
  <2>5. opened' # {} => Exists("plan")'
    BY <1>1, <1>3 DEF RecoveryInv, SupplyInv, Adds, Exists
  <2>6. Exists("data_readiness") \/ sealing # Idle => ~Assessment.ready
    BY <2>1 DEF RecoveryInv, SupplyInv
  <2>7. Exists("assessment")' /\ files'["assessment"] = Assessment
    BY <1>3 DEF Exists
  <2> QED BY <1>1, <2>3, <2>4, <2>5, <2>6, <2>7 DEF SupplyInv
<1> QED BY <1>4, <1>5, <1>6 DEF RecoveryInv

\* What is opened is opened by a plan.
LEMMA AcquireFreshInv ==
    ASSUME RecoveryInv, NEW p \in FreshPartitions, AcquireFresh(p)
    PROVE  RecoveryInv'
<1>1. /\ UNCHANGED <<source, watching, sealing, validations>>
      /\ Exists("plan")
  BY DEF AcquireFresh, processes
<1>2. Adds({p})
  <2>1. CASE UNCHANGED files
    BY <2>1 DEF Adds
  <2>2. CASE \E floors \in BOOLEAN : WriteOnce(p, floors)
    BY <2>2, WriteAdds DEF WriteOnce
  <2> QED BY <2>1, <2>2 DEF AcquireFresh
<1>3. p \notin DocumentNames \cup {"assessment", "plan", "package", "seal_manifest"}
  BY NamesApart DEF FreshPartitions
<1>4. SealedInv' /\ SealingInv'
  BY <1>1, <1>2, <1>3, SealedStays, SealingStays DEF RecoveryInv
<1>5. WatchInv'
  BY <1>1, <1>2, <1>3 DEF RecoveryInv, WatchInv, Adds, Exists
<1>6. SupplyInv'
  BY <1>1, <1>2, <1>3, NamesApart DEF RecoveryInv, SupplyInv, Adds, Exists
<1> QED BY <1>4, <1>5, <1>6 DEF RecoveryInv

LEMMA FreshInv ==
    ASSUME RecoveryInv, FreshSteps
    PROVE  RecoveryInv'
<1>1. CASE StageFreshSources
  <2>1. UNCHANGED <<files, opened, source, watching, sealing, validations>>
    BY <1>1 DEF StageFreshSources, processes
  <2> QED BY <2>1, NothingWritten, OtherDocuments
<1> QED BY <1>1, PlanFreshInv, AcquireFreshInv DEF FreshSteps

-----------------------------------------------------------------------------
(* Validating and packaging.                                               *)

\* A package that is written is the first, and of one version.
LEMMA FinishPackagingInv ==
    ASSUME RecoveryInv, FinishPackaging
    PROVE  RecoveryInv'
<1> DEFINE record == [version |-> watching.version, model |-> watching.model,
                      seen |-> watching.seen]
<1>1. /\ UNCHANGED <<opened, source, sealing, validations>>
      /\ watching # Idle /\ watching' = Idle
      /\ SameSource
      /\ ~Exists("package")
      /\ files' = Written("package", record)
  BY DEF FinishPackaging, Watch, world
<1>2. record.seen = {record.version}
  <2>1. watching.version \in Nat /\ watching.version = source /\ watching.seen # {}
    BY <1>1 DEF RecoveryInv, WatchInv, SameSource
  <2>2. \A v \in watching.seen : v \in Nat /\ watching.version <= v /\ v <= source
    BY <1>1 DEF RecoveryInv, WatchInv
  <2>3. \A v \in watching.seen : v = watching.version
    BY <2>1, <2>2
  <2>4. watching.seen = {watching.version}
    BY <2>1, <2>3
  <2> QED BY <2>4
<1> HIDE DEF record
<1>3. Adds({"package"}) /\ Exists("package")' /\ files'["package"] = record
  BY <1>1, WriteAdds DEF Conflicts, Exists
<1>4. SealedInv' /\ SealingInv'
  BY <1>1, <1>3, SealedStays, SealingStays DEF RecoveryInv
<1>5. SupplyInv'
  BY <1>1, <1>3, NamesApart DEF RecoveryInv, SupplyInv, Adds, Exists
<1>6. WatchInv'
  <2>1. source \in Nat /\ \A v \in validations : v.seen = {v.version}
    BY DEF RecoveryInv, WatchInv
  <2> QED BY <1>1, <1>2, <1>3, <2>1 DEF WatchInv
<1> QED BY <1>4, <1>5, <1>6 DEF RecoveryInv

\* The steps that write no document.
LEMMA WatchingInv ==
    ASSUME RecoveryInv, WatchedSteps, ~FinishPackaging
    PROVE  RecoveryInv'
<1>1. UNCHANGED <<files, opened, source, sealing>>
  BY DEF WatchedSteps, StartValidation, RunValidationCommand, FinishValidation, StartPackaging,
     BuildPackage, WatchingFails, Watch, world
<1>2. SealedInv' /\ SealingInv' /\ SupplyInv'
  BY <1>1, NothingWritten, SealedStays, SealingStays
     DEF RecoveryInv, SupplyInv, Exists
<1>3. WatchInv'
  <2>1. /\ source \in Nat
        /\ \A v \in validations : v.seen = {v.version}
        /\ Exists("package") => files["package"].seen = {files["package"].version}
    BY DEF RecoveryInv, WatchInv
  <2>2. CASE watching' = Idle /\ UNCHANGED validations
    BY <1>1, <2>1, <2>2 DEF WatchInv, Exists
  <2>3. CASE StartValidation
    <3>1. watching' = Watching("validation", NoModel) /\ UNCHANGED validations
      BY <2>3 DEF StartValidation
    <3> QED BY <1>1, <2>1, <3>1 DEF WatchInv, Watching, Exists
  <2>4. ASSUME NEW m \in models, StartPackaging(m) PROVE WatchInv'
    <3>1. watching' = Watching("package", m) /\ UNCHANGED validations
      BY <2>4 DEF StartPackaging
    <3> QED BY <1>1, <2>1, <3>1 DEF WatchInv, Watching, Exists
  <2>5. CASE RunValidationCommand \/ BuildPackage
    <3>1. /\ watching # Idle /\ UNCHANGED validations
          /\ \E seen \in {watching.seen \cup {source}, {source}} :
                watching' = [watching EXCEPT !.seen = seen]
      BY <2>5 DEF RunValidationCommand, BuildPackage
    <3>2. /\ watching = [purpose |-> watching.purpose, version |-> watching.version,
                         model |-> watching.model, seen |-> watching.seen]
          /\ watching.version \in Nat /\ watching.version <= source
          /\ \A v \in watching.seen : v \in Nat /\ watching.version <= v /\ v <= source
      BY <3>1 DEF RecoveryInv, WatchInv
    <3>3. PICK seen \in {watching.seen \cup {source}, {source}} :
             watching' = [watching EXCEPT !.seen = seen]
      BY <3>1
    <3>4. watching' = [purpose |-> watching.purpose, version |-> watching.version,
                       model |-> watching.model, seen |-> seen]
      BY <3>2, <3>3
    <3> QED BY <1>1, <2>1, <3>1, <3>2, <3>4 DEF WatchInv, Exists
  <2>6. CASE FinishValidation
    <3>1. /\ watching # Idle /\ SameSource /\ watching' = Idle
          /\ validations' = validations \cup
                {[run |-> Cardinality(validations), version |-> watching.version,
                  seen |-> watching.seen]}
      BY <2>6 DEF FinishValidation
    <3>2. watching.version = source /\ watching.version \in Nat /\ watching.seen # {}
      BY <3>1 DEF RecoveryInv, WatchInv, SameSource
    <3>3. \A v \in watching.seen : v = watching.version
      BY <3>1, <3>2 DEF RecoveryInv, WatchInv
    <3>4. watching.seen = {watching.version}
      BY <3>2, <3>3
    <3> QED BY <1>1, <2>1, <3>1, <3>4 DEF WatchInv, Exists
  <2> QED BY <2>2, <2>3, <2>4, <2>5, <2>6 DEF WatchedSteps, WatchingFails
<1> QED BY <1>2, <1>3 DEF RecoveryInv

-----------------------------------------------------------------------------
(* Sealing, and edits of the source.                                       *)

\* The source, the package, the validation and the screen were compared with each other.
LEMMA StartSealInv ==
    ASSUME RecoveryInv, NEW m \in receipts, NEW s \in screens, NEW v \in validations,
           StartSeal(m, s, v)
    PROVE  RecoveryInv'
<1> DEFINE c == Contents(m, s, v)
<1>1. /\ UNCHANGED <<files, opened, source, watching, validations>>
      /\ sealing' = [contents |-> c, next |-> 1]
      /\ Sealable(m, s, v)
  BY DEF StartSeal, world
<1>2. /\ Exists("package") /\ files["package"].model = m
      /\ Exists("assessment") /\ ~files["assessment"].ready
      /\ v.version = source /\ files["package"].version = source
      /\ s.completed = Cardinality(Aggregate(NoModel))
  BY <1>1 DEF Sealable, SourceBound, ScreenBinds
<1>3. v.seen = {source} /\ files["package"].seen = {source}
  BY <1>2 DEF RecoveryInv, WatchInv
<1>4. \A r \in Aggregate(m) : r.model = m
  BY DEF Aggregate, RankingsOf
<1>5. OneStory(c)
  BY <1>2, <1>3, <1>4 DEF OneStory, Contents
<1> HIDE DEF c
<1>6. SealingInv'
  <2>1. sealing'.contents = c /\ sealing'.next = 1
    BY <1>1
  <2> QED BY <1>1, <1>5, <2>1 DEF SealingInv, OneStory
<1>7. SealedInv' /\ WatchInv'
  BY <1>1, NothingWritten, SealedStays DEF RecoveryInv, WatchInv, Exists
<1>8. SupplyInv'
  BY <1>1, <1>2 DEF RecoveryInv, SupplyInv, Exists
<1> QED BY <1>6, <1>7, <1>8 DEF RecoveryInv

\* One more document is the attempt's own, or was equal.
LEMMA WriteDocumentInv ==
    ASSUME RecoveryInv, WriteDocument
    PROVE  RecoveryInv'
<1> DEFINE name == Documents[sealing.next]
           value == sealing.contents[name]
<1>1. /\ UNCHANGED <<opened, source, watching, validations>>
      /\ sealing # Idle
      /\ sealing.next <= 7
      /\ \/ UNCHANGED files /\ sealing' = Idle
         \/ /\ ~Conflicts(name, value)
            /\ files' = Written(name, value)
            /\ sealing' = [sealing EXCEPT !.next = @ + 1]
  BY DocumentIs DEF WriteDocument, Sealing, SealStep, world
<1>2. /\ sealing = [contents |-> sealing.contents, next |-> sealing.next]
      /\ OneStory(sealing.contents)
      /\ sealing.next \in 1..7
      /\ \A i \in 1..7 : i < sealing.next =>
            /\ Exists(Documents[i])
            /\ files[Documents[i]] = sealing.contents[Documents[i]]
  BY <1>1 DEF RecoveryInv, SealingInv
<1>3. name \in DocumentNames
  BY <1>2, NamesApart
<1>4. CASE UNCHANGED files /\ sealing' = Idle
  BY <1>1, <1>4, NothingWritten, SealedStays
     DEF RecoveryInv, SupplyInv, WatchInv, SealingInv, Exists
<1>5. CASE /\ ~Conflicts(name, value)
           /\ files' = Written(name, value)
           /\ sealing' = [sealing EXCEPT !.next = @ + 1]
  <2>1. sealing' = [contents |-> sealing.contents, next |-> sealing.next + 1]
    BY <1>2, <1>5
  <2>2. Adds({name}) /\ name \in DOMAIN files' /\ files'[name] = value
    <3> HIDE DEF name, value
    <3> QED BY <1>5, WriteAdds
  <2>3. SealingInv'
    <3>1. sealing'.contents = sealing.contents /\ sealing'.next = sealing.next + 1
      BY <2>1
    <3>2. ASSUME NEW i \in 1..7, i < sealing.next + 1
          PROVE  /\ Exists(Documents[i])'
                 /\ files'[Documents[i]] = sealing.contents[Documents[i]]
      <4>1. CASE i = sealing.next
        BY <2>2, <4>1 DEF Exists
      <4>2. CASE i # sealing.next
        <5>1. i < sealing.next
          BY <1>2, <3>2, <4>2
        <5>2. Exists(Documents[i]) /\ files[Documents[i]] = sealing.contents[Documents[i]]
          BY <1>2, <5>1
        <5> HIDE DEF name, value
        <5> QED BY <2>2, <5>2 DEF Adds, Exists
      <4> QED BY <4>1, <4>2
    <3>3. sealing.next + 1 \in 1..8
      BY <1>2
    <3> QED BY <1>2, <2>1, <3>1, <3>2, <3>3 DEF SealingInv, OneStory
  <2>4. SealedInv'
    BY <1>3, <2>2, NamesApart, SealedStays DEF RecoveryInv
  <2>5. WatchInv'
    <3> HIDE DEF name, value
    <3> QED BY <1>1, <1>3, <2>2, NamesApart DEF RecoveryInv, WatchInv, Adds, Exists
  <2>6. SupplyInv'
    <3> HIDE DEF name, value
    <3> QED BY <1>1, <1>3, <2>2, NamesApart DEF RecoveryInv, SupplyInv, Adds, Exists
  <2> QED BY <2>3, <2>4, <2>5, <2>6 DEF RecoveryInv
<1> QED BY <1>1, <1>4, <1>5

\* The members are read back when all are the attempt's own.
LEMMA SealManifestInv ==
    ASSUME RecoveryInv, SealManifest
    PROVE  RecoveryInv'
<1> DEFINE manifest == [version |-> sealing.contents["starting_state"].version,
                        members |-> [i \in 1..Len(Documents) |-> files[Documents[i]]]]
<1>1. /\ UNCHANGED <<opened, source, watching, validations>>
      /\ sealing # Idle /\ sealing' = Idle
      /\ sealing.next = 8
      /\ \/ UNCHANGED files
         \/ ~Conflicts("seal_manifest", manifest) /\ files' = Written("seal_manifest", manifest)
  BY DocumentIs DEF SealManifest, Sealing, SealStep, world
<1>2. manifest.version = sealing.contents["starting_state"].version
  OBVIOUS
<1> HIDE DEF manifest
<1>3. /\ OneStory(sealing.contents)
      /\ \A i \in 1..7 : /\ Exists(Documents[i])
                         /\ files[Documents[i]] = sealing.contents[Documents[i]]
  BY <1>1 DEF RecoveryInv, SealingInv
<1>4. \A n \in DocumentNames : Exists(n) /\ files[n] = sealing.contents[n]
  BY <1>3 DEF DocumentNames
<1>5. OneStory(files)
  <2>1. /\ files["validation_disposition"] = sealing.contents["validation_disposition"]
        /\ files["runtime_integration"] = sealing.contents["runtime_integration"]
        /\ files["starting_state"] = sealing.contents["starting_state"]
        /\ files["model_summary"] = sealing.contents["model_summary"]
        /\ files["development_summary"] = sealing.contents["development_summary"]
    BY <1>4, NamesApart
  <2> QED BY <1>3, <2>1 DEF OneStory
<1>6. CASE UNCHANGED files
  BY <1>1, <1>6, NothingWritten, SealedStays
     DEF RecoveryInv, SupplyInv, WatchInv, SealingInv, Exists
<1>7. CASE ~Conflicts("seal_manifest", manifest) /\ files' = Written("seal_manifest", manifest)
  <2>1. Adds({"seal_manifest"}) /\ files'["seal_manifest"] = manifest
    BY <1>7, WriteAdds
  <2>2. SealedInv'
    <3>1. \A n \in DocumentNames : Exists(n)' /\ files'[n] = files[n]
      BY <1>4, <2>1 DEF Adds, Exists
    <3>2. OneStory(files')
      BY <1>4, <1>5, <2>1, StoryStays
    <3>3. files'["seal_manifest"].version = files'["starting_state"].version
      BY <1>2, <1>4, <2>1, <3>1, NamesApart
    <3> QED BY <3>1, <3>2, <3>3 DEF SealedInv, OneStory
  <2>3. WatchInv'
    BY <1>1, <2>1, NamesApart DEF RecoveryInv, WatchInv, Adds, Exists
  <2>4. SupplyInv'
    BY <1>1, <2>1, NamesApart DEF RecoveryInv, SupplyInv, Adds, Exists
  <2> QED BY <1>1, <2>2, <2>3, <2>4 DEF RecoveryInv, SealingInv
<1> QED BY <1>1, <1>6, <1>7

LEMMA SealInv ==
    ASSUME RecoveryInv, SealSteps
    PROVE  RecoveryInv'
<1>1. CASE SealDies
  <2>1. UNCHANGED <<files, opened, source, watching, validations>> /\ sealing' = Idle
    BY <1>1 DEF SealDies, SealStep, world
  <2> QED BY <2>1, NothingWritten, SealedStays
          DEF RecoveryInv, SupplyInv, WatchInv, SealingInv, Exists
<1> QED BY <1>1, StartSealInv, WriteDocumentInv, SealManifestInv DEF SealSteps

\* A version that an edit makes is a new one.
LEMMA EditSourceInv ==
    ASSUME RecoveryInv, EditSource
    PROVE  RecoveryInv'
<1>1. UNCHANGED <<files, opened, watching, sealing, validations>> /\ source' = source + 1
  BY DEF EditSource, processes
<1>2. WatchInv'
  BY <1>1 DEF RecoveryInv, WatchInv, Exists
<1> QED BY <1>1, <1>2, NothingWritten, SealedStays, SealingStays
        DEF RecoveryInv, SupplyInv, Exists

LEMMA RecoveryStep == RecoveryInv /\ [RecoveryNext]_recoveryVars => RecoveryInv'
<1> SUFFICES ASSUME RecoveryInv, [RecoveryNext]_recoveryVars PROVE RecoveryInv'
  OBVIOUS
<1>1. CASE UNCHANGED recoveryVars
  <2>1. UNCHANGED <<files, opened, source, watching, sealing, validations>>
    BY <1>1 DEF recoveryVars, world, processes
  <2> QED BY <2>1, NothingWritten, OtherDocuments
<1> QED BY <1>1, PrepareInv, FreshInv, LearningInv, FinishPackagingInv, WatchingInv, SealInv,
           EditSourceInv DEF RecoveryNext

-----------------------------------------------------------------------------
\* The old documents, the running processes and the sealed evidence agree in every state of
\* the recovery scripts.
THEOREM RecoveryInvariant == RecoverySpec => []RecoveryInv
<1> QED BY RecoveryInitInv, RecoveryStep, PTL DEF RecoverySpec

\* Validation and package qualification ran on the version that seal_v0_4_1.py names, however
\* the source was edited and whichever attempts were given up.
THEOREM SealedIsValidated == RecoverySpec => []SealedSourceValidated
<1>1. RecoveryInv => SealedSourceValidated
  BY NamesApart DEF RecoveryInv, SealedInv, OneStory, SealedSourceValidated
<1> QED BY <1>1, RecoveryInvariant, PTL

\* The documents that the manifest of seal_v0_4_1.py names are of one source, one model and
\* one development summary, though several attempts may have written them.
THEOREM EvidenceIsConsistent == RecoverySpec => []EvidenceConsistent
<1>1. RecoveryInv => EvidenceConsistent
  BY DEF RecoveryInv, SealedInv, OneStory, EvidenceConsistent
<1> QED BY <1>1, RecoveryInvariant, PTL

\* No fresh partition is acquired when the sealed evidence says that supply fell short.
THEOREM FreshStaysUnopened == RecoverySpec => []FreshUnopened
<1>1. RecoveryInv => FreshUnopened
  BY DEF RecoveryInv, SupplyInv, FreshUnopened
<1> QED BY <1>1, RecoveryInvariant, PTL
=============================================================================
