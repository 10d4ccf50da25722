-------------------------- MODULE AssuranceProofs ---------------------------
(***************************************************************************)
(* The evidence of V0.4.                                                   *)
(*                                                                         *)
(* Qualification, for any number of runs, edits and commands that die: the *)
(* labels of the qualification cards are read once, what is selected was   *)
(* trained and compared under one lock, and what is sealed stays true.     *)
(*                                                                         *)
(* Corpus, for any repositories, candidates, partitions, limits, workers   *)
(* and plans: organizations stay apart, and the seal is what was audited   *)
(* and admitted, whichever commands died.                                  *)
(***************************************************************************)
EXTENDS Qualification, Corpus, InductionLemmas

-----------------------------------------------------------------------------
(* The experiment protocol (Qualification).                                *)

Typed == files = [f \in FileNames |-> files[f]]

-----------------------------------------------------------------------------
(* A governed file is written once.                                        *)

\* A write leaves every other file alone, and its own unless there was none.
LEMMA WriteOneDoes ==
    ASSUME NEW fs, fs = [f \in FileNames |-> fs[f]],
           NEW g \in FileNames, NEW value, WriteOne(fs, Writing(g, value))
    PROVE  /\ Typed'
           /\ \A f \in FileNames \ {g} : files'[f] = fs[f]
           /\ \/ files'[g] = fs[g]
              \/ fs[g] = None /\ files'[g] \in {value, Torn}
<1>1. \/ files' = fs
      \/ fs[g] \in {None, value} /\ files' = [fs EXCEPT ![g] = value]
      \/ fs[g] = None /\ files' = [fs EXCEPT ![g] = Torn]
  BY DEF WriteOne, Writing, Put, Conflicts, Tears
<1> QED BY <1>1 DEF Typed

\* Of two writes the second is not begun before the first is whole.
LEMMA WriteBothDoes ==
    ASSUME Typed,
           NEW g \in FileNames, NEW h \in FileNames, g # h, NEW v, NEW w,
           WriteBoth(Writing(g, v), Writing(h, w))
    PROVE  /\ Typed'
           /\ \A f \in FileNames \ {g, h} : files'[f] = files[f]
           /\ \/ files'[g] = files[g]
              \/ files[g] = None /\ files'[g] \in {v, Torn}
           /\ \/ files'[h] = files[h]
              \/ files[h] = None /\ files'[h] \in {w, Torn} /\ files'[g] = v
           /\ files[g] \in {None, v}
<1>1. files[g] \in {None, v}
  BY DEF WriteBoth, Conflicts, Writing
<1>2. CASE Tears(files, Writing(g, v))
  BY <1>1, <1>2 DEF Tears, Writing, Put, Typed
<1>3. CASE files' = Put(files, Writing(g, v))
  BY <1>1, <1>3 DEF Writing, Put, Typed
<1>4. CASE WriteOne(Put(files, Writing(g, v)), Writing(h, w))
  <2> DEFINE fs == [files EXCEPT ![g] = v]
  <2>1. fs = [f \in FileNames |-> fs[f]]
    BY DEF Typed
  <2>2. WriteOne(fs, Writing(h, w))
    BY <1>4 DEF Put, Writing
  <2>3. /\ Typed'
        /\ \A f \in FileNames \ {h} : files'[f] = fs[f]
        /\ \/ files'[h] = fs[h]
           \/ fs[h] = None /\ files'[h] \in {w, Torn}
    <3> HIDE DEF fs
    <3> QED BY <2>1, <2>2, WriteOneDoes
  <2>4. fs[g] = v /\ \A f \in FileNames \ {g} : fs[f] = files[f]
    BY DEF Typed
  <2> QED BY <1>1, <2>3, <2>4
<1> QED BY <1>2, <1>3, <1>4 DEF WriteBoth, Writing

\* A file with a name of its own is written once: what is there stays.
Kept == \A f \in FileNames \ FeatureFiles : files[f] # None => files'[f] = files[f]

\* The files that one command alone writes.
Guarded == {"consumption", "result", "checkpoint", "receipt", "qualification_lock",
            "budget_before", "evidence", "remediated_execution"}

Same(names) == \A f \in names : files'[f] = files[f]

LEMMA Names ==
    /\ Guarded \subseteq FileNames \ FeatureFiles
    /\ {"candidate_lock", "revised_lock", "supply", "revised_supply", "execution",
        "revised_execution", "preflight_failure", "gates", "readiness", "remediated_gates",
        "remediated_readiness", "budget_after", "status", "ledger", "evidence_directory"}
          \subseteq FileNames \ FeatureFiles
    /\ FeatureFiles \subseteq FileNames
    /\ \A p \in FeaturePartitions : FeatureFile(p) \in FeatureFiles
BY DEF Guarded, FileNames, FeatureFiles, FeatureFile, FeaturePartitions

\* The commands that prepare: none of the guarded files is theirs.
Preparation ==
    \/ \E p \in FeaturePartitions : Prepare(p)
    \/ \E s \in summaries : LockCandidates(s)
    \/ FreezeTrainingExecution
    \/ \E d \in summaries, t \in summaries : AssessTrainingReadiness(d, t)
    \/ RecordStatus
    \/ Edit

LEMMA PreparationWrites ==
    ASSUME Typed, Preparation
    PROVE  /\ Typed' /\ Kept /\ Same(Guarded)
           /\ UNCHANGED <<advantage, evaluating, openings>>
           /\ summaries \subseteq summaries'
           /\ \A s \in summaries' \ summaries : s.kind = "baseline"
<1>1. ASSUME NEW p \in FeaturePartitions, Prepare(p)
      PROVE  /\ Typed' /\ Kept /\ Same(Guarded)
             /\ UNCHANGED <<advantage, evaluating, openings>>
             /\ summaries \subseteq summaries'
             /\ \A s \in summaries' \ summaries : s.kind = "baseline"
  <2>1. \/ files' = [files EXCEPT ![FeatureFile(p)] = CachedOr(p)]
        \/ files' = [files EXCEPT ![FeatureFile(p)] = Torn]
    BY <1>1 DEF Prepare, Writing, Put, Tears
  <2>2. Typed' /\ Kept /\ Same(Guarded)
    BY <2>1, Names DEF Typed, Kept, Same
  <2>3. \/ summaries' = summaries
        \/ \E lock : summaries' = summaries \cup {Summary(p, lock)}
    BY <1>1 DEF Prepare, AddSummary
  <2>4. UNCHANGED <<advantage, evaluating, openings>>
    BY <1>1 DEF Prepare, Command
  <2> QED BY <2>2, <2>3, <2>4 DEF Summary
<1>2. ASSUME NEW s \in summaries, LockCandidates(s)
      PROVE  Typed' /\ Kept /\ Same(Guarded)
  <2> DEFINE name == IF Exists("candidate_lock") THEN "revised_lock" ELSE "candidate_lock"
  <2>1. name \in FileNames \ FeatureFiles /\ name \notin Guarded
    BY Names DEF Guarded
  <2>2. WriteOne(files, Writing(name, CandidateLock(s, files["candidate_lock"])))
    BY <1>2 DEF LockCandidates
  <2> HIDE DEF name
  <2> QED BY <2>1, <2>2, WriteOneDoes, Names DEF Typed, Kept, Same
<1>3. ASSUME FreezeTrainingExecution
      PROVE  Typed' /\ Kept /\ Same(Guarded)
  <2>1. PICK g \in {"supply", "revised_supply"}, h \in {"execution", "revised_execution"} :
           \E v, w : WriteBoth(Writing(g, v), Writing(h, w))
    BY <1>3 DEF FreezeTrainingExecution
  <2>2. /\ g # h /\ g \notin Guarded /\ h \notin Guarded
        /\ g \in FileNames /\ h \in FileNames
    BY Names DEF Guarded
  <2>3. /\ Typed'
        /\ \A f \in FileNames \ {g, h} : files'[f] = files[f]
        /\ files[g] # None => files'[g] = files[g]
        /\ files[h] # None => files'[h] = files[h]
    BY <2>1, <2>2, WriteBothDoes
  <2>4. Kept
    BY <2>3 DEF Kept
  <2>5. Same(Guarded)
    BY <2>2, <2>3, Names DEF Same
  <2> QED BY <2>3, <2>4, <2>5
<1>4. ASSUME NEW d \in summaries, NEW t \in summaries, AssessTrainingReadiness(d, t)
      PROVE  Typed' /\ Kept /\ Same(Guarded)
  <2>1. PICK g \in {"gates", "remediated_gates"}, h \in {"readiness", "remediated_readiness"} :
           \E v, w : WriteBoth(Writing(g, v), Writing(h, w))
    BY <1>4 DEF AssessTrainingReadiness, GatesFile, ReadinessFile
  <2>2. /\ g # h /\ g \notin Guarded /\ h \notin Guarded
        /\ g \in FileNames /\ h \in FileNames
    BY Names DEF Guarded
  <2>3. /\ Typed'
        /\ \A f \in FileNames \ {g, h} : files'[f] = files[f]
        /\ files[g] # None => files'[g] = files[g]
        /\ files[h] # None => files'[h] = files[h]
    BY <2>1, <2>2, WriteBothDoes
  <2>4. Kept
    BY <2>3 DEF Kept
  <2>5. Same(Guarded)
    BY <2>2, <2>3, Names DEF Same
  <2> QED BY <2>3, <2>4, <2>5
<1>5. ASSUME RecordStatus
      PROVE  Typed' /\ Kept /\ Same(Guarded)
  <2>1. PICK v, w : WriteBoth(Writing("status", v), Writing("ledger", w))
    BY <1>5 DEF RecordStatus
  <2>2. /\ "status" \notin Guarded /\ "ledger" \notin Guarded
        /\ "status" \in FileNames /\ "ledger" \in FileNames
    BY Names DEF Guarded
  <2>3. /\ Typed'
        /\ \A f \in FileNames \ {"status", "ledger"} : files'[f] = files[f]
        /\ files["status"] # None => files'["status"] = files["status"]
        /\ files["ledger"] # None => files'["ledger"] = files["ledger"]
    BY <2>1, <2>2, WriteBothDoes
  <2>4. Kept
    BY <2>3 DEF Kept
  <2>5. Same(Guarded)
    BY <2>2, <2>3, Names DEF Same
  <2> QED BY <2>3, <2>4, <2>5
<1>6. ASSUME Edit
      PROVE  Typed' /\ Kept /\ Same(Guarded)
  <2>1. \/ files' = files
        \/ files' = [f \in FileNames |-> IF f \in FeatureFiles THEN None ELSE files[f]]
    BY <1>6 DEF Edit
  <2> QED BY <1>6, <2>1, Names DEF Edit, Typed, Kept, Same
<1>7. CASE \/ \E s \in summaries : LockCandidates(s)
           \/ FreezeTrainingExecution
           \/ \E d \in summaries, t \in summaries : AssessTrainingReadiness(d, t)
           \/ RecordStatus
           \/ Edit
  <2>1. UNCHANGED <<summaries, advantage, evaluating, openings>>
    BY <1>7 DEF LockCandidates, FreezeTrainingExecution, AssessTrainingReadiness, RecordStatus,
       Edit, Command
  <2>2. Typed' /\ Kept /\ Same(Guarded)
    BY <1>2, <1>3, <1>4, <1>5, <1>6, <1>7
  <2> QED BY <2>1, <2>2
<1> QED BY <1>1, <1>7 DEF Preparation

-----------------------------------------------------------------------------
(* The inductive invariant.                                                *)

\* A run that goes on or is over has left its receipt; a result is of one that is over.
SpentInv ==
    /\ openings \in {0, 1}
    /\ evaluating => openings = 0 /\ Exists("consumption")
    /\ openings = 1 => Exists("consumption")
    /\ Exists("result") => openings = 1

\* A training was under the gates in force, which no remediation replaces any more.
TrainingInv ==
    Whole("receipt") =>
        /\ Whole(GatesFile)
        /\ files[GatesFile].lock = files["receipt"].lock
        /\ Whole("checkpoint")
        /\ files["receipt"].checkpoint = files["checkpoint"]

\* What was learned is of the one training.
LearnedInv ==
    \A s \in summaries :
        s.kind = "learned" =>
            /\ Whole("receipt")
            /\ s.lock = files["receipt"].lock
            /\ s.checkpoint = files["checkpoint"]

\* What makes a document a lock of the qualification.
IsLock(q) ==
    /\ q.kind = "qualification_lock"
    /\ q = [kind |-> "qualification_lock", lock |-> q.lock, baseline |-> q.baseline,
            learned |-> q.learned, selected |-> Selected(q.learned)]
    /\ Loads(q.lock)
    /\ q.baseline \in BaselineOf("model_selection") /\ q.baseline.lock = q.lock
    /\ q.learned \in LearnedOf("model_selection") \cup {None}
    /\ q.learned # None => q.learned.lock = q.lock

\* The lock of the qualification says what was selected from which summaries, and the
\* budget is of that lock.
LockInv ==
    /\ Whole("qualification_lock") => IsLock(files["qualification_lock"])
    /\ Whole("budget_before") =>
          /\ Whole("qualification_lock")
          /\ files["budget_before"] = Budget(files["qualification_lock"])

\* Evidence that says there was no training: the readiness in force is there and refuses.
EvidenceInv ==
    Whole("evidence") =>
        /\ files["evidence"].trained \in BOOLEAN
        /\ files["evidence"].trained => Exists("receipt")
        /\ ~files["evidence"].trained =>
              /\ ~Exists("receipt")
              /\ Whole(ReadinessFile)
              /\ ~files[ReadinessFile].authorised

QualificationInv ==
    /\ Typed
    /\ SpentInv
    /\ TrainedUnderAuthority
    /\ TrainingInv
    /\ LearnedInv
    /\ LockInv
    /\ EvidenceInv

LEMMA InitInv == Init => QualificationInv
<1> SUFFICES ASSUME Init PROVE QualificationInv
  OBVIOUS
<1>1. Typed /\ \A f \in FileNames : files[f] = None
  BY DEF Init, Typed
<1>2. \A f \in Guarded : ~Exists(f) /\ ~Whole(f)
  BY <1>1, Names DEF Exists, Whole
<1>3. SpentInv /\ LearnedInv
  BY <1>2 DEF Init, SpentInv, LearnedInv, Guarded
<1>4. TrainedUnderAuthority /\ TrainingInv /\ LockInv /\ EvidenceInv
  BY <1>2 DEF TrainedUnderAuthority, TrainingInv, LockInv, EvidenceInv, Guarded
<1> QED BY <1>1, <1>3, <1>4 DEF QualificationInv

\* What every step but the ones that write a guarded file keeps.
LEMMA WholeStays ==
    ASSUME Kept
    PROVE  /\ \A f \in FileNames \ FeatureFiles : Exists(f) => Exists(f)'
           /\ \A f \in FileNames \ FeatureFiles : Whole(f) => Whole(f)' /\ files'[f] = files[f]
BY DEF Kept, Exists, Whole

\* The documents in force are fixed once there is a gate or a training.
LEMMA ForceStays ==
    ASSUME Kept, files'["remediated_execution"] = files["remediated_execution"]
    PROVE  /\ GatesFile' = GatesFile /\ ReadinessFile' = ReadinessFile
           /\ Whole(GatesFile) => Whole(GatesFile)' /\ files'[GatesFile'] = files[GatesFile]
           /\ Whole(ReadinessFile) =>
                 Whole(ReadinessFile)' /\ files'[ReadinessFile'] = files[ReadinessFile]
<1>1. GatesFile' = GatesFile /\ ReadinessFile' = ReadinessFile
  BY DEF GatesFile, ReadinessFile, Exists
<1>2. /\ GatesFile \in FileNames \ FeatureFiles
      /\ ReadinessFile \in FileNames \ FeatureFiles
  BY Names DEF GatesFile, ReadinessFile
<1> QED BY <1>1, <1>2, WholeStays DEF Whole, Exists

-----------------------------------------------------------------------------
(* Each part, where the files it is about are not written.                 *)

LEMMA SpentStays ==
    ASSUME SpentInv, Same({"consumption", "result"}), UNCHANGED <<evaluating, openings>>
    PROVE  SpentInv'
BY DEF SpentInv, Same, Exists

LEMMA AuthorityStays ==
    ASSUME TrainedUnderAuthority, Kept, files'["checkpoint"] = files["checkpoint"]
    PROVE  TrainedUnderAuthority'
<1> SUFFICES ASSUME Whole("checkpoint")'
             PROVE  \E f \in {"gates", "remediated_gates"} :
                       /\ Whole(f)'
                       /\ AllPass(files'[f].gates)
                       /\ files'[f].execution.training = files'["checkpoint"].training
  BY DEF TrainedUnderAuthority, AllPass
<1>1. Whole("checkpoint")
  BY DEF Whole, Exists
<1>2. PICK f \in {"gates", "remediated_gates"} :
         /\ Whole(f)
         /\ AllPass(files[f].gates)
         /\ files[f].execution.training = files["checkpoint"].training
  BY <1>1 DEF TrainedUnderAuthority
<1>3. Whole(f)' /\ files'[f] = files[f]
  BY <1>2, WholeStays, Names
<1> QED BY <1>2, <1>3

LEMMA TrainingStays ==
    ASSUME TrainingInv, Kept, Same({"remediated_execution", "receipt"})
    PROVE  TrainingInv'
<1> SUFFICES ASSUME Whole("receipt")'
             PROVE  /\ Whole(GatesFile)'
                    /\ files'[GatesFile'].lock = files'["receipt"].lock
                    /\ Whole("checkpoint")'
                    /\ files'["receipt"].checkpoint = files'["checkpoint"]
  BY DEF TrainingInv
<1>1. Whole("receipt") /\ files'["receipt"] = files["receipt"]
  BY DEF Whole, Exists, Same
<1>2. /\ Whole(GatesFile)
      /\ files[GatesFile].lock = files["receipt"].lock
      /\ Whole("checkpoint")
      /\ files["receipt"].checkpoint = files["checkpoint"]
  BY <1>1 DEF TrainingInv
<1>3. Whole(GatesFile)' /\ files'[GatesFile'] = files[GatesFile]
  BY <1>2, ForceStays DEF Same
<1>4. Whole("checkpoint")' /\ files'["checkpoint"] = files["checkpoint"]
  BY <1>2, WholeStays, Names DEF Guarded
<1> QED BY <1>1, <1>2, <1>3, <1>4

LEMMA LearnedStays ==
    ASSUME TrainingInv, LearnedInv, Kept,
           \A s \in summaries' \ summaries : s.kind = "baseline"
    PROVE  LearnedInv'
<1> SUFFICES ASSUME NEW s \in summaries', s.kind = "learned"
             PROVE  /\ Whole("receipt")'
                    /\ s.lock = files'["receipt"].lock
                    /\ s.checkpoint = files'["checkpoint"]
  BY DEF LearnedInv
<1>1. Whole("receipt") /\ s.lock = files["receipt"].lock /\ s.checkpoint = files["checkpoint"]
  BY DEF LearnedInv
<1>2. Whole("checkpoint")
  BY <1>1 DEF TrainingInv
<1>3. /\ Whole("receipt")' /\ files'["receipt"] = files["receipt"]
      /\ files'["checkpoint"] = files["checkpoint"]
  BY <1>1, <1>2, WholeStays, Names DEF Guarded
<1> QED BY <1>1, <1>3

LEMMA IsLockStays ==
    ASSUME NEW q, IsLock(q), UNCHANGED advantage, summaries \subseteq summaries'
    PROVE  IsLock(q)'
<1>1. Selected(q.learned)' = Selected(q.learned)
  BY DEF Selected
<1>2. /\ BaselineOf("model_selection") \subseteq BaselineOf("model_selection")'
      /\ LearnedOf("model_selection") \subseteq LearnedOf("model_selection")'
  BY DEF BaselineOf, LearnedOf
<1> QED BY <1>1, <1>2 DEF IsLock, Loads, None, Torn

LEMMA LockStays ==
    ASSUME LockInv, UNCHANGED advantage, summaries \subseteq summaries',
           Same({"qualification_lock", "budget_before"})
    PROVE  LockInv'
<1>1. /\ files'["qualification_lock"] = files["qualification_lock"]
      /\ files'["budget_before"] = files["budget_before"]
  BY DEF Same
<1>2. Whole("qualification_lock")' => IsLock(files["qualification_lock"])'
  BY <1>1, IsLockStays DEF LockInv, Whole, Exists
<1> QED BY <1>1, <1>2 DEF LockInv, Whole, Exists, Budget

LEMMA EvidenceStays ==
    ASSUME EvidenceInv, Kept, Same({"evidence", "receipt", "remediated_execution"})
    PROVE  EvidenceInv'
<1> SUFFICES ASSUME Whole("evidence")'
             PROVE  /\ files'["evidence"].trained \in BOOLEAN
                    /\ files'["evidence"].trained => Exists("receipt")'
                    /\ ~files'["evidence"].trained =>
                          /\ ~Exists("receipt")'
                          /\ Whole(ReadinessFile)'
                          /\ ~files'[ReadinessFile'].authorised
  BY DEF EvidenceInv
<1>1. /\ Whole("evidence") /\ files'["evidence"] = files["evidence"]
      /\ Exists("receipt")' = Exists("receipt")
  BY DEF Whole, Exists, Same
<1>2. Whole(ReadinessFile) =>
         Whole(ReadinessFile)' /\ files'[ReadinessFile'] = files[ReadinessFile]
  BY ForceStays DEF Same
<1> QED BY <1>1, <1>2 DEF EvidenceInv

-----------------------------------------------------------------------------
(* One lemma per command that writes a guarded file.                       *)

LEMMA PreparationStep ==
    ASSUME QualificationInv, Preparation
    PROVE  QualificationInv'
<1>1. /\ Typed' /\ Kept /\ Same(Guarded)
      /\ UNCHANGED <<advantage, evaluating, openings>>
      /\ summaries \subseteq summaries'
      /\ \A s \in summaries' \ summaries : s.kind = "baseline"
  BY PreparationWrites DEF QualificationInv
<1>2. /\ Same({"consumption", "result"}) /\ files'["checkpoint"] = files["checkpoint"]
      /\ Same({"remediated_execution", "receipt"})
      /\ Same({"qualification_lock", "budget_before"})
      /\ Same({"evidence", "receipt", "remediated_execution"})
  BY <1>1 DEF Same, Guarded
<1>3. SpentInv' /\ TrainedUnderAuthority'
  BY <1>1, <1>2, SpentStays, AuthorityStays DEF QualificationInv
<1>4. TrainingInv' /\ LearnedInv'
  BY <1>1, <1>2, TrainingStays, LearnedStays DEF QualificationInv
<1>5. LockInv' /\ EvidenceInv'
  BY <1>1, <1>2, LockStays, EvidenceStays DEF QualificationInv
<1> QED BY <1>1, <1>3, <1>4, <1>5 DEF QualificationInv

\* What a command that writes two governed files does to all the others.
LEMMA TwoWritten ==
    ASSUME Typed, NEW g \in FileNames \ FeatureFiles, NEW h \in FileNames \ FeatureFiles,
           g # h, NEW v, NEW w, WriteBoth(Writing(g, v), Writing(h, w))
    PROVE  /\ Typed' /\ Kept
           /\ \A f \in FileNames \ {g, h} : files'[f] = files[f]
           /\ Whole(g)' => files'[g] \in {v, files[g]}
           /\ Whole(h)' =>
                 \/ Whole(h) /\ files'[h] = files[h]
                 \/ files'[h] = w /\ files'[g] = v
           /\ files[g] \in {None, v}
<1>1. /\ Typed'
      /\ \A f \in FileNames \ {g, h} : files'[f] = files[f]
      /\ \/ files'[g] = files[g]
         \/ files[g] = None /\ files'[g] \in {v, Torn}
      /\ \/ files'[h] = files[h]
         \/ files[h] = None /\ files'[h] \in {w, Torn} /\ files'[g] = v
      /\ files[g] \in {None, v}
  BY WriteBothDoes
<1>2. Kept
  BY <1>1 DEF Kept
<1>3. Whole(g)' => files'[g] \in {v, files[g]}
  BY <1>1 DEF Whole, Exists
<1>4. Whole(h)' =>
         \/ Whole(h) /\ files'[h] = files[h]
         \/ files'[h] = w /\ files'[g] = v
  BY <1>1 DEF Whole, Exists
<1> QED BY <1>1, <1>2, <1>3, <1>4

\* The training identity is remediated before there is a training.
LEMMA RemediateStep ==
    ASSUME QualificationInv, RemediateTrainingIdentity
    PROVE  QualificationInv'
<1>1. PICK v, w : WriteBoth(Writing("preflight_failure", v), Writing("remediated_execution", w))
  BY DEF RemediateTrainingIdentity
<1>2. /\ Typed' /\ Kept
      /\ \A f \in FileNames \ {"preflight_failure", "remediated_execution"} :
            files'[f] = files[f]
  BY <1>1, TwoWritten, Names DEF QualificationInv, Guarded
<1>3. /\ Same({"consumption", "result"}) /\ files'["checkpoint"] = files["checkpoint"]
      /\ Same({"qualification_lock", "budget_before"})
      /\ Same({"evidence", "receipt"})
  BY <1>2, Names DEF Same, Guarded
<1>4. UNCHANGED <<summaries, advantage, evaluating, openings>>
  BY DEF RemediateTrainingIdentity, Command
<1>5. ~Exists("receipt") /\ Whole("readiness") /\ files["readiness"].authorised
  BY DEF RemediateTrainingIdentity
<1>6. SpentInv' /\ TrainedUnderAuthority' /\ LearnedInv' /\ LockInv'
  BY <1>2, <1>3, <1>4, SpentStays, AuthorityStays, LearnedStays, LockStays
  DEF QualificationInv
<1>7. ~Exists("receipt")'
  BY <1>3, <1>5 DEF Same, Exists
<1>8. TrainingInv'
  BY <1>7 DEF TrainingInv, Whole
<1>9. ASSUME Whole("evidence"), ~Exists("remediated_execution") PROVE FALSE
  BY <1>5, <1>9 DEF QualificationInv, EvidenceInv, ReadinessFile
<1>10. EvidenceInv'
  <2>1. CASE Exists("remediated_execution")
    <3>1. files'["remediated_execution"] = files["remediated_execution"]
      BY <1>2, <2>1, Names DEF Kept, Exists, Guarded
    <3> QED BY <1>2, <1>3, <3>1, EvidenceStays DEF Same, QualificationInv
  <2>2. CASE ~Exists("remediated_execution")
    BY <1>3, <1>9, <2>2 DEF EvidenceInv, Same, Whole, Exists
  <2> QED BY <2>1, <2>2
<1> QED BY <1>2, <1>6, <1>8, <1>10 DEF QualificationInv

\* The gates in force were passed by the execution in force, whose code is the code.
LEMMA TrainStep ==
    ASSUME QualificationInv, Train
    PROVE  QualificationInv'
<1> DEFINE r == [kind |-> "receipt", lock |-> ActiveLock,
                 execution |-> ActiveExecution, checkpoint |-> Checkpoint]
<1>1. WriteBoth(Writing("checkpoint", Checkpoint), Writing("receipt", r))
  BY DEF Train
<1>2. /\ Typed' /\ Kept
      /\ \A f \in FileNames \ {"checkpoint", "receipt"} : files'[f] = files[f]
      /\ Whole("checkpoint")' => files'["checkpoint"] \in {Checkpoint, files["checkpoint"]}
      /\ Whole("receipt")' =>
            \/ Whole("receipt") /\ files'["receipt"] = files["receipt"]
            \/ files'["receipt"] = r /\ files'["checkpoint"] = Checkpoint
      /\ files["checkpoint"] \in {None, Checkpoint}
  <2> HIDE DEF r
  <2> QED BY <1>1, TwoWritten, Names DEF QualificationInv, Guarded
<1>3. /\ Same({"consumption", "result"}) /\ Same({"remediated_execution"})
      /\ Same({"qualification_lock", "budget_before"})
      /\ files'["evidence"] = files["evidence"]
  BY <1>2, Names DEF Same, Guarded
<1>4. UNCHANGED <<summaries, advantage, evaluating, openings>>
  BY DEF Train, Command
<1>5. /\ Whole(GatesFile) /\ Whole(ReadinessFile)
      /\ files[ReadinessFile].authorised
      /\ AllPass(files[GatesFile].gates)
      /\ files[GatesFile].lock = ActiveLock
      /\ files[GatesFile].execution = ActiveExecution
      /\ ActiveExecution.training = code.training
  BY DEF Train, LoadAuthority, ExecutionCodeVerified, CodeMatches
<1>6. /\ Whole(GatesFile)' /\ files'[GatesFile'] = files[GatesFile]
      /\ GatesFile' = GatesFile
  BY <1>2, <1>3, <1>5, ForceStays DEF Same
<1>7. SpentInv' /\ LearnedInv' /\ LockInv'
  BY <1>2, <1>3, <1>4, SpentStays, LearnedStays, LockStays DEF QualificationInv
<1>8. Checkpoint # Torn /\ Checkpoint # None /\ Checkpoint.training = code.training
  BY DEF Checkpoint, Torn, None
<1>9. TrainedUnderAuthority'
  <2> SUFFICES ASSUME Whole("checkpoint")'
               PROVE  \E f \in {"gates", "remediated_gates"} :
                         /\ Whole(f)'
                         /\ AllPass(files'[f].gates)
                         /\ files'[f].execution.training = files'["checkpoint"].training
    BY DEF TrainedUnderAuthority, AllPass
  <2>1. files'["checkpoint"] = Checkpoint
    BY <1>2 DEF Whole, Exists
  <2>2. GatesFile \in {"gates", "remediated_gates"}
    BY DEF GatesFile
  <2> QED BY <1>5, <1>6, <1>8, <2>1, <2>2
<1>10. TrainingInv'
  <2> SUFFICES ASSUME Whole("receipt")'
               PROVE  /\ Whole(GatesFile)'
                      /\ files'[GatesFile'].lock = files'["receipt"].lock
                      /\ Whole("checkpoint")'
                      /\ files'["receipt"].checkpoint = files'["checkpoint"]
    BY DEF TrainingInv
  <2>1. CASE Whole("receipt") /\ files'["receipt"] = files["receipt"]
    BY <1>2, <1>3, <2>1, TrainingStays DEF QualificationInv, Same, TrainingInv
  <2>2. CASE files'["receipt"] = r /\ files'["checkpoint"] = Checkpoint
    BY <1>5, <1>6, <1>8, <2>2 DEF Whole, Exists
  <2> QED BY <1>2, <2>1, <2>2
<1>11. EvidenceInv'
  <2> SUFFICES ASSUME Whole("evidence")
               PROVE  /\ files'["evidence"].trained \in BOOLEAN
                      /\ files'["evidence"].trained /\ Exists("receipt")'
    BY <1>3 DEF EvidenceInv, Whole, Exists
  <2>1. /\ files["evidence"].trained \in BOOLEAN
        /\ files["evidence"].trained /\ Exists("receipt")
    BY <1>5 DEF QualificationInv, EvidenceInv
  <2> QED BY <1>2, <1>3, <2>1, WholeStays, Names DEF Guarded
<1> QED BY <1>2, <1>7, <1>9, <1>10, <1>11 DEF QualificationInv

\* A partition is scored by the training that is there, under the gates of its lock.
LEMMA ScoreStep ==
    ASSUME QualificationInv, NEW p, ScorePartition(p)
    PROVE  QualificationInv'
<1>1. UNCHANGED <<files, advantage, evaluating, openings>>
  BY DEF ScorePartition, Command
<1>2. summaries' = summaries \cup {Learned(p)}
  BY DEF ScorePartition, AddSummary
<1>3. Kept /\ \A names : Same(names)
  BY <1>1 DEF Kept, Same
<1>4. /\ Typed' /\ SpentInv' /\ TrainedUnderAuthority' /\ TrainingInv' /\ LockInv'
      /\ EvidenceInv'
  BY <1>1, <1>2, <1>3, SpentStays, AuthorityStays, TrainingStays, LockStays, EvidenceStays
  DEF QualificationInv, Typed
<1>5. LearnedInv'
  <2> SUFFICES ASSUME NEW s \in summaries', s.kind = "learned"
               PROVE  /\ Whole("receipt")
                      /\ s.lock = files["receipt"].lock
                      /\ s.checkpoint = files["checkpoint"]
    BY <1>1 DEF LearnedInv, Whole, Exists
  <2>1. CASE s \in summaries
    BY <2>1 DEF QualificationInv, LearnedInv
  <2>2. CASE s = Learned(p)
    <3>1. s.lock = ActiveLock /\ s.checkpoint = files["checkpoint"]
      BY <2>2 DEF Learned
    <3>2. Whole("receipt") /\ files[GatesFile].lock = ActiveLock
      BY DEF ScorePartition, LoadAuthority
    <3>3. files["receipt"].lock = ActiveLock
      BY <3>2 DEF QualificationInv, TrainingInv
    <3> QED BY <3>1, <3>2, <3>3
  <2> QED BY <1>2, <2>1, <2>2
<1> QED BY <1>4, <1>5 DEF QualificationInv

\* The lock is of summaries that are there, and its budget is of that lock.
LEMMA LockStep ==
    ASSUME QualificationInv, NEW b, NEW l, LockQualification(b, l)
    PROVE  QualificationInv'
<1> DEFINE q == QualificationLock(b, l)
<1>1. WriteBoth(Writing("qualification_lock", q), Writing("budget_before", Budget(q)))
  BY DEF LockQualification
<1>2. /\ Typed' /\ Kept
      /\ \A f \in FileNames \ {"qualification_lock", "budget_before"} : files'[f] = files[f]
      /\ Whole("qualification_lock")' =>
            files'["qualification_lock"] \in {q, files["qualification_lock"]}
      /\ Whole("budget_before")' =>
            \/ Whole("budget_before") /\ files'["budget_before"] = files["budget_before"]
            \/ files'["budget_before"] = Budget(q) /\ files'["qualification_lock"] = q
  <2> HIDE DEF q
  <2> QED BY <1>1, TwoWritten, Names DEF QualificationInv, Guarded
<1>3. /\ Same({"consumption", "result"}) /\ files'["checkpoint"] = files["checkpoint"]
      /\ Same({"remediated_execution", "receipt"})
      /\ Same({"evidence", "receipt", "remediated_execution"})
  BY <1>2, Names DEF Same, Guarded
<1>4. UNCHANGED <<summaries, advantage, evaluating, openings>>
  BY DEF LockQualification, Command
<1>5. SpentInv' /\ TrainedUnderAuthority' /\ TrainingInv' /\ LearnedInv' /\ EvidenceInv'
  BY <1>2, <1>3, <1>4, SpentStays, AuthorityStays, TrainingStays, LearnedStays, EvidenceStays
  DEF QualificationInv
<1>6. /\ b \in BaselineOf("model_selection")
      /\ l \in LearnedOf("model_selection") \cup {None}
      /\ Loads(ActiveLock)
      /\ b.lock = ActiveLock
      /\ l # None => l.lock = ActiveLock
  BY DEF LockQualification, LockableQualification
<1>7. IsLock(q)
  <2>1. /\ q.kind = "qualification_lock" /\ q.lock = ActiveLock /\ q.baseline = b
        /\ q.learned = l /\ q.selected = Selected(l)
    BY DEF QualificationLock
  <2>2. q = [kind |-> "qualification_lock", lock |-> q.lock, baseline |-> q.baseline,
             learned |-> q.learned, selected |-> Selected(q.learned)]
    BY <2>1 DEF QualificationLock
  <2> HIDE DEF q
  <2> QED BY <1>6, <2>1, <2>2 DEF IsLock
<1>8. ASSUME NEW d, IsLock(d) PROVE IsLock(d)' /\ d # None /\ d # Torn
  <2>1. IsLock(d)'
    BY <1>4, <1>8, IsLockStays
  <2> QED BY <1>8, <2>1 DEF IsLock, None, Torn
<1>9. LockInv'
  <2> HIDE DEF q
  <2>1. Whole("qualification_lock")' => IsLock(files["qualification_lock"])'
    <3>1. CASE files'["qualification_lock"] = q
      BY <1>7, <1>8, <3>1
    <3>2. CASE files'["qualification_lock"] = files["qualification_lock"]
      BY <1>8, <3>2 DEF QualificationInv, LockInv, Whole, Exists
    <3> QED BY <1>2, <3>1, <3>2
  <2>2. Whole("budget_before")' =>
           /\ Whole("qualification_lock")'
           /\ files'["budget_before"] = Budget(files'["qualification_lock"])
    <3>1. CASE Whole("budget_before") /\ files'["budget_before"] = files["budget_before"]
      <4>1. /\ Whole("qualification_lock")
            /\ files["budget_before"] = Budget(files["qualification_lock"])
        BY <3>1 DEF QualificationInv, LockInv
      <4> QED BY <1>2, <3>1, <4>1, WholeStays, Names DEF Guarded
    <3>2. CASE files'["budget_before"] = Budget(q) /\ files'["qualification_lock"] = q
      BY <1>7, <1>8, <3>2 DEF Whole, Exists
    <3> QED BY <1>2, <3>1, <3>2
  <2> QED BY <2>1, <2>2 DEF LockInv, Budget
<1> QED BY <1>2, <1>5, <1>9 DEF QualificationInv

\* A run begins when there is neither a receipt nor a result of one.
LEMMA QualifyStep ==
    ASSUME QualificationInv, Qualify
    PROVE  QualificationInv'
<1> DEFINE opening == [kind |-> "consumption"]
<1>1. /\ UNCHANGED <<summaries, advantage, openings>>
      /\ ~evaluating /\ ~Exists("consumption") /\ ~Exists("result")
  BY DEF Qualify, Command, QualifyAccepts, Unspent
<1>2. \/ files' = [files EXCEPT !["consumption"] = opening] /\ evaluating'
      \/ files' = [files EXCEPT !["consumption"] = Torn] /\ ~evaluating'
  BY <1>1 DEF Qualify, Writing, Put, Tears
<1>3. /\ Typed' /\ Exists("consumption")'
      /\ \A f \in FileNames \ {"consumption"} : files'[f] = files[f]
  BY <1>2, Names DEF QualificationInv, Typed, Exists, Torn, None, Guarded
<1>4. Kept
  BY <1>1, <1>3 DEF Kept, Exists
<1>5. /\ files'["result"] = files["result"] /\ files'["checkpoint"] = files["checkpoint"]
      /\ Same({"remediated_execution", "receipt"})
      /\ Same({"qualification_lock", "budget_before"})
      /\ Same({"evidence", "receipt", "remediated_execution"})
  BY <1>3, Names DEF Same, Guarded
<1>6. openings = 0
  BY <1>1 DEF QualificationInv, SpentInv
<1>7. SpentInv'
  BY <1>1, <1>3, <1>5, <1>6 DEF SpentInv, Exists
<1>8. TrainedUnderAuthority' /\ TrainingInv' /\ LearnedInv'
  BY <1>1, <1>4, <1>5, AuthorityStays, TrainingStays, LearnedStays DEF QualificationInv
<1>9. LockInv' /\ EvidenceInv'
  BY <1>1, <1>4, <1>5, LockStays, EvidenceStays DEF QualificationInv
<1> QED BY <1>3, <1>7, <1>8, <1>9 DEF QualificationInv

\* The one run ends, with a result or without.
LEMMA EvaluateStep ==
    ASSUME QualificationInv, Evaluate \/ EvaluateFails
    PROVE  QualificationInv'
<1>1. /\ UNCHANGED <<summaries, advantage>>
      /\ evaluating /\ ~evaluating' /\ openings' \in {openings, openings + 1}
      /\ Evaluate => openings' = openings + 1
  BY DEF Evaluate, EvaluateFails
<1>2. openings = 0 /\ Exists("consumption") /\ ~Exists("result")
  BY <1>1 DEF QualificationInv, SpentInv
<1>3. /\ Typed' /\ Kept
      /\ \A f \in FileNames \ {"result", "budget_after"} : files'[f] = files[f]
  <2>1. CASE Evaluate
    <3>1. PICK v, w : WriteBoth(Writing("result", v), Writing("budget_after", w))
      BY <2>1 DEF Evaluate
    <3> QED BY <3>1, TwoWritten, Names DEF QualificationInv, Guarded
  <2>2. CASE EvaluateFails
    BY <2>2 DEF EvaluateFails, QualificationInv, Typed, Kept
  <2> QED BY <2>1, <2>2
<1>4. /\ files'["consumption"] = files["consumption"]
      /\ files'["checkpoint"] = files["checkpoint"]
      /\ Same({"remediated_execution", "receipt"})
      /\ Same({"qualification_lock", "budget_before"})
      /\ Same({"evidence", "receipt", "remediated_execution"})
  BY <1>3, Names DEF Same, Guarded
<1>5. Exists("result")' => Evaluate
  BY <1>2 DEF EvaluateFails, Exists
<1>6. SpentInv'
  BY <1>1, <1>2, <1>4, <1>5 DEF SpentInv, Exists
<1>7. TrainedUnderAuthority' /\ TrainingInv' /\ LearnedInv'
  BY <1>1, <1>3, <1>4, AuthorityStays, TrainingStays, LearnedStays DEF QualificationInv
<1>8. LockInv' /\ EvidenceInv'
  BY <1>1, <1>3, <1>4, LockStays, EvidenceStays DEF QualificationInv
<1> QED BY <1>3, <1>6, <1>7, <1>8 DEF QualificationInv

\* The evidence says what the readiness in force says, which no command changes.
LEMMA SealStep ==
    ASSUME QualificationInv, Seal
    PROVE  QualificationInv'
<1> DEFINE e == [kind |-> "evidence", closure |-> Closure(Exists("receipt")),
                 trained |-> Exists("receipt")]
<1>1. PICK v : WriteBoth(Writing("evidence_directory", v), Writing("evidence", e))
  BY DEF Seal
<1>2. /\ Typed' /\ Kept
      /\ \A f \in FileNames \ {"evidence_directory", "evidence"} : files'[f] = files[f]
      /\ Whole("evidence")' =>
            \/ Whole("evidence") /\ files'["evidence"] = files["evidence"]
            \/ files'["evidence"] = e
  <2> HIDE DEF e
  <2> QED BY <1>1, TwoWritten, Names DEF QualificationInv, Guarded
<1>3. /\ Same({"consumption", "result"}) /\ files'["checkpoint"] = files["checkpoint"]
      /\ Same({"remediated_execution", "receipt"})
      /\ Same({"qualification_lock", "budget_before"})
  BY <1>2, Names DEF Same, Guarded
<1>4. UNCHANGED <<summaries, advantage, evaluating, openings>>
  BY DEF Seal, Command
<1>5. /\ SpentInv' /\ TrainedUnderAuthority' /\ TrainingInv' /\ LearnedInv' /\ LockInv'
  BY <1>2, <1>3, <1>4, SpentStays, AuthorityStays, TrainingStays, LearnedStays, LockStays
  DEF QualificationInv
<1>6. Whole(ReadinessFile) /\ (files[ReadinessFile].authorised <=> Exists("receipt"))
  BY DEF Seal, TrainingEvidenceConsistent
<1>7. /\ Whole(ReadinessFile)' /\ files'[ReadinessFile'] = files[ReadinessFile]
      /\ Exists("receipt")' = Exists("receipt")
  BY <1>2, <1>3, <1>6, ForceStays DEF Same, Exists
<1>8. ASSUME Whole("evidence")'
      PROVE  /\ files'["evidence"].trained \in BOOLEAN
             /\ files'["evidence"].trained => Exists("receipt")'
             /\ ~files'["evidence"].trained =>
                   /\ ~Exists("receipt")'
                   /\ Whole(ReadinessFile)'
                   /\ ~files'[ReadinessFile'].authorised
  <2>1. CASE Whole("evidence") /\ files'["evidence"] = files["evidence"]
    BY <1>7, <2>1 DEF QualificationInv, EvidenceInv
  <2>2. CASE files'["evidence"] = e
    <3>1. /\ files'["evidence"].trained \in BOOLEAN
          /\ files'["evidence"].trained <=> Exists("receipt")
      <4>1. files'["evidence"].trained = Exists("receipt")
        BY <2>2
      <4>2. Exists("receipt") \in BOOLEAN
        BY DEF Exists
      <4> QED BY <4>1, <4>2
    <3> QED BY <1>6, <1>7, <3>1
  <2> QED BY <1>2, <1>8, <2>1, <2>2
<1>9. EvidenceInv'
  BY <1>8 DEF EvidenceInv
<1> QED BY <1>2, <1>5, <1>9 DEF QualificationInv

LEMMA NextInv == QualificationInv /\ [Next]_vars => QualificationInv'
<1> SUFFICES ASSUME QualificationInv, [Next]_vars PROVE QualificationInv'
  OBVIOUS
<1>1. CASE Preparation
  BY <1>1, PreparationStep
<1>2. CASE RemediateTrainingIdentity
  BY <1>2, RemediateStep
<1>3. CASE Train
  BY <1>3, TrainStep
<1>4. ASSUME NEW p \in {"development", "model_selection"}, ScorePartition(p)
      PROVE  QualificationInv'
  BY <1>4, ScoreStep
<1>5. ASSUME NEW b \in summaries, NEW l \in summaries \cup {None}, LockQualification(b, l)
      PROVE  QualificationInv'
  BY <1>5, LockStep
<1>6. CASE Qualify
  BY <1>6, QualifyStep
<1>7. CASE Evaluate \/ EvaluateFails
  BY <1>7, EvaluateStep
<1>8. CASE Seal
  BY <1>8, SealStep
<1>9. CASE UNCHANGED vars
  <2>1. UNCHANGED <<files, summaries, advantage, evaluating, openings>>
    BY <1>9 DEF vars
  <2>2. Kept /\ \A names : Same(names)
    BY <2>1 DEF Kept, Same
  <2>3. Typed' /\ SpentInv' /\ TrainedUnderAuthority' /\ TrainingInv'
    BY <2>1, <2>2, SpentStays, AuthorityStays, TrainingStays DEF QualificationInv, Typed
  <2>4. LearnedInv' /\ LockInv' /\ EvidenceInv'
    BY <2>1, <2>2, LearnedStays, LockStays, EvidenceStays DEF QualificationInv
  <2> QED BY <2>3, <2>4 DEF QualificationInv
<1> QED
  BY <1>1, <1>2, <1>3, <1>4, <1>5, <1>6, <1>7, <1>8, <1>9 DEF Next, Commands, Preparation

-----------------------------------------------------------------------------
\* Whatever the commands, edits and deaths, the files of the experiment relate to each
\* other as the parts of the invariant say: run_v0_4_experiments.py, run_trace_001.py.
THEOREM QualificationInvariant == Spec => []QualificationInv
BY InitInv, NextInv, PTL DEF Spec

\* The labels of the qualification cards are read by one run, after its receipt.
THEOREM QualificationOpenedOnce == Spec => []OpenedOnce
<1>1. QualificationInv => OpenedOnce
  BY DEF QualificationInv, SpentInv, OpenedOnce
<1> QED BY <1>1, QualificationInvariant, PTL

\* The training that made a checkpoint was of an execution under which every gate passed.
THEOREM CheckpointUnderAuthority == Spec => []TrainedUnderAuthority
<1>1. QualificationInv => TrainedUnderAuthority
  BY DEF QualificationInv
<1> QED BY <1>1, QualificationInvariant, PTL

\* What was selected was trained, scored and compared under one candidate lock.
THEOREM OneLockForSelection == Spec => []SelectionUnderOneLock
<1>1. QualificationInv => SelectionUnderOneLock
  <2> SUFFICES ASSUME QualificationInv, Whole("qualification_lock"),
                      files["qualification_lock"].selected.trace_001
               PROVE  LET q == files["qualification_lock"]
                      IN /\ Whole("receipt")
                         /\ files["receipt"].lock = q.lock
                         /\ files["receipt"].checkpoint = q.selected.identity
                         /\ files["checkpoint"] = q.selected.identity
                         /\ q.baseline.lock = q.lock
    BY DEF SelectionUnderOneLock
  <2> DEFINE q == files["qualification_lock"]
  <2>1. IsLock(q)
    BY DEF QualificationInv, LockInv
  <2> HIDE DEF q
  <2>2. q.selected = Selected(q.learned) /\ q.selected.trace_001
    <3>1. q = [kind |-> "qualification_lock", lock |-> q.lock, baseline |-> q.baseline,
               learned |-> q.learned, selected |-> Selected(q.learned)]
      BY <2>1 DEF IsLock
    <3>2. q.selected = Selected(q.learned)
      BY <3>1
    <3> QED BY <3>2 DEF q
  <2>3. q.learned # None /\ q.selected.identity = q.learned.checkpoint
    <3>1. ~(q.learned # None /\ advantage) =>
             q.selected = [trace_001 |-> FALSE, identity |-> None]
      BY <2>2 DEF Selected
    <3>2. q.learned # None /\ advantage
      BY <2>2, <3>1
    <3> QED BY <2>2, <3>2 DEF Selected
  <2>4. q.learned \in summaries /\ q.learned.kind = "learned" /\ q.learned.lock = q.lock
    BY <2>1, <2>3 DEF IsLock, LearnedOf
  <2>5. /\ Whole("receipt") /\ q.lock = files["receipt"].lock
        /\ q.learned.checkpoint = files["checkpoint"]
    BY <2>4 DEF QualificationInv, LearnedInv
  <2>6. files["receipt"].checkpoint = files["checkpoint"]
    BY <2>5 DEF QualificationInv, TrainingInv
  <2>7. q.baseline.lock = q.lock
    BY <2>1 DEF IsLock
  <2> QED BY <2>3, <2>5, <2>6, <2>7 DEF q
<1> QED BY <1>1, QualificationInvariant, PTL

\* The sealed evidence says that there was a training just when there was one, and no
\* later command makes it untrue.
THEOREM EvidenceStaysTrue == Spec => []SealedStaysTrue
<1>1. QualificationInv => SealedStaysTrue
  <2> SUFFICES ASSUME QualificationInv, Whole("evidence")
               PROVE  files["evidence"].trained = Exists("receipt")
    BY DEF SealedStaysTrue
  <2>1. /\ files["evidence"].trained \in BOOLEAN
        /\ files["evidence"].trained <=> Exists("receipt")
    BY DEF QualificationInv, EvidenceInv
  <2>2. Exists("receipt") \in BOOLEAN
    BY DEF Exists
  <2> QED BY <2>1, <2>2
<1> QED BY <1>1, QualificationInvariant, PTL

\* However the commands died, the qualification can be run or its lock be completed: the
\* lock names the summaries it was made from, and to write it again is to compare.
THEOREM QualificationRecoverable == Spec => []Recoverable
<1>1. QualificationInv => Recoverable
  <2> DEFINE q == files["qualification_lock"]
  <2> SUFFICES ASSUME QualificationInv, Unspent, Whole("qualification_lock"),
                      files["budget_before"] # Torn, q.lock = ActiveLock
               PROVE  \/ QualifyAccepts
                      \/ \E baseline \in summaries, learned \in summaries \cup {None} :
                            /\ LockableQualification(baseline, learned)
                            /\ LET lock == QualificationLock(baseline, learned)
                               IN /\ ~Conflicts(files, Writing("qualification_lock", lock))
                                  /\ ~Conflicts(files, Writing("budget_before", Budget(lock)))
    BY DEF Recoverable, Whole
  <2>1. IsLock(q)
    BY DEF QualificationInv, LockInv
  <2>2. Loads(ActiveLock)
    BY <2>1 DEF IsLock
  <2>3. CASE Exists("budget_before")
    <3>1. Whole("budget_before")
      BY <2>3 DEF Whole
    <3>2. files["budget_before"].lock = q
      BY <3>1 DEF QualificationInv, LockInv, Budget
    <3> QED BY <2>2, <3>1, <3>2 DEF QualifyAccepts
  <2>4. CASE ~Exists("budget_before")
    <3>1. /\ q.baseline \in summaries /\ q.learned \in summaries \cup {None}
          /\ LockableQualification(q.baseline, q.learned)
      BY <2>1, <2>2 DEF IsLock, LockableQualification, BaselineOf, LearnedOf
    <3>2. q = QualificationLock(q.baseline, q.learned)
      BY <2>1 DEF IsLock, QualificationLock
    <3>3. ~Conflicts(files, Writing("qualification_lock", q))
      BY DEF Conflicts, Writing, NeverEqual
    <3>4. ~Conflicts(files, Writing("budget_before", Budget(q)))
      BY <2>4 DEF Conflicts, Writing, Exists
    <3> QED BY <3>1, <3>2, <3>3, <3>4
  <2> QED BY <2>3, <2>4
<1> QED BY <1>1, QualificationInvariant, PTL

-----------------------------------------------------------------------------
(* The governed corpus (Corpus).                                           *)
(* The order of the cases.                                                 *)

LEMMA PositionIs == \A id \in Identities : Position[id] \in Nat
<1> SUFFICES ASSUME NEW id \in Identities PROVE Position[id] \in Nat
  OBVIOUS
<1>1. \E i \in DOMAIN CaseOrder : CaseOrder[i] = id
  BY CorpusAssumption DEF Range
<1>2. DOMAIN CaseOrder \subseteq Nat
  BY CorpusAssumption
<1>3. Position[id] = CHOOSE i \in DOMAIN CaseOrder : CaseOrder[i] = id
  BY DEF Position
<1> QED BY <1>1, <1>2, <1>3

LEMMA EarliestIs ==
    ASSUME NEW ids, ids \subseteq Identities, ids # {}
    PROVE  Earliest(ids) \in ids
<1> DEFINE T == {Position[id] : id \in ids}
<1>1. T \subseteq Nat /\ T # {}
  BY PositionIs
<1>2. PICK m \in T : \A k \in T : m <= k
  <2>1. PICK t : t \in T
    BY <1>1
  <2> HIDE DEF T
  <2> QED BY <1>1, <2>1, LeastNatural
<1>3. PICK id \in ids : Position[id] = m
  BY <1>2
<1>4. Ahead(id, ids) = {}
  <2> SUFFICES ASSUME NEW other \in ids, Position[other] < Position[id] PROVE FALSE
    BY DEF Ahead, Before
  <2>1. Position[id] <= Position[other]
    BY <1>2, <1>3
  <2> QED BY <2>1, PositionIs
<1> QED BY <1>3, <1>4 DEF Earliest

-----------------------------------------------------------------------------
(* The inductive invariant.                                                *)

Stages == {"idle", "start", "next", "evidence", "card"}

CorpusTypes ==
    /\ card \in [Identities -> Partitions \cup {Nothing}]
    /\ lineage \in [Identities -> Partitions \cup {Nothing}]
    /\ rejection \in [Identities -> {Nothing, "policy", "rejected"}]
    /\ receipt \in [Identities -> BOOLEAN]
    /\ work \in [Repositories -> SUBSET Identities]
    /\ stage \in [Repositories -> Stages]

\* What was touched has a place in the plan, which keeps organizations apart.
PlanInv ==
    /\ DOMAIN plan \subseteq Repositories
    /\ \A r \in DOMAIN plan : plan[r] \in Partitions
    /\ Disjoint(plan)
    /\ touched \subseteq DOMAIN plan

\* A card is filed where the plan has its repository, with its evidence; that it was not
\* rejected beside it is known only of a group that has the receipt of its admission.
CardInv ==
    \A id \in Identities :
        card[id] # Nothing =>
            /\ RepositoryOf(id) \in touched
            /\ card[id] = plan[RepositoryOf(id)]
            /\ lineage[id] = card[id]

AdmittedInv ==
    \A id \in Identities : receipt[id] => card[id] # Nothing /\ rejection[id] = Nothing

\* What a thread has written of the group it works on.
Written(r) ==
    /\ stage[r] = "evidence" =>
          /\ card[First(r)] = Nothing
          /\ rejection[First(r)] = Nothing
          /\ lineage[First(r)] = plan[r]
    /\ stage[r] = "card" =>
          /\ card[First(r)] # Nothing
          /\ rejection[First(r)] = Nothing
          /\ ~receipt[First(r)]

\* A thread works on a repository of its own, and what it writes is undecided.
ThreadInv ==
    \A r \in Repositories :
        /\ stage[r] # "idle" => command = "acquire" /\ r \in DOMAIN plan
        /\ stage[r] \notin {"idle", "start"} => r \in touched
        /\ \A id \in work[r] : RepositoryOf(id) = r
        /\ stage[r] \in {"evidence", "card"} => work[r] # {}
        /\ Written(r)

\* Between the audit and the seal nothing is acquired.
FinalInv ==
    /\ command \in {"audited", "terminalized"} =>
          audit = Cards /\ audit # <<>> /\ \A id \in Carded : receipt[id]
    /\ audit = <<>> => seal = <<>>
    /\ SealedUnderItsAudit
    /\ \A id \in DOMAIN seal :
          id \in Identities /\ card[id] # Nothing /\ card[id] = seal[id] /\ receipt[id]

CorpusInv == CorpusTypes /\ PlanInv /\ CardInv /\ AdmittedInv /\ ThreadInv /\ FinalInv

LEMMA CorpusInitInv == CorpusInit => CorpusInv
<1> SUFFICES ASSUME CorpusInit PROVE CorpusInv
  OBVIOUS
<1>1. /\ plan \in FirstPlans
      /\ lineage = [id \in Identities |-> Nothing]
      /\ card = [id \in Identities |-> Nothing]
      /\ receipt = [id \in Identities |-> FALSE]
      /\ command = Nothing
      /\ work = [r \in Repositories |-> {}]
      /\ stage = [r \in Repositories |-> "idle"]
      /\ audit = <<>>
      /\ seal = <<>>
  BY DEF CorpusInit
<1>2. PICK before \in SUBSET {c \in RejectedBefore : Register[c].repository \in DOMAIN plan} :
         /\ rejection = [id \in Identities |->
                           IF id \in {Original(c) : c \in before} THEN "policy" ELSE Nothing]
         /\ touched = {Register[c].repository : c \in before}
  BY DEF CorpusInit
<1>3. CorpusTypes
  BY <1>1, <1>2 DEF CorpusTypes, Stages
<1>4. PlanInv
  BY <1>1, <1>2 DEF PlanInv, FirstPlans
<1>5. CardInv /\ AdmittedInv /\ ThreadInv
  BY <1>1 DEF CardInv, AdmittedInv, ThreadInv, Written
<1>6. FinalInv
  <2>1. DOMAIN <<>> = {}
    OBVIOUS
  <2> QED BY <1>1, <2>1 DEF FinalInv, SealedUnderItsAudit, Nothing
<1> QED BY <1>3, <1>4, <1>5, <1>6 DEF CorpusInv

-----------------------------------------------------------------------------
(* The plans.                                                              *)

LEMMA AppendedIs ==
    ASSUME NEW a, DOMAIN a \subseteq Repositories, \A r \in DOMAIN a : a[r] \in Partitions,
           NEW p \in Partitions, NEW b \in Appended(a, p)
    PROVE  /\ DOMAIN a \subseteq DOMAIN b /\ DOMAIN b \subseteq Repositories
           /\ \A r \in DOMAIN b : b[r] \in Partitions
           /\ \A r \in DOMAIN a : b[r] = a[r]
BY DEF Appended

LEMMA ReassignedIs ==
    ASSUME PlanInv, NEW a \in ReassignedUntouched
    PROVE  /\ DOMAIN a = DOMAIN plan
           /\ \A r \in DOMAIN a : a[r] \in Partitions
           /\ \A r \in touched : a[r] = plan[r]
BY DEF PlanInv, ReassignedUntouched, Reassigned, TouchedTokens

\* A plan that supersedes another leaves what was touched where it was.
LEMMA SupersedeInv ==
    ASSUME CorpusInv, NEW assignments, Supersede(assignments),
           \A a \in assignments :
              /\ DOMAIN a \subseteq Repositories
              /\ \A r \in DOMAIN a : a[r] \in Partitions
              /\ \A r \in touched : r \in DOMAIN a /\ a[r] = plan[r]
    PROVE  CorpusInv'
<1>1. /\ UNCHANGED <<touched, rejection, lineage, card, receipt, command, work, stage, audit, seal>>
      /\ command = Nothing
      /\ plan' \in assignments
      /\ Disjoint(plan')
  BY DEF Supersede, groupFiles, threads
<1>2. CorpusTypes' /\ PlanInv'
  BY <1>1 DEF CorpusInv, CorpusTypes, PlanInv, Disjoint
<1>3. CardInv' /\ AdmittedInv'
  BY <1>1 DEF CorpusInv, CardInv, AdmittedInv
<1>4. ThreadInv'
  <2>1. \A r \in Repositories : stage[r] = "idle"
    BY <1>1 DEF CorpusInv, ThreadInv, Nothing
  <2> QED BY <1>1, <2>1 DEF CorpusInv, ThreadInv, Written
<1>5. FinalInv'
  BY <1>1 DEF CorpusInv, FinalInv, SealedUnderItsAudit, Cards, Carded
<1> QED BY <1>2, <1>3, <1>4, <1>5 DEF CorpusInv

LEMMA PlanStepInv ==
    ASSUME CorpusInv, ExtendPartitionPlan \/ AugmentPartitionPlan \/ RebalancePartitionPlan
    PROVE  CorpusInv'
<1>1. ASSUME NEW p \in Partitions, Supersede(Appended(plan, p)) PROVE CorpusInv'
  <2>1. \A a \in Appended(plan, p) :
           /\ DOMAIN a \subseteq Repositories
           /\ \A r \in DOMAIN a : a[r] \in Partitions
           /\ \A r \in touched : r \in DOMAIN a /\ a[r] = plan[r]
    BY AppendedIs DEF CorpusInv, PlanInv
  <2> QED BY <1>1, <2>1, SupersedeInv
<1>2. ASSUME NEW p \in Partitions,
             Supersede(UNION {Appended(a, p) : a \in ReassignedUntouched})
      PROVE  CorpusInv'
  <2> DEFINE B == UNION {Appended(a, p) : a \in ReassignedUntouched}
  <2>1. ASSUME NEW b \in B
        PROVE  /\ DOMAIN b \subseteq Repositories
               /\ \A r \in DOMAIN b : b[r] \in Partitions
               /\ \A r \in touched : r \in DOMAIN b /\ b[r] = plan[r]
    <3>1. PICK a \in ReassignedUntouched : b \in Appended(a, p)
      OBVIOUS
    <3>2. /\ DOMAIN a = DOMAIN plan
          /\ \A r \in DOMAIN a : a[r] \in Partitions
          /\ \A r \in touched : a[r] = plan[r]
      BY ReassignedIs DEF CorpusInv
    <3>3. DOMAIN plan \subseteq Repositories /\ touched \subseteq DOMAIN plan
      BY DEF CorpusInv, PlanInv
    <3>4. /\ DOMAIN a \subseteq DOMAIN b /\ DOMAIN b \subseteq Repositories
          /\ \A r \in DOMAIN b : b[r] \in Partitions
          /\ \A r \in DOMAIN a : b[r] = a[r]
      BY <3>1, <3>2, <3>3, AppendedIs
    <3> QED BY <3>2, <3>3, <3>4
  <2> HIDE DEF B
  <2>2. Supersede(B)
    BY <1>2 DEF B
  <2> QED BY <2>1, <2>2, SupersedeInv
<1> QED BY <1>1, <1>2, CorpusAssumption
        DEF ExtendPartitionPlan, AugmentPartitionPlan, RebalancePartitionPlan
-----------------------------------------------------------------------------
(* The acquisition.                                                        *)

LEMMA CurrentIs ==
    ASSUME NEW replaced, NEW r, NEW limit
    PROVE  /\ UpTo(limit, UniqueFixes(r, replaced)) \subseteq UniqueFixes(r, replaced)
           /\ \A id \in UniqueFixes(r, replaced) : id \in Identities /\ RepositoryOf(id) = r
BY DEF UpTo, UniqueFixes, Current, Identities

\* What is rejected when an acquisition begins, or later, has no card.
LEMMA RejectedHasNoCard ==
    ASSUME CardInv, NEW id \in Identities, ~KnownCard(id)
    PROVE  card[id] = Nothing
BY DEF CardInv, KnownCard

LEMMA AcquireGroupsInv ==
    ASSUME CorpusInv, AcquireGroups
    PROVE  CorpusInv'
<1>1. /\ UNCHANGED <<plan, touched, lineage, card, receipt, audit, seal>>
      /\ command = Nothing /\ command' = "acquire"
  BY DEF AcquireGroups, planVars
<1>2. PICK selected \in SUBSET DOMAIN plan, replaced \in SUBSET Candidates, limit \in CaseLimits,
           deferred \in SUBSET Identities :
         /\ work' = [r \in Repositories |->
                       IF r \in selected THEN UpTo(limit, UniqueFixes(r, replaced)) ELSE {}]
         /\ stage' = [r \in Repositories |-> IF r \in selected THEN "start" ELSE "idle"]
         /\ rejection' = [id \in Identities |->
                            IF id \in deferred /\ Undecided(id) THEN "rejected"
                            ELSE rejection[id]]
  <2> DEFINE Again(selected, reconsider) == IF reconsider THEN Reconsiderable(selected) ELSE {}
  <2>1. PICK selected \in SUBSET DOMAIN plan, reconsider \in BOOLEAN, limit \in CaseLimits :
           /\ selected # {}
           /\ command' = "acquire"
           /\ proposals' = proposals \cup Again(selected, reconsider)
           /\ work' = [r \in Repositories |->
                         IF r \in selected
                         THEN UpTo(limit, UniqueFixes(r, Again(selected, reconsider)))
                         ELSE {}]
           /\ stage' = [r \in Repositories |-> IF r \in selected THEN "start" ELSE "idle"]
           /\ rejection' =
                [id \in Identities |->
                   IF /\ RepositoryOf(id) \in selected
                      /\ Undecided(id)
                      /\ Deferred(id, Again(selected, reconsider), limit)
                   THEN "rejected" ELSE rejection[id]]
           /\ UNCHANGED <<planVars, touched, acquired, lineage, card, receipt, retired,
                          audit, seal, crashes>>
    BY Zenon DEF AcquireGroups
  <2> DEFINE replaced == Again(selected, reconsider)
             deferred == {id \in Identities : /\ RepositoryOf(id) \in selected
                                              /\ Deferred(id, replaced, limit)}
  <2>2. replaced \in SUBSET Candidates
    BY DEF Reconsiderable
  <2>3. rejection' = [id \in Identities |->
                        IF id \in deferred /\ Undecided(id) THEN "rejected"
                        ELSE rejection[id]]
    BY <2>1, Zenon
  <2>4. deferred \in SUBSET Identities
    OBVIOUS
  <2>5. /\ work' = [r \in Repositories |->
                      IF r \in selected THEN UpTo(limit, UniqueFixes(r, replaced)) ELSE {}]
        /\ stage' = [r \in Repositories |-> IF r \in selected THEN "start" ELSE "idle"]
    BY <2>1, Zenon
  <2> HIDE DEF replaced, deferred
  <2> QED BY <2>2, <2>3, <2>4, <2>5
<1>3. CorpusTypes'
  <2>1. work' \in [Repositories -> SUBSET Identities]
    BY <1>2, CurrentIs
  <2>2. stage' \in [Repositories -> Stages]
    BY <1>2 DEF Stages
  <2>3. rejection' \in [Identities -> {Nothing, "policy", "rejected"}]
    BY <1>2 DEF CorpusInv, CorpusTypes
  <2> QED BY <1>1, <2>1, <2>2, <2>3 DEF CorpusInv, CorpusTypes
<1>4. PlanInv'
  BY <1>1 DEF CorpusInv, PlanInv, Disjoint
<1>5. CardInv' /\ AdmittedInv'
  <2> SUFFICES ASSUME NEW id \in Identities, card[id] # Nothing
               PROVE  rejection'[id] = rejection[id]
    BY <1>1 DEF CorpusInv, CardInv, AdmittedInv
  <2>1. ~Undecided(id)
    BY RejectedHasNoCard DEF CorpusInv, Undecided
  <2> QED BY <1>2, <2>1
<1>6. ThreadInv'
  <2> SUFFICES ASSUME NEW r \in Repositories
               PROVE  /\ stage'[r] \in {"idle", "start"}
                      /\ stage'[r] # "idle" => r \in DOMAIN plan
                      /\ \A id \in work'[r] : RepositoryOf(id) = r
    BY <1>1 DEF ThreadInv, Written
  <2> QED BY <1>2, CurrentIs
<1>7. FinalInv'
  BY <1>1 DEF CorpusInv, FinalInv, SealedUnderItsAudit, Cards, Carded
<1> QED BY <1>3, <1>4, <1>5, <1>6, <1>7 DEF CorpusInv

\* A step of one thread moves that thread, and leaves the others and the seal alone.
LEMMA ThreadStepInv ==
    ASSUME CorpusInv, NEW r \in Repositories, NEW from \in Stages, NEW to \in Stages,
           Thread(r, from, to), from # "idle",
           CorpusTypes', CardInv', AdmittedInv', touched \subseteq touched', touched' \subseteq touched \cup {r},
           \A id \in Identities : card[id] # Nothing => card'[id] = card[id],
           \A id \in Identities : receipt[id] => receipt'[id],
           \A id \in Identities : RepositoryOf(id) # r =>
              UNCHANGED <<card[id], rejection[id], lineage[id], receipt[id]>>,
           \A q \in Repositories : q # r => work'[q] = work[q],
           work'[r] \subseteq work[r],
           to \notin {"idle", "start"} => r \in touched',
           to \in {"evidence", "card"} => work'[r] # {},
           Written(r)'
    PROVE  CorpusInv'
<1>1. /\ stage[r] = from /\ stage' = [stage EXCEPT ![r] = to]
      /\ UNCHANGED <<plan, command, audit, seal>>
  BY DEF Thread, planVars
<1>2. /\ stage'[r] = to
      /\ \A q \in Repositories : q # r => stage'[q] = stage[q]
  BY <1>1 DEF CorpusInv, CorpusTypes
<1>3. command = "acquire" /\ r \in DOMAIN plan
  BY <1>1 DEF CorpusInv, ThreadInv
<1>4. PlanInv'
  BY <1>1, <1>3 DEF CorpusInv, PlanInv, Disjoint
<1>5. ThreadInv'
  <2> SUFFICES ASSUME NEW q \in Repositories
               PROVE  /\ stage'[q] # "idle" => command' = "acquire" /\ q \in DOMAIN plan'
                      /\ stage'[q] \notin {"idle", "start"} => q \in touched'
                      /\ \A id \in work'[q] : RepositoryOf(id) = q
                      /\ stage'[q] \in {"evidence", "card"} => work'[q] # {}
                      /\ Written(q)'
    BY DEF ThreadInv
  <2>1. CASE q = r
    BY <1>1, <1>2, <1>3, <2>1 DEF CorpusInv, ThreadInv
  <2>2. CASE q # r
    <3>1. stage'[q] = stage[q] /\ work'[q] = work[q]
      BY <1>2, <2>2
    <3>2. ASSUME stage[q] \in {"evidence", "card"}
          PROVE  /\ First(q) \in Identities
                 /\ RepositoryOf(First(q)) # r
      <4>1. work[q] # {} /\ work[q] \subseteq Identities
        BY <3>2 DEF CorpusInv, CorpusTypes, ThreadInv
      <4>2. First(q) \in work[q]
        BY <4>1, EarliestIs DEF First
      <4> QED BY <2>2, <4>1, <4>2 DEF CorpusInv, ThreadInv
    <3>3. First(q)' = First(q)
      BY <3>1 DEF First, Earliest, Ahead, Before, Position
    <3>4. Written(q)'
      BY <1>1, <3>1, <3>2, <3>3 DEF CorpusInv, ThreadInv, Written
    <3> QED BY <1>1, <3>1, <3>4 DEF CorpusInv, ThreadInv
  <2> QED BY <2>1, <2>2
<1>6. FinalInv'
  <2>1. command' \notin {"audited", "terminalized"}
    BY <1>1, <1>3
  <2> QED BY <1>1, <2>1 DEF CorpusInv, FinalInv, SealedUnderItsAudit
<1> QED BY <1>4, <1>5, <1>6 DEF CorpusInv

LEMMA FirstIs ==
    ASSUME CorpusInv, NEW r \in Repositories, work[r] # {}
    PROVE  First(r) \in work[r] /\ First(r) \in Identities /\ RepositoryOf(First(r)) = r
<1>1. work[r] \subseteq Identities /\ \A id \in work[r] : RepositoryOf(id) = r
  BY DEF CorpusInv, CorpusTypes, ThreadInv
<1>2. First(r) \in work[r]
  BY <1>1, EarliestIs DEF First
<1> QED BY <1>1, <1>2

\* A group that is done with, whatever became of it.
LEMMA TakenIs ==
    ASSUME CorpusInv, NEW r \in Repositories, Taken(r)
    PROVE  /\ work' \in [Repositories -> SUBSET Identities]
           /\ work'[r] \subseteq work[r]
           /\ \A q \in Repositories : q # r => work'[q] = work[q]
<1>1. work \in [Repositories -> SUBSET Identities]
  BY DEF CorpusInv, CorpusTypes
<1> QED BY <1>1 DEF Taken

LEMMA ThreadStage ==
    ASSUME CorpusInv, NEW r \in Repositories, NEW from \in Stages, NEW to \in Stages,
           Thread(r, from, to)
    PROVE  stage[r] = from /\ stage' \in [Repositories -> Stages] /\ UNCHANGED plan
BY DEF CorpusInv, CorpusTypes, Thread, planVars

\* Of a repository the thread has begun with.
LEMMA Begun ==
    ASSUME CorpusInv, NEW r \in Repositories, stage[r] \in {"next", "evidence", "card"}
    PROVE  r \in touched
BY DEF CorpusInv, ThreadInv

LEMMA QuietThreadInv ==
    ASSUME CorpusInv, NEW r \in Repositories, InitialiseRepository(r) \/ KeepKnown(r) \/ EndRepository(r)
    PROVE  CorpusInv'
<1>1. /\ UNCHANGED <<rejection, lineage, card, receipt>>
      /\ touched' \in {touched, touched \cup {r}}
      /\ work' = work \/ Taken(r)
  BY DEF InitialiseRepository, KeepKnown, EndRepository
<1>2. \E from \in Stages \ {"idle"}, to \in {"next", "idle"} :
         Thread(r, from, to) /\ (from = "start" => touched' = touched \cup {r})
  BY DEF InitialiseRepository, KeepKnown, EndRepository, Stages
<1>3. PICK from \in Stages \ {"idle"}, to \in {"next", "idle"} :
         Thread(r, from, to) /\ (from = "start" => touched' = touched \cup {r})
  BY <1>2
<1>4. /\ from \in Stages /\ to \in Stages /\ from # "idle"
      /\ to \notin {"evidence", "card"} /\ to # "evidence"
  BY DEF Stages
<1>5. /\ work' \in [Repositories -> SUBSET Identities]
      /\ work'[r] \subseteq work[r]
      /\ \A q \in Repositories : q # r => work'[q] = work[q]
  BY <1>1, TakenIs DEF CorpusInv, CorpusTypes
<1>6. stage[r] = from /\ stage' \in [Repositories -> Stages] /\ UNCHANGED plan
  BY <1>3, <1>4, ThreadStage
<1>7. CorpusTypes'
  BY <1>1, <1>5, <1>6 DEF CorpusInv, CorpusTypes
<1>8. CardInv' /\ AdmittedInv'
  BY <1>1, <1>6 DEF CorpusInv, CardInv, AdmittedInv
<1>9. r \in touched'
  BY <1>1, <1>3, <1>4, <1>6, Begun DEF Stages
<1>10. Written(r)'
  BY <1>3, <1>4, <1>6 DEF Thread, Written
<1> QED BY <1>1, <1>3, <1>4, <1>5, <1>7, <1>8, <1>9, <1>10, ThreadStepInv

\* Whatever was written of a group that is rejected, it has not got its receipt.
LEMMA RejectCandidateInv ==
    ASSUME CorpusInv, NEW r \in Repositories, RejectCandidate(r)
    PROVE  CorpusInv'
<1>1. PICK from \in {"next", "evidence", "card"} : Thread(r, from, "next")
  BY DEF RejectCandidate
<1>2. /\ work[r] # {}
      /\ stage[r] = "next" => Undecided(First(r))
      /\ rejection' = [rejection EXCEPT ![First(r)] = "rejected"]
      /\ Taken(r)
      /\ UNCHANGED <<touched, lineage, card, receipt>>
  BY DEF RejectCandidate
<1>3. First(r) \in Identities /\ RepositoryOf(First(r)) = r
  BY <1>2, FirstIs
<1>4. from \in Stages /\ "next" \in Stages /\ from # "idle"
  BY DEF Stages
<1>5. stage[r] = from /\ stage' \in [Repositories -> Stages] /\ UNCHANGED plan
  BY <1>1, <1>4, ThreadStage
<1>6. /\ work' \in [Repositories -> SUBSET Identities]
      /\ work'[r] \subseteq work[r]
      /\ \A q \in Repositories : q # r => work'[q] = work[q]
  BY <1>2, TakenIs
<1>7. /\ rejection' \in [Identities -> {Nothing, "policy", "rejected"}]
      /\ \A id \in Identities : id # First(r) => rejection'[id] = rejection[id]
  BY <1>2 DEF CorpusInv, CorpusTypes
<1>8. CorpusTypes'
  BY <1>2, <1>5, <1>6, <1>7 DEF CorpusInv, CorpusTypes
<1>9. ~receipt[First(r)]
  <2>1. CASE stage[r] = "next"
    <3>1. card[First(r)] = Nothing
      BY <1>2, <1>3, <2>1, RejectedHasNoCard DEF CorpusInv, Undecided
    <3> QED BY <1>3, <3>1 DEF CorpusInv, AdmittedInv
  <2>2. CASE stage[r] = "evidence"
    BY <1>3, <2>2 DEF CorpusInv, AdmittedInv, ThreadInv, Written
  <2>3. CASE stage[r] = "card"
    BY <2>3 DEF CorpusInv, ThreadInv, Written
  <2> QED BY <1>1, <1>5, <2>1, <2>2, <2>3
<1>10. CardInv'
  BY <1>2, <1>5 DEF CorpusInv, CardInv
<1>11. AdmittedInv'
  BY <1>2, <1>7, <1>9 DEF CorpusInv, AdmittedInv
<1>12. r \in touched
  BY <1>5, Begun
<1>13. Written(r)'
  BY <1>1, <1>5 DEF CorpusInv, CorpusTypes, Thread, Written
<1>14. \A id \in Identities : RepositoryOf(id) # r =>
          UNCHANGED <<card[id], rejection[id], lineage[id], receipt[id]>>
  BY <1>2, <1>3, <1>7
<1> QED BY <1>1, <1>2, <1>4, <1>6, <1>8, <1>10, <1>11, <1>12, <1>13, <1>14, ThreadStepInv

LEMMA WriteEvidenceInv ==
    ASSUME CorpusInv, NEW r \in Repositories, WriteEvidence(r)
    PROVE  CorpusInv'
<1>1. /\ Thread(r, "next", "evidence") /\ work[r] # {}
      /\ Undecided(First(r))
      /\ lineage' = [lineage EXCEPT ![First(r)] = plan[r]]
      /\ UNCHANGED <<touched, rejection, card, receipt, work>>
  BY DEF WriteEvidence
<1>2. First(r) \in Identities /\ RepositoryOf(First(r)) = r
  BY <1>1, FirstIs
<1>3. "next" \in Stages /\ "evidence" \in Stages
  BY DEF Stages
<1>4. stage[r] = "next" /\ stage' \in [Repositories -> Stages] /\ UNCHANGED plan
  BY <1>1, <1>3, ThreadStage
<1>5. r \in touched
  BY <1>4, Begun
<1>6. plan[r] \in Partitions
  BY <1>5 DEF CorpusInv, PlanInv
<1>7. /\ lineage' \in [Identities -> Partitions \cup {Nothing}]
      /\ lineage'[First(r)] = plan[r]
      /\ \A id \in Identities : id # First(r) => lineage'[id] = lineage[id]
  BY <1>1, <1>2, <1>6 DEF CorpusInv, CorpusTypes
<1>8. CorpusTypes'
  BY <1>1, <1>4, <1>7 DEF CorpusInv, CorpusTypes
<1>9. card[First(r)] = Nothing /\ rejection[First(r)] = Nothing
  BY <1>1, <1>2, RejectedHasNoCard DEF CorpusInv, Undecided
<1>10. CardInv' /\ AdmittedInv'
  BY <1>1, <1>4, <1>7, <1>9 DEF CorpusInv, CardInv, AdmittedInv
<1>11. \A id \in Identities : RepositoryOf(id) # r => UNCHANGED <<card[id], rejection[id], lineage[id], receipt[id]>>
  BY <1>1, <1>2, <1>7
<1>12. Written(r)'
  <2>1. First(r)' = First(r)
    BY <1>1 DEF First, Earliest, Ahead, Before, Position
  <2>2. stage'[r] = "evidence"
    BY <1>1 DEF CorpusInv, CorpusTypes, Thread
  <2> QED BY <1>1, <1>4, <1>7, <1>9, <2>1, <2>2 DEF Written
<1> QED BY <1>1, <1>3, <1>5, <1>8, <1>10, <1>11, <1>12, ThreadStepInv

LEMMA WriteCardInv ==
    ASSUME CorpusInv, NEW r \in Repositories, WriteCard(r)
    PROVE  CorpusInv'
<1>1. /\ Thread(r, "evidence", "card")
      /\ card' = [card EXCEPT ![First(r)] = plan[r]]
      /\ UNCHANGED <<touched, rejection, lineage, receipt, work>>
  BY DEF WriteCard
<1>2. "evidence" \in Stages /\ "card" \in Stages
  BY DEF Stages
<1>3. stage[r] = "evidence" /\ stage' \in [Repositories -> Stages] /\ UNCHANGED plan
  BY <1>1, <1>2, ThreadStage
<1>4. /\ r \in touched /\ work[r] # {}
      /\ card[First(r)] = Nothing /\ rejection[First(r)] = Nothing
      /\ lineage[First(r)] = plan[r]
  BY <1>3 DEF CorpusInv, ThreadInv, Written
<1>5. First(r) \in Identities /\ RepositoryOf(First(r)) = r
  BY <1>4, FirstIs
<1>6. plan[r] \in Partitions
  BY <1>4 DEF CorpusInv, PlanInv
<1>7. /\ card' \in [Identities -> Partitions \cup {Nothing}]
      /\ card'[First(r)] = plan[r]
      /\ \A id \in Identities : id # First(r) => card'[id] = card[id]
  BY <1>1, <1>5, <1>6 DEF CorpusInv, CorpusTypes
<1>8. CorpusTypes'
  BY <1>1, <1>3, <1>7 DEF CorpusInv, CorpusTypes
<1>9. CardInv' /\ AdmittedInv'
  BY <1>1, <1>3, <1>4, <1>5, <1>7 DEF CorpusInv, CardInv, AdmittedInv
<1>10. \A id \in Identities : card[id] # Nothing => card'[id] = card[id]
  BY <1>4, <1>7
<1>11. \A id \in Identities : RepositoryOf(id) # r => UNCHANGED <<card[id], rejection[id], lineage[id], receipt[id]>>
  BY <1>1, <1>5, <1>7
<1>12. Written(r)'
  <2>1. First(r)' = First(r)
    BY <1>1 DEF First, Earliest, Ahead, Before, Position
  <2>2. stage'[r] = "card"
    BY <1>1 DEF CorpusInv, CorpusTypes, Thread
  <2>3. ~receipt[First(r)]
    BY <1>4, <1>5 DEF CorpusInv, AdmittedInv
  <2>4. plan[r] # Nothing
    BY <1>6, CorpusAssumption
  <2> QED BY <1>1, <1>4, <1>7, <2>1, <2>2, <2>3, <2>4 DEF Written
<1> QED BY <1>1, <1>2, <1>4, <1>8, <1>9, <1>10, <1>11, <1>12, ThreadStepInv

LEMMA WriteReceiptInv ==
    ASSUME CorpusInv, NEW r \in Repositories, WriteReceipt(r)
    PROVE  CorpusInv'
<1>1. /\ Thread(r, "card", "next")
      /\ receipt' = [receipt EXCEPT ![First(r)] = TRUE]
      /\ Taken(r)
      /\ UNCHANGED <<touched, rejection, lineage, card>>
  BY DEF WriteReceipt
<1>2. "card" \in Stages /\ "next" \in Stages
  BY DEF Stages
<1>3. stage[r] = "card" /\ stage' \in [Repositories -> Stages] /\ UNCHANGED plan
  BY <1>1, <1>2, ThreadStage
<1>4. /\ work' \in [Repositories -> SUBSET Identities]
      /\ work'[r] \subseteq work[r]
      /\ \A q \in Repositories : q # r => work'[q] = work[q]
  BY <1>1, TakenIs
<1>5. /\ work[r] # {}
      /\ card[First(r)] # Nothing /\ rejection[First(r)] = Nothing
  BY <1>3 DEF CorpusInv, ThreadInv, Written
<1>6. First(r) \in Identities /\ RepositoryOf(First(r)) = r
  BY <1>5, FirstIs
<1>7. /\ receipt' \in [Identities -> BOOLEAN]
      /\ \A id \in Identities : receipt[id] => receipt'[id]
      /\ \A id \in Identities : id # First(r) => receipt'[id] = receipt[id]
  BY <1>1 DEF CorpusInv, CorpusTypes
<1>8. CorpusTypes'
  BY <1>1, <1>3, <1>4, <1>7 DEF CorpusInv, CorpusTypes
<1>9. CardInv' /\ AdmittedInv'
  BY <1>1, <1>3, <1>5, <1>7 DEF CorpusInv, CardInv, AdmittedInv
<1>10. r \in touched
  BY <1>3, Begun
<1>11. Written(r)'
  BY <1>1 DEF CorpusInv, CorpusTypes, Thread, Written
<1>12. \A id \in Identities : RepositoryOf(id) # r =>
          UNCHANGED <<card[id], rejection[id], lineage[id], receipt[id]>>
  BY <1>1, <1>6, <1>7
<1> QED BY <1>1, <1>2, <1>4, <1>7, <1>8, <1>9, <1>10, <1>11, <1>12, ThreadStepInv

\* A thread ends, and leaves what it has written.
LEMMA FailAssignmentInv ==
    ASSUME CorpusInv, NEW r \in Repositories, FailAssignment(r)
    PROVE  CorpusInv'
<1>1. /\ UNCHANGED <<plan, touched, rejection, lineage, card, receipt, command, audit, seal>>
      /\ stage[r] # "idle"
      /\ stage' = [stage EXCEPT ![r] = "idle"]
      /\ work' = [work EXCEPT ![r] = {}]
  BY DEF FailAssignment, planVars, groupFiles
<1>2. /\ stage'[r] = "idle"
      /\ work'[r] = {}
      /\ \A q \in Repositories : q # r => stage'[q] = stage[q] /\ work'[q] = work[q]
  BY <1>1 DEF CorpusInv, CorpusTypes
<1>3. CorpusTypes'
  BY <1>1 DEF CorpusInv, CorpusTypes, Stages
<1>4. PlanInv' /\ CardInv' /\ AdmittedInv'
  BY <1>1 DEF CorpusInv, PlanInv, CardInv, AdmittedInv, Disjoint
<1>5. ThreadInv'
  <2> SUFFICES ASSUME NEW q \in Repositories
               PROVE  /\ stage'[q] # "idle" => command' = "acquire" /\ q \in DOMAIN plan'
                      /\ stage'[q] \notin {"idle", "start"} => q \in touched'
                      /\ \A id \in work'[q] : RepositoryOf(id) = q
                      /\ stage'[q] \in {"evidence", "card"} => work'[q] # {}
                      /\ Written(q)'
    BY DEF ThreadInv
  <2>1. CASE q = r
    BY <1>2, <2>1 DEF Written
  <2>2. CASE q # r
    <3>1. stage'[q] = stage[q] /\ work'[q] = work[q]
      BY <1>2, <2>2
    <3>2. First(q)' = First(q)
      BY <3>1 DEF First, Earliest, Ahead, Before, Position
    <3>3. Written(q)'
      BY <1>1, <3>1, <3>2 DEF CorpusInv, ThreadInv, Written
    <3> QED BY <1>1, <3>1, <3>3 DEF CorpusInv, ThreadInv
  <2> QED BY <2>1, <2>2
<1>6. FinalInv'
  BY <1>1 DEF CorpusInv, FinalInv, SealedUnderItsAudit, Cards, Carded
<1> QED BY <1>3, <1>4, <1>5, <1>6 DEF CorpusInv

\* The command ends or dies, and its threads with it.
LEMMA EndInv ==
    ASSUME CorpusInv, EndAcquisition \/ Die
    PROVE  CorpusInv'
<1>1. /\ UNCHANGED <<plan, touched, rejection, lineage, card, receipt, audit, seal>>
      /\ command' = Nothing
      /\ UNCHANGED work \/ work' = [r \in Repositories |-> {}]
      /\ stage' \in [Repositories -> Stages]
      /\ \A r \in Repositories : stage'[r] = "idle"
  BY DEF EndAcquisition, Die, planVars, groupFiles, threads, CorpusInv, CorpusTypes, Stages
<1>2. CorpusTypes'
  BY <1>1 DEF CorpusInv, CorpusTypes
<1>3. PlanInv' /\ CardInv' /\ AdmittedInv'
  BY <1>1 DEF CorpusInv, PlanInv, CardInv, AdmittedInv, Disjoint
<1>4. ThreadInv'
  BY <1>1 DEF CorpusInv, ThreadInv, Written
<1>5. FinalInv'
  BY <1>1 DEF CorpusInv, FinalInv, SealedUnderItsAudit, Nothing
<1> QED BY <1>2, <1>3, <1>4, <1>5 DEF CorpusInv

-----------------------------------------------------------------------------
(* The finalization.                                                       *)

\* No thread runs while a corpus is finalized.
LEMMA NoThreads ==
    ASSUME CorpusInv, command # "acquire", command' # "acquire",
           UNCHANGED <<plan, work, stage>>
    PROVE  ThreadInv'
BY DEF CorpusInv, ThreadInv, Written

LEMMA AuditCorpusInv ==
    ASSUME CorpusInv, AuditCorpus
    PROVE  CorpusInv'
<1>1. /\ UNCHANGED <<plan, touched, rejection, lineage, card, receipt, work, stage, seal>>
      /\ command = Nothing /\ command' \in {Nothing, "audited"}
      /\ Carded # {}
      /\ \A id \in Carded : receipt[id]
      /\ audit \in {<<>>, Cards}
      /\ audit' = (IF audit = <<>> THEN Cards ELSE audit)
  BY DEF AuditCorpus, BackfillSupportingEvidence, AuditWritable, planVars, groupFiles, threads
<1>2. audit' = Cards /\ Cards' = Cards
  BY <1>1 DEF Cards, Carded
<1>3. Cards # <<>>
  <2>1. DOMAIN Cards = Carded /\ DOMAIN <<>> = {}
    BY DEF Cards
  <2> QED BY <1>1, <2>1
<1>4. SealedUnderItsAudit'
  <2>1. CASE audit = <<>>
    BY <1>1, <2>1 DEF CorpusInv, FinalInv, SealedUnderItsAudit
  <2>2. CASE audit # <<>>
    BY <1>1, <2>2 DEF CorpusInv, FinalInv, SealedUnderItsAudit
  <2> QED BY <2>1, <2>2
<1>5. FinalInv'
  BY <1>1, <1>2, <1>3, <1>4 DEF CorpusInv, FinalInv, Carded
<1>6. CorpusTypes' /\ PlanInv' /\ CardInv' /\ AdmittedInv'
  BY <1>1 DEF CorpusInv, CorpusTypes, PlanInv, CardInv, AdmittedInv, Disjoint
<1>7. ThreadInv'
  BY <1>1, NoThreads DEF Nothing
<1> QED BY <1>5, <1>6, <1>7 DEF CorpusInv

LEMMA TerminalizeInv ==
    ASSUME CorpusInv, TerminalizeUnselected
    PROVE  CorpusInv'
<1>1. /\ UNCHANGED <<plan, touched, lineage, card, receipt, work, stage, audit, seal>>
      /\ command = "audited" /\ command' = "terminalized"
      /\ rejection' = [id \in Identities |->
                         IF /\ id = Original(id[1])
                            /\ RepositoryOf(id) \in DOMAIN plan
                            /\ card[id] # plan[RepositoryOf(id)]
                            /\ rejection[id] = Nothing
                         THEN "rejected" ELSE rejection[id]]
  BY DEF TerminalizeUnselected, planVars, threads
<1>2. CorpusTypes'
  BY <1>1 DEF CorpusInv, CorpusTypes
<1>3. CardInv' /\ AdmittedInv'
  BY <1>1 DEF CorpusInv, CardInv, AdmittedInv
<1>4. PlanInv'
  BY <1>1 DEF CorpusInv, PlanInv, Disjoint
<1>5. FinalInv'
  BY <1>1 DEF CorpusInv, FinalInv, SealedUnderItsAudit, Cards, Carded
<1>6. ThreadInv'
  BY <1>1, NoThreads
<1> QED BY <1>2, <1>3, <1>4, <1>5, <1>6 DEF CorpusInv

\* What is accepted is a part of the cards.
LEMMA AcceptedIs ==
    ASSUME NEW cards
    PROVE  /\ DOMAIN Accepted(cards) \subseteq DOMAIN cards
           /\ \A id \in DOMAIN Accepted(cards) : Accepted(cards)[id] = cards[id]
BY DEF Accepted

LEMMA SealPartitionsInv ==
    ASSUME CorpusInv, SealPartitions
    PROVE  CorpusInv'
<1>1. /\ UNCHANGED <<plan, touched, rejection, lineage, card, receipt, work, stage, audit>>
      /\ command = "terminalized" /\ command' = Nothing
      /\ UNCHANGED seal \/ seal' = Accepted(Cards)
  BY DEF SealPartitions, planVars, groupFiles, threads
<1>2. audit = Cards /\ audit # <<>> /\ \A id \in Carded : receipt[id]
  BY <1>1 DEF CorpusInv, FinalInv
<1>3. \A id \in DOMAIN Accepted(Cards) :
         id \in Carded /\ Accepted(Cards)[id] = card[id]
  <2>1. DOMAIN Cards = Carded /\ \A id \in Carded : Cards[id] = card[id]
    BY DEF Cards
  <2> QED BY <2>1, AcceptedIs
<1>4. FinalInv'
  <2>1. SealedUnderItsAudit'
    BY <1>1, <1>2 DEF CorpusInv, FinalInv, SealedUnderItsAudit
  <2>2. \A id \in DOMAIN seal' :
           id \in Identities /\ card[id] # Nothing /\ card[id] = seal'[id] /\ receipt[id]
    BY <1>1, <1>2, <1>3 DEF CorpusInv, FinalInv, Carded
  <2> QED BY <1>1, <1>2, <2>1, <2>2 DEF FinalInv, Nothing
<1>5. CorpusTypes' /\ PlanInv' /\ CardInv' /\ AdmittedInv'
  BY <1>1 DEF CorpusInv, CorpusTypes, PlanInv, CardInv, AdmittedInv, Disjoint
<1>6. ThreadInv'
  BY <1>1, NoThreads DEF Nothing
<1> QED BY <1>4, <1>5, <1>6 DEF CorpusInv

LEMMA CorpusStep == CorpusInv /\ [CorpusNext]_corpusVars => CorpusInv'
<1> SUFFICES ASSUME CorpusInv, [CorpusNext]_corpusVars PROVE CorpusInv'
  OBVIOUS
<1>1. CASE UNCHANGED corpusVars
  <2>1. UNCHANGED <<plan, touched, rejection, lineage, card, receipt, command, work, stage,
                    audit, seal>>
    BY <1>1 DEF corpusVars, planVars, groupFiles, threads
  <2>2. CorpusTypes' /\ PlanInv' /\ CardInv' /\ AdmittedInv'
    BY <2>1 DEF CorpusInv, CorpusTypes, PlanInv, CardInv, AdmittedInv, Disjoint
  <2>3. FinalInv'
    BY <2>1 DEF CorpusInv, FinalInv, SealedUnderItsAudit, Cards, Carded
  <2>4. ThreadInv'
    <3>1. \A q \in Repositories : First(q)' = First(q)
      BY <2>1 DEF First, Earliest, Ahead, Before, Position
    <3> QED BY <2>1, <3>1 DEF CorpusInv, ThreadInv, Written
  <2> QED BY <2>2, <2>3, <2>4 DEF CorpusInv
<1>2. ASSUME NEW r \in Repositories, ProcessAssignment(r) PROVE CorpusInv'
  BY <1>2, QuietThreadInv, RejectCandidateInv, WriteEvidenceInv, WriteCardInv, WriteReceiptInv,
     FailAssignmentInv DEF ProcessAssignment
<1> QED BY <1>1, <1>2, PlanStepInv, AcquireGroupsInv, EndInv, AuditCorpusInv, TerminalizeInv,
           SealPartitionsInv DEF CorpusNext

-----------------------------------------------------------------------------
\* Plans, cards, threads and the seal of build_v0_4_assurance.py agree in every state.
THEOREM CorpusInvariant == CorpusSpec => []CorpusInv
<1> QED BY CorpusInitInv, CorpusStep, PTL DEF CorpusSpec

\* No organization has groups in two partitions of the seal, though plans are extended and
\* rebalanced between acquisitions that die.
THEOREM OrganizationsStayApart == CorpusSpec => []OrganizationsApart
<1>1. ASSUME CorpusInv PROVE OrganizationsApart
  <2> SUFFICES ASSUME NEW a \in DOMAIN seal, NEW b \in DOMAIN seal,
                      Lineage[RepositoryOf(a)] = Lineage[RepositoryOf(b)]
               PROVE  seal[a] = seal[b]
    BY DEF OrganizationsApart
  <2>1. \A id \in DOMAIN seal :
           RepositoryOf(id) \in DOMAIN plan /\ seal[id] = plan[RepositoryOf(id)]
    BY <1>1 DEF CorpusInv, FinalInv, CardInv, PlanInv
  <2> QED BY <1>1, <2>1 DEF CorpusInv, PlanInv, Disjoint
<1> QED BY <1>1, CorpusInvariant, PTL

\* The sealed corpus is what the one corpus-wide audit on file accepts.
THEOREM SealIsAudited == CorpusSpec => []SealedUnderItsAudit
<1>1. CorpusInv => SealedUnderItsAudit
  BY DEF CorpusInv, FinalInv
<1> QED BY <1>1, CorpusInvariant, PTL

\* Every sealed group has its evidence, the receipt of its admission and no rejection, though
\* a card may stand beside a rejection: finalization asks for the receipt of every card, which
\* is written only if nothing failed, and a group that has it is not processed again.
THEOREM SealIsBacked == CorpusSpec => []SealedGroupsBacked
<1>1. CorpusInv => SealedGroupsBacked
  BY DEF CorpusInv, FinalInv, CardInv, AdmittedInv, SealedGroupsBacked
<1> QED BY <1>1, CorpusInvariant, PTL
=============================================================================
