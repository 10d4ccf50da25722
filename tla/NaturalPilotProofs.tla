------------------------ MODULE NaturalPilotProofs ------------------------
(***************************************************************************)
(* For any catalog, any number of edits and any command that dies at any   *)
(* step: the two versions together open the qualification partition once,  *)
(* sealed public evidence stays true of it, and what is run was approved   *)
(* before it was fetched.                                                  *)
(***************************************************************************)
EXTENDS NaturalPilot, TLAPS

Steps == {Idle, "control", "run", "score", "replay", "agreed", "differs", "qualify", "unused",
          "consumed", "close", "decide"} \cup Runs
DirStates == {Absent, "open", "sealed"}
RunStates == {Absent, "open"} \cup Outcomes
Facts == {"remediation", "authorised", "budget", "copy", "consumed"}

TypeInv ==
    /\ dirs \in [Packages -> DirStates]
    /\ runs \in [Runs -> RunStates]
    /\ doing \in [Commands -> Steps]
    /\ opened \in [Versions -> Nat]
    /\ DOMAIN facts = Facts /\ facts = [f \in Facts |-> facts[f]]

V031Run == runs["qualification-raw"]
V032Run == runs["capability-qualification"]

\* Each version has one run of the partition, and it is counted.
OpenedInv ==
    /\ opened["0.3.1"] = IF V031Run = Absent THEN 0 ELSE 1
    /\ opened["0.3.2"] = IF V032Run = Absent THEN 0 ELSE 1

BeforeQualification == {"control", "run", "development-raw", "score", "replay", "agreed",
                        "differs", "qualify", "unused"}

\* The run of baseline is made once: its first package stays, and it does not go back.
\* The run of a command is there while the command is in it.
RunningInv ==
    /\ doing["baseline"] = "qualification-raw" => V031Run # Absent
    /\ doing["qualify"] = "capability-qualification" => V032Run # Absent
    /\ doing["baseline"] \in BeforeQualification => V031Run = Absent
    /\ V031Run # Absent => dirs["pre-run"] # Absent

\* A budget that says unused is the last word: baseline has passed the run, and cannot be
\* started again, since its first package stays.
BudgetInv ==
    /\ doing["baseline"] # Idle => dirs["pre-run"] # Absent
    /\ facts.budget = "unused" =>
          /\ V031Run = Absent
          /\ doing["baseline"] \in {"close", Idle}
          /\ dirs["pre-run"] # Absent
    /\ facts.copy = "unused" => facts.budget = "unused"
    /\ V032Run # Absent => facts.budget = "unused"

PilotInv == TypeInv /\ OpenedInv /\ RunningInv /\ BudgetInv

LEMMA InitInv == Init => PilotInv
<1> SUFFICES ASSUME Init PROVE PilotInv
  OBVIOUS
<1>1. TypeInv
  BY DEF Init, TypeInv, DirStates, RunStates, Steps, Facts
<1>2. /\ V031Run = Absent /\ V032Run = Absent
      /\ \A c \in Commands : doing[c] = Idle
      /\ opened["0.3.1"] = 0 /\ opened["0.3.2"] = 0
      /\ facts.budget = "none" /\ facts.copy = "none"
  BY DEF Init, V031Run, V032Run, Runs, Commands, Versions
<1> QED BY <1>1, <1>2
     DEF PilotInv, OpenedInv, RunningInv, BudgetInv, BeforeQualification, Commands, Idle

-----------------------------------------------------------------------------
\* A step that runs nothing only adds packages.
PackagesGrow ==
    /\ dirs' \in [Packages -> DirStates]
    /\ dirs["pre-run"] # Absent => dirs'["pre-run"] # Absent

LEMMA EvaluationStays ==
    ASSUME PilotInv, evaluation' = evaluation, PackagesGrow
    PROVE  PilotInv'
BY DEF PilotInv, TypeInv, OpenedInv, RunningInv, BudgetInv, V031Run, V032Run, evaluation,
       PackagesGrow

LEMMA DirsStay ==
    ASSUME PilotInv, dirs' = dirs
    PROVE  PackagesGrow
BY DEF PilotInv, TypeInv, PackagesGrow

LEMMA DirSet ==
    ASSUME PilotInv, NEW p \in Packages, NEW state \in {"open", "sealed"},
           dirs' = [dirs EXCEPT ![p] = state]
    PROVE  PackagesGrow /\ dirs'[p] # Absent
BY DEF PilotInv, TypeInv, PackagesGrow, DirStates, Absent

\* Intake and corpus do not touch the evaluation.
LEMMA IntakeInv ==
    ASSUME PilotInv,
           \/ \E c \in Catalogs : EditCatalog(c)
           \/ PrepareIntake \/ StartAcquire
           \/ \E r \in Repositories : ReuseRepository(r) \/ TakeRepository(r)
           \/ InitBare \/ FetchBare
           \/ \E a \in Advisories : Materialise(a) \/ WriteReceipt(a)
           \/ RecordRepository \/ SealAcquisition \/ AcquireDies
    PROVE  PilotInv'
<1>1. evaluation' = evaluation /\ dirs' = dirs
  BY DEF EditCatalog, PrepareIntake, StartAcquire, ReuseRepository, TakeRepository, InitBare,
         FetchBare, Materialise, WriteReceipt, RecordRepository, SealAcquisition, AcquireDies,
         IntakeStep
<1> QED BY <1>1, EvaluationStays, DirsStay

LEMMA MakesPackageInv ==
    ASSUME PilotInv, Construct \/ ConstructFails \/ PrepareRecovery \/ PrepareCapability
    PROVE  PilotInv'
<1>1. evaluation' = evaluation
  BY DEF Construct, ConstructFails, PrepareRecovery, PrepareCapability, AtOnce
<1>2. \E p \in Packages, state \in {"open", "sealed"} : dirs' = [dirs EXCEPT ![p] = state]
  BY DEF Construct, ConstructFails, PrepareRecovery, PrepareCapability, Makes, Packages
<1> QED BY <1>1, <1>2, EvaluationStays, DirSet

\* Public evidence adds to what is recorded, and leaves the budgets alone.
LEMMA PublishesInv ==
    ASSUME PilotInv, SealV031 \/ SealV032
    PROVE  PilotInv'
<1>1. PICK v \in Versions, n \in {0, 1} : Publishes(v, n)
  BY DEF SealV031, SealV032, Versions
<1>2. /\ runs' = runs /\ doing' = doing /\ opened' = opened
      /\ facts' = [facts EXCEPT !.consumed[v] = n]
  BY <1>1 DEF Publishes
<1>3. \E p \in Packages, state \in {"open", "sealed"} : dirs' = [dirs EXCEPT ![p] = state]
  BY <1>1 DEF Publishes, Makes, Public, Packages
<1>4. PackagesGrow
  BY <1>3, DirSet
<1>5. DOMAIN facts' = Facts /\ facts' = [f \in Facts |-> facts'[f]]
      /\ facts'.budget = facts.budget /\ facts'.copy = facts.copy
  BY <1>2 DEF PilotInv, TypeInv, Facts
<1> QED BY <1>2, <1>4, <1>5
     DEF PilotInv, TypeInv, OpenedInv, RunningInv, BudgetInv, V031Run, V032Run, PackagesGrow

-----------------------------------------------------------------------------
(* The steps that the commands share, by what they leave alone.            *)

\* A step that touches neither run of the partition, nor their commands, nor the budgets.
LEMMA ElsewhereInv ==
    ASSUME PilotInv, TypeInv', PackagesGrow, opened' = opened,
           V031Run' = V031Run, V032Run' = V032Run,
           doing'["baseline"] = doing["baseline"], doing'["qualify"] = doing["qualify"],
           facts'.budget = facts.budget, facts'.copy = facts.copy
    PROVE  PilotInv'
BY DEF PilotInv, OpenedInv, RunningInv, BudgetInv, V031Run, V032Run, PackagesGrow

\* Baseline goes on, and not to its qualification.
LEMMA BaselineGoesInv ==
    ASSUME PilotInv, PackagesGrow, NEW step \in Steps \ {"qualification-raw", Idle},
           doing["baseline"] \in BeforeQualification,
           doing' = [doing EXCEPT !["baseline"] = step],
           runs' = runs, facts' = facts, opened' = opened
    PROVE  PilotInv'
<1>1. TypeInv'
  BY DEF PilotInv, TypeInv, PackagesGrow, Commands
<1>2. doing'["baseline"] = step /\ doing'["qualify"] = doing["qualify"]
  BY DEF PilotInv, TypeInv, Commands
<1>3. V031Run' = V031Run /\ V032Run' = V032Run /\ V031Run = Absent
      /\ dirs["pre-run"] # Absent /\ dirs'["pre-run"] # Absent
  BY DEF PilotInv, RunningInv, BudgetInv, V031Run, V032Run, PackagesGrow,
         BeforeQualification, Idle
<1>4. facts.budget # "unused"
  BY DEF PilotInv, BudgetInv, BeforeQualification, Idle
<1> QED BY <1>1, <1>2, <1>3, <1>4 DEF PilotInv, OpenedInv, RunningInv, BudgetInv

\* A command stops, or dies.
LEMMA StopsInv ==
    ASSUME PilotInv, PackagesGrow, NEW c \in Commands, doing' = [doing EXCEPT ![c] = Idle],
           runs' = runs, facts' = facts, opened' = opened
    PROVE  PilotInv'
<1>1. TypeInv'
  BY DEF PilotInv, TypeInv, PackagesGrow, Steps
<1>2. /\ doing'["baseline"] \in {doing["baseline"], Idle}
      /\ doing'["qualify"] \in {doing["qualify"], Idle}
  BY DEF PilotInv, TypeInv, Commands
<1>3. V031Run' = V031Run /\ V032Run' = V032Run
  BY DEF V031Run, V032Run
<1> QED BY <1>1, <1>2, <1>3
     DEF PilotInv, OpenedInv, RunningInv, BudgetInv, PackagesGrow, BeforeQualification, Idle

\* The run of another command than the two is started or ends.
LEMMA OtherRunInv ==
    ASSUME PilotInv, NEW c \in Commands \ {"baseline", "qualify"},
           NEW n \in Runs \ {"qualification-raw", "capability-qualification"},
           NEW v \in Versions, NEW step \in Steps,
           StartsRun(c, n, "development", v) \/ EndsRun(c, n, step)
    PROVE  PilotInv'
<1>1. PICK s \in RunStates, t \in Steps : /\ runs' = [runs EXCEPT ![n] = s]
                                         /\ doing' = [doing EXCEPT ![c] = t]
                                         /\ dirs' = dirs /\ facts' = facts /\ opened' = opened
  BY DEF StartsRun, EndsRun, Goes, RunStates, Steps
<1>2. V031Run' = V031Run /\ V032Run' = V032Run
  BY <1>1 DEF PilotInv, TypeInv, V031Run, V032Run, Runs
<1>3. TypeInv' /\ doing'["baseline"] = doing["baseline"] /\ doing'["qualify"] = doing["qualify"]
  BY <1>1 DEF PilotInv, TypeInv, Commands
<1> QED BY <1>1, <1>2, <1>3, DirsStay, ElsewhereInv

\* A step of another command than the two that makes or seals a package, or none.
LEMMA OtherStepInv ==
    ASSUME PilotInv, PackagesGrow, NEW c \in Commands \ {"baseline", "qualify"},
           NEW step \in Steps, doing' = [doing EXCEPT ![c] = step],
           runs' = runs, facts' = facts, opened' = opened
    PROVE  PilotInv'
<1>1. TypeInv' /\ doing'["baseline"] = doing["baseline"] /\ doing'["qualify"] = doing["qualify"]
  BY DEF PilotInv, TypeInv, PackagesGrow, Commands
<1>2. V031Run' = V031Run /\ V032Run' = V032Run
  BY DEF V031Run, V032Run
<1> QED BY <1>1, <1>2, ElsewhereInv

\* A decision that leaves the budgets alone.
LEMMA DecidesInv ==
    ASSUME PilotInv, NEW c \in Commands \ {"baseline"}, NEW p \in Packages, NEW decided,
           Decides(c, p, decided),
           DOMAIN decided = Facts, decided = [f \in Facts |-> decided[f]],
           decided.budget = facts.budget, decided.copy = facts.copy
    PROVE  PilotInv'
<1>1. /\ doing' = [doing EXCEPT ![c] = Idle] /\ facts' = decided
      /\ runs' = runs /\ opened' = opened
  BY DEF Decides, Goes
<1>2. PackagesGrow
  BY DirSet DEF Decides
<1>3. TypeInv'
  BY <1>1, <1>2 DEF PilotInv, TypeInv, PackagesGrow, Steps
<1>4. V031Run' = V031Run /\ V032Run' = V032Run
  BY <1>1 DEF V031Run, V032Run
<1>5. /\ doing'["baseline"] = doing["baseline"]
      /\ doing'["qualify"] \in {doing["qualify"], Idle}
  BY <1>1 DEF PilotInv, TypeInv, Commands
<1> QED BY <1>1, <1>2, <1>3, <1>4, <1>5
     DEF PilotInv, OpenedInv, RunningInv, BudgetInv, PackagesGrow, Idle

-----------------------------------------------------------------------------
(* baseline.                                                               *)

LEMMA StartBaselineInv ==
    ASSUME PilotInv, StartBaseline
    PROVE  PilotInv'
<1>1. /\ dirs["pre-run"] = Absent /\ dirs' = [dirs EXCEPT !["pre-run"] = "open"]
      /\ doing' = [doing EXCEPT !["baseline"] = "control"]
      /\ runs' = runs /\ facts' = facts /\ opened' = opened
  BY DEF StartBaseline, Opens, Goes
<1>2. PackagesGrow /\ dirs'["pre-run"] # Absent
  BY <1>1, DirSet DEF Packages
<1>3. TypeInv'
  BY <1>1, <1>2 DEF PilotInv, TypeInv, PackagesGrow, Steps
<1>4. doing'["baseline"] = "control" /\ doing'["qualify"] = doing["qualify"]
  BY <1>1 DEF PilotInv, TypeInv, Commands
<1>5. V031Run = Absent /\ facts.budget # "unused"
  BY <1>1 DEF PilotInv, RunningInv, BudgetInv
<1>6. V031Run' = V031Run /\ V032Run' = V032Run
  BY <1>1 DEF V031Run, V032Run
<1> QED BY <1>1, <1>2, <1>3, <1>4, <1>5, <1>6
     DEF PilotInv, OpenedInv, RunningInv, BudgetInv

LEMMA BaselineStepsInv ==
    ASSUME PilotInv, SealPreRun \/ Scores("baseline") \/ Replays("baseline") \/ DecideDevelopment
    PROVE  PilotInv'
<1>1. doing["baseline"] \in BeforeQualification
  BY DEF SealPreRun, Scores, Replays, DecideDevelopment, At, Decided, BeforeQualification
<1>2. \E step \in Steps \ {"qualification-raw", Idle} :
          doing' = [doing EXCEPT !["baseline"] = step]
  BY DEF SealPreRun, Scores, Replays, DecideDevelopment, Seals, Goes, Steps, Idle
<1>3. runs' = runs /\ facts' = facts /\ opened' = opened
  BY DEF SealPreRun, Scores, Replays, DecideDevelopment, Seals
<1>4. PackagesGrow
  <2>1. \/ dirs' = dirs
        \/ \E p \in Packages, state \in {"open", "sealed"} : dirs' = [dirs EXCEPT ![p] = state]
    BY DEF SealPreRun, Scores, Replays, DecideDevelopment, Seals, Packages
  <2> QED BY <2>1, DirsStay, DirSet
<1> QED BY <1>1, <1>2, <1>3, <1>4, BaselineGoesInv

LEMMA RunDevelopmentInv ==
    ASSUME PilotInv, RunDevelopment
    PROVE  PilotInv'
<1>1. doing["baseline"] \in {"run", "development-raw"}
  BY DEF RunDevelopment, At
<1>2. PICK s \in RunStates, t \in {"development-raw", "score"} :
          /\ runs' = [runs EXCEPT !["development-raw"] = s]
          /\ doing' = [doing EXCEPT !["baseline"] = t]
          /\ dirs' = dirs /\ facts' = facts /\ opened' = opened
  BY DEF RunDevelopment, StartsRun, EndsRun, Goes, RunStates
<1>3. V031Run' = V031Run /\ V032Run' = V032Run
  BY <1>2 DEF PilotInv, TypeInv, V031Run, V032Run, Runs
<1>4. TypeInv'
  BY <1>2 DEF PilotInv, TypeInv, Steps, Runs, Commands
<1>5. doing'["baseline"] = t /\ doing'["qualify"] = doing["qualify"]
  BY <1>2 DEF PilotInv, TypeInv, Commands
<1>6. facts.budget # "unused" /\ V031Run = Absent
  BY <1>1 DEF PilotInv, RunningInv, BudgetInv, BeforeQualification, Idle
<1> QED BY <1>1, <1>2, <1>3, <1>4, <1>5, <1>6
     DEF PilotInv, OpenedInv, RunningInv, BudgetInv, Idle

\* The qualification of V0.3.1 is run once: it is counted with the directory of its run.
LEMMA RunQualificationInv ==
    ASSUME PilotInv, RunQualification
    PROVE  PilotInv'
<1>1. /\ doing["baseline"] \in {"qualify", "qualification-raw"}
      /\ dirs["pre-run"] # Absent
      /\ facts.budget # "unused" /\ facts.copy # "unused" /\ V032Run = Absent
  BY DEF RunQualification, At, PilotInv, BudgetInv, Idle
<1>2. dirs' = dirs /\ facts' = facts
  BY DEF RunQualification, StartsRun, EndsRun
<1>3. CASE At("baseline", "qualify")
           /\ StartsRun("baseline", "qualification-raw", "qualification", "0.3.1")
  <2>1. /\ V031Run = Absent
        /\ runs' = [runs EXCEPT !["qualification-raw"] = "open"]
        /\ opened' = [opened EXCEPT !["0.3.1"] = opened["0.3.1"] + 1]
        /\ doing' = [doing EXCEPT !["baseline"] = "qualification-raw"]
    BY <1>3 DEF StartsRun, Goes, V031Run
  <2>2. TypeInv'
    BY <1>2, <2>1 DEF PilotInv, TypeInv, RunStates, Runs, Steps, Versions, Commands
  <2>3. V031Run' # Absent /\ V032Run' = V032Run
    BY <2>1 DEF PilotInv, TypeInv, V031Run, V032Run, Runs, Absent
  <2>4. opened'["0.3.1"] = 1 /\ opened'["0.3.2"] = opened["0.3.2"]
    BY <2>1 DEF PilotInv, TypeInv, OpenedInv, Versions
  <2>5. doing'["baseline"] = "qualification-raw" /\ doing'["qualify"] = doing["qualify"]
    BY <2>1 DEF PilotInv, TypeInv, Commands
  <2> QED BY <1>1, <1>2, <2>2, <2>3, <2>4, <2>5
       DEF PilotInv, OpenedInv, RunningInv, BudgetInv, BeforeQualification, Idle
<1>4. CASE At("baseline", "qualification-raw")
           /\ EndsRun("baseline", "qualification-raw", "consumed")
  <2>1. V031Run # Absent
    BY <1>4 DEF At, PilotInv, RunningInv
  <2>2. PICK outcome \in Outcomes : /\ runs' = [runs EXCEPT !["qualification-raw"] = outcome]
                                    /\ doing' = [doing EXCEPT !["baseline"] = "consumed"]
                                    /\ opened' = opened
    BY <1>4 DEF EndsRun, Goes
  <2>3. TypeInv'
    BY <1>2, <2>2 DEF PilotInv, TypeInv, RunStates, Runs, Steps, Commands
  <2>4. V031Run' # Absent /\ V032Run' = V032Run
    BY <2>2 DEF PilotInv, TypeInv, V031Run, V032Run, Runs, Outcomes, Absent
  <2>5. doing'["baseline"] = "consumed" /\ doing'["qualify"] = doing["qualify"]
    BY <2>2 DEF PilotInv, TypeInv, Commands
  <2> QED BY <1>1, <1>2, <2>1, <2>2, <2>3, <2>4, <2>5
       DEF PilotInv, OpenedInv, RunningInv, BudgetInv, BeforeQualification, Idle
<1> QED BY <1>3, <1>4 DEF RunQualification

\* What the final budget says is what baseline did.
LEMMA WriteBudgetInv ==
    ASSUME PilotInv, WriteBudget
    PROVE  PilotInv'
<1>1. /\ doing["baseline"] \in {"unused", "consumed"}
      /\ facts' = [facts EXCEPT !.budget = doing["baseline"]]
      /\ doing' = [doing EXCEPT !["baseline"] = "close"]
      /\ runs' = runs /\ dirs' = dirs /\ opened' = opened
  BY DEF WriteBudget, FinalBudget, Goes
<1>2. /\ dirs["pre-run"] # Absent
      /\ facts.budget # "unused" /\ facts.copy # "unused" /\ V032Run = Absent
      /\ doing["baseline"] = "unused" => V031Run = Absent
  BY <1>1 DEF PilotInv, RunningInv, BudgetInv, BeforeQualification, Idle
<1>3. DOMAIN facts' = Facts /\ facts' = [f \in Facts |-> facts'[f]]
      /\ facts'.budget = doing["baseline"] /\ facts'.copy = facts.copy
  BY <1>1 DEF PilotInv, TypeInv, Facts
<1>4. TypeInv'
  BY <1>1, <1>3 DEF PilotInv, TypeInv, Steps
<1>5. doing'["baseline"] = "close" /\ doing'["qualify"] = doing["qualify"]
  BY <1>1 DEF PilotInv, TypeInv, Commands
<1>6. V031Run' = V031Run /\ V032Run' = V032Run
  BY <1>1 DEF V031Run, V032Run
<1> QED BY <1>1, <1>2, <1>3, <1>4, <1>5, <1>6
     DEF PilotInv, OpenedInv, RunningInv, BudgetInv, BeforeQualification, Idle

LEMMA CloseBaselineInv ==
    ASSUME PilotInv, CloseBaseline
    PROVE  PilotInv'
<1>1. /\ dirs' = [dirs EXCEPT !["decisions"] = "sealed"]
      /\ doing' = [doing EXCEPT !["baseline"] = Idle]
      /\ runs' = runs /\ facts' = facts /\ opened' = opened
  BY DEF CloseBaseline, Seals, Goes
<1> QED BY <1>1, DirSet, StopsInv DEF Packages, Commands

LEMMA DiesInv ==
    ASSUME PilotInv, NEW c \in Commands, CommandDies(c)
    PROVE  PilotInv'
BY DirsStay, StopsInv DEF CommandDies, Goes

-----------------------------------------------------------------------------
(* V0.3.2.                                                                 *)

LEMMA DiagnosticInv ==
    ASSUME PilotInv, Diagnostic \/ RunRecovered \/ RunCapability
    PROVE  PilotInv'
BY OtherRunInv DEF Diagnostic, RunRecovered, RunCapability, Commands, Runs, Versions, Steps

LEMMA RecoverStepsInv ==
    ASSUME PilotInv,
           \/ StartRecover \/ SealRecovered
           \/ Scores("recover") \/ Replays("recover")
           \/ Scores("development") \/ Replays("development")
    PROVE  PilotInv'
<1>1. \E c \in Commands \ {"baseline", "qualify"}, step \in Steps :
          doing' = [doing EXCEPT ![c] = step]
  BY DEF StartRecover, SealRecovered, Scores, Replays, Opens, Seals, Goes, Commands, Steps
<1>2. runs' = runs /\ facts' = facts /\ opened' = opened
  BY DEF StartRecover, SealRecovered, Scores, Replays, Opens, Seals
<1>3. PackagesGrow
  <2>1. \/ dirs' = dirs
        \/ \E p \in Packages, state \in {"open", "sealed"} : dirs' = [dirs EXCEPT ![p] = state]
    BY DEF StartRecover, SealRecovered, Scores, Replays, Opens, Seals, Packages
  <2> QED BY <2>1, DirsStay, DirSet
<1> QED BY <1>1, <1>2, <1>3, OtherStepInv

LEMMA DecisionsInv ==
    ASSUME PilotInv, DecideDiagnostic \/ DecideRecovered \/ DecideQualification
    PROVE  PilotInv'
<1>1. CASE DecideDiagnostic
  <2> DEFINE decided == [facts EXCEPT !.remediation = Remediation]
  <2>1. /\ DOMAIN decided = Facts /\ decided = [f \in Facts |-> decided[f]]
        /\ decided.budget = facts.budget /\ decided.copy = facts.copy
    BY DEF PilotInv, TypeInv, Facts
  <2>2. Decides("diagnostic", "resource-diagnostic", decided)
    BY <1>1 DEF DecideDiagnostic
  <2> HIDE DEF decided
  <2> QED BY <2>1, <2>2, DecidesInv DEF Commands, Packages
<1>2. CASE DecideRecovered
  <2>1. PICK passed \in BOOLEAN :
            Decides("recover", "baseline", Authorises("baseline", passed))
    BY <1>2 DEF DecideRecovered
  <2> DEFINE decided == Authorises("baseline", passed)
  <2>2. /\ DOMAIN decided = Facts /\ decided = [f \in Facts |-> decided[f]]
        /\ decided.budget = facts.budget /\ decided.copy = facts.copy
    BY DEF PilotInv, TypeInv, Facts, Authorises
  <2>3. Decides("recover", "baseline", decided)
    BY <2>1
  <2> HIDE DEF decided
  <2> QED BY <2>2, <2>3, DecidesInv DEF Commands, Packages
<1>3. CASE DecideQualification
  BY <1>3, DecidesInv DEF DecideQualification, PilotInv, TypeInv, Commands, Packages
<1> QED BY <1>1, <1>2, <1>3

\* The lock copies the budget, which is final when it says unused.
LEMMA LockCapabilityInv ==
    ASSUME PilotInv, LockCapability
    PROVE  PilotInv'
<1>1. PICK passed \in BOOLEAN :
          Decides("development", "lock",
                  [Authorises("lock", passed) EXCEPT !.copy = facts.budget])
  BY DEF LockCapability
<1>2. /\ doing' = [doing EXCEPT !["development"] = Idle]
      /\ facts' = [Authorises("lock", passed) EXCEPT !.copy = facts.budget]
      /\ runs' = runs /\ opened' = opened
  BY <1>1 DEF Decides, Goes
<1>3. PackagesGrow
  BY <1>1, DirSet DEF Decides, Packages
<1>4. DOMAIN facts' = Facts /\ facts' = [f \in Facts |-> facts'[f]]
      /\ facts'.budget = facts.budget /\ facts'.copy = facts.budget
  BY <1>2 DEF PilotInv, TypeInv, Facts, Authorises
<1>5. TypeInv' /\ doing'["baseline"] = doing["baseline"] /\ doing'["qualify"] = doing["qualify"]
  BY <1>2, <1>3, <1>4 DEF PilotInv, TypeInv, PackagesGrow, Steps, Commands
<1>6. V031Run' = V031Run /\ V032Run' = V032Run
  BY <1>2 DEF V031Run, V032Run
<1> QED BY <1>2, <1>3, <1>4, <1>5, <1>6
     DEF PilotInv, OpenedInv, RunningInv, BudgetInv, PackagesGrow

\* A copy that says unused was taken of a budget that is final.
LEMMA QualifyInv ==
    ASSUME PilotInv, Qualify
    PROVE  PilotInv'
<1>1. facts.budget = "unused"
  BY DEF Qualify, At, PilotInv, RunningInv, BudgetInv
<1>2. dirs' = dirs /\ facts' = facts
  BY DEF Qualify, StartsRun, EndsRun
<1>3. CASE StartsRun("qualify", "capability-qualification", "qualification", "0.3.2")
  <2>1. /\ V032Run = Absent
        /\ runs' = [runs EXCEPT !["capability-qualification"] = "open"]
        /\ opened' = [opened EXCEPT !["0.3.2"] = opened["0.3.2"] + 1]
        /\ doing' = [doing EXCEPT !["qualify"] = "capability-qualification"]
    BY <1>3 DEF StartsRun, Goes, V032Run
  <2>2. TypeInv'
    BY <1>2, <2>1 DEF PilotInv, TypeInv, RunStates, Runs, Steps, Versions, Commands
  <2>3. V032Run' # Absent /\ V031Run' = V031Run
    BY <2>1 DEF PilotInv, TypeInv, V031Run, V032Run, Runs, Absent
  <2>4. opened'["0.3.2"] = 1 /\ opened'["0.3.1"] = opened["0.3.1"]
    BY <2>1 DEF PilotInv, TypeInv, OpenedInv, Versions
  <2>5. doing'["qualify"] = "capability-qualification" /\ doing'["baseline"] = doing["baseline"]
    BY <2>1 DEF PilotInv, TypeInv, Commands
  <2> QED BY <1>1, <1>2, <2>2, <2>3, <2>4, <2>5
       DEF PilotInv, OpenedInv, RunningInv, BudgetInv
<1>4. CASE At("qualify", "capability-qualification")
           /\ EndsRun("qualify", "capability-qualification", "decide")
  <2>1. V032Run # Absent
    BY <1>4 DEF At, PilotInv, RunningInv
  <2>2. PICK outcome \in Outcomes :
            /\ runs' = [runs EXCEPT !["capability-qualification"] = outcome]
            /\ doing' = [doing EXCEPT !["qualify"] = "decide"]
            /\ opened' = opened
    BY <1>4 DEF EndsRun, Goes
  <2>3. TypeInv'
    BY <1>2, <2>2 DEF PilotInv, TypeInv, RunStates, Runs, Steps, Commands
  <2>4. V032Run' # Absent /\ V031Run' = V031Run
    BY <2>2 DEF PilotInv, TypeInv, V031Run, V032Run, Runs, Outcomes, Absent
  <2>5. doing'["qualify"] = "decide" /\ doing'["baseline"] = doing["baseline"]
    BY <2>2 DEF PilotInv, TypeInv, Commands
  <2> QED BY <1>1, <1>2, <2>1, <2>2, <2>3, <2>4, <2>5
       DEF PilotInv, OpenedInv, RunningInv, BudgetInv
<1> QED BY <1>3, <1>4 DEF Qualify

-----------------------------------------------------------------------------
LEMMA NextInv ==
    ASSUME PilotInv, [Next]_vars
    PROVE  PilotInv'
<1>1. CASE UNCHANGED vars
  BY <1>1, EvaluationStays, DirsStay DEF vars
<1>2. CASE \/ \E c \in Catalogs : EditCatalog(c)
           \/ PrepareIntake \/ StartAcquire
           \/ \E r \in Repositories : ReuseRepository(r) \/ TakeRepository(r)
           \/ InitBare \/ FetchBare
           \/ \E a \in Advisories : Materialise(a) \/ WriteReceipt(a)
           \/ RecordRepository \/ SealAcquisition \/ AcquireDies
  BY <1>2, IntakeInv
<1>3. CASE Construct \/ ConstructFails \/ PrepareRecovery \/ PrepareCapability
  BY <1>3, MakesPackageInv
<1>4. CASE StartBaseline
  BY <1>4, StartBaselineInv
<1>5. CASE SealPreRun \/ Scores("baseline") \/ Replays("baseline") \/ DecideDevelopment
  BY <1>5, BaselineStepsInv
<1>6. CASE RunDevelopment
  BY <1>6, RunDevelopmentInv
<1>7. CASE RunQualification
  BY <1>7, RunQualificationInv
<1>8. CASE WriteBudget
  BY <1>8, WriteBudgetInv
<1>9. CASE CloseBaseline
  BY <1>9, CloseBaselineInv
<1>10. CASE Diagnostic \/ RunRecovered \/ RunCapability
  BY <1>10, DiagnosticInv
<1>11. CASE \/ StartRecover \/ SealRecovered
            \/ Scores("recover") \/ Replays("recover")
            \/ Scores("development") \/ Replays("development")
  BY <1>11, RecoverStepsInv
<1>12. CASE DecideDiagnostic \/ DecideRecovered \/ DecideQualification
  BY <1>12, DecisionsInv
<1>13. CASE LockCapability
  BY <1>13, LockCapabilityInv
<1>14. CASE Qualify
  BY <1>14, QualifyInv
<1>15. CASE SealV031 \/ SealV032
  BY <1>15, PublishesInv
<1>16. CASE \E c \in Commands : CommandDies(c)
  BY <1>16, DiesInv
<1> QED BY <1>1, <1>2, <1>3, <1>4, <1>5, <1>6, <1>7, <1>8, <1>9, <1>10, <1>11, <1>12, <1>13,
           <1>14, <1>15, <1>16 DEF Next

\* Types; each version counts the run of the partition it has; baseline does not come back to
\* its qualification; a budget that says unused is the last word on V0.3.1, and V0.3.2 opens
\* the partition only behind it (build_v0_3_1_natural.py:1934-2015,
\* build_v0_3_2_capability.py:131-139, 313-318).
THEOREM PilotInvariant == Spec => []PilotInv
<1> QED BY InitInv, NextInv, PTL DEF Spec

\* Whatever is edited, acquired and built, and whatever command dies at whatever step, the
\* qualification partition is opened at most once over both versions.
THEOREM PilotPartitionOpenedOnce == Spec => []PartitionOpenedOnce
<1>1. PilotInv => PartitionOpenedOnce
  <2> SUFFICES ASSUME PilotInv PROVE PartitionOpenedOnce
    OBVIOUS
  <2>1. V031Run = Absent \/ V032Run = Absent
    BY DEF PilotInv, BudgetInv
  <2> QED BY <2>1 DEF PilotInv, OpenedInv, PartitionOpenedOnce
<1> QED BY <1>1, PilotInvariant, PTL

-----------------------------------------------------------------------------
(* What the public evidence says of the budget.                            *)

Final == {"unused", "consumed"}

\* Once the decisions of V0.3.1 are sealed, its budget is final and tells of its run.
BaselineEnds ==
    /\ doing["baseline"] = "consumed" => V031Run # Absent
    /\ doing["baseline"] = "close" => facts.budget \in Final
    /\ facts.budget = "consumed" => V031Run # Absent
    /\ Sealed("decisions") =>
          doing["baseline"] = Idle /\ facts.budget \in Final /\ dirs["pre-run"] # Absent

\* V0.3.2 has a run only behind its lock, and a qualification only of its run.
QualifyEnds ==
    /\ doing["qualify"] = "decide" => V032Run # Absent
    /\ dirs["qualification"] # Absent => V032Run # Absent
    /\ V032Run # Absent => "lock" \in facts.authorised

\* The numbers are right, and no run of the version is left to start.
Told ==
    /\ DOMAIN facts.consumed = Versions
    /\ \A v \in Versions : dirs[Public(v)] # Absent => facts.consumed[v] = opened[v]
    /\ dirs["public 0.3.1"] # Absent => Sealed("decisions")
    /\ dirs["public 0.3.2"] # Absent =>
          Sealed("lock") /\ ("lock" \in facts.authorised => V032Run # Absent)

SealInv == BaselineEnds /\ QualifyEnds /\ Told

LEMMA InitSeal == Init => SealInv
<1> SUFFICES ASSUME Init PROVE SealInv
  OBVIOUS
<1>1. /\ V031Run = Absent /\ V032Run = Absent
      /\ \A c \in Commands : doing[c] = Idle
      /\ \A p \in Packages : dirs[p] = Absent
      /\ facts.budget = "none" /\ DOMAIN facts.consumed = Versions
  BY DEF Init, V031Run, V032Run, Runs
<1>2. \A v \in Versions : Public(v) \in Packages
  BY DEF Versions, Public, Packages
<1>3. BaselineEnds
  BY <1>1 DEF BaselineEnds, Sealed, Absent, Idle, Commands, Packages
<1>4. QualifyEnds
  BY <1>1 DEF QualifyEnds, Idle, Commands, Packages
<1>5. Told
  BY <1>1, <1>2 DEF Told, Packages
<1> QED BY <1>3, <1>4, <1>5 DEF SealInv

Ledger == <<dirs["decisions"], dirs["qualification"], dirs["public 0.3.1"], dirs["public 0.3.2"]>>
LockStays == Sealed("lock") => Sealed("lock")'
TwoRuns == <<V031Run, V032Run>>
TwoCommands == <<doing["baseline"], doing["qualify"]>>
Accounts == <<facts.budget, facts.consumed, opened["0.3.1"], opened["0.3.2"]>>
LockAsBefore == "lock" \in facts'.authorised <=> "lock" \in facts.authorised

LEMMA SealElsewhere ==
    ASSUME SealInv, PackagesGrow, Ledger' = Ledger, LockStays, TwoRuns' = TwoRuns,
           TwoCommands' = TwoCommands, Accounts' = Accounts, LockAsBefore
    PROVE  SealInv'
<1>1. /\ dirs'["decisions"] = dirs["decisions"] /\ dirs'["qualification"] = dirs["qualification"]
      /\ dirs'["public 0.3.1"] = dirs["public 0.3.1"]
      /\ dirs'["public 0.3.2"] = dirs["public 0.3.2"]
  BY DEF Ledger
<1>2. /\ V031Run' = V031Run /\ V032Run' = V032Run
      /\ doing'["baseline"] = doing["baseline"] /\ doing'["qualify"] = doing["qualify"]
  BY DEF TwoRuns, TwoCommands
<1>3. /\ facts'.budget = facts.budget /\ facts'.consumed = facts.consumed
      /\ opened'["0.3.1"] = opened["0.3.1"] /\ opened'["0.3.2"] = opened["0.3.2"]
  BY DEF Accounts
<1>4. "lock" \in facts'.authorised <=> "lock" \in facts.authorised
  BY DEF LockAsBefore
<1>5. BaselineEnds'
  BY <1>1, <1>2, <1>3 DEF SealInv, BaselineEnds, Sealed, PackagesGrow
<1>6. QualifyEnds'
  BY <1>1, <1>2, <1>4 DEF SealInv, QualifyEnds
<1>7. Told'
  BY <1>1, <1>2, <1>3, <1>4 DEF SealInv, Told, Sealed, LockStays, Versions, Public
<1> QED BY <1>5, <1>6, <1>7 DEF SealInv

\* A step that makes or seals another package than those four.
LEMMA OtherPackage ==
    ASSUME PilotInv,
           \/ dirs' = dirs
           \/ \E p \in Packages \ {"decisions", "qualification", "public 0.3.1", "public 0.3.2"} :
                 \/ dirs' = [dirs EXCEPT ![p] = "sealed"]
                 \/ dirs[p] = Absent /\ dirs' = [dirs EXCEPT ![p] = "open"]
    PROVE  PackagesGrow /\ Ledger' = Ledger /\ LockStays
<1>1. CASE dirs' = dirs
  BY <1>1, DirsStay DEF Ledger, LockStays, Sealed
<1>2. ASSUME NEW p \in Packages \ {"decisions", "qualification", "public 0.3.1", "public 0.3.2"},
             NEW state \in {"open", "sealed"},
             state = "sealed" \/ dirs[p] = Absent,
             dirs' = [dirs EXCEPT ![p] = state]
      PROVE  PackagesGrow /\ Ledger' = Ledger /\ LockStays
  <2>1. PackagesGrow
    BY <1>2, DirSet
  <2>2. Ledger' = Ledger
    BY <1>2 DEF Ledger, PilotInv, TypeInv, Packages
  <2>3. LockStays
    BY <1>2 DEF LockStays, Sealed, PilotInv, TypeInv, Packages, Absent
  <2> QED BY <2>1, <2>2, <2>3
<1> QED BY <1>1, <1>2

LEMMA SealIntake ==
    ASSUME SealInv, PilotInv,
           \/ \E c \in Catalogs : EditCatalog(c)
           \/ PrepareIntake \/ StartAcquire
           \/ \E r \in Repositories : ReuseRepository(r) \/ TakeRepository(r)
           \/ InitBare \/ FetchBare
           \/ \E a \in Advisories : Materialise(a) \/ WriteReceipt(a)
           \/ RecordRepository \/ SealAcquisition \/ AcquireDies
           \/ Construct \/ ConstructFails \/ PrepareRecovery \/ PrepareCapability
    PROVE  SealInv'
<1>1. evaluation' = evaluation
  BY DEF EditCatalog, PrepareIntake, StartAcquire, ReuseRepository, TakeRepository, InitBare,
         FetchBare, Materialise, WriteReceipt, RecordRepository, SealAcquisition, AcquireDies,
         IntakeStep, Construct, ConstructFails, PrepareRecovery, PrepareCapability, AtOnce
<1>2. \/ dirs' = dirs
      \/ \E p \in Packages \ {"decisions", "qualification", "public 0.3.1", "public 0.3.2"} :
            \/ dirs' = [dirs EXCEPT ![p] = "sealed"]
            \/ dirs[p] = Absent /\ dirs' = [dirs EXCEPT ![p] = "open"]
  <2>1. CASE \/ \E c \in Catalogs : EditCatalog(c)
             \/ PrepareIntake \/ StartAcquire
             \/ \E r \in Repositories : ReuseRepository(r) \/ TakeRepository(r)
             \/ InitBare \/ FetchBare
             \/ \E a \in Advisories : Materialise(a) \/ WriteReceipt(a)
             \/ RecordRepository \/ SealAcquisition \/ AcquireDies
    BY <2>1 DEF EditCatalog, PrepareIntake, StartAcquire, ReuseRepository, TakeRepository,
           InitBare, FetchBare, Materialise, WriteReceipt, RecordRepository, SealAcquisition,
           AcquireDies, IntakeStep
  <2>2. CASE Construct \/ ConstructFails \/ PrepareRecovery \/ PrepareCapability
    BY <2>2 DEF Construct, ConstructFails, PrepareRecovery, PrepareCapability, Makes, Packages
  <2> QED BY <2>1, <2>2
<1>3. TwoRuns' = TwoRuns /\ TwoCommands' = TwoCommands /\ Accounts' = Accounts
      /\ LockAsBefore
  BY <1>1 DEF evaluation, TwoRuns, TwoCommands, Accounts, LockAsBefore, V031Run, V032Run
<1> QED BY <1>2, <1>3, OtherPackage, SealElsewhere

\* Starting baseline, and what it does before its decisions.
LEMMA SealBaselineGoes ==
    ASSUME SealInv, PilotInv,
           StartBaseline \/ SealPreRun \/ RunDevelopment \/ Scores("baseline")
           \/ Replays("baseline") \/ DecideDevelopment
    PROVE  SealInv'
<1>1. /\ facts' = facts /\ opened' = opened
      /\ V031Run' = V031Run /\ V032Run' = V032Run
  BY DEF StartBaseline, SealPreRun, RunDevelopment, Scores, Replays, DecideDevelopment, Opens,
         Seals, StartsRun, EndsRun, PilotInv, TypeInv, V031Run, V032Run, Runs
<1>2. /\ doing'["baseline"] \notin {"consumed", "close", Idle}
      /\ doing'["qualify"] = doing["qualify"]
  BY DEF StartBaseline, SealPreRun, RunDevelopment, Scores, Replays, DecideDevelopment, Opens,
         Seals, StartsRun, EndsRun, Goes, PilotInv, TypeInv, Commands, Idle
<1>3. ~Sealed("decisions")
  <2>1. CASE StartBaseline
    BY <2>1 DEF StartBaseline, Opens, SealInv, BaselineEnds
  <2>2. CASE \/ SealPreRun \/ RunDevelopment \/ Scores("baseline")
             \/ Replays("baseline") \/ DecideDevelopment
    BY <2>2 DEF SealPreRun, RunDevelopment, Scores, Replays, DecideDevelopment, Decided, At,
           SealInv, BaselineEnds, Idle
  <2> QED BY <2>1, <2>2
<1>4. /\ ~Sealed("decisions")'
      /\ dirs'["qualification"] = dirs["qualification"]
      /\ dirs'["lock"] = dirs["lock"]
      /\ dirs'["public 0.3.1"] = dirs["public 0.3.1"]
      /\ dirs'["public 0.3.2"] = dirs["public 0.3.2"]
  <2>1. \/ dirs' = dirs
        \/ dirs' = [dirs EXCEPT !["pre-run"] = "open"]
        \/ dirs' = [dirs EXCEPT !["pre-run"] = "sealed"]
        \/ dirs' = [dirs EXCEPT !["decisions"] = "open"]
    BY DEF StartBaseline, SealPreRun, RunDevelopment, Scores, Replays, DecideDevelopment,
           Opens, Seals, StartsRun, EndsRun
  <2> QED BY <2>1, <1>3 DEF Sealed, PilotInv, TypeInv, Packages
<1>5. BaselineEnds'
  BY <1>1, <1>2, <1>4 DEF SealInv, BaselineEnds
<1>6. QualifyEnds'
  BY <1>1, <1>2, <1>4 DEF SealInv, QualifyEnds
<1>7. Told'
  BY <1>1, <1>3, <1>4 DEF SealInv, Told, Sealed, Versions, Public
<1> QED BY <1>5, <1>6, <1>7 DEF SealInv

LEMMA SealRunQualification ==
    ASSUME SealInv, PilotInv, PilotInv', RunQualification
    PROVE  SealInv'
<1>1. /\ dirs' = dirs /\ facts' = facts
      /\ doing'["baseline"] \in {"qualification-raw", "consumed"}
      /\ doing'["qualify"] = doing["qualify"]
      /\ V032Run' = V032Run /\ opened'["0.3.2"] = opened["0.3.2"]
  BY DEF RunQualification, StartsRun, EndsRun, Goes, PilotInv, TypeInv, V032Run, Runs, Commands,
         Versions
<1>2. V031Run' # Absent
  BY DEF RunQualification, StartsRun, EndsRun, PilotInv, TypeInv, V031Run, Runs, Outcomes, Absent
<1>3. ~Sealed("decisions") /\ dirs["public 0.3.1"] = Absent
  BY DEF RunQualification, At, SealInv, BaselineEnds, Told, Idle
<1>4. BaselineEnds'
  BY <1>1, <1>2, <1>3 DEF SealInv, BaselineEnds, Sealed, Idle
<1>5. QualifyEnds'
  BY <1>1 DEF SealInv, QualifyEnds
<1>6. Told'
  BY <1>1, <1>3 DEF SealInv, Told, Sealed, Versions, Public
<1> QED BY <1>4, <1>5, <1>6 DEF SealInv

LEMMA SealWriteBudget ==
    ASSUME SealInv, PilotInv, WriteBudget
    PROVE  SealInv'
<1>1. /\ doing["baseline"] \in Final
      /\ facts' = [facts EXCEPT !.budget = doing["baseline"]]
      /\ doing' = [doing EXCEPT !["baseline"] = "close"]
      /\ runs' = runs /\ dirs' = dirs /\ opened' = opened
  BY DEF WriteBudget, FinalBudget, Goes, Final
<1>2. /\ facts'.budget = doing["baseline"]
      /\ facts'.consumed = facts.consumed /\ facts'.authorised = facts.authorised
  BY <1>1 DEF PilotInv, TypeInv, Facts
<1>3. doing'["baseline"] = "close" /\ doing'["qualify"] = doing["qualify"]
  BY <1>1 DEF PilotInv, TypeInv, Commands
<1>4. ~Sealed("decisions")
  BY <1>1 DEF SealInv, BaselineEnds, Final, Idle
<1>5. V031Run' = V031Run /\ V032Run' = V032Run
  BY <1>1 DEF V031Run, V032Run
<1>6. BaselineEnds'
  BY <1>1, <1>2, <1>3, <1>4, <1>5 DEF SealInv, BaselineEnds, Sealed, Final
<1>7. QualifyEnds'
  BY <1>1, <1>2, <1>3, <1>5 DEF SealInv, QualifyEnds
<1>8. Told'
  BY <1>1, <1>2, <1>5 DEF SealInv, Told, Sealed, Versions, Public
<1> QED BY <1>6, <1>7, <1>8 DEF SealInv

\* A command stops; one that seals the decisions is baseline, whose budget is final.
LEMMA SealStops ==
    ASSUME SealInv, PilotInv, CloseBaseline \/ \E c \in Commands : CommandDies(c)
    PROVE  SealInv'
<1>1. /\ runs' = runs /\ facts' = facts /\ opened' = opened
      /\ doing'["baseline"] \in {doing["baseline"], Idle}
      /\ doing'["qualify"] \in {doing["qualify"], Idle}
  BY DEF CloseBaseline, CommandDies, Seals, Goes, PilotInv, TypeInv, Commands
<1>2. V031Run' = V031Run /\ V032Run' = V032Run
  BY <1>1 DEF V031Run, V032Run
<1>3. \A p \in Packages \ {"decisions"} : dirs'[p] = dirs[p]
  BY DEF CloseBaseline, CommandDies, Seals, PilotInv, TypeInv, Packages
<1>4. Sealed("decisions")' =>
          /\ doing'["baseline"] = Idle
          /\ facts.budget \in Final /\ dirs["pre-run"] # Absent
  <2>1. CASE CloseBaseline
    BY <2>1 DEF CloseBaseline, At, Seals, Goes, SealInv, BaselineEnds, PilotInv, TypeInv,
           BudgetInv, Commands, Idle
  <2>2. CASE \E c \in Commands : CommandDies(c)
    BY <2>2, <1>1 DEF CommandDies, SealInv, BaselineEnds, Sealed
  <2> QED BY <2>1, <2>2
<1>5. Sealed("decisions") => Sealed("decisions")'
  BY DEF CloseBaseline, CommandDies, Seals, Sealed, PilotInv, TypeInv, Packages
<1>6. BaselineEnds'
  BY <1>1, <1>2, <1>3, <1>4 DEF SealInv, BaselineEnds, Packages, Idle
<1>7. QualifyEnds'
  BY <1>1, <1>2, <1>3 DEF SealInv, QualifyEnds, Packages, Idle
<1>8. Told'
  BY <1>1, <1>2, <1>3, <1>5 DEF SealInv, Told, Sealed, Versions, Public, Packages
<1> QED BY <1>6, <1>7, <1>8 DEF SealInv

\* What the commands of V0.3.2 do beside lock and qualification.
LEMMA SealRecovers ==
    ASSUME SealInv, PilotInv,
           \/ Diagnostic \/ RunRecovered \/ RunCapability
           \/ StartRecover \/ SealRecovered
           \/ Scores("recover") \/ Replays("recover")
           \/ Scores("development") \/ Replays("development")
           \/ DecideDiagnostic \/ DecideRecovered
    PROVE  SealInv'
<1>1. \/ dirs' = dirs
      \/ \E p \in Packages \ {"decisions", "qualification", "public 0.3.1", "public 0.3.2"} :
            \/ dirs' = [dirs EXCEPT ![p] = "sealed"]
            \/ dirs[p] = Absent /\ dirs' = [dirs EXCEPT ![p] = "open"]
  BY DEF Diagnostic, RunRecovered, RunCapability, StartRecover, SealRecovered, Scores, Replays,
         DecideDiagnostic, DecideRecovered, StartsRun, EndsRun, Opens, Seals, Decides, Packages
<1>2. TwoRuns' = TwoRuns
  BY DEF Diagnostic, RunRecovered, RunCapability, StartRecover, SealRecovered, Scores, Replays,
         DecideDiagnostic, DecideRecovered, StartsRun, EndsRun, Opens, Seals, Decides,
         PilotInv, TypeInv, TwoRuns, V031Run, V032Run, Runs
<1>3. TwoCommands' = TwoCommands
  <2>1. \E c \in Commands \ {"baseline", "qualify"}, step \in Steps :
            doing' = [doing EXCEPT ![c] = step]
    BY DEF Diagnostic, RunRecovered, RunCapability, StartRecover, SealRecovered, Scores,
           Replays, DecideDiagnostic, DecideRecovered, StartsRun, EndsRun, Opens, Seals,
           Decides, Goes, Commands, Steps, Runs
  <2> QED BY <2>1 DEF PilotInv, TypeInv, TwoCommands, Commands
<1>4. opened' = opened
  BY DEF Diagnostic, RunRecovered, RunCapability, StartRecover, SealRecovered, Scores, Replays,
         DecideDiagnostic, DecideRecovered, StartsRun, EndsRun, Opens, Seals, Decides
<1>5. /\ facts'.budget = facts.budget /\ facts'.consumed = facts.consumed
      /\ LockAsBefore
  <2>1. \/ facts' = facts
        \/ facts' = [facts EXCEPT !.remediation = Remediation]
        \/ \E passed \in BOOLEAN : facts' = Authorises("baseline", passed)
    BY DEF Diagnostic, RunRecovered, RunCapability, StartRecover, SealRecovered, Scores,
           Replays, DecideDiagnostic, DecideRecovered, StartsRun, EndsRun, Opens, Seals, Decides
  <2> QED BY <2>1 DEF Authorises, LockAsBefore, PilotInv, TypeInv, Facts
<1>6. Accounts' = Accounts
  BY <1>4, <1>5 DEF Accounts
<1>7. PackagesGrow /\ Ledger' = Ledger /\ LockStays
  BY <1>1, OtherPackage
<1> QED BY <1>2, <1>3, <1>5, <1>6, <1>7, SealElsewhere

\* The evidence of V0.3.2 waits for the lock, and the lock is made once.
LEMMA SealLock ==
    ASSUME SealInv, PilotInv, LockCapability
    PROVE  SealInv'
<1>1. PICK passed \in BOOLEAN :
          Decides("development", "lock",
                  [Authorises("lock", passed) EXCEPT !.copy = facts.budget])
  BY DEF LockCapability
<1>2. /\ dirs["lock"] = Absent
      /\ \A p \in Packages \ {"lock"} : dirs'[p] = dirs[p]
      /\ runs' = runs /\ opened' = opened
      /\ doing'["baseline"] = doing["baseline"] /\ doing'["qualify"] = doing["qualify"]
  BY <1>1 DEF Decides, Goes, PilotInv, TypeInv, Packages, Commands
<1>3. /\ facts'.budget = facts.budget /\ facts'.consumed = facts.consumed
      /\ facts.authorised \subseteq facts'.authorised
  BY <1>1 DEF Decides, Authorises, PilotInv, TypeInv, Facts
<1>4. dirs["public 0.3.2"] = Absent
  BY <1>2 DEF SealInv, Told, Sealed, Absent
<1>5. V031Run' = V031Run /\ V032Run' = V032Run
  BY <1>2 DEF V031Run, V032Run
<1>6. BaselineEnds'
  BY <1>2, <1>3, <1>5 DEF SealInv, BaselineEnds, Sealed, Packages
<1>7. QualifyEnds'
  BY <1>2, <1>3, <1>5 DEF SealInv, QualifyEnds, Packages
<1>8. Told'
  BY <1>2, <1>3, <1>4, <1>5 DEF SealInv, Told, Sealed, Versions, Public, Packages
<1> QED BY <1>6, <1>7, <1>8 DEF SealInv

LEMMA SealQualify ==
    ASSUME SealInv, PilotInv, PilotInv', Qualify
    PROVE  SealInv'
<1>1. /\ dirs' = dirs /\ facts' = facts
      /\ doing'["baseline"] = doing["baseline"]
      /\ V031Run' = V031Run /\ opened'["0.3.1"] = opened["0.3.1"]
  BY DEF Qualify, StartsRun, EndsRun, Goes, PilotInv, TypeInv, V031Run, Runs, Commands, Versions
<1>2. V032Run' # Absent
  BY DEF Qualify, StartsRun, EndsRun, PilotInv, TypeInv, V032Run, Runs, Outcomes, Absent
<1>3. "lock" \in facts.authorised
  BY DEF Qualify, At, PilotInv, RunningInv, SealInv, QualifyEnds
<1>4. \/ dirs["public 0.3.2"] = Absent
      \/ V032Run # Absent /\ opened'["0.3.2"] = opened["0.3.2"]
  BY <1>3 DEF Qualify, StartsRun, EndsRun, SealInv, Told, V032Run
<1>5. BaselineEnds'
  BY <1>1 DEF SealInv, BaselineEnds, Sealed
<1>6. QualifyEnds'
  BY <1>1, <1>2, <1>3 DEF SealInv, QualifyEnds
<1>7. Told'
  BY <1>1, <1>2, <1>4 DEF SealInv, Told, Sealed, Versions, Public
<1> QED BY <1>5, <1>6, <1>7 DEF SealInv

LEMMA SealDecideQualification ==
    ASSUME SealInv, PilotInv, DecideQualification
    PROVE  SealInv'
<1>1. /\ facts' = facts /\ runs' = runs /\ opened' = opened
      /\ doing'["baseline"] = doing["baseline"] /\ doing'["qualify"] = Idle
      /\ \A p \in Packages \ {"qualification"} : dirs'[p] = dirs[p]
  BY DEF DecideQualification, Decides, Goes, PilotInv, TypeInv, Packages, Commands
<1>2. V032Run # Absent
  BY DEF DecideQualification, At, SealInv, QualifyEnds
<1>3. V031Run' = V031Run /\ V032Run' = V032Run
  BY <1>1 DEF V031Run, V032Run
<1>4. BaselineEnds'
  BY <1>1, <1>3 DEF SealInv, BaselineEnds, Sealed, Packages
<1>5. QualifyEnds'
  BY <1>1, <1>2, <1>3 DEF SealInv, QualifyEnds, Idle
<1>6. Told'
  BY <1>1, <1>3 DEF SealInv, Told, Sealed, Versions, Public, Packages
<1> QED BY <1>4, <1>5, <1>6 DEF SealInv

\* What is published is what was opened, for which the sealed packages speak.
LEMMA SealPublishes ==
    ASSUME SealInv, PilotInv, SealV031 \/ SealV032
    PROVE  SealInv'
<1> DEFINE Behind(v) ==
             /\ v = "0.3.1" => Sealed("decisions")
             /\ v = "0.3.2" =>
                   Sealed("lock") /\ ("lock" \in facts.authorised => V032Run # Absent)
<1>1. PICK v \in Versions, n \in {0, 1} : Publishes(v, n) /\ n = opened[v] /\ Behind(v)
  <2>1. CASE SealV031
    <3>1. opened["0.3.1"] = IF facts.budget = "consumed" THEN 1 ELSE 0
      BY <2>1 DEF SealV031, SealInv, BaselineEnds, Final, PilotInv, OpenedInv, BudgetInv
    <3> QED BY <2>1, <3>1 DEF SealV031, Versions
  <2>2. CASE SealV032
    <3>1. /\ opened["0.3.2"] = IF dirs["qualification"] = Absent THEN 0 ELSE 1
          /\ "lock" \in facts.authorised => V032Run # Absent
      BY <2>2 DEF SealV032, EvidenceOfQualification, Sealed, SealInv, QualifyEnds, PilotInv,
             OpenedInv, Absent
    <3> QED BY <2>2, <3>1 DEF SealV032, Versions
  <2> QED BY <2>1, <2>2
<1>2. /\ runs' = runs /\ doing' = doing /\ opened' = opened
      /\ facts' = [facts EXCEPT !.consumed[v] = n]
      /\ \A p \in Packages \ {Public(v)} : dirs'[p] = dirs[p]
  BY <1>1 DEF Publishes, Makes, PilotInv, TypeInv
<1>3. /\ facts'.budget = facts.budget /\ facts'.authorised = facts.authorised
      /\ DOMAIN facts'.consumed = Versions
      /\ facts'.consumed[v] = opened[v]
      /\ \A w \in Versions \ {v} : facts'.consumed[w] = facts.consumed[w]
  BY <1>1, <1>2 DEF PilotInv, TypeInv, Facts, SealInv, Told
<1>4. V031Run' = V031Run /\ V032Run' = V032Run
  BY <1>2 DEF V031Run, V032Run
<1>5. Public(v) \in {"public 0.3.1", "public 0.3.2"}
  BY DEF Public
<1>6. BaselineEnds'
  BY <1>2, <1>3, <1>4, <1>5 DEF SealInv, BaselineEnds, Sealed, Packages
<1>7. QualifyEnds'
  BY <1>2, <1>3, <1>4, <1>5 DEF SealInv, QualifyEnds, Packages
<1>8. Told'
  BY <1>1, <1>2, <1>3, <1>4, <1>5 DEF SealInv, Told, Sealed, Versions, Public, Packages
<1> QED BY <1>6, <1>7, <1>8 DEF SealInv

LEMMA NextSeal ==
    ASSUME PilotInv, PilotInv', SealInv, [Next]_vars
    PROVE  SealInv'
<1>1. CASE UNCHANGED vars
  <2>1. TwoRuns' = TwoRuns /\ TwoCommands' = TwoCommands /\ Accounts' = Accounts
        /\ LockAsBefore /\ dirs' = dirs
    BY <1>1 DEF vars, evaluation, TwoRuns, TwoCommands, Accounts, LockAsBefore, V031Run, V032Run
  <2> QED BY <2>1, OtherPackage, SealElsewhere
<1>2. CASE \/ \E c \in Catalogs : EditCatalog(c)
           \/ PrepareIntake \/ StartAcquire
           \/ \E r \in Repositories : ReuseRepository(r) \/ TakeRepository(r)
           \/ InitBare \/ FetchBare
           \/ \E a \in Advisories : Materialise(a) \/ WriteReceipt(a)
           \/ RecordRepository \/ SealAcquisition \/ AcquireDies
           \/ Construct \/ ConstructFails \/ PrepareRecovery \/ PrepareCapability
  BY <1>2, SealIntake
<1>3. CASE \/ StartBaseline \/ SealPreRun \/ RunDevelopment \/ Scores("baseline")
           \/ Replays("baseline") \/ DecideDevelopment
  BY <1>3, SealBaselineGoes
<1>4. CASE RunQualification
  BY <1>4, SealRunQualification
<1>5. CASE WriteBudget
  BY <1>5, SealWriteBudget
<1>6. CASE CloseBaseline \/ \E c \in Commands : CommandDies(c)
  BY <1>6, SealStops
<1>7. CASE \/ Diagnostic \/ RunRecovered \/ RunCapability
           \/ StartRecover \/ SealRecovered
           \/ Scores("recover") \/ Replays("recover")
           \/ Scores("development") \/ Replays("development")
           \/ DecideDiagnostic \/ DecideRecovered
  BY <1>7, SealRecovers
<1>8. CASE LockCapability
  BY <1>8, SealLock
<1>9. CASE Qualify
  BY <1>9, SealQualify
<1>10. CASE DecideQualification
  BY <1>10, SealDecideQualification
<1>11. CASE SealV031 \/ SealV032
  BY <1>11, SealPublishes
<1> QED BY <1>1, <1>2, <1>3, <1>4, <1>5, <1>6, <1>7, <1>8, <1>9, <1>10, <1>11 DEF Next

\* Public evidence of a version, once sealed, says how often that version opened the
\* qualification partition, and no command makes it untrue afterwards.
THEOREM PilotSealedBudgetStaysTrue == Spec => []SealedBudgetStaysTrue
<1>1. PilotInv /\ SealInv /\ [Next]_vars => (PilotInv /\ SealInv)'
  BY NextInv, NextSeal
<1>2. PilotInv /\ SealInv => SealedBudgetStaysTrue
  BY DEF SealInv, Told, SealedBudgetStaysTrue, Sealed, Absent
<1> QED BY InitInv, InitSeal, <1>1, <1>2, PTL DEF Spec

-----------------------------------------------------------------------------
(* What is run was approved before it was fetched.                         *)

\* Every case has a revision that its repository was approved for, and its snapshot is whole.
Backed(cases, approvals, snaps) ==
    \A a \in DOMAIN cases :
        /\ a \in Advisories
        /\ \E b \in CasesOf(RepositoryOf[a], approvals) : approvals[b] = cases[a]
        /\ snaps[a] = "whole"

Shapes ==
    /\ catalog \in Catalogs
    /\ snapshots = [a \in Advisories |-> snapshots[a]]
    /\ records = [r \in Repositories |-> records[r]]
    /\ acquiring # NotAcquiring =>
          /\ acquiring = [cases |-> acquiring.cases, todo |-> acquiring.todo,
                          left |-> acquiring.left, at |-> acquiring.at, step |-> acquiring.step]
          /\ DOMAIN acquiring.cases \subseteq Advisories

\* Of the repository it is at, an acquisition has backed every case that is not left.
WorkBacked ==
    acquiring.step \notin {Idle, "next"} =>
        /\ acquiring.at \in Repositories
        /\ Backed(Restrict(acquiring.cases,
                           CasesOf(acquiring.at, acquiring.cases) \ acquiring.left),
                  approved, snapshots)

IntakeBacked ==
    /\ WorkBacked
    /\ \A r \in Repositories : Backed(records[r], approved, snapshots)
    /\ Backed(acquired, approved, snapshots)

\* Nothing is made, started or run before there is a corpus.
CorpusFirst ==
    /\ \A p \in Packages \ {"corpus"} : dirs[p] # Absent => Sealed("corpus")
    /\ \A c \in Commands : doing[c] # Idle => Sealed("corpus")
    /\ \A n \in Runs : runs[n] # Absent => Sealed("corpus")

CorpusBacked == Sealed("corpus") => Backed(corpus.cases, approved, snapshots)

GovernedInv == Shapes /\ IntakeBacked /\ CorpusFirst /\ CorpusBacked

LEMMA InitGoverned == Init => GovernedInv
<1> SUFFICES ASSUME Init PROVE GovernedInv
  OBVIOUS
<1>1. Shapes
  BY DEF Init, Shapes
<1>2. IntakeBacked
  BY DEF Init, IntakeBacked, WorkBacked, Backed, NotAcquiring
<1>3. CorpusFirst /\ CorpusBacked
  BY DEF Init, CorpusFirst, CorpusBacked, Sealed, Absent, Packages
<1> QED BY <1>1, <1>2, <1>3 DEF GovernedInv

LEMMA BackedStays ==
    ASSUME NEW cases, NEW ap, NEW ap2, NEW sn, NEW sn2,
           ap2 = ap \/ DOMAIN ap = {},
           \A a \in Advisories : sn[a] = "whole" => sn2[a] = "whole",
           Backed(cases, ap, sn)
    PROVE  Backed(cases, ap2, sn2)
BY DEF Backed, CasesOf

\* A step of the evaluation has a corpus behind it and leaves it alone.
LEMMA EvaluationGoverned ==
    ASSUME GovernedInv, Sealed("corpus"), dirs'["corpus"] = dirs["corpus"],
           UNCHANGED <<catalog, intake, corpus>>
    PROVE  GovernedInv'
<1>1. /\ catalog' = catalog /\ approved' = approved /\ acquiring' = acquiring
      /\ snapshots' = snapshots /\ records' = records /\ acquired' = acquired
      /\ corpus' = corpus
  BY DEF intake
<1>2. Sealed("corpus")'
  BY DEF Sealed
<1>3. Shapes' /\ IntakeBacked'
  BY <1>1 DEF GovernedInv, Shapes, IntakeBacked, WorkBacked
<1>4. CorpusFirst'
  BY <1>2 DEF CorpusFirst
<1>5. CorpusBacked'
  BY <1>1, <1>2 DEF GovernedInv, CorpusBacked
<1> QED BY <1>3, <1>4, <1>5 DEF GovernedInv

LEMMA EvaluationStepGoverned ==
    ASSUME GovernedInv, PilotInv,
           \/ StartBaseline \/ SealPreRun \/ RunDevelopment \/ Scores("baseline")
           \/ Replays("baseline")
           \/ DecideDevelopment \/ RunQualification \/ WriteBudget \/ CloseBaseline
           \/ PrepareRecovery \/ Diagnostic \/ DecideDiagnostic
           \/ StartRecover \/ SealRecovered \/ RunRecovered \/ Scores("recover")
           \/ Replays("recover")
           \/ DecideRecovered
           \/ PrepareCapability \/ RunCapability \/ Scores("development")
           \/ Replays("development")
           \/ LockCapability \/ Qualify \/ DecideQualification
           \/ SealV031 \/ SealV032
           \/ \E c \in Commands : CommandDies(c)
    PROVE  GovernedInv'
<1>1. UNCHANGED <<catalog, intake, corpus>>
  BY DEF StartBaseline, SealPreRun, RunDevelopment, Scores, Replays, DecideDevelopment,
         RunQualification, WriteBudget, CloseBaseline, PrepareRecovery, Diagnostic,
         DecideDiagnostic, StartRecover, SealRecovered, RunRecovered, DecideRecovered,
         PrepareCapability, RunCapability, LockCapability, Qualify, DecideQualification,
         SealV031, SealV032, Publishes, CommandDies, Opens, Seals, StartsRun, EndsRun, Decides,
         RunStep, AtOnce
<1>2. \/ Sealed("corpus")
      \/ \E c \in Commands : doing[c] # Idle
      \/ \E p \in Packages \ {"corpus"} : dirs[p] = "sealed"
  BY DEF StartBaseline, SealPreRun, RunDevelopment, Scores, Replays, DecideDevelopment,
         RunQualification, WriteBudget, CloseBaseline, PrepareRecovery, Diagnostic,
         DecideDiagnostic, StartRecover, SealRecovered, RunRecovered, DecideRecovered,
         PrepareCapability, RunCapability, LockCapability, Qualify, DecideQualification,
         SealV031, SealV032, CommandDies, Decided, At, Sealed, Idle, Commands, Packages
<1>3. Sealed("corpus")
  BY <1>2 DEF GovernedInv, CorpusFirst, Absent
<1>4. \/ dirs' = dirs
      \/ \E p \in Packages \ {"corpus"}, state \in {"open", "sealed"} :
            dirs' = [dirs EXCEPT ![p] = state]
  BY DEF StartBaseline, SealPreRun, RunDevelopment, Scores, Replays, DecideDevelopment,
         RunQualification, WriteBudget, CloseBaseline, PrepareRecovery, Diagnostic,
         DecideDiagnostic, StartRecover, SealRecovered, RunRecovered, DecideRecovered,
         PrepareCapability, RunCapability, LockCapability, Qualify, DecideQualification,
         SealV031, SealV032, Publishes, Public, Makes, CommandDies, Opens, Seals, StartsRun,
         EndsRun, Decides, Packages
<1>5. dirs'["corpus"] = dirs["corpus"]
  BY <1>4 DEF PilotInv, TypeInv, Packages
<1> QED BY <1>1, <1>3, <1>5, EvaluationGoverned

\* Approvals are given once, and a snapshot that is whole stays.
IntakeGrows ==
    /\ approved' = approved \/ DOMAIN approved = {}
    /\ \A a \in Advisories : snapshots[a] = "whole" => snapshots'[a] = "whole"

\* An intake step that is right about its own variables is right about the corpus.
LEMMA IntakeGoverned ==
    ASSUME GovernedInv, IntakeGrows, Shapes', IntakeBacked',
           dirs' = dirs, corpus' = corpus, runs' = runs, doing' = doing
    PROVE  GovernedInv'
<1>1. CorpusFirst'
  BY DEF GovernedInv, CorpusFirst, Sealed
<1>2. CorpusBacked'
  <2> SUFFICES ASSUME Sealed("corpus")' PROVE Backed(corpus.cases, approved', snapshots')
    BY DEF CorpusBacked
  <2>1. Backed(corpus.cases, approved, snapshots)
    BY DEF GovernedInv, CorpusBacked, Sealed
  <2> QED BY <2>1, BackedStays DEF IntakeGrows
<1> QED BY <1>1, <1>2 DEF GovernedInv

\* What was recorded and sealed stays backed.
LEMMA RecordsStay ==
    ASSUME GovernedInv, IntakeGrows, records' = records, acquired' = acquired
    PROVE  /\ \A r \in Repositories : Backed(records'[r], approved', snapshots')
           /\ Backed(acquired', approved', snapshots')
<1>1. ASSUME NEW r \in Repositories PROVE Backed(records[r], approved', snapshots')
  <2>1. Backed(records[r], approved, snapshots)
    BY DEF GovernedInv, IntakeBacked
  <2> QED BY <2>1, BackedStays DEF IntakeGrows
<1>2. Backed(acquired, approved', snapshots')
  <2>1. Backed(acquired, approved, snapshots)
    BY DEF GovernedInv, IntakeBacked
  <2> QED BY <2>1, BackedStays DEF IntakeGrows
<1> QED BY <1>1, <1>2

LEMMA CatalogLists ==
    ASSUME NEW c \in Catalogs
    PROVE  DOMAIN c.fix \subseteq Advisories
BY DEF Catalogs

\* An acquisition that is at a step is there.
LEMMA StepIsThere ==
    ASSUME acquiring.step # Idle
    PROVE  acquiring # NotAcquiring
BY DEF NotAcquiring

\* Steps that only move the acquisition on, or edit the catalog.
LEMMA MovesGoverned ==
    ASSUME GovernedInv,
           \/ \E c \in Catalogs : EditCatalog(c)
           \/ StartAcquire
           \/ \E r \in Repositories : ReuseRepository(r) \/ TakeRepository(r)
           \/ InitBare \/ FetchBare
           \/ AcquireDies
    PROVE  GovernedInv'
<1>1. /\ approved' = approved /\ snapshots' = snapshots /\ records' = records
      /\ acquired' = acquired /\ dirs' = dirs /\ corpus' = corpus
      /\ runs' = runs /\ doing' = doing
  BY DEF EditCatalog, StartAcquire, ReuseRepository, TakeRepository, InitBare, FetchBare,
         AcquireDies, IntakeStep, intake, evaluation
<1>2. IntakeGrows
  BY <1>1 DEF IntakeGrows
<1>3. Shapes'
  <2>1. catalog' \in Catalogs
    BY DEF EditCatalog, StartAcquire, ReuseRepository, TakeRepository, InitBare, FetchBare,
           AcquireDies, IntakeStep, GovernedInv, Shapes
  <2>2. acquiring' # NotAcquiring =>
          /\ acquiring' = [cases |-> acquiring'.cases, todo |-> acquiring'.todo,
                           left |-> acquiring'.left, at |-> acquiring'.at,
                           step |-> acquiring'.step]
          /\ DOMAIN acquiring'.cases \subseteq Advisories
    <3>1. CASE StartAcquire
      BY <3>1, CatalogLists DEF StartAcquire, GovernedInv, Shapes
    <3>2. CASE AcquireDies
      BY <3>2 DEF AcquireDies
    <3>3. CASE \E c \in Catalogs : EditCatalog(c)
      BY <3>3 DEF EditCatalog, intake, GovernedInv, Shapes
    <3>4. CASE \/ \E r \in Repositories : ReuseRepository(r) \/ TakeRepository(r)
               \/ InitBare \/ FetchBare
      <4>1. acquiring.step # Idle
        BY <3>4 DEF ReuseRepository, TakeRepository, InitBare, FetchBare, Acquiring, Idle
      <4>2. acquiring # NotAcquiring
        BY <4>1, StepIsThere
      <4> QED BY <3>4, <4>2 DEF ReuseRepository, TakeRepository, InitBare, FetchBare,
               GovernedInv, Shapes
    <3> QED BY <3>1, <3>2, <3>3, <3>4
  <2> QED BY <1>1, <2>1, <2>2 DEF GovernedInv, Shapes
<1>4. WorkBacked'
  <2>1. CASE \/ StartAcquire \/ AcquireDies
             \/ \E r \in Repositories : ReuseRepository(r)
    <3>1. acquiring'.step \in {Idle, "next"}
      <4>1. CASE \E r \in Repositories : ReuseRepository(r)
        <5>1. acquiring # NotAcquiring
          BY <4>1 DEF ReuseRepository, Acquiring, NotAcquiring, Idle
        <5> QED BY <4>1, <5>1 DEF ReuseRepository, Acquiring, GovernedInv, Shapes
      <4> QED BY <2>1, <4>1 DEF StartAcquire, AcquireDies, NotAcquiring
    <3> QED BY <3>1 DEF WorkBacked
  <2>2. CASE \E r \in Repositories : TakeRepository(r)
    <3>1. PICK r \in Repositories : TakeRepository(r)
      BY <2>2
    <3>2. acquiring # NotAcquiring
      <4>1. acquiring.step # Idle
        BY <3>1 DEF TakeRepository, Acquiring, Idle
      <4> QED BY <4>1, StepIsThere
    <3>3. /\ acquiring'.at = r /\ acquiring'.left = CasesOf(r, acquiring.cases)
          /\ acquiring'.cases = acquiring.cases
      BY <3>1, <3>2 DEF TakeRepository, GovernedInv, Shapes
    <3> QED BY <3>3 DEF WorkBacked, Backed, Restrict
  <2>3. CASE InitBare \/ FetchBare
    <3>0. acquiring.step \notin {Idle, "next"}
      BY <2>3 DEF InitBare, FetchBare, Acquiring, Idle
    <3>1. acquiring # NotAcquiring
      BY <3>0, StepIsThere
    <3>2. /\ acquiring'.at = acquiring.at /\ acquiring'.left = acquiring.left
          /\ acquiring'.cases = acquiring.cases
      BY <2>3, <3>1 DEF InitBare, FetchBare, GovernedInv, Shapes
    <3> QED BY <1>1, <3>0, <3>2 DEF GovernedInv, IntakeBacked, WorkBacked
  <2>4. CASE \E c \in Catalogs : EditCatalog(c)
    BY <2>4 DEF EditCatalog, intake, GovernedInv, IntakeBacked, WorkBacked
  <2> QED BY <2>1, <2>2, <2>3, <2>4
<1> QED BY <1>1, <1>2, <1>3, <1>4, RecordsStay, IntakeGoverned DEF IntakeBacked

LEMMA PrepareGoverned ==
    ASSUME GovernedInv, PrepareIntake
    PROVE  GovernedInv'
<1>1. /\ catalog' = catalog /\ acquiring' = acquiring /\ snapshots' = snapshots
      /\ records' = records /\ acquired' = acquired /\ dirs' = dirs /\ corpus' = corpus
      /\ runs' = runs /\ doing' = doing /\ DOMAIN approved = {}
  BY DEF PrepareIntake, evaluation
<1>2. IntakeGrows
  BY <1>1 DEF IntakeGrows
<1>3. Shapes'
  BY <1>1 DEF GovernedInv, Shapes
<1>4. WorkBacked'
  <2> SUFFICES ASSUME acquiring.step \notin {Idle, "next"}
               PROVE  /\ acquiring.at \in Repositories
                      /\ Backed(Restrict(acquiring.cases,
                                    CasesOf(acquiring.at, acquiring.cases) \ acquiring.left),
                                approved', snapshots')
    BY <1>1 DEF WorkBacked
  <2>1. /\ acquiring.at \in Repositories
        /\ Backed(Restrict(acquiring.cases,
                           CasesOf(acquiring.at, acquiring.cases) \ acquiring.left),
                  approved, snapshots)
    BY DEF GovernedInv, IntakeBacked, WorkBacked
  <2> QED BY <1>2, <2>1, BackedStays DEF IntakeGrows
<1> QED BY <1>1, <1>2, <1>3, <1>4, RecordsStay, IntakeGoverned DEF IntakeBacked

\* The name of an advisory is no step of the acquisition.
LEMMA AdvisoryIsNoStep ==
    ASSUME NEW a \in Advisories
    PROVE  a \notin {Idle, "next"}
BY CatalogAssumption DEF Idle

LEMMA MaterialiseGoverned ==
    ASSUME GovernedInv, NEW a \in Advisories, Materialise(a)
    PROVE  GovernedInv'
<1>1. /\ catalog' = catalog /\ approved' = approved /\ records' = records
      /\ acquired' = acquired /\ dirs' = dirs /\ corpus' = corpus
      /\ runs' = runs /\ doing' = doing
      /\ snapshots[a] = Absent /\ snapshots' = [snapshots EXCEPT ![a] = "torn"]
  BY DEF Materialise, IntakeStep, evaluation
<1>2. acquiring.step \notin {Idle, "next"}
  BY DEF Materialise, Acquiring, Idle
<1>3. acquiring # NotAcquiring
  BY <1>2, StepIsThere
<1>4. /\ acquiring'.at = acquiring.at /\ acquiring'.left = acquiring.left
      /\ acquiring'.cases = acquiring.cases
      /\ acquiring' = [cases |-> acquiring'.cases, todo |-> acquiring'.todo,
                       left |-> acquiring'.left, at |-> acquiring'.at,
                       step |-> acquiring'.step]
  BY <1>3 DEF Materialise, GovernedInv, Shapes
<1>5. IntakeGrows
  BY <1>1 DEF IntakeGrows, GovernedInv, Shapes, Absent
<1>6. Shapes'
  BY <1>1, <1>3, <1>4 DEF GovernedInv, Shapes
<1>7. WorkBacked'
  <2>1. /\ acquiring.at \in Repositories
        /\ Backed(Restrict(acquiring.cases,
                           CasesOf(acquiring.at, acquiring.cases) \ acquiring.left),
                  approved, snapshots)
    BY <1>2 DEF GovernedInv, IntakeBacked, WorkBacked
  <2>2. Backed(Restrict(acquiring.cases,
                        CasesOf(acquiring.at, acquiring.cases) \ acquiring.left),
               approved', snapshots')
    BY <1>5, <2>1, BackedStays DEF IntakeGrows
  <2> QED BY <1>4, <2>1, <2>2 DEF WorkBacked
<1> QED BY <1>1, <1>5, <1>6, <1>7, RecordsStay, IntakeGoverned DEF IntakeBacked

LEMMA WriteReceiptGoverned ==
    ASSUME GovernedInv, NEW a \in Advisories, WriteReceipt(a)
    PROVE  GovernedInv'
<1>1. /\ catalog' = catalog /\ approved' = approved /\ records' = records
      /\ acquired' = acquired /\ dirs' = dirs /\ corpus' = corpus
      /\ runs' = runs /\ doing' = doing
      /\ snapshots' = [snapshots EXCEPT ![a] = "whole"]
      /\ Requested(acquiring.at, acquiring.cases[a])
  BY DEF WriteReceipt, IntakeStep, evaluation
<1>2. acquiring.step \notin {Idle, "next"}
  BY AdvisoryIsNoStep DEF WriteReceipt, Acquiring
<1>3. acquiring # NotAcquiring
  BY <1>2, StepIsThere
<1>4. /\ acquiring'.at = acquiring.at /\ acquiring'.left = acquiring.left \ {a}
      /\ acquiring'.cases = acquiring.cases
      /\ acquiring' = [cases |-> acquiring'.cases, todo |-> acquiring'.todo,
                       left |-> acquiring'.left, at |-> acquiring'.at,
                       step |-> acquiring'.step]
      /\ DOMAIN acquiring.cases \subseteq Advisories
  BY <1>3 DEF WriteReceipt, GovernedInv, Shapes
<1>5. IntakeGrows
  BY <1>1 DEF IntakeGrows, GovernedInv, Shapes
<1>6. Shapes'
  BY <1>1, <1>3, <1>4 DEF GovernedInv, Shapes
<1>7. WorkBacked'
  <2>1. /\ acquiring.at \in Repositories
        /\ Backed(Restrict(acquiring.cases,
                           CasesOf(acquiring.at, acquiring.cases) \ acquiring.left),
                  approved, snapshots)
    BY <1>2 DEF GovernedInv, IntakeBacked, WorkBacked
  <2>2. ASSUME NEW b \in CasesOf(acquiring.at, acquiring.cases) \ (acquiring.left \ {a})
        PROVE  /\ b \in Advisories
               /\ \E f \in CasesOf(RepositoryOf[b], approved) :
                    approved[f] = acquiring.cases[b]
               /\ snapshots'[b] = "whole"
    <3>1. b \in Advisories /\ RepositoryOf[b] = acquiring.at
      BY <1>4 DEF CasesOf
    <3>2. CASE b = a
      BY <1>1, <3>1, <3>2 DEF Requested, GovernedInv, Shapes
    <3>3. CASE b # a
      <4>1. b \in CasesOf(acquiring.at, acquiring.cases) \ acquiring.left
        BY <3>3
      <4>2. /\ \E f \in CasesOf(RepositoryOf[b], approved) :
                   approved[f] = acquiring.cases[b]
            /\ snapshots[b] = "whole"
        BY <2>1, <4>1 DEF Backed, Restrict
      <4> QED BY <1>5, <3>1, <4>2 DEF IntakeGrows
    <3> QED BY <3>2, <3>3
  <2>3. Backed(Restrict(acquiring.cases,
                        CasesOf(acquiring.at, acquiring.cases) \ (acquiring.left \ {a})),
               approved, snapshots')
    BY <2>2 DEF Backed, Restrict
  <2> QED BY <1>1, <1>4, <2>1, <2>3 DEF WorkBacked
<1> QED BY <1>1, <1>5, <1>6, <1>7, RecordsStay, IntakeGoverned DEF IntakeBacked

LEMMA RecordGoverned ==
    ASSUME GovernedInv, RecordRepository
    PROVE  GovernedInv'
<1>1. /\ catalog' = catalog /\ approved' = approved /\ snapshots' = snapshots
      /\ acquired' = acquired /\ dirs' = dirs /\ corpus' = corpus
      /\ runs' = runs /\ doing' = doing
      /\ acquiring.left = {}
      /\ records' = [records EXCEPT ![acquiring.at] =
                        Restrict(acquiring.cases, CasesOf(acquiring.at, acquiring.cases))]
  BY DEF RecordRepository, IntakeStep, evaluation
<1>2. acquiring.step \notin {Idle, "next"}
  BY DEF RecordRepository, Acquiring, Idle
<1>3. acquiring # NotAcquiring
  BY <1>2, StepIsThere
<1>4. IntakeGrows
  BY <1>1 DEF IntakeGrows
<1>5. Shapes' /\ acquiring'.step = "next"
  BY <1>1, <1>3 DEF RecordRepository, GovernedInv, Shapes
<1>6. ASSUME NEW r \in Repositories PROVE Backed(records'[r], approved, snapshots)
  <2>1. Backed(records[r], approved, snapshots)
    BY DEF GovernedInv, IntakeBacked
  <2>2. CasesOf(acquiring.at, acquiring.cases) \ acquiring.left
           = CasesOf(acquiring.at, acquiring.cases)
    BY <1>1
  <2>3. Backed(Restrict(acquiring.cases, CasesOf(acquiring.at, acquiring.cases)),
               approved, snapshots)
    BY <1>2, <2>2 DEF GovernedInv, IntakeBacked, WorkBacked
  <2>4. \/ records'[r] = records[r]
        \/ records'[r] = Restrict(acquiring.cases, CasesOf(acquiring.at, acquiring.cases))
    BY <1>1 DEF GovernedInv, Shapes
  <2> QED BY <2>1, <2>3, <2>4
<1>7. IntakeBacked'
  BY <1>1, <1>5, <1>6 DEF GovernedInv, IntakeBacked, WorkBacked
<1> QED BY <1>1, <1>4, <1>5, <1>7, IntakeGoverned

LEMMA SealAcquisitionGoverned ==
    ASSUME GovernedInv, SealAcquisition
    PROVE  GovernedInv'
<1>1. /\ catalog' = catalog /\ approved' = approved /\ snapshots' = snapshots
      /\ records' = records /\ dirs' = dirs /\ corpus' = corpus
      /\ runs' = runs /\ doing' = doing /\ acquiring' = NotAcquiring
      /\ acquired' = AcquiredCases(Listed(acquiring.cases))
  BY DEF SealAcquisition, IntakeStep, evaluation
<1>2. IntakeGrows
  BY <1>1 DEF IntakeGrows
<1>3. Shapes'
  BY <1>1 DEF GovernedInv, Shapes
<1>4. WorkBacked'
  BY <1>1 DEF WorkBacked, NotAcquiring
<1>5. Backed(acquired', approved, snapshots)
  <2> SUFFICES ASSUME NEW a \in Advisories, a \in DOMAIN records[RepositoryOf[a]]
               PROVE  /\ \E b \in CasesOf(RepositoryOf[a], approved) :
                            approved[b] = records[RepositoryOf[a]][a]
                      /\ snapshots[a] = "whole"
    BY <1>1 DEF Backed, AcquiredCases
  <2>1. RepositoryOf[a] \in Repositories
    BY CatalogAssumption
  <2>2. Backed(records[RepositoryOf[a]], approved, snapshots)
    BY <2>1 DEF GovernedInv, IntakeBacked
  <2> QED BY <2>2 DEF Backed
<1>6. IntakeBacked'
  BY <1>1, <1>4, <1>5 DEF GovernedInv, IntakeBacked
<1> QED BY <1>1, <1>2, <1>3, <1>6, IntakeGoverned

LEMMA ConstructGoverned ==
    ASSUME GovernedInv, PilotInv, Construct \/ ConstructFails
    PROVE  GovernedInv'
<1>1. /\ catalog' = catalog /\ approved' = approved /\ acquiring' = acquiring
      /\ snapshots' = snapshots /\ records' = records /\ acquired' = acquired
      /\ runs' = runs /\ doing' = doing
  BY DEF Construct, ConstructFails, intake, evaluation
<1>2. Shapes' /\ IntakeBacked'
  BY <1>1 DEF GovernedInv, Shapes, IntakeBacked, WorkBacked
<1>3. CASE Construct
  <2>1. Sealed("corpus")'
    BY <1>3 DEF Construct, Sealed, PilotInv, TypeInv, Packages
  <2>2. CorpusFirst'
    BY <2>1 DEF CorpusFirst
  <2>3. PICK accepted : /\ accepted \subseteq DOMAIN acquired
                        /\ corpus' = CorpusOf(accepted)
    BY <1>3 DEF Construct, Acceptances
  <2>4. corpus'.cases = Restrict(acquired, accepted)
    BY <2>3 DEF CorpusOf
  <2>5. Backed(Restrict(acquired, accepted), approved, snapshots)
    BY <2>3 DEF GovernedInv, IntakeBacked, Backed, Restrict
  <2>6. CorpusBacked'
    BY <1>1, <2>4, <2>5 DEF CorpusBacked
  <2> QED BY <1>2, <2>2, <2>6 DEF GovernedInv
<1>4. CASE ConstructFails
  <2>1. /\ dirs["corpus"] = Absent /\ dirs' = [dirs EXCEPT !["corpus"] = "open"]
    BY <1>4 DEF ConstructFails
  <2>2. ~ Sealed("corpus") /\ ~ Sealed("corpus")'
    BY <2>1 DEF Sealed, Absent, PilotInv, TypeInv, Packages
  <2>3. CorpusFirst'
    BY <1>1, <2>1, <2>2 DEF GovernedInv, CorpusFirst, Absent, PilotInv, TypeInv
  <2>4. CorpusBacked'
    BY <2>2 DEF CorpusBacked
  <2> QED BY <1>2, <2>3, <2>4 DEF GovernedInv
<1> QED BY <1>3, <1>4

LEMMA NextGoverned ==
    ASSUME PilotInv, GovernedInv, [Next]_vars
    PROVE  GovernedInv'
<1>1. CASE UNCHANGED vars
  <2>1. /\ catalog' = catalog /\ approved' = approved /\ acquiring' = acquiring
        /\ snapshots' = snapshots /\ records' = records /\ acquired' = acquired
        /\ corpus' = corpus /\ dirs' = dirs /\ runs' = runs /\ doing' = doing
    BY <1>1 DEF vars, intake, evaluation
  <2>2. Shapes' /\ IntakeBacked'
    BY <2>1 DEF GovernedInv, Shapes, IntakeBacked, WorkBacked
  <2>3. CorpusFirst' /\ CorpusBacked'
    BY <2>1 DEF GovernedInv, CorpusFirst, CorpusBacked, Sealed
  <2> QED BY <2>2, <2>3 DEF GovernedInv
<1>2. CASE \/ \E c \in Catalogs : EditCatalog(c)
           \/ StartAcquire
           \/ \E r \in Repositories : ReuseRepository(r) \/ TakeRepository(r)
           \/ InitBare \/ FetchBare
           \/ AcquireDies
  BY <1>2, MovesGoverned
<1>3. CASE PrepareIntake
  BY <1>3, PrepareGoverned
<1>4. CASE \E a \in Advisories : Materialise(a) \/ WriteReceipt(a)
  BY <1>4, MaterialiseGoverned, WriteReceiptGoverned
<1>5. CASE RecordRepository
  BY <1>5, RecordGoverned
<1>6. CASE SealAcquisition
  BY <1>6, SealAcquisitionGoverned
<1>7. CASE Construct \/ ConstructFails
  BY <1>7, ConstructGoverned
<1>8. CASE \/ StartBaseline \/ SealPreRun \/ RunDevelopment \/ Scores("baseline")
           \/ Replays("baseline")
           \/ DecideDevelopment \/ RunQualification \/ WriteBudget \/ CloseBaseline
           \/ PrepareRecovery \/ Diagnostic \/ DecideDiagnostic
           \/ StartRecover \/ SealRecovered \/ RunRecovered \/ Scores("recover")
           \/ Replays("recover")
           \/ DecideRecovered
           \/ PrepareCapability \/ RunCapability \/ Scores("development")
           \/ Replays("development")
           \/ LockCapability \/ Qualify \/ DecideQualification
           \/ SealV031 \/ SealV032
           \/ \E c \in Commands : CommandDies(c)
  BY <1>8, EvaluationStepGoverned
<1> QED BY <1>1, <1>2, <1>3, <1>4, <1>5, <1>6, <1>7, <1>8 DEF Next

\* A group that is run is made of a revision that was approved for its repository before it
\* was fetched, from snapshots written to their end, whatever the catalog says by then.
THEOREM PilotEvaluatedAsGoverned == Spec => []EvaluatedAsGoverned
<1>1. PilotInv /\ GovernedInv /\ [Next]_vars => (PilotInv /\ GovernedInv)'
  BY NextInv, NextGoverned
<1>2. GovernedInv => EvaluatedAsGoverned
  BY DEF GovernedInv, CorpusFirst, CorpusBacked, Backed, CasesOf, EvaluatedAsGoverned
<1> QED BY InitInv, InitGoverned, <1>1, <1>2, PTL DEF Spec
=============================================================================
