------------------------------- MODULE Corpus --------------------------------
(***************************************************************************)
(* The governed corpus of V0.4 (scripts/build_v0_4_assurance.py): families *)
(* of candidate fixes are assigned to partitions by repository, acquired   *)
(* and audited one by one by a pool of threads, and sealed.                *)
(*                                                                         *)
(* A candidate ends as an audit card with its evidence or as a rejection,  *)
(* or as both if a write failed after the card.  Both are files that are   *)
(* written once and that a later acquisition finds and keeps.  A candidate *)
(* that an earlier policy rejected may be proposed again under a new       *)
(* identity.  Plans may be extended and rebalanced between acquisitions;   *)
(* finalization audits what is there and seals it.  Any write may fail and *)
(* every command may die at any point, and is tried again.                 *)
(*                                                                         *)
(* One command runs at a time, and it is given the plan that supersedes    *)
(* all others.  Threads work on repositories of their own.  A write that   *)
(* fails leaves no file.  A torn file is left out: every later command     *)
(* stops at it, or rejects its candidate for it.                           *)
(***************************************************************************)
EXTENDS Naturals, Sequences, FiniteSets, SequencesExt

CONSTANTS
    Lineage,            \* of a repository: the organization that owns it
    Register,           \* the candidates: each has its repository and its fix
    CaseOrder,          \* their identities in the order of case-order
    Fingerprints,       \* of a candidate: its source, fix, advisory, target
    RejectedBefore,     \* candidates that the policy of before may have rejected
    Partitions,
    FamilyCap,          \* training_family_cap
    CaseLimits,         \* values of --maximum-cases-per-repository
    Workers,            \* --workers
    MaxPlans,           \* bound: plans that supersede another
    MaxCrashes          \* bound: commands and threads that die

Training == "TRAINING"
Repositories == DOMAIN Lineage
Candidates == DOMAIN Register

Nothing == "none"

\* A candidate and the one that supersedes it once it is reconsidered.
Original(c) == <<c, "original">>
Reconsidered(c) == <<c, "reconsidered">>
Identities == {Original(c) : c \in Candidates} \cup {Reconsidered(c) : c \in Candidates}
RepositoryOf(id) == Register[id[1]].repository
FixOf(id) == Register[id[1]].fix

ASSUME CorpusAssumption ==
    /\ Training \in Partitions
    /\ Nothing \notin Partitions
    /\ \A c \in Candidates : Register[c].repository \in Repositories
    /\ Range(CaseOrder) = Identities /\ CaseOrder \in Seq(Identities)
    /\ DOMAIN Fingerprints = Candidates
    /\ RejectedBefore \subseteq Candidates
    /\ FamilyCap \in Nat \ {0}
    /\ CaseLimits \subseteq Nat
    /\ Workers \in 1..16
    /\ MaxPlans \in Nat
    /\ MaxCrashes \in Nat

VARIABLES
    plan,           \* the partition of each repository that has one
    plans,
    touched,        \* repositories with a directory of objects
    acquired,       \* repositories with a receipt of their acquisition
    rejection,      \* of each identity: none, by the policy of before, or rejected
    lineage,        \* the evidence that names the partition, if written
    card,           \* the partition the audit card is filed under
    receipt,        \* the transitions and the receipt of the admission are written
    proposals,      \* candidates that were proposed again
    retired,        \* those whose rejection was retired
    command,        \* the command that runs, and how far it is
    work,           \* of each repository: the identities an acquisition has left
    stage,          \* of each repository: how far its thread is
    audit,          \* the corpus-wide audit: the cards it is about
    seal,           \* the partition seal: the cards that are in the corpus
    crashes

planVars == <<plan, plans>>
groupFiles == <<rejection, lineage, card, receipt, proposals, retired>>
threads == <<work, stage>>
corpusVars == <<planVars, touched, acquired, groupFiles, command, threads, audit, seal, crashes>>

\* An organization has repositories in one partition only.
Disjoint(assignment) ==
    \A r, q \in DOMAIN assignment :
        Lineage[r] = Lineage[q] => assignment[r] = assignment[q]

\* plan-partitions serves every partition or fails; only training takes several
\* repositories of an organization.
FirstPlans ==
    {assignment \in UNION {[S -> Partitions] : S \in SUBSET Repositories} :
        /\ Disjoint(assignment)
        /\ Range(assignment) = Partitions
        /\ \A r, q \in DOMAIN assignment :
              r # q /\ Lineage[r] = Lineage[q] => assignment[r] = Training}

\* The first plan is made.  An earlier version of the program may have fetched candidates
\* under it, and rejected them by a policy that was corrected since.
CorpusInit ==
    /\ plan \in FirstPlans
    /\ plans = 1
    /\ \E before \in SUBSET {c \in RejectedBefore : Register[c].repository \in DOMAIN plan} :
          /\ rejection = [id \in Identities |->
                            IF id \in {Original(c) : c \in before} THEN "policy" ELSE Nothing]
          /\ touched = {Register[c].repository : c \in before}
    /\ acquired = touched
    /\ lineage = [id \in Identities |-> Nothing]
    /\ card = [id \in Identities |-> Nothing]
    /\ receipt = [id \in Identities |-> FALSE]
    /\ proposals = {}
    /\ retired = {}
    /\ command = Nothing
    /\ work = [r \in Repositories |-> {}]
    /\ stage = [r \in Repositories |-> "idle"]
    /\ audit = <<>>
    /\ seal = <<>>
    /\ crashes = 0

-----------------------------------------------------------------------------
(* The plans.  Approved repositories are appended, and what was never      *)
(* acquired may be moved.                                                  *)

PartitionsOf(assignment, organization) ==
    {assignment[r] : r \in {q \in DOMAIN assignment : Lineage[q] = organization}}

\* Some of the repositories that are not assigned yet and do not cross partitions.
Appended(assignment, p) ==
    {[r \in DOMAIN assignment \cup added |->
        IF r \in DOMAIN assignment THEN assignment[r] ELSE p] :
     added \in SUBSET {r \in Repositories \ DOMAIN assignment :
                          PartitionsOf(assignment, Lineage[r]) \subseteq {p}}}

Supersede(assignments) ==
    /\ command = Nothing
    /\ plans < MaxPlans
    /\ plans' = plans + 1
    /\ plan' \in {a \in assignments : Disjoint(a)}
    /\ UNCHANGED <<touched, acquired, groupFiles, command, threads, audit, seal, crashes>>

ExtendPartitionPlan == Supersede(Appended(plan, Training))

AugmentPartitionPlan == \E p \in Partitions : Supersede(Appended(plan, p))

\* Mutation: what has no receipt of a finished acquisition counts as untouched.
TouchedByReceipt == acquired

TouchedTokens == touched

\* A whole lineage moves, and only if nothing of what would move was touched.
Reassigned ==
    {[r \in DOMAIN plan |-> IF Lineage[r] = organization THEN p ELSE plan[r]] :
     organization \in Range(Lineage), p \in Partitions}

ReassignedUntouched ==
    {a \in Reassigned : \A r \in DOMAIN plan : a[r] # plan[r] => r \notin TouchedTokens}

RebalancePartitionPlan ==
    \E p \in Partitions : Supersede(UNION {Appended(a, p) : a \in ReassignedUntouched})

-----------------------------------------------------------------------------
(* acquire-groups.                                                         *)

Reconsiderable(selected) ==
    {c \in Candidates : rejection[Original(c)] = "policy" /\ Register[c].repository \in selected}

\* What an acquisition takes the candidates for.
Current(replaced) ==
    {IF c \in replaced THEN Reconsidered(c) ELSE Original(c) : c \in Candidates}

Position == [id \in Identities |-> CHOOSE i \in DOMAIN CaseOrder : CaseOrder[i] = id]
Before(a, b) == Position[a] < Position[b]

\* Of the candidates with one fix the first is taken.
UniqueFixes(r, replaced) ==
    {id \in Current(replaced) :
        /\ RepositoryOf(id) = r
        /\ ~\E other \in Current(replaced) :
              RepositoryOf(other) = r /\ FixOf(other) = FixOf(id) /\ Before(other, id)}

Ahead(id, ids) == {other \in ids : Before(other, id)}

Earliest(ids) == CHOOSE id \in ids : Ahead(id, ids) = {}

UpTo(limit, fixes) == {id \in fixes : Cardinality(Ahead(id, fixes)) < limit}

\* More than the limit of a repository: they are deferred, which is a rejection.
Deferred(id, replaced, limit) ==
    LET fixes == UniqueFixes(RepositoryOf(id), replaced) IN id \in fixes \ UpTo(limit, fixes)

\* Neither a card of the partition that the plan says, nor a rejection.
KnownCard(id) == card[id] = plan[RepositoryOf(id)]
Undecided(id) == ~KnownCard(id) /\ rejection[id] = Nothing

AcquireGroups ==
    /\ command = Nothing
    /\ \E selected \in SUBSET DOMAIN plan, reconsider \in BOOLEAN, limit \in CaseLimits :
           LET replaced == IF reconsider THEN Reconsiderable(selected) ELSE {}
           IN /\ selected # {}
              /\ command' = "acquire"
              /\ proposals' = proposals \cup replaced
              /\ work' = [r \in Repositories |->
                            IF r \in selected
                            THEN UpTo(limit, UniqueFixes(r, replaced))
                            ELSE {}]
              /\ stage' = [r \in Repositories |-> IF r \in selected THEN "start" ELSE "idle"]
              /\ rejection' = [id \in Identities |->
                                 IF /\ RepositoryOf(id) \in selected
                                    /\ Undecided(id)
                                    /\ Deferred(id, replaced, limit)
                                 THEN "rejected" ELSE rejection[id]]
              /\ UNCHANGED <<planVars, touched, acquired, lineage, card, receipt, retired,
                             audit, seal, crashes>>

Thread(r, from, to) ==
    /\ stage[r] = from
    /\ stage' = [stage EXCEPT ![r] = to]
    /\ UNCHANGED <<planVars, command, proposals, audit, seal, crashes>>

\* The directory of hooks is made before anything is fetched.
InitialiseRepository(r) ==
    /\ Thread(r, "start", "next")
    /\ Cardinality({q \in Repositories : stage[q] \notin {"idle", "start"}}) < Workers
    /\ touched' = touched \cup {r}
    /\ UNCHANGED <<acquired, rejection, lineage, card, receipt, retired, work>>

\* The groups of a repository are taken in order.
First(r) == Earliest(work[r])

RecordReconsiderationSuccess(id) ==
    retired' = IF id = Reconsidered(id[1]) THEN retired \cup {id[1]} ELSE retired

Taken(r) == work' = [work EXCEPT ![r] = @ \ {First(r)}]

\* The card or the rejection of an earlier run is kept.
KeepKnown(r) ==
    /\ Thread(r, "next", "next")
    /\ work[r] # {}
    /\ LET id == First(r)
       IN \/ KnownCard(id) /\ RecordReconsiderationSuccess(id)
          \/ ~KnownCard(id) /\ rejection[id] # Nothing /\ UNCHANGED retired
    /\ Taken(r)
    /\ UNCHANGED <<touched, acquired, rejection, lineage, card, receipt>>

\* A fix that is not fetched, an audit that fails, evidence that differs from what is
\* there, or a write that fails: what was written by then, the card included, stays.
RejectCandidate(r) ==
    /\ \E from \in {"next", "evidence", "card"} : Thread(r, from, "next")
    /\ work[r] # {}
    /\ stage[r] = "next" => Undecided(First(r))
    /\ rejection' = [rejection EXCEPT ![First(r)] = "rejected"]
    /\ Taken(r)
    /\ UNCHANGED <<touched, acquired, lineage, card, receipt, retired>>

\* The evidence before the card, of which the lineage record names the partition.
WriteEvidence(r) ==
    /\ Thread(r, "next", "evidence")
    /\ work[r] # {}
    /\ Undecided(First(r))
    /\ lineage[First(r)] \in {Nothing, plan[r]}
    /\ lineage' = [lineage EXCEPT ![First(r)] = plan[r]]
    /\ UNCHANGED <<touched, acquired, rejection, card, receipt, retired, work>>

WriteCard(r) ==
    /\ Thread(r, "evidence", "card")
    /\ card' = [card EXCEPT ![First(r)] = plan[r]]
    /\ UNCHANGED <<touched, acquired, rejection, lineage, receipt, retired, work>>

\* The transitions and the receipt come last.
WriteReceipt(r) ==
    /\ Thread(r, "card", "next")
    /\ receipt' = [receipt EXCEPT ![First(r)] = TRUE]
    /\ RecordReconsiderationSuccess(First(r))
    /\ Taken(r)
    /\ UNCHANGED <<touched, acquired, rejection, lineage, card>>

EndRepository(r) ==
    /\ Thread(r, "next", "idle")
    /\ work[r] = {}
    /\ acquired' = acquired \cup {r}
    /\ UNCHANGED <<touched, rejection, lineage, card, receipt, retired, work>>

\* An error outside the audit of a candidate, as a rejection that cannot be written: the
\* other threads go on, and the command fails when they have ended.  A repository that no
\* thread has begun with is cancelled.
FailAssignment(r) ==
    /\ stage[r] # "idle"
    /\ crashes < MaxCrashes
    /\ crashes' = crashes + 1
    /\ stage' = [stage EXCEPT ![r] = "idle"]
    /\ work' = [work EXCEPT ![r] = {}]
    /\ UNCHANGED <<planVars, touched, acquired, groupFiles, command, audit, seal>>

ProcessAssignment(r) ==
    \/ InitialiseRepository(r)
    \/ KeepKnown(r)
    \/ RejectCandidate(r)
    \/ WriteEvidence(r)
    \/ WriteCard(r)
    \/ WriteReceipt(r)
    \/ EndRepository(r)
    \/ FailAssignment(r)

EndAcquisition ==
    /\ command = "acquire"
    /\ \A r \in Repositories : stage[r] = "idle"
    /\ command' = Nothing
    /\ UNCHANGED <<planVars, touched, acquired, groupFiles, threads, audit, seal, crashes>>

-----------------------------------------------------------------------------
(* finalize-corpus.                                                        *)

Carded == {id \in Identities : card[id] # Nothing}
Cards == [id \in Carded |-> card[id]]

CrossPartition(cards) ==
    {id \in DOMAIN cards :
        \E other \in DOMAIN cards :
            /\ cards[other] # cards[id]
            /\ \/ Fingerprints[other[1]] \cap Fingerprints[id[1]] # {}
               \/ RepositoryOf(other) = RepositoryOf(id)}

\* Two cards of one partition with all fingerprints the same are one group.
ExactDuplicates(cards) ==
    {id \in DOMAIN cards :
        \E other \in DOMAIN cards :
            /\ cards[other] = cards[id]
            /\ Fingerprints[other[1]] = Fingerprints[id[1]]
            /\ Before(other, id)}

OverFamilyCap(cards, excluded) ==
    LET training == {id \in DOMAIN cards \ excluded : cards[id] = Training}
    IN {id \in training :
          Cardinality({other \in training :
                          RepositoryOf(other) = RepositoryOf(id) /\ Before(other, id)})
            >= FamilyCap}

Accepted(cards) ==
    LET excluded == CrossPartition(cards) \cup ExactDuplicates(cards)
    IN [id \in DOMAIN cards \ (excluded \cup OverFamilyCap(cards, excluded)) |-> cards[id]]

\* Mutation: supporting evidence is written without the receipt it is made from.
BackfillWithoutReceipt == \A id \in Carded : RepositoryOf(id) \in DOMAIN plan

BackfillSupportingEvidence ==
    \A id \in Carded : receipt[id] /\ RepositoryOf(id) \in DOMAIN plan

\* Mutation: the audit of an earlier finalization stands for this one.
AuditKept == TRUE

AuditWritable == audit \in {<<>>, Cards}

\* The corpus-wide audit is written before the independence audit refuses an empty corpus.
AuditCorpus ==
    /\ command = Nothing
    /\ Carded # {}
    /\ BackfillSupportingEvidence
    /\ AuditWritable
    /\ audit' = (IF audit = <<>> THEN Cards ELSE audit)
    /\ command' = (IF Accepted(Cards) = <<>> THEN Nothing ELSE "audited")
    /\ UNCHANGED <<planVars, touched, acquired, groupFiles, threads, seal, crashes>>

\* What the plan has and no acquisition decided is rejected for good.
TerminalizeUnselected ==
    /\ command = "audited"
    /\ command' = "terminalized"
    /\ rejection' = [id \in Identities |->
                       IF /\ id = Original(id[1])
                          /\ RepositoryOf(id) \in DOMAIN plan
                          /\ card[id] # plan[RepositoryOf(id)]
                          /\ rejection[id] = Nothing
                       THEN "rejected" ELSE rejection[id]]
    /\ UNCHANGED <<planVars, touched, acquired, lineage, card, receipt, proposals, retired,
                   threads, audit, seal, crashes>>

\* The floors stand for at least a group in each partition.
FloorsPassed ==
    /\ Range(Accepted(Cards)) = Partitions
    /\ \A a, b \in Carded : RepositoryOf(a) = RepositoryOf(b) => card[a] = card[b]

SealPartitions ==
    /\ command = "terminalized"
    /\ command' = Nothing
    /\ IF FloorsPassed /\ seal \in {<<>>, Accepted(Cards)}
       THEN seal' = Accepted(Cards)
       ELSE UNCHANGED seal
    /\ UNCHANGED <<planVars, touched, acquired, groupFiles, threads, audit, crashes>>

\* The process ends between any two writes.
Die ==
    /\ command # Nothing
    /\ crashes < MaxCrashes
    /\ crashes' = crashes + 1
    /\ command' = Nothing
    /\ work' = [r \in Repositories |-> {}]
    /\ stage' = [r \in Repositories |-> "idle"]
    /\ UNCHANGED <<planVars, touched, acquired, groupFiles, audit, seal>>

-----------------------------------------------------------------------------
CorpusNext ==
    \/ ExtendPartitionPlan
    \/ AugmentPartitionPlan
    \/ RebalancePartitionPlan
    \/ AcquireGroups
    \/ \E r \in Repositories : ProcessAssignment(r)
    \/ EndAcquisition
    \/ AuditCorpus
    \/ TerminalizeUnselected
    \/ SealPartitions
    \/ Die

CorpusSpec == CorpusInit /\ [][CorpusNext]_corpusVars

-----------------------------------------------------------------------------
\* docs/research/V0.4_ASSURANCE.md, "Independence and partitions": no organization has
\* groups in two partitions of the seal.  Finalization compares families, which are
\* repositories, and fingerprints; that organizations are kept apart is up to the plans,
\* which must not move what an acquisition has begun with, even one that died.
OrganizationsApart ==
    \A a, b \in DOMAIN seal :
        Lineage[RepositoryOf(a)] = Lineage[RepositoryOf(b)] => seal[a] = seal[b]

\* The seal is what the corpus-wide audit on file leaves of the cards it is about: no card
\* that was acquired after it, between two attempts to finalize, is part of the corpus.
SealedUnderItsAudit == seal # <<>> => seal = Accepted(audit)

\* "Each admitted group is backed by": every group of the seal has the evidence of its
\* partition and the receipt of its admission, whatever failed or died before they were
\* written, and none of them is a group whose card was left beside a rejection.
SealedGroupsBacked ==
    \A id \in DOMAIN seal : receipt[id] /\ lineage[id] = seal[id] /\ rejection[id] = Nothing
=============================================================================
