---------------------------- MODULE ReviewQueue ----------------------------
(***************************************************************************)
(* The review queue of a batch (triage.py, _build_review_queue) and the    *)
(* pages it is read in (review_triage_package).                            *)
(*                                                                         *)
(* A completed result is its result key, its severity and its candidates,  *)
(* the distinct paths of its shortlist in rank order.  Paths are numbers,  *)
(* which stand for their order as strings, and so are the sources keys are *)
(* ordered by; severities are those of _SEVERITY_ORDER, 0 the highest.     *)
(***************************************************************************)
EXTENDS Ordering, Integers, SequencesExt

\* Lexicographic order of tuples of numbers.
TupleBefore(a, b) ==
    \E n \in DOMAIN a : a[n] < b[n] /\ \A m \in 1..(n - 1) : a[m] = b[m]

-----------------------------------------------------------------------------
Contribution(item, rank) ==
    [path |-> item.candidates[rank], finding_key |-> item.result_key, rank |-> rank,
     severity |-> item.severity]

\* Every candidate of every completed result.  No two are the same: a result has a path
\* at one rank.
Contributions(completed) ==
    UNION {{Contribution(completed[i], rank) : rank \in DOMAIN completed[i].candidates} :
           i \in DOMAIN completed}

\* by_path[path].
OfPath(contributions, path) == {c \in contributions : c.path = path}

\* candidate_id, the last sort key, is determined by the first two.
ContributionBefore(a, b) ==
    TupleBefore(<<a.rank, a.finding_key.source>>, <<b.rank, b.finding_key.source>>)

HighestSeverity(contributions) == Min({c.severity : c \in contributions})

FindingCount(contributions) == Cardinality({c.finding_key : c \in contributions})

Entry(path, contributions) ==
    LET ordered == InOrder(contributions, ContributionBefore)
    IN [path |-> path, highest_severity |-> HighestSeverity(contributions),
        finding_count |-> FindingCount(contributions),
        best_shortlist_rank |-> ordered[1].rank, primary |-> ordered[1].finding_key,
        contributions |-> ordered]

EntryBefore(a, b) ==
    TupleBefore(<<a.highest_severity, -a.finding_count, a.best_shortlist_rank, a.path>>,
                <<b.highest_severity, -b.finding_count, b.best_shortlist_rank, b.path>>)

Ranked(entries) == [k \in DOMAIN entries |-> [queue_rank |-> k, entry |-> entries[k]]]

BuildReviewQueue(completed) ==
    LET all == Contributions(completed)
        entries == {Entry(c.path, OfPath(all, c.path)) : c \in all}
    IN Ranked(InOrder(entries, EntryBefore))

-----------------------------------------------------------------------------
(* One page.                                                               *)

\* Mutation: the cursor is inclusive.
RemainingInclusive(queue, after_rank) ==
    Pick(queue, {k \in DOMAIN queue : queue[k].queue_rank >= after_rank})

Remaining(queue, after_rank) ==
    Pick(queue, {k \in DOMAIN queue : queue[k].queue_rank > after_rank})

NoMore == 0

\* Mutation: the last page has a cursor as well.
PageWithCursor(queue, after_rank, limit) ==
    LET remaining == Remaining(queue, after_rank)
        selected == SubSeq(remaining, 1, IF Len(remaining) < limit THEN Len(remaining) ELSE limit)
    IN [entries |-> selected,
        next_after_rank |-> IF selected = <<>> THEN after_rank ELSE Last(selected).queue_rank]

\* next_after_rank is None, here NoMore, on the last page.
Page(queue, after_rank, limit) ==
    LET remaining == Remaining(queue, after_rank)
        selected == SubSeq(remaining, 1, IF Len(remaining) < limit THEN Len(remaining) ELSE limit)
        has_more == Len(remaining) > limit
    IN [entries |-> selected,
        next_after_rank |-> IF has_more THEN Last(selected).queue_rank ELSE NoMore]

-----------------------------------------------------------------------------
(* What the queue promises.                                                *)

RankOf(path, item) == CHOOSE r \in DOMAIN item.candidates : item.candidates[r] = path

\* Each path that a completed result names is queued once, with the most severe
\* and the best ranked of the results that name it, and their number; and a less
\* severe path, or one of fewer findings at the same severity, is never earlier.
IsQueueOf(queue, completed) ==
    LET naming(path) == {i \in DOMAIN completed : path \in ToSet(completed[i].candidates)}
        entry(k) == queue[k].entry
    IN /\ {entry(k).path : k \in DOMAIN queue}
             = UNION {ToSet(completed[i].candidates) : i \in DOMAIN completed}
       /\ \A k, l \in DOMAIN queue : k # l => entry(k).path # entry(l).path
       /\ \A k \in DOMAIN queue :
            LET on == naming(entry(k).path)
                ranks == {RankOf(entry(k).path, completed[i]) : i \in on}
            IN /\ entry(k).highest_severity = Min({completed[i].severity : i \in on})
               /\ entry(k).finding_count = Cardinality(on)
               /\ entry(k).best_shortlist_rank = Min(ranks)
               /\ \E i \in on : /\ completed[i].result_key = entry(k).primary
                                 /\ RankOf(entry(k).path, completed[i]) = Min(ranks)
       /\ \A k, l \in DOMAIN queue :
            k < l => \/ entry(k).highest_severity < entry(l).highest_severity
                     \/ /\ entry(k).highest_severity = entry(l).highest_severity
                        /\ entry(k).finding_count >= entry(l).finding_count
=============================================================================
