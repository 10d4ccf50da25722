---------------------------- MODULE Localization ----------------------------
(***************************************************************************)
(* The shortlist of one finding: localization.py enumerates the candidates *)
(* of a repository under its bounds, ranks them, cuts the ranking at its   *)
(* top_k and decides whether to abstain; ranking.py projects what is left  *)
(* into the public candidate set.  Each result is verified where it is     *)
(* built, and again where it is used.                                      *)
(*                                                                         *)
(* A candidate is a file or a symbol in it.  Its score is what the finding *)
(* guided (the codes of FINDING_GUIDED_SCORE_COMPONENTS) and a prior that  *)
(* is the same for every finding (role, depth, dangerous calls).  Paths    *)
(* are places in the sorted walk.  The learned ranker, which the product   *)
(* refuses, is left out.                                                   *)
(***************************************************************************)
EXTENDS Ordering, Integers, SequencesExt

CONSTANTS
    MaxFiles,           \* bound: files of a repository
    MaxSymbols,         \* bound: symbols of a file
    MaxUniverse,        \* bound: candidates of a repository
    Scores,             \* the pairs of a guided score and a prior
    MaximumFiles,       \* maximum_files
    MaximumBytes,       \* maximum_total_bytes
    MaximumCandidates,  \* maximum_candidates
    RawTopK,            \* top_k of the request: max(1000, top_k), which is its own bound
    MaxTopK             \* bound: top_k of the projection

ASSUME LocalizationAssumption ==
    /\ MaxFiles \in Nat
    /\ MaxSymbols \in Nat
    /\ MaxUniverse \in Nat
    /\ \A s \in Scores : s.guided \in Nat /\ s.prior \in Int
    /\ MaximumFiles \in Nat \ {0}
    /\ MaximumBytes \in Nat \ {0}
    /\ MaximumCandidates \in Nat \ {0}
    /\ RawTopK \in Nat \ {0}
    /\ MaxTopK \in 1..RawTopK

VARIABLES
    pc,
    files,          \* what the sorted walk finds
    config,         \* runtime_identity, ranker and top_k
    position,       \* files the walk is done with: file_count
    total_bytes,
    candidates,
    candidate_universe_truncated,
    universe,       \* history: the candidates of the files seen, kept or not
    ranked,
    raw,            \* the raw localization
    candidate_set

inputs == <<files, config>>
walk == <<position, total_bytes, candidates, candidate_universe_truncated, universe>>
vars == <<pc, inputs, walk, ranked, raw, candidate_set>>

\* The scores of a source file are those of the file and of its symbols.
SourceFiles ==
    [kind : {"source"}, ascii : {TRUE}, bytes : {1},
     scores : UNION {[1..n -> Scores] : n \in 1..(MaxSymbols + 1)}]

\* Not Python, in an ignored tree, too large, not UTF-8, or holding a secret.
ExcludedFiles == [kind : {"excluded"}, ascii : BOOLEAN, bytes : {2}, scores : {<<>>}]

Configurations ==
    [runtime : {"step1", "v0.4.1"}, ranker : {"v0.6", "v0.5", "structured"}, top_k : 1..MaxTopK]

NoRaw == [candidates |-> <<>>, ranked |-> -1, truncated |-> FALSE, abstained |-> FALSE, reason |-> "none"]
NoSet == [candidates |-> <<>>, abstained |-> FALSE, reason |-> "unset"]

UniverseWithinBound == FoldLeft(LAMBDA n, f : n + Len(f.scores), 0, files) <= MaxUniverse

Init ==
    /\ pc = "enumerate"
    /\ files \in UNION {[1..n -> SourceFiles \cup ExcludedFiles] : n \in 0..MaxFiles}
    /\ UniverseWithinBound
    /\ config \in Configurations
    /\ position = 0
    /\ total_bytes = 0
    /\ candidates = <<>>
    /\ candidate_universe_truncated = FALSE
    /\ universe = 0
    /\ ranked = <<>>
    /\ raw = NoRaw
    /\ candidate_set = NoSet

AtLeast(a, b) == IF a < b THEN b ELSE a
AtMost(a, b) == IF a > b THEN b ELSE a

-----------------------------------------------------------------------------
(* _enumerate_candidates.                                                  *)

strict_candidate_bound == config.runtime = "step1"
require_ascii_paths == config.runtime = "step1"

Current == position + 1
File == files[Current]
Walking == pc = "enumerate" /\ position < Len(files)

WithinBounds ==
    /\ require_ascii_paths => File.ascii
    /\ Current <= MaximumFiles
    /\ total_bytes + File.bytes <= MaximumBytes

Count ==
    /\ position' = Current
    /\ total_bytes' = total_bytes + File.bytes

EnumerateRefuses ==
    /\ Walking
    /\ ~WithinBounds
    /\ pc' = "refused"
    /\ UNCHANGED <<inputs, walk, ranked, raw, candidate_set>>

Exclude ==
    /\ Walking
    /\ WithinBounds
    /\ File.kind = "excluded"
    /\ Count
    /\ UNCHANGED <<pc, inputs, candidates, candidate_universe_truncated, universe,
                   ranked, raw, candidate_set>>

\* Once the universe is known to be incomplete, only the inventory goes on.
Inventory ==
    /\ Walking
    /\ WithinBounds
    /\ File.kind = "source"
    /\ strict_candidate_bound
    /\ candidate_universe_truncated
    /\ Count
    /\ universe' = universe + Len(File.scores)
    /\ UNCHANGED <<pc, inputs, candidates, candidate_universe_truncated,
                   ranked, raw, candidate_set>>

Candidate(k) ==
    [path |-> Current, line |-> k, kind |-> IF k = 1 THEN "file" ELSE "symbol",
     guided |-> File.scores[k].guided,
     score |-> File.scores[k].guided + File.scores[k].prior]

\* Mutation: every file may fill the whole bound with its symbols.
SymbolLimitPerFile == MaximumCandidates

\* The file itself is already among the candidates.
SymbolLimit == AtLeast(MaximumCandidates + 1 - (Len(candidates) + 1), 0)

Symbols == Len(File.scores) - 1
SymbolsTaken == IF strict_candidate_bound THEN AtMost(Symbols, SymbolLimit) ELSE Symbols

\* Mutation: a universe that just fits is taken for one that does not.
OverTheBoundEarly(limit_reached, count) == limit_reached \/ count >= MaximumCandidates

OverTheBound(limit_reached, count) == limit_reached \/ count > MaximumCandidates

AddCandidates ==
    /\ Walking
    /\ WithinBounds
    /\ File.kind = "source"
    /\ ~(strict_candidate_bound /\ candidate_universe_truncated)
    /\ Count
    /\ candidates' = candidates \o [k \in 1..(1 + SymbolsTaken) |-> Candidate(k)]
    /\ candidate_universe_truncated' =
           (strict_candidate_bound
               /\ OverTheBound(Symbols > SymbolLimit, Len(candidates) + 1 + SymbolsTaken))
    /\ universe' = universe + Len(File.scores)
    /\ UNCHANGED <<pc, inputs, ranked, raw, candidate_set>>

OfKind(kind) == {k \in DOMAIN candidates : candidates[k].kind = kind}
FileBudget == AtMost(Cardinality(OfKind("file")), AtLeast((MaximumCandidates * 3) \div 5, 1))

\* Over the bound, the best files up to their budget and then the best symbols are
\* kept.  Which ones the preliminary key prefers is left open.
SelectCandidates ==
    /\ pc = "enumerate"
    /\ position = Len(files)
    /\ Len(candidates) > MaximumCandidates
    /\ \E kept_files \in SUBSET OfKind("file"), kept_symbols \in SUBSET OfKind("symbol") :
        /\ Cardinality(kept_files) = FileBudget
        /\ Cardinality(kept_symbols)
              = AtMost(Cardinality(OfKind("symbol")), MaximumCandidates - FileBudget)
        /\ candidates' = Pick(candidates, kept_files \cup kept_symbols)
    /\ candidate_universe_truncated' = TRUE
    /\ pc' = "rank"
    /\ UNCHANGED <<inputs, position, total_bytes, universe, ranked, raw, candidate_set>>

KeepCandidates ==
    /\ pc = "enumerate"
    /\ position = Len(files)
    /\ Len(candidates) <= MaximumCandidates
    /\ pc' = "rank"
    /\ UNCHANGED <<inputs, walk, ranked, raw, candidate_set>>

-----------------------------------------------------------------------------
(* _rank and _build_raw_localization_from_materialized_source.             *)

\* The candidate_id, the last key, is determined by the path and the line here.
RankedBefore(a, b) ==
    \/ a.score > b.score
    \/ a.score = b.score /\ a.path < b.path
    \/ a.score = b.score /\ a.path = b.path /\ a.line < b.line

ByScore == StableSort(candidates, RankedBefore)

FirstOfPath(s) == SelectSeq(s, LAMBDA c : \A d \in ToSet(s) : d.path = c.path => d = c \/ RankedBefore(c, d))

\* The structured ranker puts one candidate of each path first: a symbol, if the path
\* has one (the roles of the paths are taken to be "implementation").
Representative(s, path) ==
    LET symbols == SelectSeq(s, LAMBDA c : c.path = path /\ c.kind = "symbol")
    IN IF symbols # <<>> THEN Head(symbols) ELSE Head(SelectSeq(s, LAMBDA c : c.path = path))

Structured(s) ==
    LET first == FirstOfPath(s)
        representatives == [k \in DOMAIN first |-> Representative(s, first[k].path)]
    IN representatives \o SelectSeq(s, LAMBDA c : c \notin ToSet(representatives))

Rank ==
    /\ pc = "rank"
    /\ ranked' = IF config.ranker = "structured" THEN Structured(ByScore) ELSE ByScore
    /\ pc' = "decide"
    /\ UNCHANGED <<inputs, walk, raw, candidate_set>>

NO_SIGNAL == "NO_POSITIVE_FINDING_GUIDED_SIGNAL"
TRUNCATION == "CANDIDATE_GENERATION_TRUNCATED"

\* Mutation: the rule of v0.4.1, for the later runtime.
DecisionByScore(selected) ==
    IF candidate_universe_truncated THEN TRUNCATION
    ELSE IF selected = <<>> \/ selected[1].score <= 0 THEN NO_SIGNAL ELSE "none"

\* The abstention of the later runtime.
Decision(selected) ==
    IF candidate_universe_truncated THEN TRUNCATION
    ELSE IF selected = <<>> \/ selected[1].guided <= 0 THEN NO_SIGNAL ELSE "none"

HistoricalDecision(selected) ==
    IF selected = <<>> \/ selected[1].score <= 0 THEN NO_SIGNAL ELSE "none"

Decide ==
    /\ pc = "decide"
    /\ LET selected == SubSeq(ranked, 1, AtMost(Len(ranked), RawTopK))
           reason == IF config.runtime = "step1" THEN Decision(selected) ELSE HistoricalDecision(selected)
       IN raw' = [candidates |-> selected, ranked |-> Len(ranked),
                  truncated |-> candidate_universe_truncated,
                  abstained |-> reason # "none", reason |-> reason]
    /\ pc' = "verify"
    /\ UNCHANGED <<inputs, walk, ranked, candidate_set>>

-----------------------------------------------------------------------------
(* verify_raw_localization.                                                *)

ExpectedReason(value) ==
    LET first == IF config.runtime = "step1" THEN value.candidates[1].guided
                 ELSE value.candidates[1].score
    IN CASE config.runtime = "step1" /\ value.truncated -> TRUNCATION
         [] OTHER -> IF value.candidates = <<>> \/ first <= 0 THEN NO_SIGNAL ELSE "none"

RawVerifies(value) ==
    /\ value.reason = ExpectedReason(value)
    /\ value.abstained = (ExpectedReason(value) # "none")
    /\ value.ranked = Len(candidates)
    /\ \A i, j \in DOMAIN value.candidates : i # j => value.candidates[i] # value.candidates[j]
    /\ ToSet(value.candidates) \subseteq ToSet(candidates)

VerifyRaw ==
    /\ pc = "verify"
    /\ pc' = IF RawVerifies(raw) THEN "project" ELSE "raised"
    /\ UNCHANGED <<inputs, walk, ranked, raw, candidate_set>>

-----------------------------------------------------------------------------
(* project_localization_candidates and verify_candidate_set.               *)

ProductContract == config.runtime = "step1" /\ config.ranker \in {"v0.6", "v0.5"}

Prefix(s) == SubSeq(s, 1, AtMost(Len(s), config.top_k))

\* Mutation: a later candidate of a path takes the place of the first.
LastsOfPaths(s) == {k \in DOMAIN s : \A j \in (k + 1)..Len(s) : s[j].path # s[k].path}

\* A path that was selected is not selected again.
FirstsOfPaths(s) == {k \in DOMAIN s : \A j \in 1..(k - 1) : s[j].path # s[k].path}

Projected(s) == Prefix(IF config.ranker = "v0.6" THEN Pick(s, FirstsOfPaths(s)) ELSE s)

Project ==
    /\ pc = "project"
    /\ ProductContract
    /\ candidate_set' = [candidates |-> IF raw.abstained THEN <<>> ELSE Projected(raw.candidates),
                         abstained |-> raw.abstained, reason |-> raw.reason]
    /\ pc' = "verify_set"
    /\ UNCHANGED <<inputs, walk, ranked, raw>>

ProjectRaises ==
    /\ pc = "project"
    /\ ~ProductContract
    /\ pc' = "raised"
    /\ UNCHANGED <<inputs, walk, ranked, raw, candidate_set>>

SetVerifies(value) ==
    /\ Len(value.candidates) <= config.top_k
    /\ value.abstained <=> value.candidates = <<>>
    /\ value.abstained <=> value.reason \in {NO_SIGNAL, TRUNCATION}
    /\ config.ranker = "v0.6" =>
          \A i, j \in DOMAIN value.candidates :
              i # j => value.candidates[i].path # value.candidates[j].path
    /\ value.candidates # <<>> => value.candidates[1].guided > 0

VerifySet ==
    /\ pc = "verify_set"
    /\ pc' = IF SetVerifies(candidate_set) THEN "done" ELSE "raised"
    /\ UNCHANGED <<inputs, walk, ranked, raw, candidate_set>>

-----------------------------------------------------------------------------
Enumerate ==
    \/ EnumerateRefuses \/ Exclude \/ Inventory \/ AddCandidates
    \/ SelectCandidates \/ KeepCandidates

Next == Enumerate \/ Rank \/ Decide \/ VerifyRaw \/ Project \/ ProjectRaises \/ VerifySet

Spec == Init /\ [][Next]_vars

-----------------------------------------------------------------------------
\* However large the repository is, the strict enumeration never holds more than one
\* candidate over its bound (localization.py:1042, "do not retain or score an
\* unbounded intermediate candidate set").
CandidatesBounded == strict_candidate_bound => Len(candidates) <= MaximumCandidates + 1

\* A raw result says it is truncated exactly if the repository has more candidates than
\* the bound, though the enumeration stopped counting them; and then the later runtime
\* ranks nothing for a reader: it abstains, and the candidate set is empty.
TruncationAbstains ==
    raw # NoRaw =>
        /\ raw.truncated <=> universe > MaximumCandidates
        /\ raw.truncated /\ strict_candidate_bound =>
              raw.reason = TRUNCATION /\ candidate_set.candidates = <<>>

\* What one step builds the next one accepts: nothing is rejected but a result of the
\* historical runtime or of a ranker the product does not use.
BuiltVerifies == pc = "raised" => ~ProductContract

\* The shortlist of the product ranker is the order of the paths by their best
\* candidates, each path once and shown by its best candidate; a path is missing from
\* a shortlist that has room only if better candidates of other paths fill the cut of
\* the raw ranking.
ShortlistExact ==
    pc = "done" /\ ~candidate_set.abstained /\ config.ranker = "v0.6" =>
        LET shortlist == candidate_set.candidates
        IN /\ \A i, j \in DOMAIN shortlist : i < j => RankedBefore(shortlist[i], shortlist[j])
           /\ \A i \in DOMAIN shortlist, c \in ToSet(candidates) :
                  c.path = shortlist[i].path => c = shortlist[i] \/ RankedBefore(shortlist[i], c)
           /\ \A c \in ToSet(candidates) :
                  \/ \E i \in DOMAIN shortlist : shortlist[i].path = c.path
                  \/ Len(shortlist) = config.top_k /\ RankedBefore(Last(shortlist), c)
                  \/ Cardinality({d \in ToSet(candidates) : RankedBefore(d, c)}) >= RawTopK
=============================================================================
