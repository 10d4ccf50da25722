SPECIFICATION Spec
CONSTANTS
    MaxFiles = 3
    MaxSymbols = 2
    MaxUniverse = 5
    Scores <- MCScores
    MaximumFiles = 3
    MaximumBytes = 4
    MaximumCandidates = 3
    RawTopK = 2
    MaxTopK = 2
INVARIANTS
    CandidatesBounded
    TruncationAbstains
    BuiltVerifies
    ShortlistExact
\* a result, a refusal or an error is the end
CHECK_DEADLOCK FALSE
