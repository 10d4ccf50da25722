SPECIFICATION ExecutionSpec
CONSTANTS
    Limit = 2
    ReadSize = 2
    MaxBytes = 3
INVARIANTS
    RemovalTruthful
    OnlyAttestedRuns
    JudgedTruthfully
PROPERTIES
    ExtendsPrefix
    JoinsCanReturn
    ReturnsAResult
\* the call has returned and the daemon is quiet
CHECK_DEADLOCK FALSE
