SPECIFICATION Spec
CONSTANTS
    Versions = {1, 2}
    MaxIncidents = 1
    MaxSummaries = 5
INVARIANTS
    OpenedOnce
    TrainedUnderAuthority
    SelectionUnderOneLock
    SealedStaysTrue
    Recoverable
CHECK_DEADLOCK FALSE
