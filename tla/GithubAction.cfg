SPECIFICATION MCSpec
CONSTANTS
    MaxResults = 2
    Paths = {1, 2, 3}
    Severities = {0, 1}
    MaxContributions = 4
INVARIANTS
    AccountedFor
    LostOnlyForLocalization
    PagesAddUp
    GreenMeansVerified
    ReadyMeansVerified
PROPERTY JobEnds
\* the reader or the job has come to its end
CHECK_DEADLOCK FALSE
