CONSTANTS
    MaxResults = 2
    Paths = {1}
    Severities = {0}
    MaxContributions = 2
SPECIFICATION Spec
INVARIANT ValidResultsComplete
CHECK_DEADLOCK FALSE
