CONSTANTS
    Files = {1, 2, 3}
    Priorities = {0, 3}
    Counts = {1, 3}
    MaxUniqueTokens = 2
    MaxTotalTokens = 3
    MaxFileSymbols = 2
    MaxTotalSymbols = 3
SPECIFICATION Spec
INVARIANTS
    IndexVerifies
    LimitsTell
    NothingStarvedByLess
CHECK_DEADLOCK FALSE
