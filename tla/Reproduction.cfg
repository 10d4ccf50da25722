SPECIFICATION Spec
CONSTANTS
    MaxSteps = 2
    MaxConsidered = 1
INVARIANTS
    ConfirmedSound
    RejectedOnlyForFlags
\* the command has ended
CHECK_DEADLOCK FALSE
