CONSTANTS
    Commands = {c1, c2}
    Artifacts = {"bundle", "index"}
    MaxInterruptions = 1
    MaxHostSteps = 2
SPECIFICATION Spec
INVARIANTS
    OutputWhole
    SuccessMeansPublished
PROPERTIES
    PublishesAtomically
CHECK_DEADLOCK FALSE
