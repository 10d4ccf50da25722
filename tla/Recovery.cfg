SPECIFICATION RecoverySpec
CONSTANTS
    t1 = t1 d1 = d1
    TrainingGroups = {t1}
    DevelopmentGroups = {d1}
    Options = {1}
    UsualOptions = 1
    Workers = 1
    RequiredSources = 1
    MaxSources = 1
    MaxPrepares = 3
    MaxScreens = 1
    MaxValidations = 2
    MaxIncidents = 1
INVARIANTS
    SealedSourceValidated
    EvidenceConsistent
    FreshUnopened
CHECK_DEADLOCK FALSE
CONSTRAINTS SupplyFirstOrLast WatchingAlone
