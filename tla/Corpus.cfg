SPECIFICATION CorpusSpec
CONSTANTS
    r1 = r1
    r2 = r2
    r3 = r3
    c1 = c1
    c2 = c2
    c3 = c3
    c4 = c4
    c5 = c5
    Lineage <- LineageVal
    Register <- RegisterVal
    CaseOrder <- CaseOrderVal
    Fingerprints <- FingerprintsVal
    RejectedBefore <- RejectedBeforeVal
    Partitions = {"TRAINING", "QUALIFICATION"}
    FamilyCap = 1
    CaseLimits = {1}
    Workers = 2
    MaxPlans = 2
    MaxCrashes = 1
INVARIANTS
    OrganizationsApart
    SealedUnderItsAudit
    SealedGroupsBacked
CHECK_DEADLOCK FALSE
