SPECIFICATION Spec
CONSTANTS
    r1 = r1 r2 = r2 a1 = a1 a2 = a2 a3 = a3 f1 = f1 f2 = f2 f3 = f3 f4 = f4
    Repositories = {r1, r2}
    Advisories = {a1, a2, a3}
    Fixes = {f1, f2, f3, f4}
    RepositoryOf <- MCRepositoryOf
    TargetGroups = {4}
    TargetRepositories = {2}
    MaxEdits = 1
INVARIANTS
    PartitionOpenedOnce
    EvaluatedAsGoverned
    SealedBudgetStaysTrue
CHECK_DEADLOCK FALSE
CONSTRAINT EditedUpToFirstRun
SYMMETRY FixSymmetry
