SPECIFICATION SnapshotSpec
CONSTANTS
    Units = {u1, u2, u3}
    Payloads = {p1, p2}
    Absent = Absent
    MaxWrites = 4
INVARIANTS
    SnapshotOfOneInstant
    NothingStableMissed
\* the workspace is ready, or entering it failed
CHECK_DEADLOCK FALSE
