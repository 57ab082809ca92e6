CONSTANTS
    Txn = {t1, t2}
    AsyncLoading = FALSE
    MaxCSN = 36
    MaxFaults = 1
    MaxCrashes = 2
SPECIFICATION Spec
SYMMETRY TxnSymmetry
CHECK_DEADLOCK FALSE
INVARIANTS
    TypeOK
    CommittedNotRolledBack
    CSNIsTheNodeNumber
    OldestSnapshotFirst
    UniqueTID
    RemovedEntriesAreWritten
    TailBehindUnwrittenCSNs
    SnapshotComplete
PROPERTIES
    SnapshotsMoveForward
