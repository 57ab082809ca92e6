CONSTANTS
    Txn = {t1, t2}
    AsyncLoading = TRUE
    MaxCSN = 35
    MaxFaults = 0
    MaxCrashes = 1
SPECIFICATION Spec
SYMMETRY TxnSymmetry
CHECK_DEADLOCK FALSE
INVARIANTS
    RemovedEntriesAreWritten
