SPECIFICATION Spec
CONSTANTS
    Txn = {t1, t2, t3}
    Part <- PairParts
    Initial <- PairInitial
    Covers <- PairCovers
    Readers = {t1, t2, t3}
    MaxKills = 1
    MaxDrops = 0
    MaxCrashes = 0
    AsyncLoading = FALSE
SYMMETRY TxnSymmetry
INVARIANTS
    ReadsSnapshot
    VisiblePartsExist
    RollbackUnlocks
CHECK_DEADLOCK FALSE
