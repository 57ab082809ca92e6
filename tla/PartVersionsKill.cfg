SPECIFICATION Spec
CONSTANTS
    Txn = {t1, t2}
    Part <- ChainParts
    Initial <- ChainInitial
    Covers <- ChainCovers
    Readers = {}
    MaxKills = 1
    MaxDrops = 0
    MaxCrashes = 1
    AsyncLoading = FALSE
SYMMETRY TxnSymmetry
INVARIANT LoadsWorkingSet
CHECK_DEADLOCK FALSE
