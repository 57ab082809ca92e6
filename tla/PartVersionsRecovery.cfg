SPECIFICATION Spec
CONSTANTS
    Txn = {t1, t2}
    Part <- ChainParts
    Initial <- ChainInitial
    Covers <- ChainCovers
    Readers = {}
    MaxKills = 0
    MaxDrops = 1
    MaxCrashes = 2
    AsyncLoading = FALSE
SYMMETRY TxnSymmetry
INVARIANTS
    NoRowsTwice
    
    RecoversCommitted
CHECK_DEADLOCK FALSE
