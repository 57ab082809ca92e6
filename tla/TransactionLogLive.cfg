CONSTANTS
    Txn = {t1, t2}
    AsyncLoading = TRUE
    MaxCSN = 34
    MaxFaults = 1
    MaxCrashes = 1
SPECIFICATION FairSpec
CHECK_DEADLOCK FALSE
PROPERTIES
    ImplementsCommitLog
    UnknownStateIsSettled
    CommitBecomesVisible
