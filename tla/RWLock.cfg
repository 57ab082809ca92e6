SPECIFICATION FairSpec
CONSTANTS
    Request <- PhaseRequests
    Write = {"w1", "w2"}
    Timed = {"r1", "w2"}
    Query = {"q"}
    QueryOf <- PhaseQueryOf
    NO_QUERY = "none"
    Follows <- PhaseFollows
    Awaits <- PhaseAwaits
    MaxThrows = 1
INVARIANTS
    WriterAlone
    UnlockFindsOwner
    WaitsForSomeone
    PhaseFair
PROPERTY EveryoneReturns
CHECK_DEADLOCK FALSE
