SPECIFICATION FairSpec
CONSTANTS
    Request <- SelectRequests
    Write = {"w1", "w2"}
    Timed = {"w2"}
    Query = {"select", "alter", "drop"}
    QueryOf <- SelectQueryOf
    NO_QUERY = "none"
    Follows <- ThreadsFollow
    Awaits <- ThreadsAwait
    MaxThrows = 0
PROPERTY EveryoneReturns
CHECK_DEADLOCK FALSE
