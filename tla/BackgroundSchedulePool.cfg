SPECIFICATION FairSpec
CONSTANTS
    t1 = t1
    t2 = t2
    w1 = w1
    w2 = w2
    w3 = w3
    c1 = c1
    c2 = c2
    Task = {t1}
    Thread = {w1, w2}
    FirstThreads = {w1}
    Caller = {c1}
    NONE = NONE
    MaxCalls = 4
INVARIANTS
    OneAtATime
    FlagInvariants
    DelayedIsListed
    ScheduledIsQueued
PROPERTIES
    ImplementsScheduledTask
    KeepsPromise
    CallersReturn
CHECK_DEADLOCK FALSE
