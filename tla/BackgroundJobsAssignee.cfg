SPECIFICATION FairSpec
CONSTANTS
    s1 = s1
    s2 = s2
    ops1 = ops1
    ops2 = ops2
    moves1 = moves1
    merge_mutate = merge_mutate
    move = move
    common = common
    gt1 = gt1
    gt2 = gt2
    mt1 = mt1
    ct1 = ct1
    gi1 = gi1
    gi2 = gi2
    mi1 = mi1
    ci1 = ci1
    NONE = NONE
    Storage = {s1, s2}
    Assignee = {ops1, ops2, moves1}
    Executor = {merge_mutate, move, common}
    Dynamic = {merge_mutate}
    Thread = {gt1, gt2, mt1, ct1}
    Item = {gi1, gi2, mi1, ci1}
    Setup <- MCSetup
    Home <- MCHome
    StorageOf <- MCStorageOf
    Priority <- MCPriority
    LastMaxTasks <- MCLastMaxTasks
    DataProcessing <- MCDataProcessing
    Moving <- MCMoving
    ExecutorOrder <- MCExecutorOrder
    MovesExecutor = move
    CommonExecutor = common
    Watched = {gi1}
    MaxRestarts = 1
    MaxAlters = 1
INVARIANTS
    OneQueue
    NoTaskOutlivesTable
    ActiveComesBack
    NoSleepThroughWork
PROPERTIES
    FinishReturns
    NoTaskStarves
CHECK_DEADLOCK FALSE
