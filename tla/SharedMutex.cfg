SPECIFICATION FairSpec
CONSTANT Thread = {a, b, c}
INVARIANTS
    MutualExclusion
    ReadersCounted
    NoLostWakeup
PROPERTIES
    WaitersEnter
