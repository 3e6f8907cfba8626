SPECIFICATION FairSpec
CONSTANTS
    Ids = {a1}
    Workers = {w1, w2}
    None = None
    Lifetimes = {1}
    Grace = 2
    StagingMax = 2
    StartLag = 1
    MaxTime = 4
    MaxFaults = 1
CHECK_DEADLOCK FALSE
INVARIANT RowsHaveBytes
PROPERTY SweepSparesLive
PROPERTY ImplementsLifecycle
PROPERTY ExpiredIsRemoved
PROPERTY GarbageIsReclaimed
