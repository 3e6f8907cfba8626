SPECIFICATION FairSpec
CONSTANTS
    Threads = {t1, t2}
    Keys = {k1, k2}
    Cells = {1, 2, 3, 4}
    None = None
    MaxConcurrent = 1
    MaxAttempts = 1
    MaxKeys = 1
    Window = 1
    Second = 2
    MaxTime = 1
INVARIANT TableBounded
INVARIANT FailuresBounded
INVARIANT WaitCoversWindow
PROPERTY OnlyWrongPasswordsCount
PROPERTY GateReopens
