SPECIFICATION Spec
CONSTANTS
    Threads = {t1, t2}
    Keys = {k1, k2}
    Cells = {1, 2, 3, 4}
    None = None
    MaxConcurrent = 1
    MaxAttempts = 2
    MaxKeys = 1
    Window = 2
    Second = 2
    MaxTime = 3
SYMMETRY Symmetry
VIEW LiveView
INVARIANT LimiterAnswers
