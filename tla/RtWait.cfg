CONSTANTS
    Threads = {t1, t2}
    NoSelf = NoSelf
    Dynamic = TRUE
    Limit = 1
    CreateMayFail = FALSE
    InitMax = 2
    InitMin = 0
    InitPaused = FALSE
    Batch = 1
    Calls = {"queue", "release"}
    AdjustArgs = {}
    MaxPending = 1
    MaxUserRef = 1
    MaxReleasing = 1
    MaxResizes = 0
    Waiters = {w1, w2}
    Timed = {w2}
    Kinds = {"wait_all"}
    LeavesGCInTime = TRUE
    RtCalls = {}
SPECIFICATION RtFairSpec
INVARIANTS NeedKept
PROPERTIES WaitEnds ReleaseEnds
