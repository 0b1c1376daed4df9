CONSTANTS
    Threads = {t1}
    NoSelf = NoSelf
    Dynamic = TRUE
    Limit = 1
    CreateMayFail = FALSE
    InitMax = 1
    InitMin = 0
    InitPaused = FALSE
    Batch = 1
    Calls = {"queue", "release"}
    AdjustArgs = {}
    MaxPending = 2
    MaxUserRef = 1
    MaxReleasing = 1
    MaxResizes = 0
    Waiters = {w1, w2}
    Timed = {}
    Kinds = {"wait_all", "throttle_wait"}
    LeavesGCInTime = TRUE
    RtCalls = {"throttle_ctl"}
SPECIFICATION RtFairSpec
PROPERTIES ReleaseEnds
