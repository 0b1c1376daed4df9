CONSTANTS
    Threads = {t1, t2}
    NoSelf = NoSelf
    Dynamic = FALSE
    Limit = 0
    CreateMayFail = FALSE
    InitMax = 2
    InitMin = 0
    InitPaused = FALSE
    Batch = 1
    Calls = {"queue", "again", "suspend", "resume"}
    AdjustArgs = {}
    MaxPending = 1
    MaxUserRef = 1
    MaxReleasing = 1
    MaxResizes = 0
    Waiters = {w1, w2}
    Timed = {w2}
    Kinds = {"suspend", "throttle_wait"}
    LeavesGCInTime = TRUE
    RtCalls = {"throttle_ctl"}
SPECIFICATION RtFairSpec
PROPERTIES WorkServed SuspendWaits WaitEnds
