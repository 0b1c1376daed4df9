CONSTANTS
    Threads = {t1}
    NoSelf = NoSelf
    Dynamic = TRUE
    Limit = 1
    CreateMayFail = FALSE
    InitMax = 1
    InitMin = 0
    InitPaused = FALSE
    Batch = 1
    Calls = {"queue"}
    AdjustArgs = {}
    MaxPending = 2
    MaxUserRef = 1
    MaxReleasing = 1
    MaxResizes = 0
    Waiters = {w1}
    Timed = {}
    Kinds = {"wait_all"}
    LeavesGCInTime = TRUE
    RtCalls = {"wakeup"}
SPECIFICATION RtFairSpec
PROPERTIES InterruptEndsWait
