CONSTANTS
    Threads = {t1, t2}
    NoSelf = NoSelf
    Dynamic = FALSE
    Limit = 0
    CreateMayFail = FALSE
    InitMax = 2
    InitMin = 0
    InitPaused = FALSE
    Batch = 1
    Calls = {"queue", "remove", "suspend", "resume", "release", "GC"}
    AdjustArgs = {}
    MaxPending = 1
    MaxUserRef = 1
    MaxReleasing = 1
    MaxResizes = 0
    Waiters = {w1}
    Timed = {}
    Kinds = {"wait_all", "suspend", "throttle_wait"}
    LeavesGCInTime = TRUE
    RtCalls = {"wakeup", "throttle_ctl"}
SYMMETRY Sym
SPECIFICATION RtSpec
INVARIANTS NoWaiterFreed
PROPERTIES WaitAllWaits SuspendWaits
