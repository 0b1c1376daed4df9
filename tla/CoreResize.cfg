CONSTANTS
    Threads = {t1, t2}
    NoSelf = NoSelf
    Dynamic = TRUE
    Limit = 1
    CreateMayFail = TRUE
    InitMax = 2
    InitMin = 0
    InitPaused = FALSE
    Batch = 1
    Calls = {"queue", "flush", "adjust", "addref", "release", "GC"}
    AdjustArgs <- MCAdjustArgs
    MaxPending = 2
    MaxUserRef = 2
    MaxReleasing = 1
    MaxResizes = 2
SYMMETRY Sym
SPECIFICATION Spec
INVARIANTS AliveRuns RefsAccounted
CHECK_DEADLOCK FALSE
