CONSTANTS
    Threads = {t1, t2, t3}
    NoSelf = NoSelf
    Dynamic = TRUE
    Limit = 2
    CreateMayFail = FALSE
    InitMax = 3
    InitMin = 0
    InitPaused = FALSE
    Batch = 2
    Calls = {"queue", "again", "remove", "suspend", "resume", "addref", "release", "GC"}
    AdjustArgs = {}
    MaxPending = 2
    MaxUserRef = 2
    MaxReleasing = 1
    MaxResizes = 0
SYMMETRY Sym
SPECIFICATION Spec
INVARIANTS TypeOK Counters NoStrandedWork WorkConserving UnbornOwned FreedOnce
PROPERTIES PoolUntilFreed
