CONSTANTS
    Threads = {t1, t2}
    NoSelf = NoSelf
    Dynamic = TRUE
    Limit = 1
    CreateMayFail = FALSE
    InitMax = 2
    InitMin = 0
    InitPaused = FALSE
    Batch = 1
    Calls = {"queue", "again", "suspend", "release"}
    AdjustArgs = {}
    MaxPending = 2
    MaxUserRef = 1
    MaxReleasing = 2
    MaxResizes = 0
SYMMETRY Sym
SPECIFICATION Spec
INVARIANT NoTaskFreed
