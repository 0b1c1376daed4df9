CONSTANTS
    Threads = {t1, t2}
    NoSelf = NoSelf
    Dynamic = TRUE
    Limit = 1
    CreateMayFail = FALSE
    InitMax = 2
    InitMin = 0
    InitPaused = FALSE
    Batch = 1
    Calls = {"queue", "remove", "suspend", "resume", "addref", "release"}
    AdjustArgs = {}
    MaxPending = 2
    MaxUserRef = 2
    MaxReleasing = 2
    MaxResizes = 0
SPECIFICATION FairSpec
INVARIANTS NoTaskFreed
PROPERTIES PoolSafe PoolServes PoolFinishes
