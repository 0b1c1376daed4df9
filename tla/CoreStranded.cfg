CONSTANTS
    Threads = {t1, t2}
    NoSelf = NoSelf
    Dynamic = TRUE
    Limit = 1
    CreateMayFail = FALSE
    InitMax = 1
    InitMin = 0
    InitPaused = FALSE
    Batch = 1
    Calls = {"queue", "flush"}
    AdjustArgs = {}
    MaxPending = 2
    MaxUserRef = 1
    MaxReleasing = 2
    MaxResizes = 2
SPECIFICATION FairSpec
PROPERTY WorkServed
CHECK_DEADLOCK FALSE
