CONSTANTS
    t1 = t1
    t2 = t2
    t3 = t3
    c1 = c1
    Pages = {0}
    BlockObjs = 2
    Regain = 5
    Threads = {t1, t2}
    Buffer = {t1}
    ThreadLimit = 1
    NoThread = NoThread
    NoObject = NoObject
    Callers = {c1}
    LocalLimit = 2
    DelayBelow = 4
    CreatedAttr <- CreatedDef
    ReleaseAttr <- ReleaseDef
    DoneBy = {"rt", "gp"}
    Markable = {t2}
    Careful = {"ascending", "marks"}
SPECIFICATION ObjFairSpec
CHECK_DEADLOCK FALSE
PROPERTIES ReleaseFrees
INVARIANTS OnePlace PoolSound FlagsKept AllFreed
