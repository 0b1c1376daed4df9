CONSTANTS
    t1 = t1
    t2 = t2
    th1 = th1
    th2 = th2
    u1 = u1
    x1 = x1
    x2 = x2
    NoTask = NoTask
    NoThread = NoThread
    Threads = {th1}
    Users = {u1}
    Tasks = {t1, t2}
    Handlers = {t2}
    Pri <- PriDef
    Policy <- PolicyDef
    Inc = 1
    MaxNum = 3
    Batch = 4
    MaxThreads = {1}
    Attrs <- AttrsDef
    Suspended = {FALSE}
    GpCalls = {"create", "delete", "detach"}
    Careful = {"create", "resume", "setattr", "threads", "detach", "move",
        "delete", "release"}
    Waiters = {x1, x2}
    Timed = {x1, x2}
    Kinds = {"task", "group_all", "pool_any", "suspend"}
    Cached = {t2}
    WaitCalls = {"wsync"}
SYMMETRY Sym
SPECIFICATION GwSpec
CHECK_DEADLOCK FALSE
INVARIANTS SyncTold
