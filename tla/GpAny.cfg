CONSTANTS
    t1 = t1
    t2 = t2
    th1 = th1
    th2 = th2
    u1 = u1
    x1 = x1
    x2 = x2
    NoTask = NoTask
    NoThread = NoThread
    Threads = {th1}
    Users = {u1}
    Tasks = {t1}
    Handlers = {t1}
    Pri <- PriDef
    Policy <- PolicyDef
    Inc = 1
    MaxNum = 2
    Batch = 4
    MaxThreads = {1}
    Attrs <- AttrsDef
    Suspended = {FALSE}
    GpCalls = {"create", "delete", "detach"}
    Careful = {"create", "resume", "setattr", "threads", "detach", "move", "release",
        "grow"}
    Waiters = {x1}
    Timed = {}
    Kinds = {"group_any"}
    Cached = {}
    WaitCalls = {}
SPECIFICATION GwFairSpec
CHECK_DEADLOCK FALSE
PROPERTIES DeleteEnds
