CONSTANTS
    t1 = t1
    t2 = t2
    t3 = t3
    th1 = th1
    th2 = th2
    u1 = u1
    NoTask = NoTask
    NoThread = NoThread
    Threads = {th1, th2}
    Users = {u1}
    Tasks = {t1, t2, t3}
    Handlers = {t2}
    Pri <- PriDef
    Policy <- PolicyDef
    Inc = 1
    MaxNum = 2
    Batch = 4
    MaxThreads = {1, 2}
    Attrs <- AttrsDef
    Suspended = {FALSE}
    GpCalls = {"create", "delete", "suspend", "suspend_all", "resume", "resume_all",
        "setattr", "threads", "remove", "mark"}
    Careful = {"create", "resume", "setattr", "threads"}
SYMMETRY Sym
SPECIFICATION GpSpec
CHECK_DEADLOCK FALSE
INVARIANTS FirstEntries GroupCounts NoSpinning
PROPERTIES TakesFirst
