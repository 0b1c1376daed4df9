CONSTANTS
    Tasks = {x1, x2, x3}
    Threads = {t1}
    R = R
    Q = Q
    Batch = 2
    Removals <- MCMarkCb
    Refill = FALSE
SPECIFICATION Spec
PROPERTY RemovedNotRun
CHECK_DEADLOCK FALSE
