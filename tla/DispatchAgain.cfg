CONSTANTS
    Tasks = {x1, x2, x3}
    Threads = {t1, t2}
    R = R
    Q = Q
    Batch = 2
    Removals <- MCAll
    Refill = TRUE
SPECIFICATION Spec
PROPERTY HandledOnce
CHECK_DEADLOCK FALSE
