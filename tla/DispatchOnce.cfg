CONSTANTS
    Tasks = {x1, x2, x3, x4}
    Threads = {t1, t2}
    R = R
    Q = Q
    Batch = 2
    Removals <- MCApart
    Refill = FALSE
SPECIFICATION FairSpec
INVARIANTS ListsApart CountedFirst
PROPERTIES HandledOnce Handled
