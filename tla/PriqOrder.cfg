CONSTANTS
    Tasks = {x1, x2, x3}
    PriqNum = 3
    Pris = {40, 50, 90}
    Policies = {"TOP", "BACK"}
    Permanents = {TRUE, FALSE}
SYMMETRY Sym
SPECIFICATION Spec
INVARIANTS QueuesSound
PROPERTY BehindNoLower
