SPECIFICATION Spec
CONSTANTS
    Threads = {1, 2}
    Writers = {w1, w2}
    Loads = {l1, l2}
    MaxOps = 2
    PageSize = 1
    MaxOpens = 2
    Budget = 3
    w1 = w1
    w2 = w2
    l1 = l1
    l2 = l2
SYMMETRY Symmetry
CONSTRAINT HoldsOne
INVARIANTS EditsSurvive PublishesUnlocked 
CHECK_DEADLOCK FALSE
