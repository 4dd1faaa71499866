SPECIFICATION Spec
CONSTANTS
    Prompts = {p1, p2}
    Efforts = {e1, e2}
    Requests = {}
    Owners = {}
    MaxInFlight = 1
    MaxProcs = 2
    MaxDeaths = 1
    MaxReaps = 1
    MaxOwnTurns = 1
    MaxDiscards = 0
    MaxInterrupts = 1
    e1 = e1
    e2 = e2
    p1 = p1
    p2 = p2
SYMMETRY Symmetry
INVARIANTS StartsComplete RestsOnNoDeadProcess  TurnsTold
CHECK_DEADLOCK FALSE
