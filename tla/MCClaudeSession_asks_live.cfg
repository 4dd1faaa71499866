SPECIFICATION FairSpec
CONSTANTS
    Prompts = {p1}
    Efforts = {e1}
    Requests = {r1, r2}
    Owners = {o1}
    MaxInFlight = 1
    MaxProcs = 1
    MaxDeaths = 1
    MaxReaps = 0
    MaxOwnTurns = 0
    MaxDiscards = 0
    MaxInterrupts = 0
    e1 = e1
    o1 = o1
    p1 = p1
    r1 = r1
    r2 = r2
PROPERTIES RequestsEndWithProcess
CHECK_DEADLOCK FALSE
