CONSTANTS
  Threads = {th1}
  Prompts = {p1, p2}
  Owners = {o1}
  MaxAsks = 1
  MaxPipe = 2
  None = None
SPECIFICATION Spec
SYMMETRY Symmetry
INVARIANTS ServersSound RequestsSound TurnsTold StartedIsNotIdle
CHECK_DEADLOCK FALSE
