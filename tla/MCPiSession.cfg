CONSTANTS
  Prompts = {p1, p2}
  Owners = {o1}
  MaxAsks = 1
  MaxPipe = 3
  None = None
SPECIFICATION Spec
SYMMETRY Symmetry
INVARIANTS ProcessesSound DialogsSound TurnsTold 
CHECK_DEADLOCK FALSE
