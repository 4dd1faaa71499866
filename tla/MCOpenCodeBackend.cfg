CONSTANTS
  Prompts = {p1, p2}
  Owners = {o1}
  Parts = {1, 2}
  MaxAsks = 1
  MaxPipe = 2
  None = None
SPECIFICATION Spec
CONSTRAINT UntilMishap
SYMMETRY Symmetry
INVARIANTS ServersSound TurnsTold MessagesWhole 
CHECK_DEADLOCK FALSE
