CONSTANTS
  Prompts = {x1}
  MaxLog = 3
  MaxAsks = 1
  MaxFetches = 3
  MaxDrops = 1
  MaxWire = 2
  PageSize = 1
  SameId = TRUE
  None = None
SPECIFICATION Spec
INVARIANTS  Converges  LoadingEnds
CHECK_DEADLOCK FALSE
