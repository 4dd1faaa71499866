CONSTANTS
  Handlers = {h1, h2}
  Ids = {i1, i2, i3}
  Digests = {d1, d2}
  RememberedPrompts = 2
  MaxCuts = 1
  MaxRestarts = 1
  MaxTurns = 4
SPECIFICATION Spec
SYMMETRY Symmetry
INVARIANTS TypeOK LedgerSound NeverLost DuplicatesHaveReasons
