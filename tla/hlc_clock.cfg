SPECIFICATION Spec
CONSTANTS
  Node <- MCNode
  Malformed = Malformed
  Base = 2
  CounterWidth = 1
  PhysicalWidth = 2
  MaxWall = 2
  MaxIssued = 2
  MaxCtr = 3
INVARIANTS
  TextOrderWithinWidth
PROPERTIES
  CausalOrder
CHECK_DEADLOCK FALSE
