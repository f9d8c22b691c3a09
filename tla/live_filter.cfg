SPECIFICATION Spec
CONSTANTS
  Uuid = {u1}
  Value = {1, 2}
  Matching = {2}
  Query <- FilteredCount
  Slot = {1, 2}
  None = None
  MaxWrites = 2
  MaxReads = 2
  MaxErrors = 0
INVARIANT LiveFresh
CHECK_DEADLOCK FALSE
