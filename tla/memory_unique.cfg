SPECIFICATION MemorySpec
CONSTANTS
  Uuid = {u1, u2, u3}
  KeySet = {key}
  Value = {a, b}
  Null = Null
  MaxQueue = 3
SYMMETRY Symmetries
INVARIANTS
  UniqueHolds
  IndexCoversStore
PROPERTIES
  ImplementsUniqueStore
CHECK_DEADLOCK FALSE
