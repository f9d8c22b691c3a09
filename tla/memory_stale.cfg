SPECIFICATION MemorySpec
CONSTANTS
  Uuid = {u1, u2, u3}
  KeySet = {key}
  Value = {a, b}
  Null = Null
  MaxQueue = 2
SYMMETRY Symmetries
INVARIANT NoSpuriousRejection
CHECK_DEADLOCK FALSE
