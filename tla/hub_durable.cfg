SPECIFICATION Spec
CONSTANTS
  c1 = c1
  k1 = k1
  k2 = k2
  f = f
  Absent = Absent
  Nobody = Nobody
  Client = {c1}
  Key = {k1, k2}
  Field = {f}
  Durable = TRUE
  OrderedBatches = TRUE
  Pushable <- MCPushable
  MaxBatch = 2
  MaxPushes = 3
  MaxFaults = 2
INVARIANTS
  SeqIncreasing
  LogMonotone
  ReaderHasPrefix
PROPERTIES
  RefinesRegister
CHECK_DEADLOCK FALSE
