SPECIFICATION Spec
CONSTANTS
  t1 = t1
  t2 = t2
  t3 = t3
  k1 = k1
  k2 = k2
  f = f
  g = g
  Absent = Absent
  Nobody = Nobody
  Client = {t1, t2, t3}
  Owner <- OneEach
  Replica = {1, 2, 3}
  Key = {k1}
  Field = {f}
  Durable = TRUE
  FieldLevel = TRUE
  DurableLocal = TRUE
  OrderedOutbox = TRUE
  Ops = {"save"}
  MaxTime <- SameTime
  MaxEdits = 3
  MaxLost = 0
  MaxFaults = 0
  MaxLocalFaults = 0
  MaxCrashes = 0
INVARIANTS
  ReplicasAgree
CHECK_DEADLOCK FALSE
