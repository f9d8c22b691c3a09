SPECIFICATION FairSpec
CONSTANTS
  t1 = t1
  t2 = t2
  t3 = t3
  k1 = k1
  k2 = k2
  f = f
  g = g
  Absent = Absent
  Nobody = Nobody
  Client = {t1, t2}
  Owner <- OneEach
  Replica = {1, 2}
  Key = {k1}
  Field = {f}
  Durable = FALSE
  FieldLevel = FALSE
  DurableLocal = TRUE
  OrderedOutbox = TRUE
  Ops = {"save", "remove", "patch", "sharedIds", "editNew", "whileSyncing"}
  MaxTime <- SameTime
  MaxEdits = 2
  MaxLost = 1
  MaxFaults = 0
  MaxLocalFaults = 0
  MaxCrashes = 0
INVARIANTS
  ReplicasAgree
  NewestWins
PROPERTIES
  EditFollowsWhatItReplaces
  EventuallyAgree
CHECK_DEADLOCK FALSE
