SPECIFICATION FairSpec
CONSTANTS
  Uuid = {u1}
  Value = {1, 2}
  Matching = {2}
  Query <- Kinds
  Slot = {1, 2}
  None = None
  MaxWrites = 2
  MaxReads = 2
  MaxErrors = 1
INVARIANTS
  LiveFreshIfReported
  CacheFreshUnlessLate
  InstancesFresh
PROPERTIES
  LiveNeverRegresses
  EventuallyFresh
CHECK_DEADLOCK FALSE
