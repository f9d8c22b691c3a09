SPECIFICATION Spec
CONSTANTS
  Columns = {a, b}
  Calls = {c1, c2}
  Engines = {"mysql"}
  None = None
  MaxWrites = 5
  Retries = 0
  MaxSteps = 0
  Reverts = FALSE
INVARIANT LastSaveStoredInBuckets
CHECK_DEADLOCK FALSE
