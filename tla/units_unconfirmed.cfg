SPECIFICATION Spec
CONSTANTS
  Columns = {a, b}
  Calls = {c1, c2}
  Engines = {"postgres", "mysql", "sqlite"}
  None = None
  MaxWrites = 2
  Retries = 1
  MaxSteps = 1
  Reverts = FALSE
INVARIANT LastSaveStoredAfterRollback
CHECK_DEADLOCK FALSE
