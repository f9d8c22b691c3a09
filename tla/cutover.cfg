SPECIFICATION Spec
CONSTANTS
  Keys = {1, 2, 3}
  BatchSize = 2
  MaxWrites = 2
  MaxCopies = 2
  Strict = {FALSE, TRUE}
INVARIANTS
  LockStep
  CopyReconciles
CHECK_DEADLOCK FALSE
