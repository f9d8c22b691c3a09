SPECIFICATION FairSpec
CONSTANTS
  Requests = {r1, r2}
  None = None
  Commands = {r2}
  MaxSockets = 2
  MaxCloses = 0
  Late = {FALSE, TRUE}
PROPERTY
  LateRequestsEnd
CHECK_DEADLOCK FALSE
