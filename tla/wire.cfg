SPECIFICATION FairSpec
CONSTANTS
  Requests = {r1, r2}
  None = None
  Commands = {r2}
  MaxSockets = 2
  MaxCloses = 1
  Late = {FALSE, TRUE}
INVARIANTS
  AnswersMatch
  HeardBeforeAnswered
  HeardInOrder
PROPERTIES
  EveryRequestEnds
CHECK_DEADLOCK FALSE
