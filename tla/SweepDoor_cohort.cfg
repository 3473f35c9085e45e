SPECIFICATION Spec
CONSTANTS
  MaxIntents = 2
  MaxSession = 0
  MaxTries = 1
  Outcome <- OnlyOk
CHECK_DEADLOCK FALSE
INVARIANT
  CohortIsWaiting
