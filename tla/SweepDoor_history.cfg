SPECIFICATION Spec
CONSTANTS
  MaxIntents = 3
  MaxSession = 1
  MaxTries = 2
  Outcome <- EveryOutcome
CHECK_DEADLOCK FALSE
INVARIANTS
  TypeOK
  ReplayMatchesDoor
  HistoryInIntentOrder
  CommittedWasDurable
  DurableIsInHistory
PROPERTY
  ProvedIsFinal
