SPECIFICATION FairSpec
CONSTANTS
  None = None
  w1 = w1
  w2 = w2
  r1 = r1
  r2 = r2
  Writer <- OneWriter
  Reader <- BothReaders
  Destroyer <- NoWriter
  BuildOutcome <- AlwaysFits
  MaxAttempts = 2
  MaxBumps = 2

PROPERTY
  EventuallyFresh
