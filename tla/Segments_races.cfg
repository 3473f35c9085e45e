\* Two threads that mutate, remove or lose, and two read sessions.
SPECIFICATION Spec
CONSTANTS
  None = None
  w1 = w1
  w2 = w2
  r1 = r1
  r2 = r2
  Writer <- BothWriters
  Reader <- BothReaders
  Destroyer <- BothWriters
  BuildOutcome <- MayDecline
  MaxAttempts = 2
  MaxBumps = 2
SYMMETRY ThreadSymmetry
CHECK_DEADLOCK FALSE
INVARIANTS
  TypeOK
  VisibleWritesCounted
  SettledServesExact
