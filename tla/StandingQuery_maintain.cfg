SPECIFICATION Spec
CONSTANTS
  None = None
  k1 = k1
  k2 = k2
  a = a
  b = b
  m1 = m1
  m2 = m2
  q1 = q1
  q2 = q2
  Key <- TwoKeys
  Val <- TwoVals
  Mutator <- TwoMutators
  Query <- OneQuery
  MaxAttempts = 2
  MaxCommits = 3
  MaxRegister = 2
CHECK_DEADLOCK FALSE
SYMMETRY Symmetry
INVARIANTS
  TypeOK
  EventsMatchCommits
  MaintainedIsPrefix
  OverlapAbsorbed
