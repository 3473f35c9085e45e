SPECIFICATION Spec
CONSTANTS
  None = None
  k1 = k1
  k2 = k2
  a = a
  b = b
  m1 = m1
  m2 = m2
  q1 = q1
  q2 = q2
  Key <- OneKey
  Val <- OneVal
  Mutator <- OneMutator
  Query <- OneQuery
  MaxAttempts = 1
  MaxCommits = 3
  MaxRegister = 1
CHECK_DEADLOCK FALSE
INVARIANT
  RedundantAbsorbed
