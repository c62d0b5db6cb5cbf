CONSTANTS
  a1 = a1
  a2 = a2
  e1 = e1
  e2 = e2
  x1 = x1
  x2 = x2
  None = None
  Attempts <- MCAttempts
  Events <- MCEvents
  Garbage <- MCGarbage
  IdIn <- MCIdIn
SPECIFICATION FairSpec
INVARIANTS
  TypeOK
  TrueMeansStored
PROPERTIES
  EveryAttemptAnswered
CHECK_DEADLOCK FALSE
