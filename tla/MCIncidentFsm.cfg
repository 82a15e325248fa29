CONSTANTS
  p1 = p1
  p2 = p2
  Ref <- MCRef
  NoPermit = NoPermit
  MaxReplans = 2
  MaxTime = 3
SPECIFICATION Spec
INVARIANTS
  TypeOK
  NoSkip
  PermitAccounted
  SweepSparesExecution
  BoundedRetries
CHECK_DEADLOCK FALSE
