CONSTANTS
  a1 = a1
  a2 = a2
  auto = auto
  h1 = h1
  h2 = h2
  Ref <- OneApproval
  NoPermit = NoPermit
  MaxReplans = 2
  AutoRef = auto
  Publisher <- NoPublisher
  Freshness = 1
  CallsFail = FALSE
  PolicyTurns = FALSE
  MaxTime = 0
SPECIFICATION LiveSpec
PROPERTIES
  GrantEndsTheWait
CHECK_DEADLOCK FALSE
