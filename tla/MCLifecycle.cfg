CONSTANTS
  a1 = a1
  a2 = a2
  auto = auto
  h1 = h1
  h2 = h2
  Ref <- TwoApprovals
  NoPermit = NoPermit
  MaxReplans = 2
  AutoRef = auto
  Publisher <- OnePublisher
  Freshness = 1
  CallsFail = TRUE
  PolicyTurns = TRUE
  MaxTime = 1
SPECIFICATION LiveSpec
INVARIANTS
  TypeOK
  ExecutedAsApproved
  ResolvedIsVerified
PROPERTIES
  ImplementsIncidentFsm
  ChangeIsJudged
CHECK_DEADLOCK FALSE
