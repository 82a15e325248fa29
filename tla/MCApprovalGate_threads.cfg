CONSTANTS
  a1 = a1
  a2 = a2
  t1 = t1
  t2 = t2
  Approval <- OneApproval
  Thread <- TwoThreads
  Ttl = 2
  Freshness = 2
  PerKey = TRUE
  DiskFails = TRUE
  WorkerStops = TRUE
  MaxTime = 3
  MaxCrashes = 1
SPECIFICATION Spec
INVARIANTS
  TypeOK
  ApprovedByToken
  PermitNotWasted
  DenialSticks
PROPERTIES
  ImplementsLedger
CHECK_DEADLOCK FALSE
