CONSTANTS
  a1 = a1
  a2 = a2
  t1 = t1
  t2 = t2
  Approval <- TwoApprovals
  Thread <- OneThread
  Ttl = 2
  Freshness = 1
  PerKey = FALSE
  DiskFails = FALSE
  WorkerStops = FALSE
  MaxTime = 3
  MaxCrashes = 1
SPECIFICATION LiveSpec
PROPERTIES
  ApprovedIsResumed
CHECK_DEADLOCK FALSE
