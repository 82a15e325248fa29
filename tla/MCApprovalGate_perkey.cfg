CONSTANTS
  a1 = a1
  a2 = a2
  t1 = t1
  t2 = t2
  Approval <- OneApproval
  Thread <- OneThread
  Ttl = 2
  Freshness = 1
  PerKey = TRUE
  DiskFails = FALSE
  WorkerStops = FALSE
  MaxTime = 1
  MaxCrashes = 0
SPECIFICATION LiveSpec
PROPERTIES
  ApprovedIsResumed
CHECK_DEADLOCK FALSE
