CONSTANTS
  Service <- MCService
  Batches <- MCBatches
  Contexts <- MCContexts
  Bundles <- MCBundles
  Arrival = 2000
  Cap = 2
SPECIFICATION CorSpec
INVARIANTS CorTypeOK StormIsReported IncidentsPartition
CHECK_DEADLOCK FALSE
