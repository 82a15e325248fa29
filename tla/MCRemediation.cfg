CONSTANTS
  Environments = {"dev", "prod"}
  Replicas = {0, 3, 5}
  Versions = {"v22", "v23"}
  Proposals <- MCProposals
  Errors = {5, 30, 180}
  Prober = {"engines"}
SPECIFICATION Spec
INVARIANTS TypeOK Authorized ResolvedIsMeasured RollbackUndoes
CHECK_DEADLOCK FALSE
