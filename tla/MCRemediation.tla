--------------------------- MODULE MCRemediation ---------------------------
(* Instance of Remediation: every runbook, the types that differ in tier,  *)
(* allowance or executor, sound proposals and proposals with one flaw.     *)
EXTENDS Remediation

Types == {"read", "restart_pod", "scale_deployment", "rolling_restart",
          "rollback_deployment", "patch_config", "delete_pod", "shell"}

NoParams == [replicas |-> Absent, to_version |-> Nowhere, text |-> "none"]

Param(rb) ==
  CASE rb = "bad-deploy-rollback" -> {[NoParams EXCEPT !.to_version = v] : v \in {Older, Current}}
    [] rb = "crashloop-oom" -> {[NoParams EXCEPT !.text = "clean"]}
    [] rb \in {"db-pool-saturation", "net-dep-failover"} -> {[NoParams EXCEPT !.replicas = 5]}
    [] OTHER -> {NoParams}

Sound ==
  UNION {{[type |-> t, env |-> e, params |-> p, runbook |-> rb, pinned |-> TRUE,
           evidence |-> TRUE, plan |-> TRUE, rollback |-> TRUE] :
             t \in Types \cap AllowedActions(rb), e \in Environments, p \in Param(rb)} :
         rb \in Runbooks}

Flawed(a) ==
  {[a EXCEPT !.pinned = FALSE], [a EXCEPT !.evidence = FALSE], [a EXCEPT !.rollback = FALSE],
   [a EXCEPT !.type = "delete_pod"], [a EXCEPT !.type = "shell"],
   [a EXCEPT !.params.replicas = 0], [a EXCEPT !.params.text = "shell"],
   [a EXCEPT !.runbook = "injection-quarantine"]}

MCProposals ==
  Sound \cup UNION {Flawed(a) : a \in {s \in Sound : s.type \in {"patch_config", "scale_deployment"}}}
=============================================================================
