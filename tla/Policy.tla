------------------------------- MODULE Policy -------------------------------
(***************************************************************************)
(* The gates a proposed action passes before anything can execute it: the  *)
(* runbook it is pinned to, validate_action, and the policy engine with    *)
(* its sealed bundle and risk matrix.  All of them are pure functions of   *)
(* the action; Remediation puts them in the order the pipeline calls them. *)
(*                                                                         *)
(* An action is what the gates tell apart: its type, where it runs, the    *)
(* three parameters the runbooks declare, and whether it carries evidence, *)
(* a verification plan, a rollback template and the current pin.           *)
(***************************************************************************)
EXTENDS Integers

CONSTANTS
  Environments,   \* the environments an action may name
  Replicas,       \* the replica counts an action may name
  Versions        \* the versions an action may name

Absent == -1      \* no such replica count
Nowhere == "none" \* no such version

ASSUME EnvironmentsAssumption == Environments \subseteq {"mock", "dev", "staging", "prod"}
ASSUME ReplicasAssumption == Replicas \subseteq Nat
ASSUME VersionsAssumption == Versions \subseteq STRING /\ Nowhere \notin Versions

-----------------------------------------------------------------------------
(* Vocabulary.                                                             *)

ReadTypes == {"read", "describe", "logs", "metrics", "list"}

\* Types that must carry a rollback template, and that rollback_for inverts.
Reversible == {"restart_pod", "scale_deployment", "rolling_restart",
               "rollback_deployment", "patch_config"}

RedTypes == {"delete_deployment", "delete_namespace", "rbac_change",
             "secret_access", "db_write", "reboot_node", "shell"}

ActionTypes == ReadTypes \cup Reversible \cup RedTypes \cup {"delete_pod"}

Runbooks == {"bad-deploy-rollback", "crashloop-oom", "db-pool-saturation",
             "net-dep-failover", "injection-quarantine"}

\* text: what the string parameters hold; "shell" stands for a value with a
\* metacharacter or destructive SQL in it, at any depth.
Params == [replicas : Replicas \cup {Absent}, to_version : Versions \cup {Nowhere},
           text : {"none", "clean", "shell"}]

Action == [type : ActionTypes, env : Environments, params : Params,
           runbook : Runbooks, pinned : BOOLEAN, evidence : BOOLEAN,
           plan : BOOLEAN, rollback : BOOLEAN]

-----------------------------------------------------------------------------
(* The runbooks shipped with the code.                                     *)

AllowedActions(rb) ==
  ReadTypes \cup
    (CASE rb = "bad-deploy-rollback" -> {"rollback_deployment", "rolling_restart"}
       [] rb = "crashloop-oom" -> {"rollback_deployment", "patch_config", "restart_pod"}
       [] rb = "db-pool-saturation" -> {"scale_deployment", "restart_pod"}
       [] rb = "net-dep-failover" -> {"scale_deployment"}
       [] rb = "injection-quarantine" -> {})

\* validate_parameters: every declared parameter is there, in range, and no other.
ParametersMatch(rb, p) ==
  LET declares(name) == CASE rb = "bad-deploy-rollback" -> name = "to_version"
                          [] rb = "crashloop-oom" -> name = "text"
                          [] rb \in {"db-pool-saturation", "net-dep-failover"} -> name = "replicas"
                          [] rb = "injection-quarantine" -> FALSE
  IN  /\ declares("replicas") <=> p.replicas \in 1..10
      /\ p.replicas \in 1..10 \cup {Absent}
      /\ declares("to_version") <=> p.to_version # Nowhere
      /\ declares("text") <=> p.text # "none"

-----------------------------------------------------------------------------
(* validate_action                                                         *)

ReplicasInRange(p) == p.replicas \in 1..10 \cup {Absent}

\* The errors found against the runbook loaded for the action.
Issues(a, rb) ==
  IF a.type = "shell" THEN {"shell"}
  ELSE {e \in {"not allowed", "pin", "evidence", "plan", "replicas", "scan",
               "rollback"} :
          \/ e = "not allowed" /\ a.type \notin AllowedActions(rb)
          \/ e = "pin" /\ (a.runbook # rb \/ ~a.pinned)
          \/ e = "evidence" /\ a.type \notin ReadTypes /\ ~a.evidence
          \/ e = "plan" /\ a.type \notin ReadTypes /\ ~a.plan
          \/ e = "replicas" /\ ~ReplicasInRange(a.params)
          \/ e = "scan" /\ a.params.text = "shell"
          \/ e = "rollback" /\ a.type \in Reversible /\ ~a.rollback}

-----------------------------------------------------------------------------
(* The policy engine.                                                      *)

\* deny_rules of bundle_v1.yaml; "any" is a rule that names no environment.
DenyRules ==
  {<<"shell", "any">>, <<"delete_namespace", "prod">>, <<"delete_deployment", "any">>,
   <<"delete_pod", "prod">>, <<"rbac_change", "any">>, <<"secret_access", "any">>,
   <<"db_write", "any">>, <<"reboot_node", "any">>}

RuleMatches(a) == \E r \in DenyRules : r[1] = a.type /\ r[2] \in {"any", a.env}

\* tiers of risk_matrix.yaml.
Tier(type, env) ==
  CASE type \in ReadTypes -> "GREEN"
    [] type \in {"restart_pod", "scale_deployment"} ->
         IF env \in {"mock", "dev"} THEN "GREEN" ELSE "YELLOW"
    [] type \in {"rolling_restart", "rollback_deployment", "patch_config"} -> "YELLOW"
    [] type = "delete_pod" -> IF env = "prod" THEN "RED" ELSE "YELLOW"
    [] OTHER -> "RED"

\* The conditions under which _evaluate refuses before it looks at the risk.
Refused(a, envCtx, role, valid) ==
  \/ ~valid                       \* malformed bundle or matrix, or any exception
  \/ envCtx # a.env
  \/ RuleMatches(a)
  \/ role \notin {"viewer", "approver", "admin"}

\* Bug: an oversized blast radius does not stop a GREEN mutation.
EvaluateIgnoringBlast(a, envCtx, role, blastBig, valid) ==
  CASE Refused(a, envCtx, role, valid) \/ Tier(a.type, a.env) = "RED" -> "DENY"
    [] Tier(a.type, a.env) = "YELLOW" -> "ESCALATE"
    [] OTHER -> "ALLOW"

Evaluate(a, envCtx, role, blastBig, valid) ==
  LET risk == Tier(a.type, a.env)
  IN  IF Refused(a, envCtx, role, valid) \/ risk = "RED" THEN "DENY"
      ELSE IF risk = "GREEN" /\ ~(blastBig /\ a.type \in Reversible) THEN "ALLOW"
      ELSE "ESCALATE"
=============================================================================
