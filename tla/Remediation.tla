---------------------------- MODULE Remediation ----------------------------
(***************************************************************************)
(* One action from proposal to verdict: the gates of run_pipeline and      *)
(* resume_from_approval, the executor of the selected tier, the            *)
(* independent verifier, and the single automatic rollback.                *)
(*                                                                         *)
(* The Kubernetes executor is a singleton whose _connected flag every      *)
(* thread reads and connect() writes.  An action crosses it several times  *)
(* (_apply_action, execute, get_deployment_state twice) while the cluster  *)
(* comes and goes and GET /meta/engines probes it from another thread.     *)
(*                                                                         *)
(* Error rates are in thousandths.  A live state carries no error rate, so *)
(* readers take the default 1.0; Prometheus and the cluster answer what    *)
(* they like.  Pods are ready and nothing crashes in a mock state, so      *)
(* those checks are left out.  The FSM, the audit chain and the permit are *)
(* the subject of other modules.                                           *)
(***************************************************************************)
EXTENDS Policy, Sequences, FiniteSets

CONSTANTS
  Proposals,      \* the actions a planner or POST /approvals/request brings
  Errors,         \* error rates the telemetry starts from
  Prober          \* threads of GET /meta/engines

ASSUME ProposalsAssumption == Proposals \subseteq Action
ASSUME ErrorsAssumption == Errors \subseteq 0..1000
ASSUME ProberAssumption == "pipeline" \notin Prober

VARIABLES
  action,         \* the proposed action; its environment is the incident's or not
  setting,        \* settings and inputs fixed for the incident
  sealed,         \* the policy files on disk verify
  pc,             \* where the pipeline's thread is
  consent,        \* what the permit rests on: "none", "auto" or "human"
  probe,          \* where each thread is inside is_connected
  connected,      \* K8S_EXECUTOR._connected
  reachable,      \* the API server answers
  cluster,        \* the live deployment
  before, after,  \* the states the verifier will be given
  doing,          \* the action being executed: forward, or its inverse
  changes,        \* what was executed and where, in order
  verdicts        \* what the verifier said, in order

vars == <<action, setting, sealed, pc, consent, probe, connected, reachable,
          cluster, before, after, doing, changes, verdicts>>

executor == <<probe, connected, reachable, cluster>>

Thread == {"pipeline"} \cup Prober

SLO == 10         \* error_rate_below 0.01

NoErr == 1000     \* after.get("error_rate", 1.0)

\* The deployed version before the incident; a rollback's default target.
Current == "v23"
Older == "v22"

\* An inverse action names what the first snapshot holds.
ASSUME SnapshotAssumption == 3 \in Replicas /\ Current \in Versions

\* The name K8S_ROLLBACK_IMAGE maps every bare version to.
Image == "image"

State == [version : Versions \cup {Current, Older, Image, Nowhere}, replicas : Nat,
          config : {"c1", "c2", "none"}, err : 0..1000]

\* measured: an error rate came from Prometheus.
Verdict == [is : {"RESOLVED", "PARTIAL", "WORSENED", "ROLLBACK_REQUIRED"},
            measured : BOOLEAN]

Stop == {"blocked", "raised", "resolved", "escalated"}

-----------------------------------------------------------------------------

\* sandbox.initial_state: also what a live run is given as "before".
Snapshot(err) == [version |-> Current, replicas |-> 3, config |-> "c1", err |-> err]

Init ==
  /\ action \in Proposals
  /\ setting \in [live : BOOLEAN, mapped : BOOLEAN, blastBig : BOOLEAN, env : Environments]
  /\ setting.mapped => setting.live
  /\ sealed = TRUE
  /\ pc \in {"plan", "resume"}
  /\ consent = "none"
  /\ probe = [t \in Thread |-> "out"]
  /\ connected = FALSE
  /\ reachable \in BOOLEAN /\ (reachable => setting.live)
  /\ cluster \in [version : {Current}, replicas : {3, 5}, config : {"c1"}, err : {0}]
  /\ ~setting.live => cluster.replicas = 3
  /\ \E e \in Errors : before = Snapshot(e)
  /\ after = before
  /\ doing = action
  /\ changes = << >> /\ verdicts = << >>

-----------------------------------------------------------------------------
(* The gates.                                                              *)

\* build_action: the planner's payload becomes an action or is rejected.
Plan ==
  /\ pc = "plan"
  /\ LET ok == /\ action.type \in AllowedActions(action.runbook)
               /\ ParametersMatch(action.runbook, action.params)
               /\ action.env = setting.env /\ action.pinned /\ action.evidence
               /\ Issues(action, action.runbook) = {}
     IN  pc' = IF ok THEN "check" ELSE "blocked"
  /\ UNCHANGED <<action, setting, sealed, consent, executor, before, after,
                 doing, changes, verdicts>>

\* A human's approval reaches resume_from_approval with an action that no
\* planner built, or that waited: it passes the same gates again.
Resume ==
  /\ pc \in {"resume", "waiting"}
  /\ consent' = "human"
  /\ pc' = "check"
  /\ UNCHANGED <<action, setting, sealed, executor, before, after, doing,
                 changes, verdicts>>

Decision == Evaluate(action, setting.env, "approver", setting.blastBig, TRUE)

\* validate_action, load_bundle, load_matrix and evaluate.  A tampered file
\* raises out of the pipeline.
Check ==
  /\ pc = "check"
  /\ \/ Issues(action, action.runbook) # {} /\ pc' = "blocked" /\ UNCHANGED consent
     \/ /\ Issues(action, action.runbook) = {}
        /\ \/ ~sealed /\ pc' = "raised" /\ UNCHANGED consent
           \/ sealed /\ Decision = "DENY" /\ pc' = "blocked" /\ UNCHANGED consent
           \/ /\ sealed /\ Decision = "ESCALATE" /\ consent = "none"
              /\ pc' = "waiting" /\ UNCHANGED consent
           \/ /\ sealed /\ Decision # "DENY"
              /\ Decision = "ALLOW" \/ consent = "human"
              /\ pc' = "apply"
              /\ consent' = IF consent = "none" THEN "auto" ELSE consent
  /\ UNCHANGED <<action, setting, sealed, executor, before, after, doing,
                 changes, verdicts>>

\* Somebody edits a policy file without sealing it again.
Tamper ==
  /\ pc \in {"plan", "resume", "waiting"}
  /\ sealed' = FALSE
  /\ UNCHANGED <<action, setting, pc, consent, executor, before, after,
                 doing, changes, verdicts>>

-----------------------------------------------------------------------------
(* KubernetesExecutor.is_connected: a flag once set is never checked again. *)

\* The steps of an execution that begin with is_connected.
Asking == {"apply", "execute", "read", "reread"}

MayAsk(t) == IF t = "pipeline" THEN setting.live /\ pc \in Asking ELSE TRUE

Ask(t) ==
  /\ probe[t] = "out" /\ MayAsk(t)
  /\ probe' = [probe EXCEPT ![t] = IF connected THEN "answer" ELSE "connect"]
  /\ UNCHANGED <<action, setting, sealed, pc, consent, connected, reachable,
                 cluster, before, after, doing, changes, verdicts>>

\* connect() returns, having written the flag.
Connect(t) ==
  /\ probe[t] = "connect"
  /\ connected' = reachable
  /\ probe' = [probe EXCEPT ![t] = "answer"]
  /\ UNCHANGED <<action, setting, sealed, pc, consent, reachable, cluster,
                 before, after, doing, changes, verdicts>>

\* is_connected returned to the pipeline's thread; what it returns is read now.
Answered(step) == pc = step /\ probe["pipeline"] = "answer"

Forget == probe' = [probe EXCEPT !["pipeline"] = "out"]

\* cluster_status returned.
StatusServed(t) ==
  /\ t \in Prober /\ probe[t] = "answer"
  /\ probe' = [probe EXCEPT ![t] = "out"]
  /\ UNCHANGED <<action, setting, sealed, pc, consent, connected, reachable,
                 cluster, before, after, doing, changes, verdicts>>

ClusterFlaps ==
  /\ setting.live /\ pc \notin Stop
  /\ reachable' = ~reachable
  /\ UNCHANGED <<action, setting, sealed, pc, consent, probe, connected,
                 cluster, before, after, doing, changes, verdicts>>

-----------------------------------------------------------------------------
(* Executing.                                                              *)

\* What sandbox.apply makes of the error rate.
ErrAfter(type, err) ==
  CASE type = "rollback_deployment" -> 8
    [] type = "rolling_restart" -> err \div 2
    [] OTHER -> err

\* The state sandbox.apply leaves; restarts are not counted, reads change nothing.
Applied(a, s) ==
  [s EXCEPT
     !.version = IF a.type # "rollback_deployment" THEN @
                 ELSE IF a.params.to_version = Nowhere THEN Older ELSE a.params.to_version,
     !.replicas = IF a.type = "scale_deployment" /\ a.params.replicas # Absent
                  THEN a.params.replicas ELSE @,
     !.config = IF a.type = "patch_config" THEN "c2" ELSE @,
     !.err = ErrAfter(a.type, @)]

\* The deployment after the live executor's patch.  A bare version becomes the
\* configured image, or an annotation; patch_config has no live branch.
Patched(a, s) ==
  CASE a.type = "rollback_deployment" /\ a.params.to_version # Nowhere /\ setting.mapped ->
         [s EXCEPT !.version = Image]
    [] a.type = "scale_deployment" ->
         [s EXCEPT !.replicas = IF a.params.replicas = Absent THEN @ ELSE a.params.replicas]
    [] OTHER -> s

Executed(tier) ==
  changes' = Append(changes, [action |-> doing, tier |-> tier, consent |-> consent])

\* The state an execution starts from.
Base == IF Len(changes) = 0 THEN before ELSE after

\* Each execution's result is the next verification's "after", and the
\* state it started from is "before".
Sandboxed ==
  /\ Executed("mock")
  /\ before' = Base
  /\ after' = Applied(doing, Base)
  /\ pc' = "verify"

\* _apply_action with the mock tier selected.
ApplyMock ==
  /\ pc = "apply" /\ ~setting.live
  /\ Sandboxed
  /\ UNCHANGED <<action, setting, sealed, consent, executor, doing, verdicts>>

\* _apply_action with LIVE_CLUSTER: refuse, or call execute().
ApplyLive ==
  /\ Answered("apply")
  /\ Forget
  /\ pc' = IF connected THEN "execute" ELSE "raised"
  /\ UNCHANGED <<action, setting, sealed, consent, connected, reachable,
                 cluster, before, after, doing, changes, verdicts>>

\* execute() falls back to the sandbox when it finds the cluster offline.
Execute ==
  /\ Answered("execute")
  /\ Forget
  /\ IF connected THEN pc' = "read" /\ UNCHANGED <<before, after, changes>>
     ELSE Sandboxed
  /\ UNCHANGED <<action, setting, sealed, consent, connected, reachable,
                 cluster, doing, verdicts>>

\* get_deployment_state, then the patch.  Either raises when it is refused or not
\* answered; a patch that is not answered may have been applied.
Patch ==
  /\ Answered("read")
  /\ Forget
  /\ \/ connected /\ reachable /\ cluster' = Patched(doing, cluster) /\ pc' \in {"reread", "raised"}
     \/ pc' = "raised" /\ UNCHANGED cluster
  /\ UNCHANGED <<action, setting, sealed, consent, connected, reachable,
                 before, after, doing, changes, verdicts>>

\* The state after the patch is read back.
ReadBack ==
  /\ Answered("reread")
  /\ Forget
  /\ IF connected /\ reachable
     THEN /\ Executed("live")
          /\ before' = Base
          /\ after' = [version |-> Nowhere, replicas |-> cluster.replicas,
                       config |-> "none", err |-> NoErr]
          /\ pc' = "verify"
     ELSE pc' = "raised" /\ UNCHANGED <<before, after, changes>>
  /\ UNCHANGED <<action, setting, sealed, consent, connected, reachable,
                 cluster, doing, verdicts>>

-----------------------------------------------------------------------------
(* Verifying.                                                              *)

\* The version the caller expects: none unless the action names one.
Expected ==
  IF action.params.to_version = Nowhere THEN Nowhere
  ELSE IF Len(changes) = 1 THEN action.params.to_version ELSE Current

\* Bug: a missing error rate reads as zero.
VerdictOfMissingAsZero(b, a) ==
  LET err == IF a.err = NoErr THEN 0 ELSE a.err
  IN  IF err < SLO /\ a.replicas > 0 THEN "RESOLVED" ELSE "ROLLBACK_REQUIRED"

\* verifier.verify
VerdictOf(b, a) ==
  LET healthy == a.err < SLO
      others == a.replicas > 0 /\ (Expected # Nowhere => a.version = Expected)
  IN  IF a.err * 10 > b.err * 12 /\ b.err > 0 THEN "WORSENED"
      ELSE IF ~healthy THEN "ROLLBACK_REQUIRED"
      ELSE IF others THEN "RESOLVED" ELSE "PARTIAL"

\* PrometheusVerifier.verify: seen[s] is what the query for signal s returned,
\* Absent if nothing.
PromVerdict(a, seen) ==
  LET err == IF seen.err = Absent THEN a.err ELSE seen.err
      replicas == IF seen.replicas = Absent THEN a.replicas ELSE seen.replicas
  IN  IF seen.err = Absent /\ seen.replicas = Absent /\ seen.oom = Absent THEN "PARTIAL"
      ELSE IF err >= SLO THEN "ROLLBACK_REQUIRED"
      ELSE IF replicas > 0 /\ seen.oom <= 0 THEN "RESOLVED" ELSE "PARTIAL"

Judge(v) ==
  /\ verdicts' = Append(verdicts, v)
  /\ pc' = "judged"

\* The mock verifier: the mock tier, or Prometheus is not there, or takes more
\* than three seconds, or fails.
VerifyState ==
  /\ pc = "verify"
  /\ Judge([is |-> VerdictOf(before, after), measured |-> FALSE])
  /\ UNCHANGED <<action, setting, sealed, consent, executor, before, after,
                 doing, changes>>

VerifyPrometheus ==
  /\ pc = "verify" /\ setting.live
  /\ \E seen \in [err : {Absent, 5, 500}, replicas : {Absent, 0, 3}, oom : {Absent, 0, 1}] :
       Judge([is |-> PromVerdict(after, seen), measured |-> seen.err # Absent])
  /\ UNCHANGED <<action, setting, sealed, consent, executor, before, after,
                 doing, changes>>

Last == verdicts[Len(verdicts)].is

\* Bug: the attempts are not counted.
ShouldRollbackAgain == Last \in {"WORSENED", "ROLLBACK_REQUIRED"}

\* should_rollback
ShouldRollback == Last \in {"WORSENED", "ROLLBACK_REQUIRED"} /\ Len(verdicts) < 2

\* Bug: the inverse of a scale keeps the replicas of the action.
RollbackForKeepingReplicas(a, b) ==
  [a EXCEPT !.params = [@ EXCEPT !.to_version = IF a.type = "rollback_deployment"
                                                 THEN b.version ELSE @],
            !.rollback = FALSE]

\* The parameters that undo an action; those of the other types are kept.  A
\* patch's config_rev is not a parameter the executor reads.
InverseParams(a, b) ==
  IF a.type \notin {"scale_deployment", "rollback_deployment", "patch_config"} THEN a.params
  ELSE [replicas   |-> IF a.type = "scale_deployment" THEN b.replicas ELSE Absent,
        to_version |-> IF a.type = "rollback_deployment" THEN b.version ELSE Nowhere,
        text       |-> IF a.type = "patch_config" THEN "clean" ELSE "none"]

\* rollback_for: the inverse action, which carries no rollback of its own.
RollbackFor(a, b) ==
  [a EXCEPT !.params = InverseParams(a, b), !.rollback = FALSE]

\* The rollback passes the gates too, but for the missing rollback of its own;
\* it is refused or executed, under the permit of the action.
Rollback ==
  /\ pc = "judged" /\ ShouldRollback
  /\ LET inverse == RollbackFor(action, before)
         refused == \/ action.type \notin Reversible
                    \/ Issues(inverse, action.runbook) \ {"rollback"} # {}
                    \/ Evaluate(inverse, setting.env, "approver", setting.blastBig, TRUE) = "DENY"
     IN  IF refused THEN pc' = "escalated" /\ UNCHANGED doing
         ELSE pc' = "apply" /\ doing' = inverse
  /\ UNCHANGED <<action, setting, sealed, consent, executor, before, after,
                 changes, verdicts>>

Conclude ==
  /\ pc = "judged" /\ ~ShouldRollback
  /\ pc' = IF Last = "RESOLVED" THEN "resolved" ELSE "escalated"
  /\ UNCHANGED <<action, setting, sealed, consent, executor, before, after,
                 doing, changes, verdicts>>

-----------------------------------------------------------------------------

Next ==
  \/ Plan \/ Resume \/ Check \/ Tamper
  \/ \E t \in Thread : Ask(t) \/ Connect(t) \/ StatusServed(t)
  \/ ClusterFlaps
  \/ ApplyMock \/ ApplyLive \/ Execute \/ Patch \/ ReadBack
  \/ VerifyState \/ VerifyPrometheus \/ Rollback \/ Conclude

Spec == Init /\ [][Next]_vars

-----------------------------------------------------------------------------
(* Properties.                                                             *)

\* Type invariant: every variable stays in its domain; an action executes at
\* most twice, the change and its one automatic rollback.
TypeOK ==
  /\ action \in Proposals
  /\ setting \in [live : BOOLEAN, mapped : BOOLEAN, blastBig : BOOLEAN, env : Environments]
  /\ sealed \in BOOLEAN /\ connected \in BOOLEAN /\ reachable \in BOOLEAN
  /\ pc \in {"plan", "resume", "check", "waiting", "verify", "judged"} \cup Asking \cup Stop
  /\ consent \in {"none", "auto", "human"}
  /\ probe \in [Thread -> {"out", "connect", "answer"}]
  /\ cluster \in State /\ before \in State /\ after \in State
  /\ doing \in Action
  /\ Len(changes) <= 2 /\ Len(verdicts) <= Len(changes)
  /\ \A i \in DOMAIN changes : changes[i] \in
       [action : Action, tier : {"mock", "live"}, consent : {"auto", "human"}]
  /\ \A i \in DOMAIN verdicts : verdicts[i] \in Verdict

\* Whatever is executed, the change or its rollback, on either tier and by
\* either route, is allowed by its runbook and not RED where it runs, names the
\* incident's own environment and clean parameters, and runs without a human
\* only if it is GREEN with a small blast radius (pipeline.py, the gates of
\* run_pipeline and resume_from_approval; a rollback runs on the permit of the
\* action it inverts).
Authorized ==
  \A i \in DOMAIN changes :
    LET c == changes[i].action
        tier == Tier(c.type, c.env)
    IN  /\ c.type \in AllowedActions(c.runbook) /\ tier # "RED"
        /\ c.env = setting.env
        /\ c.params.replicas \in 1..10 \cup {Absent} /\ c.params.text # "shell"
        /\ changes[i].consent = "auto" =>
             tier = "GREEN" /\ ~(setting.blastBig /\ c.type \in Reversible)

\* A live run that only changed the cluster is RESOLVED on an error rate read
\* from Prometheus, never on the cluster's own state or a default: the fallback
\* of verify_sync must not be able to resolve it (prom_verifier.py).
ResolvedIsMeasured ==
  pc = "resolved" /\ setting.live /\ (\A i \in DOMAIN changes : changes[i].tier = "live")
    => verdicts[Len(verdicts)].measured

\* The mock target is as the action found it, but for the error rate.
Restored == after.version = Current /\ after.replicas = 3 /\ after.config = "c1"

\* On the mock tier, an automatic rollback of anything but a patch leaves the
\* version, the replicas and the configuration it found (rollback.py).
RollbackUndoes ==
  ~setting.live /\ Len(changes) = 2 /\ action.type # "patch_config" => Restored

\* A live request is never executed by the mock sandbox (pipeline.py, "Refusing
\* to fall back to the mock sandbox").
LiveIsNeverMock ==
  setting.live => \A i \in DOMAIN changes : changes[i].tier = "live"

\* The automatic rollback restores the state the action found (rollback.py,
\* "restore pre-action state").
RollbackRestores == ~setting.live /\ Len(changes) = 2 => Restored

=============================================================================
