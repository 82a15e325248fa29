-------------------------- MODULE RemediationProofs --------------------------
(***************************************************************************)
(* Theorems about Remediation, for every set of environments, replicas,    *)
(* versions and proposals, every starting error rate, and a cluster and a  *)
(* Prometheus that answer what they like.                                  *)
(*                                                                         *)
(* Authorized holds because what is about to be executed is cleared for    *)
(* the consent it has (GateInv), which the rollback inherits from the      *)
(* action it inverts.  ResolvedIsMeasured holds because a state read back  *)
(* from the cluster has no error rate, so that neither verifier resolves   *)
(* it without Prometheus (MeasureInv).  TypeCorrect needs the counts of    *)
(* executions and verdicts at each place of the thread and the snapshot    *)
(* the first execution is judged against (KindInv): an inverse names what  *)
(* that snapshot holds.  RollbackUndoes follows what the sandbox holds     *)
(* from one execution to the next (UndoInv).                               *)
(***************************************************************************)
EXTENDS Remediation, TLAPS

Early == {"plan", "resume", "check", "waiting"}

Late == Asking \cup {"verify", "judged"}

\* The gates let the action through.
Cleared(a) ==
  /\ a.type \in AllowedActions(a.runbook) /\ Tier(a.type, a.env) # "RED"
  /\ a.env = setting.env
  /\ a.params.replicas \in 1..10 \cup {Absent} /\ a.params.text # "shell"

\* It needs no human.
Small(a) == Tier(a.type, a.env) = "GREEN" /\ ~(setting.blastBig /\ a.type \in Reversible)

\* What Authorized says of one execution.
Justified(c) == Cleared(c.action) /\ (c.consent = "auto" => Small(c.action))

GateInv ==
  /\ action \in Action /\ \E S : changes \in Seq(S)
  /\ pc \in Early => doing = action /\ consent \in {"none", "human"}
  /\ pc \in Late =>
       /\ consent \in {"auto", "human"}
       /\ Cleared(doing) /\ (consent = "auto" => Small(doing))
       /\ consent = "auto" => Small(action)
  /\ \A i \in DOMAIN changes : Justified(changes[i])

\* Authorized, one execution at a time.
LEMMA JustifiedIsAuthorized ==
  Authorized <=> \A i \in DOMAIN changes : Justified(changes[i])
BY DEF Authorized, Justified, Cleared, Small

-----------------------------------------------------------------------------
(* The gates.                                                              *)

\* What an action without issues and without a denial is.
LEMMA Passed ==
  ASSUME NEW a, "shell" \notin Issues(a, a.runbook),
         "not allowed" \notin Issues(a, a.runbook), "replicas" \notin Issues(a, a.runbook),
         "scan" \notin Issues(a, a.runbook)
  PROVE  /\ a.type \in AllowedActions(a.runbook)
         /\ a.params.replicas \in 1..10 \cup {Absent} /\ a.params.text # "shell"
BY DEF Issues, ReplicasInRange

LEMMA Decided ==
  ASSUME NEW a, NEW env, NEW big
  PROVE  /\ Evaluate(a, env, "approver", big, TRUE) # "DENY" =>
              Tier(a.type, a.env) # "RED" /\ a.env = env
         /\ Evaluate(a, env, "approver", big, TRUE) = "ALLOW" =>
              Tier(a.type, a.env) = "GREEN" /\ ~(big /\ a.type \in Reversible)
         /\ Evaluate(a, env, "approver", big, TRUE) \in {"DENY", "ALLOW", "ESCALATE"}
BY DEF Evaluate, Refused

\* The inverse is of the action's type, environment and runbook.
LEMMA InverseIsAlike ==
  ASSUME NEW a \in Action, NEW b
  PROVE  /\ RollbackFor(a, b).type = a.type /\ RollbackFor(a, b).env = a.env
         /\ RollbackFor(a, b).runbook = a.runbook
         /\ RollbackFor(a, b).params = InverseParams(a, b)
BY DEF RollbackFor, Action

\* An execution of what is cleared is justified.
LEMMA ExecutionIsJustified ==
  ASSUME GateInv, pc \in Late, NEW tier, Executed(tier)
  PROVE  /\ \E S : changes' \in Seq(S)
         /\ Len(changes) \in Nat /\ DOMAIN changes' = 1..(Len(changes) + 1)
         /\ DOMAIN changes = 1..Len(changes)
         /\ \A i \in DOMAIN changes : changes'[i] = changes[i]
         /\ changes'[Len(changes) + 1] = [action |-> doing, tier |-> tier, consent |-> consent]
         /\ \A i \in DOMAIN changes' : Justified(changes'[i])
<1> DEFINE c == [action |-> doing, tier |-> tier, consent |-> consent]
<1>1. PICK S : changes \in Seq(S)
  BY DEF GateInv
<1>2. changes' = Append(changes, c)
  BY DEF Executed
<1>3. Justified(c)
  BY DEF GateInv, Justified
<1> HIDE DEF c
<1>4. changes \in Seq(S \cup {c})
  BY <1>1
<1>5. /\ changes' \in Seq(S \cup {c}) /\ Len(changes) \in Nat
      /\ DOMAIN changes' = 1..(Len(changes) + 1) /\ DOMAIN changes = 1..Len(changes)
      /\ \A i \in DOMAIN changes : changes'[i] = changes[i]
      /\ changes'[Len(changes) + 1] = c
  BY <1>2, <1>4
<1>6. \A i \in DOMAIN changes' : i \in DOMAIN changes \/ i = Len(changes) + 1
  BY <1>5
<1>7. \A i \in DOMAIN changes' : Justified(changes'[i])
  BY <1>3, <1>5, <1>6 DEF GateInv
<1> QED BY <1>5, <1>7 DEF c

-----------------------------------------------------------------------------
(* GateInv is kept.                                                        *)

LEMMA PlanGate == ASSUME GateInv, Plan PROVE GateInv'
<1>1. UNCHANGED <<action, setting, doing, changes, consent>> /\ pc \in Early /\ pc' \notin Late
  BY DEF Plan, Early, Late, Asking
<1> QED BY <1>1 DEF GateInv, Justified, Cleared, Small

LEMMA ResumeGate == ASSUME GateInv, Resume PROVE GateInv'
<1>1. /\ UNCHANGED <<action, setting, doing, changes>>
      /\ pc \in Early /\ pc' \notin Late /\ consent' = "human"
  BY DEF Resume, Early, Late, Asking
<1> QED BY <1>1 DEF GateInv, Justified, Cleared, Small

LEMMA CheckGate == ASSUME GateInv, Check PROVE GateInv'
<1>1. /\ UNCHANGED <<action, setting, doing, changes>> /\ pc = "check"
      /\ doing = action /\ consent \in {"none", "human"}
  BY DEF Check, GateInv, Early
<1>2. CASE pc' # "apply" /\ UNCHANGED consent
  <2>1. pc' \notin Late
    BY <1>2 DEF Check, Late, Asking
  <2> QED BY <1>1, <1>2, <2>1 DEF GateInv, Justified, Cleared, Small
<1>3. CASE /\ Issues(action, action.runbook) = {} /\ Decision # "DENY"
           /\ Decision = "ALLOW" \/ consent = "human"
           /\ pc' = "apply" /\ consent' = IF consent = "none" THEN "auto" ELSE consent
  <2>1. Cleared(action) /\ (Decision = "ALLOW" => Small(action))
    BY <1>3, Passed, Decided DEF Cleared, Small, Decision
  <2>2. consent' \in {"auto", "human"} /\ (consent' = "auto" => Small(action))
    BY <1>1, <1>3, <2>1
  <2>3. pc' \notin Early
    BY <1>3 DEF Early
  <2> QED BY <1>1, <2>1, <2>2, <2>3 DEF GateInv, Justified, Cleared, Small
<1> QED BY <1>2, <1>3 DEF Check

LEMMA ExecutedGate ==
  ASSUME GateInv, pc \in Late, NEW tier, Executed(tier), pc' = "verify",
         UNCHANGED <<action, setting, doing, consent>>
  PROVE  GateInv'
<1>1. pc' \notin Early
  BY DEF Early
<1>2. (\E S : changes' \in Seq(S)) /\ \A i \in DOMAIN changes' : Justified(changes'[i])
  BY ExecutionIsJustified
<1>3. \A c : Justified(c)' <=> Justified(c)
  BY DEF Justified, Cleared, Small
<1> QED BY <1>1, <1>2 DEF GateInv, Justified, Cleared, Small

\* A step of the execution or of the verification that executes nothing itself.
LEMMA OtherGate ==
  ASSUME GateInv, UNCHANGED <<action, setting, doing, consent, changes>>,
         pc' = pc \/ (pc \in Late /\ pc' \notin Early)
  PROVE  GateInv'
BY DEF GateInv, Justified, Cleared, Small

LEMMA RollbackGate == ASSUME GateInv, Rollback PROVE GateInv'
<1>1. UNCHANGED <<action, setting, consent, changes>> /\ pc = "judged" /\ pc \in Late
  BY DEF Rollback, Late
<1>2. CASE pc' = "escalated" /\ UNCHANGED doing
  BY <1>1, <1>2, OtherGate DEF Early
<1> DEFINE inverse == RollbackFor(action, before)
<1>3. CASE /\ Issues(inverse, action.runbook) \ {"rollback"} = {}
           /\ Evaluate(inverse, setting.env, "approver", setting.blastBig, TRUE) # "DENY"
           /\ pc' = "apply" /\ doing' = inverse
  <2>1. /\ inverse.type = action.type /\ inverse.env = action.env
        /\ inverse.runbook = action.runbook
    BY InverseIsAlike DEF GateInv
  <2> HIDE DEF inverse
  <2>2. Cleared(inverse)
    BY <1>3, <2>1, Passed, Decided DEF Cleared
  <2>3. consent \in {"auto", "human"} /\ (consent = "auto" => Small(action))
    BY <1>1 DEF GateInv
  <2>4. Small(action) => Small(inverse)
    BY <2>1 DEF Small
  <2>5. pc' \notin Early
    BY <1>3 DEF Early
  <2> QED BY <1>1, <1>3, <2>2, <2>3, <2>4, <2>5 DEF GateInv, Justified, Cleared, Small
<1> QED BY <1>2, <1>3 DEF Rollback

LEMMA InitGate == Init => GateInv
<1> SUFFICES ASSUME Init PROVE GateInv
  OBVIOUS
<1>1. action \in Action /\ doing = action /\ consent = "none" /\ changes = << >>
  BY ProposalsAssumption DEF Init
<1>2. pc \notin Late
  BY DEF Init, Late, Asking
<1>3. changes \in Seq({})
  BY <1>1
<1> QED BY <1>1, <1>2, <1>3 DEF GateInv

\* The steps around the executor's connection.
Aside == Tamper \/ ClusterFlaps \/ \E t \in Thread : Ask(t) \/ Connect(t) \/ StatusServed(t)

LEMMA NextGate == GateInv /\ [Next]_vars => GateInv'
<1> SUFFICES ASSUME GateInv, [Next]_vars PROVE GateInv'
  OBVIOUS
<1>1. CASE Plan \/ Resume \/ Check
  BY <1>1, PlanGate, ResumeGate, CheckGate
<1>2. CASE Aside \/ UNCHANGED vars
  BY <1>2, OtherGate DEF Aside, Tamper, ClusterFlaps, Ask, Connect, StatusServed, vars
<1>3. CASE ApplyMock
  BY <1>3, ExecutedGate DEF ApplyMock, Sandboxed, Late, Asking
<1>4. CASE ApplyLive \/ Patch
  BY <1>4, OtherGate DEF ApplyLive, Patch, Answered, Late, Early, Asking
<1>5. CASE Execute
  <2>1. CASE connected
    BY <1>5, <2>1, OtherGate DEF Execute, Answered, Late, Early, Asking
  <2>2. CASE ~connected
    BY <1>5, <2>2, ExecutedGate DEF Execute, Sandboxed, Answered, Late, Asking
  <2> QED BY <2>1, <2>2
<1>6. CASE ReadBack
  <2>1. CASE connected /\ reachable
    BY <1>6, <2>1, ExecutedGate DEF ReadBack, Answered, Late, Asking
  <2>2. CASE ~(connected /\ reachable)
    BY <1>6, <2>2, OtherGate DEF ReadBack, Answered, Late, Early, Asking
  <2> QED BY <2>1, <2>2
<1>7. CASE VerifyState \/ VerifyPrometheus
  BY <1>7, OtherGate DEF VerifyState, VerifyPrometheus, Judge, Late, Early
<1>8. CASE Rollback
  BY <1>8, RollbackGate
<1>9. CASE Conclude
  BY <1>9, OtherGate DEF Conclude, Late, Early
<1> QED BY <1>1, <1>2, <1>3, <1>4, <1>5, <1>6, <1>7, <1>8, <1>9 DEF Next, Aside

\* Whatever is executed, the change or its rollback, is allowed by its runbook,
\* not RED, of the incident's environment, and without a human only if GREEN with
\* a small blast radius.
THEOREM AuthorizedHolds == Spec => []Authorized
<1>1. GateInv => Authorized
  BY JustifiedIsAuthorized DEF GateInv
<1> QED BY <1>1, InitGate, NextGate, PTL DEF Spec

-----------------------------------------------------------------------------
(* A live change resolves on a measured error rate only.                   *)

AllLive == \A i \in DOMAIN changes : changes[i].tier = "live"

\* What the last verdict rests on.
Grounded == Last = "RESOLVED" /\ AllLive => verdicts[Len(verdicts)].measured

MeasureInv ==
  /\ \E S : changes \in Seq(S)
  /\ \E S : verdicts \in Seq(S)
  /\ pc = "verify" /\ AllLive => after.err = NoErr
  /\ pc \in {"judged", "resolved"} => Grounded
  /\ pc = "resolved" => Last = "RESOLVED"

\* An execution on the mock tier is remembered.
LEMMA ExecutionIsRemembered ==
  ASSUME MeasureInv, NEW tier, Executed(tier)
  PROVE  /\ \E S : changes' \in Seq(S)
         /\ AllLive' => tier = "live"
<1> DEFINE c == [action |-> doing, tier |-> tier, consent |-> consent]
<1>1. PICK S : changes \in Seq(S)
  BY DEF MeasureInv
<1>2. changes' = Append(changes, c) /\ c.tier = tier
  BY DEF Executed
<1> HIDE DEF c
<1>3. changes \in Seq(S \cup {c})
  BY <1>1
<1>4. /\ changes' \in Seq(S \cup {c})
      /\ Len(changes) + 1 \in DOMAIN changes' /\ changes'[Len(changes) + 1] = c
  BY <1>2, <1>3
<1> QED BY <1>2, <1>4 DEF AllLive

LEMMA ExecutedMeasure ==
  ASSUME MeasureInv, NEW tier, Executed(tier), pc' = "verify", UNCHANGED verdicts,
         tier = "live" => after'.err = NoErr
  PROVE  MeasureInv'
<1>1. (\E S : changes' \in Seq(S)) /\ (AllLive' => tier = "live")
  BY ExecutionIsRemembered
<1> QED BY <1>1 DEF MeasureInv

\* A verdict on a state without an error rate is RESOLVED only if measured.
LEMMA JudgedMeasure ==
  ASSUME MeasureInv, pc = "verify", NEW v, Judge(v), UNCHANGED <<changes, after>>,
         after.err = NoErr /\ v.is = "RESOLVED" => v.measured
  PROVE  MeasureInv'
<1>1. PICK S : verdicts \in Seq(S)
  BY DEF MeasureInv
<1>2. verdicts' = Append(verdicts, v) /\ pc' = "judged"
  BY DEF Judge
<1>3. verdicts \in Seq(S \cup {v})
  BY <1>1
<1>4. /\ verdicts' \in Seq(S \cup {v}) /\ Len(verdicts') = Len(verdicts) + 1
      /\ verdicts'[Len(verdicts')] = v
  BY <1>2, <1>3
<1>5. AllLive' => AllLive
  BY DEF AllLive
<1>6. AllLive' /\ v.is = "RESOLVED" => v.measured
  BY <1>5 DEF MeasureInv
<1>7. Grounded'
  BY <1>4, <1>6 DEF Grounded, Last
<1>8. (\E T : verdicts' \in Seq(T)) /\ (\E T : changes' \in Seq(T))
  BY <1>4 DEF MeasureInv
<1> QED BY <1>2, <1>7, <1>8 DEF MeasureInv

\* A step that neither executes nor judges.
LEMMA OtherMeasure ==
  ASSUME MeasureInv, UNCHANGED <<changes, verdicts>>,
         \/ pc' = pc /\ UNCHANGED after
         \/ pc' \notin {"verify", "judged", "resolved"}
         \/ pc = "judged" /\ (pc' = "resolved" => Last = "RESOLVED")
            /\ pc' \in {"resolved", "escalated"}
  PROVE  MeasureInv'
BY DEF MeasureInv, Grounded, AllLive, Last

LEMMA InitMeasure == Init => MeasureInv
<1> SUFFICES ASSUME Init PROVE MeasureInv
  OBVIOUS
<1>1. changes = << >> /\ verdicts = << >> /\ pc \notin {"verify", "judged", "resolved"}
  BY DEF Init
<1>2. changes \in Seq({}) /\ verdicts \in Seq({})
  BY <1>1
<1> QED BY <1>1, <1>2 DEF MeasureInv

LEMMA NextMeasure == MeasureInv /\ [Next]_vars => MeasureInv'
<1> SUFFICES ASSUME MeasureInv, [Next]_vars PROVE MeasureInv'
  OBVIOUS
<1>1. CASE Plan \/ Resume \/ Check
  BY <1>1, OtherMeasure DEF Plan, Resume, Check
<1>2. CASE Aside \/ UNCHANGED vars
  BY <1>2, OtherMeasure DEF Aside, Tamper, ClusterFlaps, Ask, Connect, StatusServed, vars
<1>3. CASE ApplyMock
  BY <1>3, ExecutedMeasure DEF ApplyMock, Sandboxed
<1>4. CASE ApplyLive \/ Patch
  BY <1>4, OtherMeasure DEF ApplyLive, Patch
<1>5. CASE Execute
  <2>1. CASE connected
    BY <1>5, <2>1, OtherMeasure DEF Execute
  <2>2. CASE ~connected
    BY <1>5, <2>2, ExecutedMeasure DEF Execute, Sandboxed
  <2> QED BY <2>1, <2>2
<1>6. CASE ReadBack
  <2>1. CASE connected /\ reachable
    BY <1>6, <2>1, ExecutedMeasure DEF ReadBack
  <2>2. CASE ~(connected /\ reachable)
    BY <1>6, <2>2, OtherMeasure DEF ReadBack
  <2> QED BY <2>1, <2>2
<1>7. CASE VerifyState
  <2>1. after.err = NoErr => VerdictOf(before, after) # "RESOLVED"
    BY DEF VerdictOf, NoErr, SLO
  <2> QED BY <1>7, <2>1, JudgedMeasure DEF VerifyState
<1>8. CASE VerifyPrometheus
  <2>1. PICK seen \in [err : {Absent, 5, 500}, replicas : {Absent, 0, 3}, oom : {Absent, 0, 1}] :
           Judge([is |-> PromVerdict(after, seen), measured |-> seen.err # Absent])
    BY <1>8 DEF VerifyPrometheus
  <2>2. after.err = NoErr /\ PromVerdict(after, seen) = "RESOLVED" => seen.err # Absent
    BY DEF PromVerdict, NoErr, SLO
  <2> QED BY <1>8, <2>1, <2>2, JudgedMeasure DEF VerifyPrometheus
<1>9. CASE Rollback
  BY <1>9, OtherMeasure DEF Rollback
<1>10. CASE Conclude
  BY <1>10, OtherMeasure DEF Conclude
<1> QED
  BY <1>1, <1>2, <1>3, <1>4, <1>5, <1>6, <1>7, <1>8, <1>9, <1>10 DEF Next, Aside

\* A live run that only changed the cluster is RESOLVED on an error rate read
\* from Prometheus, whatever the fallback of verify_sync does.
THEOREM ResolvedIsMeasuredHolds == Spec => []ResolvedIsMeasured
<1>1. MeasureInv => ResolvedIsMeasured
  BY DEF ResolvedIsMeasured, MeasureInv, Grounded, AllLive
<1> QED BY <1>1, InitMeasure, NextMeasure, PTL DEF Spec

-----------------------------------------------------------------------------
(* Types, and how often an action executes.                                *)

Change == [action : Action, tier : {"mock", "live"}, consent : {"auto", "human"}]

\* An execution is judged before the next one, and there are at most two.
CountInv ==
  /\ changes \in Seq(Change) /\ verdicts \in Seq(Verdict)
  /\ Len(changes) <= 2 /\ Len(verdicts) <= Len(changes)
  /\ pc \in Early => Len(changes) = 0
  /\ pc \in Asking => Len(changes) <= 1 /\ Len(verdicts) = Len(changes)
  /\ pc = "verify" => Len(changes) = Len(verdicts) + 1
  /\ pc = "judged" => Len(verdicts) = Len(changes) /\ Len(changes) >= 1

\* The snapshot but for the error rate: what the first execution is judged against.
Found(s) == s.version = Current /\ s.replicas = 3 /\ s.config = "c1"

StateInv ==
  /\ action \in Proposals
  /\ setting \in [live : BOOLEAN, mapped : BOOLEAN, blastBig : BOOLEAN, env : Environments]
  /\ sealed \in BOOLEAN /\ connected \in BOOLEAN /\ reachable \in BOOLEAN
  /\ pc \in Early \cup Late \cup Stop
  /\ consent \in {"none", "auto", "human"}
  /\ probe \in [Thread -> {"out", "connect", "answer"}]
  /\ cluster \in State /\ before \in State /\ after \in State
  /\ doing \in Action
  /\ Len(changes) <= 1 => Found(before)

KindInv == GateInv /\ CountInv /\ StateInv

LEMMA KindIsType == KindInv => TypeOK
<1> SUFFICES ASSUME KindInv PROVE TypeOK
  OBVIOUS
<1>1. /\ DOMAIN changes = 1..Len(changes) /\ DOMAIN verdicts = 1..Len(verdicts)
      /\ \A i \in DOMAIN changes : changes[i] \in Change
      /\ \A i \in DOMAIN verdicts : verdicts[i] \in Verdict
  BY DEF KindInv, CountInv
<1>2. pc \in {"plan", "resume", "check", "waiting", "verify", "judged"} \cup Asking \cup Stop
  BY DEF KindInv, StateInv, Early, Late
<1> QED BY <1>1, <1>2 DEF TypeOK, KindInv, CountInv, StateInv, Change

-----------------------------------------------------------------------------
(* The states an execution leaves.                                         *)

LEMMA ErrAfterIsRate == ASSUME NEW kind, NEW rate, rate \in 0..1000 PROVE ErrAfter(kind, rate) \in 0..1000
BY DEF ErrAfter

LEMMA AppliedIs ==
  ASSUME NEW a, NEW s \in State
  PROVE  /\ DOMAIN Applied(a, s) = {"version", "replicas", "config", "err"}
         /\ Applied(a, s).version =
              IF a.type # "rollback_deployment" THEN s.version
              ELSE IF a.params.to_version = Nowhere THEN Older ELSE a.params.to_version
         /\ Applied(a, s).replicas =
              IF a.type = "scale_deployment" /\ a.params.replicas # Absent
              THEN a.params.replicas ELSE s.replicas
         /\ Applied(a, s).config = IF a.type = "patch_config" THEN "c2" ELSE s.config
         /\ Applied(a, s).err = ErrAfter(a.type, s.err)
BY DEF Applied, State

\* All four fields of a record may be replaced within their sets.
LEMMA FieldsReplaced ==
  ASSUME NEW V, NEW N, NEW C, NEW E,
         NEW s \in [version : V, replicas : N, config : C, err : E],
         NEW v \in V, NEW n \in N, NEW c \in C, NEW e \in E
  PROVE  [s EXCEPT !.version = v, !.replicas = n, !.config = c, !.err = e]
           \in [version : V, replicas : N, config : C, err : E]
OBVIOUS

LEMMA AppliedIsState ==
  ASSUME NEW a \in Action, NEW s, s \in State
  PROVE  Applied(a, s) \in State
<1> DEFINE version == IF a.type # "rollback_deployment" THEN s.version
                      ELSE IF a.params.to_version = Nowhere THEN Older ELSE a.params.to_version
           replicas == IF a.type = "scale_deployment" /\ a.params.replicas # Absent
                       THEN a.params.replicas ELSE s.replicas
           config == IF a.type = "patch_config" THEN "c2" ELSE s.config
           errors == ErrAfter(a.type, s.err)
<1>1. /\ a.params.to_version \in Versions \cup {Nowhere}
      /\ a.params.replicas \in Replicas \cup {Absent}
  BY DEF Action, Params
<1>2. /\ s.version \in Versions \cup {Current, Older, Image, Nowhere} /\ s.replicas \in Nat
      /\ s.config \in {"c1", "c2", "none"} /\ s.err \in 0..1000
  BY DEF State
<1>3. version \in Versions \cup {Current, Older, Image, Nowhere} /\ replicas \in Nat
  BY <1>1, <1>2, ReplicasAssumption
<1>4. config \in {"c1", "c2", "none"} /\ errors \in 0..1000
  <2>1. errors \in 0..1000
    BY <1>2, ErrAfterIsRate
  <2> QED BY <1>2, <2>1
<1>5. Applied(a, s) = [s EXCEPT !.version = version, !.replicas = replicas,
                                !.config = config, !.err = errors]
  BY DEF Applied
<1> HIDE DEF version, replicas, config, errors
<1>6. PICK v, n, c, e :
        /\ v \in Versions \cup {Current, Older, Image, Nowhere} /\ n \in Nat
        /\ c \in {"c1", "c2", "none"} /\ e \in 0..1000
        /\ Applied(a, s) = [s EXCEPT !.version = v, !.replicas = n, !.config = c, !.err = e]
  BY <1>3, <1>4, <1>5
<1> DEFINE new == [s EXCEPT !.version = v, !.replicas = n, !.config = c, !.err = e]
<1>7. new \in State
  <2>1. v \in Versions \cup {Current, Older, Image, Nowhere}
    BY <1>6
  <2>2. n \in Nat
    BY <1>6
  <2>3. c \in {"c1", "c2", "none"}
    BY <1>6
  <2>4. e \in 0..1000
    BY <1>6
  <2> DEFINE V == Versions \cup {Current, Older, Image, Nowhere}
  <2> DEFINE C == {"c1", "c2", "none"}
  <2> DEFINE E == 0..1000
  <2>5. State = [version : V, replicas : Nat, config : C, err : E]
    BY DEF State
  <2> HIDE DEF V, C, E
  <2>6. v \in V /\ c \in C /\ e \in E
    BY <2>1, <2>3, <2>4 DEF V, C, E
  <2>7. s \in [version : V, replicas : Nat, config : C, err : E]
    BY <2>5
  <2>8. new \in [version : V, replicas : Nat, config : C, err : E]
    BY <2>2, <2>6, <2>7, FieldsReplaced
  <2> HIDE DEF new
  <2> QED BY <2>5, <2>8
<1> HIDE DEF new
<1>8. Applied(a, s) = new
  BY <1>6 DEF new
<1> QED BY <1>7, <1>8

LEMMA PatchedIsState ==
  ASSUME NEW a \in Action, NEW s \in State
  PROVE  Patched(a, s) \in State
<1>1. a.params.replicas \in Replicas \cup {Absent}
  BY DEF Action, Params
<1>2. [s EXCEPT !.version = Image] \in State
  BY DEF State
<1>3. \A r \in Nat : [s EXCEPT !.replicas = r] \in State
  BY DEF State
<1>4. s.replicas \in Nat
  BY DEF State
<1>5. (IF a.params.replicas = Absent THEN s.replicas ELSE a.params.replicas) \in Nat
  BY <1>1, <1>4, ReplicasAssumption
<1> QED BY <1>2, <1>3, <1>5 DEF Patched

LEMMA InverseIsAction ==
  ASSUME NEW a \in Action, NEW b, Found(b)
  PROVE  RollbackFor(a, b) \in Action
<1>1. a.params \in Params
  BY DEF Action
<1>2. InverseParams(a, b) \in Params
  <2>1. /\ (IF a.type = "scale_deployment" THEN b.replicas ELSE Absent) \in Replicas \cup {Absent}
        /\ (IF a.type = "rollback_deployment" THEN b.version ELSE Nowhere)
             \in Versions \cup {Nowhere}
        /\ (IF a.type = "patch_config" THEN "clean" ELSE "none") \in {"none", "clean", "shell"}
    BY SnapshotAssumption DEF Found
  <2> QED BY <1>1, <2>1 DEF InverseParams, Params
<1>3. \A p \in Params : [a EXCEPT !.params = p, !.rollback = FALSE] \in Action
  BY DEF Action
<1> QED BY <1>2, <1>3 DEF RollbackFor

LEMMA SnapshotIsState ==
  ASSUME NEW err \in 0..1000
  PROVE  Snapshot(err) \in State /\ Found(Snapshot(err))
BY DEF Snapshot, State, Found

-----------------------------------------------------------------------------
(* CountInv and StateInv are kept.                                         *)

\* A step that neither executes, nor judges, nor rolls back, and where it may lead.
LEMMA OtherKind ==
  ASSUME KindInv, GateInv',
         UNCHANGED <<action, setting, before, after, doing, changes, verdicts>>,
         sealed' \in BOOLEAN, connected' \in BOOLEAN, reachable' \in BOOLEAN,
         consent' \in {"none", "auto", "human"}, cluster' \in State,
         probe' \in [Thread -> {"out", "connect", "answer"}],
         \/ pc' = pc
         \/ pc \in Early /\ pc' \in Early \cup Asking \cup Stop
         \/ pc \in Asking /\ pc' \in Asking \cup Stop
         \/ pc \in Late /\ pc' \in Stop
  PROVE  KindInv'
<1>1. pc' \in Early \cup Late \cup Stop
  BY DEF KindInv, StateInv, Late
<1>2. StateInv'
  BY <1>1 DEF KindInv, StateInv, Found
<1>3. Len(changes) \in Nat /\ Len(verdicts) \in Nat
  BY DEF KindInv, CountInv
<1>4. CountInv'
  <2>1. CASE pc' = pc
    BY <2>1 DEF KindInv, CountInv
  <2>2. CASE pc \in Early /\ pc' \in Early \cup Asking \cup Stop
    <3>1. Len(changes) = 0 /\ Len(verdicts) = 0
      BY <1>3, <2>2 DEF KindInv, CountInv
    <3>2. pc' \notin {"verify", "judged"}
      BY <2>2 DEF Early, Asking, Stop
    <3> QED BY <3>1, <3>2 DEF KindInv, CountInv
  <2>3. CASE pc \in Asking /\ pc' \in Asking \cup Stop
    BY <2>3 DEF KindInv, CountInv, Early, Asking, Stop
  <2>4. CASE pc \in Late /\ pc' \in Stop
    BY <2>4 DEF KindInv, CountInv, Early, Asking, Stop
  <2> QED BY <2>1, <2>2, <2>3, <2>4
<1> QED BY <1>2, <1>4 DEF KindInv

\* An execution.
LEMMA ExecutedKind ==
  ASSUME KindInv, GateInv', pc \in Asking, NEW tier \in {"mock", "live"}, Executed(tier),
         pc' = "verify", before' = Base, after' \in State,
         UNCHANGED <<action, setting, sealed, consent, connected, reachable, cluster,
                     doing, verdicts>>,
         probe' \in [Thread -> {"out", "connect", "answer"}]
  PROVE  KindInv' /\ Len(changes') = Len(changes) + 1
<1> DEFINE c == [action |-> doing, tier |-> tier, consent |-> consent]
<1>1. consent \in {"auto", "human"} /\ doing \in Action
  BY DEF KindInv, GateInv, StateInv, Late
<1>2. c \in Change
  BY <1>1 DEF Change
<1>3. changes' = Append(changes, c)
  BY DEF Executed
<1> HIDE DEF c
<1>4. /\ changes \in Seq(Change) /\ Len(changes) \in Nat /\ Len(changes) <= 1
      /\ Len(verdicts) = Len(changes)
  BY DEF KindInv, CountInv
<1>5. changes' \in Seq(Change) /\ Len(changes') = Len(changes) + 1
  BY <1>2, <1>3, <1>4
<1>6. CountInv'
  BY <1>4, <1>5 DEF KindInv, CountInv, Early, Asking
<1>7. before' \in State /\ (Len(changes) = 0 => Found(before'))
  BY <1>4 DEF KindInv, StateInv, Base
<1>8. StateInv'
  BY <1>4, <1>5, <1>7 DEF KindInv, StateInv, Late, Found
<1> QED BY <1>5, <1>6, <1>8 DEF KindInv

\* A verdict.
LEMMA JudgedKind ==
  ASSUME KindInv, GateInv', pc = "verify", NEW v \in Verdict, Judge(v),
         UNCHANGED <<action, setting, sealed, consent, executor, before, after, doing, changes>>
  PROVE  KindInv'
<1>1. verdicts' = Append(verdicts, v) /\ pc' = "judged"
  BY DEF Judge
<1>2. /\ verdicts \in Seq(Verdict) /\ Len(verdicts) \in Nat /\ Len(changes) \in Nat
      /\ Len(changes) = Len(verdicts) + 1 /\ Len(changes) <= 2 /\ changes \in Seq(Change)
  BY DEF KindInv, CountInv
<1>3. verdicts' \in Seq(Verdict) /\ Len(verdicts') = Len(verdicts) + 1
  BY <1>1, <1>2
<1>4. CountInv'
  BY <1>1, <1>2, <1>3 DEF CountInv, Early, Asking
<1>5. StateInv'
  BY <1>1 DEF KindInv, StateInv, executor, Late, Found
<1> QED BY <1>4, <1>5 DEF KindInv

LEMMA RollbackKind == ASSUME KindInv, GateInv', Rollback PROVE KindInv'
<1>1. /\ UNCHANGED <<action, setting, sealed, consent, probe, connected, reachable, cluster,
                     before, after, changes, verdicts>>
      /\ pc = "judged" /\ Len(verdicts) < 2
  BY DEF Rollback, executor, ShouldRollback
<1>2. CASE pc' = "escalated" /\ UNCHANGED doing
  BY <1>1, <1>2, OtherKind DEF KindInv, StateInv, Late, Stop
<1>3. CASE pc' = "apply" /\ doing' = RollbackFor(action, before)
  <2>1. Len(verdicts) = Len(changes) /\ Len(changes) = 1
    <3>1. /\ Len(verdicts) \in Nat /\ Len(changes) \in Nat /\ Len(verdicts) = Len(changes)
          /\ Len(changes) >= 1
      BY <1>1 DEF KindInv, CountInv
    <3> QED BY <1>1, <3>1
  <2>2. Found(before) /\ action \in Action
    BY <2>1, ProposalsAssumption DEF KindInv, StateInv
  <2>3. doing' \in Action
    BY <1>3, <2>2, InverseIsAction
  <2>4. pc' \in Asking /\ pc' \notin Early
    BY <1>3 DEF Asking, Early
  <2>5. CountInv'
    BY <1>1, <1>3, <2>1, <2>4 DEF KindInv, CountInv
  <2>6. StateInv'
    BY <1>1, <2>3, <2>4 DEF KindInv, StateInv, Late, Found
  <2> QED BY <2>5, <2>6 DEF KindInv
<1> QED BY <1>2, <1>3 DEF Rollback

LEMMA InitKind == Init => KindInv
<1> SUFFICES ASSUME Init PROVE KindInv
  OBVIOUS
<1>1. GateInv
  BY InitGate
<1>2. /\ action \in Proposals /\ pc \in {"plan", "resume"} /\ consent = "none" /\ sealed = TRUE
      /\ setting \in [live : BOOLEAN, mapped : BOOLEAN, blastBig : BOOLEAN, env : Environments]
      /\ probe = [t \in Thread |-> "out"] /\ connected = FALSE /\ reachable \in BOOLEAN
      /\ after = before /\ doing = action /\ changes = << >> /\ verdicts = << >>
  BY DEF Init
<1>3. before \in State /\ Found(before)
  <2>1. PICK e \in Errors : before = Snapshot(e)
    BY DEF Init
  <2>2. e \in 0..1000
    BY ErrorsAssumption
  <2> QED BY <2>1, <2>2, SnapshotIsState
<1>4. cluster \in State
  <2>1. cluster \in [version : {Current}, replicas : {3, 5}, config : {"c1"}, err : {0}]
    BY DEF Init
  <2> QED BY <2>1 DEF State
<1>5. pc \in Early /\ pc \notin Asking /\ pc \notin {"verify", "judged"}
  BY <1>2 DEF Early, Asking
<1>6. CountInv
  BY <1>2, <1>5 DEF CountInv
<1>7. probe \in [Thread -> {"out", "connect", "answer"}] /\ action \in Action
  BY <1>2, ProposalsAssumption
<1>8. StateInv
  BY <1>2, <1>3, <1>4, <1>5, <1>7 DEF StateInv
<1> QED BY <1>1, <1>6, <1>8 DEF KindInv

LEMMA NextKind == KindInv /\ [Next]_vars => KindInv'
<1> SUFFICES ASSUME KindInv, [Next]_vars PROVE KindInv'
  OBVIOUS
<1> USE DEF executor
<1>0. GateInv'
  BY NextGate DEF KindInv
<1>a. /\ sealed \in BOOLEAN /\ connected \in BOOLEAN /\ reachable \in BOOLEAN
      /\ consent \in {"none", "auto", "human"} /\ cluster \in State /\ after \in State
      /\ before \in State /\ doing \in Action
      /\ probe \in [Thread -> {"out", "connect", "answer"}] /\ "pipeline" \in Thread
  BY DEF KindInv, StateInv, Thread
<1>b. \A t \in Thread : \A s \in {"out", "connect", "answer"} :
        [probe EXCEPT ![t] = s] \in [Thread -> {"out", "connect", "answer"}]
  BY <1>a
<1>c. Forget => probe' \in [Thread -> {"out", "connect", "answer"}]
  BY <1>a, <1>b DEF Forget
<1>d. Sandboxed => before' = Base /\ after' \in State /\ Executed("mock") /\ pc' = "verify"
  BY <1>a, AppliedIsState DEF Sandboxed, Base
<1>1. CASE Plan \/ Resume \/ Check \/ Tamper
  <2>1. UNCHANGED <<action, setting, executor, before, after, doing, changes, verdicts>>
    BY <1>1 DEF Plan, Resume, Check, Tamper
  <2>2. sealed' \in BOOLEAN /\ consent' \in {"none", "auto", "human"}
    BY <1>1, <1>a DEF Plan, Resume, Check, Tamper
  <2>3. pc' = pc \/ (pc \in Early /\ pc' \in Early \cup Asking \cup Stop)
    BY <1>1 DEF Plan, Resume, Check, Tamper, Early, Asking, Stop
  <2> QED BY <1>0, <1>a, <2>1, <2>2, <2>3, OtherKind
<1>2. CASE ClusterFlaps \/ \E t \in Thread : Ask(t) \/ Connect(t) \/ StatusServed(t)
  <2>1. /\ UNCHANGED <<action, setting, sealed, pc, consent, cluster, before, after, doing,
                       changes, verdicts>>
        /\ connected' \in BOOLEAN /\ reachable' \in BOOLEAN
    BY <1>2, <1>a DEF ClusterFlaps, Ask, Connect, StatusServed
  <2>2. probe' \in [Thread -> {"out", "connect", "answer"}]
    BY <1>2, <1>a, <1>b DEF ClusterFlaps, Ask, Connect, StatusServed
  <2> QED BY <1>0, <1>a, <2>1, <2>2, OtherKind
<1>3. CASE UNCHANGED vars
  BY <1>0, <1>3, <1>a, OtherKind DEF vars
<1>4. CASE ApplyMock
  BY <1>0, <1>4, <1>a, <1>d, ExecutedKind DEF ApplyMock, Asking
<1>5. CASE ApplyLive
  <2>1. pc \in Asking /\ pc' \in Asking \cup Stop
    BY <1>5 DEF ApplyLive, Answered, Asking, Stop
  <2> QED BY <1>0, <1>5, <1>a, <1>c, <2>1, OtherKind DEF ApplyLive
<1>6. CASE Execute
  <2>1. pc \in Asking
    BY <1>6 DEF Execute, Answered, Asking
  <2>2. CASE connected
    <3>1. pc' \in Asking
      BY <1>6, <2>2 DEF Execute, Asking
    <3> QED BY <1>0, <1>6, <1>a, <1>c, <2>1, <2>2, <3>1, OtherKind DEF Execute
  <2>3. CASE ~connected
    BY <1>0, <1>6, <1>a, <1>c, <1>d, <2>1, <2>3, ExecutedKind DEF Execute
  <2> QED BY <2>2, <2>3
<1>7. CASE Patch
  <2>1. pc \in Asking /\ pc' \in Asking \cup Stop
    BY <1>7 DEF Patch, Answered, Asking, Stop
  <2>2. cluster' \in State
    BY <1>7, <1>a, PatchedIsState DEF Patch
  <2> QED BY <1>0, <1>7, <1>a, <1>c, <2>1, <2>2, OtherKind DEF Patch
<1>8. CASE ReadBack
  <2>1. pc \in Asking
    BY <1>8 DEF ReadBack, Answered, Asking
  <2>2. CASE connected /\ reachable
    <3>1. after' \in State
      <4>1. after' = [version |-> Nowhere, replicas |-> cluster.replicas,
                      config |-> "none", err |-> NoErr]
        BY <1>8, <2>2 DEF ReadBack
      <4>2. cluster.replicas \in Nat /\ NoErr \in 0..1000
        BY <1>a DEF State, NoErr
      <4> QED BY <4>1, <4>2 DEF State, NoErr
    <3> QED BY <1>0, <1>8, <1>a, <1>c, <2>1, <2>2, <3>1, ExecutedKind DEF ReadBack
  <2>3. CASE ~(connected /\ reachable)
    <3>1. pc' \in Stop
      BY <1>8, <2>3 DEF ReadBack, Stop
    <3> QED BY <1>0, <1>8, <1>a, <1>c, <2>1, <2>3, <3>1, OtherKind DEF ReadBack
  <2> QED BY <2>2, <2>3
<1>9. CASE VerifyState
  <2>1. [is |-> VerdictOf(before, after), measured |-> FALSE] \in Verdict
    BY DEF VerdictOf, Verdict
  <2> QED BY <1>0, <1>9, <2>1, JudgedKind DEF VerifyState
<1>10. CASE VerifyPrometheus
  <2>1. PICK seen \in [err : {Absent, 5, 500}, replicas : {Absent, 0, 3}, oom : {Absent, 0, 1}] :
           Judge([is |-> PromVerdict(after, seen), measured |-> seen.err # Absent])
    BY <1>10 DEF VerifyPrometheus
  <2>2. [is |-> PromVerdict(after, seen), measured |-> seen.err # Absent] \in Verdict
    BY DEF PromVerdict, Verdict
  <2> QED BY <1>0, <1>10, <2>1, <2>2, JudgedKind DEF VerifyPrometheus
<1>11. CASE Rollback
  BY <1>0, <1>11, RollbackKind
<1>12. CASE Conclude
  <2>1. pc \in Late /\ pc' \in Stop
    BY <1>12 DEF Conclude, Late, Stop
  <2> QED BY <1>0, <1>12, <1>a, <2>1, OtherKind DEF Conclude
<1> QED
  BY <1>1, <1>2, <1>3, <1>4, <1>5, <1>6, <1>7, <1>8, <1>9, <1>10, <1>11, <1>12 DEF Next

\* Every state has the type it should have, and an action executes at most twice,
\* the change and its one automatic rollback, each judged once.
THEOREM TypeCorrect == Spec => []TypeOK
BY KindIsType, InitKind, NextKind, PTL DEF Spec

-----------------------------------------------------------------------------
(* The rollback undoes the change on the mock tier.                        *)

\* Between the two executions the sandbox holds what the first one made of the
\* snapshot, and the next one is its inverse.
UndoInv ==
  /\ pc \in Asking /\ Len(changes) = 0 => doing = action
  /\ ~setting.live =>
       /\ probe["pipeline"] = "out"
       /\ Len(changes) = 1 => after = Applied(action, before)
       /\ Len(changes) = 1 /\ pc \in Asking => doing = RollbackFor(action, before)
       /\ Len(changes) = 2 /\ action.type # "patch_config" => Restored

\* The inverse of an action takes its effect on a snapshot back.
LEMMA InverseUndoes ==
  ASSUME NEW a \in Action, NEW s \in State, Found(s), a.type # "patch_config",
         NEW t, t = Applied(RollbackFor(a, s), Applied(a, s))
  PROVE  t.version = Current /\ t.replicas = 3 /\ t.config = "c1"
<1> DEFINE once == Applied(a, s)
           inverse == RollbackFor(a, s)
<1>1. once \in State
  BY AppliedIsState
<1>2. /\ a.type # "rollback_deployment" => once.version = Current
      /\ a.type # "scale_deployment" => once.replicas = 3
      /\ once.config = "c1"
  BY AppliedIs DEF Found
<1>3. /\ inverse.type = a.type
      /\ a.type = "rollback_deployment" => inverse.params.to_version = Current
      /\ a.type = "scale_deployment" => inverse.params.replicas = 3
  <2>1. inverse.type = a.type /\ inverse.params = InverseParams(a, s)
    BY InverseIsAlike
  <2>2. /\ a.type = "rollback_deployment" => InverseParams(a, s).to_version = Current
        /\ a.type = "scale_deployment" => InverseParams(a, s).replicas = 3
    BY DEF InverseParams, Found
  <2> HIDE DEF inverse
  <2> QED BY <2>1, <2>2
<1> HIDE DEF once, inverse
<1>4. /\ t.version = IF inverse.type # "rollback_deployment" THEN once.version
                     ELSE IF inverse.params.to_version = Nowhere THEN Older
                     ELSE inverse.params.to_version
      /\ t.replicas = IF inverse.type = "scale_deployment" /\ inverse.params.replicas # Absent
                      THEN inverse.params.replicas ELSE once.replicas
      /\ t.config = IF inverse.type = "patch_config" THEN "c2" ELSE once.config
  BY <1>1, AppliedIs DEF once, inverse
<1> QED BY <1>2, <1>3, <1>4 DEF Current, Nowhere, Absent

\* A step that neither executes nor sets up an execution.
LEMMA OtherUndo ==
  ASSUME UndoInv, UNCHANGED <<action, setting, before, after, doing, changes>>,
         pc' \in Asking => pc \in Asking,
         ~setting.live => UNCHANGED probe
  PROVE  UndoInv'
BY DEF UndoInv, Restored

\* An execution in the sandbox.
LEMMA SandboxedUndo ==
  ASSUME KindInv, UndoInv, Sandboxed, pc \in Asking, ~setting.live,
         UNCHANGED <<action, setting, probe, doing>>
  PROVE  UndoInv'
<1>1. /\ changes \in Seq(Change) /\ Len(changes) \in Nat /\ Len(changes) <= 1
  BY DEF KindInv, CountInv
<1>2. doing \in Action /\ consent \in {"auto", "human"} /\ action \in Action
  BY DEF KindInv, StateInv, GateInv, Late
<1> DEFINE c == [action |-> doing, tier |-> "mock", consent |-> consent]
<1>3. changes' = Append(changes, c) /\ c \in Change
  BY <1>2 DEF Sandboxed, Executed, Change
<1> HIDE DEF c
<1>4. Len(changes') = Len(changes) + 1
  BY <1>1, <1>3
<1>5. pc' \notin Asking /\ before' = Base /\ after' = Applied(doing, Base)
  BY DEF Sandboxed, Asking
<1>6. CASE Len(changes) = 0
  <2>1. after' = Applied(action, before) /\ before' = before
    BY <1>5, <1>6 DEF UndoInv, Base
  <2> QED BY <1>4, <1>5, <1>6, <2>1 DEF UndoInv
<1>7. CASE Len(changes) = 1
  <2>1. after' = Applied(RollbackFor(action, before), Applied(action, before))
    BY <1>5, <1>7 DEF UndoInv, Base
  <2>2. before \in State /\ Found(before)
    BY <1>7 DEF KindInv, StateInv
  <2>3. action.type # "patch_config" => Restored'
    BY <1>2, <2>1, <2>2, InverseUndoes DEF Restored
  <2> QED BY <1>4, <1>5, <1>7, <2>3 DEF UndoInv
<1>8. Len(changes) = 0 \/ Len(changes) = 1
  <2>1. \A n \in Nat : n <= 1 => n = 0 \/ n = 1
    OBVIOUS
  <2> QED BY <1>1, <2>1
<1> QED BY <1>6, <1>7, <1>8

\* A live run says nothing about the sandbox.
LEMMA LiveUndo ==
  ASSUME UndoInv, UNCHANGED <<action, setting, doing>>, setting.live,
         \/ pc' \notin Asking
         \/ pc \in Asking /\ UNCHANGED changes
  PROVE  UndoInv'
BY DEF UndoInv

LEMMA RollbackUndo == ASSUME KindInv, UndoInv, Rollback PROVE UndoInv'
<1>1. UNCHANGED <<action, setting, probe, before, after, changes>> /\ pc = "judged"
  BY DEF Rollback, executor
<1>2. Len(changes) # 0
  BY <1>1 DEF KindInv, CountInv
<1>3. CASE pc' = "escalated" /\ UNCHANGED doing
  BY <1>1, <1>3, OtherUndo DEF Asking
<1>4. CASE pc' = "apply" /\ doing' = RollbackFor(action, before)
  BY <1>1, <1>2, <1>4 DEF UndoInv, Restored
<1> QED BY <1>3, <1>4 DEF Rollback

LEMMA InitUndo == Init => UndoInv
<1> SUFFICES ASSUME Init PROVE UndoInv
  OBVIOUS
<1>1. changes = << >> /\ probe = [t \in Thread |-> "out"] /\ "pipeline" \in Thread
      /\ doing = action
  BY DEF Init, Thread
<1> QED BY <1>1 DEF UndoInv

LEMMA NextUndo == KindInv /\ UndoInv /\ [Next]_vars => UndoInv'
<1> SUFFICES ASSUME KindInv, UndoInv, [Next]_vars PROVE UndoInv'
  OBVIOUS
<1> USE DEF executor
<1>1. CASE Plan \/ Resume \/ Check
  <2>1. /\ UNCHANGED <<action, setting, probe, before, after, doing, changes>>
        /\ pc \in Early
    BY <1>1 DEF Plan, Resume, Check, Early
  <2>2. doing = action /\ Len(changes) = 0
    BY <2>1 DEF KindInv, GateInv, CountInv
  <2> QED BY <2>1, <2>2 DEF UndoInv
<1>2. CASE Tamper \/ ClusterFlaps \/ UNCHANGED vars
  BY <1>2, OtherUndo DEF Tamper, ClusterFlaps, vars
<1>3. CASE \E t \in Thread : Ask(t) \/ Connect(t) \/ StatusServed(t)
  <2>1. PICK t \in Thread : Ask(t) \/ Connect(t) \/ StatusServed(t)
    BY <1>3
  <2>2. UNCHANGED <<action, setting, pc, before, after, doing, changes>>
    BY <2>1 DEF Ask, Connect, StatusServed
  <2>3. ~setting.live => t # "pipeline"
    BY <2>1, ProberAssumption DEF Ask, Connect, StatusServed, MayAsk, UndoInv
  <2>4. t # "pipeline" => probe'["pipeline"] = probe["pipeline"]
    <3>1. probe \in [Thread -> {"out", "connect", "answer"}] /\ "pipeline" \in Thread
      BY DEF KindInv, StateInv, Thread
    <3> QED BY <2>1, <3>1 DEF Ask, Connect, StatusServed
  <2> QED BY <2>2, <2>3, <2>4 DEF UndoInv, Restored
<1>4. CASE ApplyMock
  BY <1>4, SandboxedUndo DEF ApplyMock, Asking
<1>5. CASE ApplyLive \/ Execute \/ Patch \/ ReadBack
  <2>1. pc \in Asking /\ probe["pipeline"] = "answer"
    BY <1>5 DEF ApplyLive, Execute, Patch, ReadBack, Answered, Asking
  <2>2. setting.live
    BY <2>1 DEF UndoInv, KindInv, StateInv
  <2>3. pc' \notin Asking \/ UNCHANGED changes
    BY <1>5 DEF ApplyLive, Execute, Patch, ReadBack, Sandboxed, Asking
  <2>4. UNCHANGED <<action, setting, doing>>
    BY <1>5 DEF ApplyLive, Execute, Patch, ReadBack
  <2> QED BY <2>1, <2>2, <2>3, <2>4, LiveUndo
<1>6. CASE VerifyState \/ VerifyPrometheus \/ Conclude
  <2>1. /\ UNCHANGED <<action, setting, probe, before, after, doing, changes>>
        /\ pc' \notin Asking
    BY <1>6 DEF VerifyState, VerifyPrometheus, Conclude, Judge, Asking
  <2> QED BY <2>1, OtherUndo
<1>7. CASE Rollback
  BY <1>7, RollbackUndo
<1> QED BY <1>1, <1>2, <1>3, <1>4, <1>5, <1>6, <1>7 DEF Next

\* On the mock tier, an automatic rollback of anything but a patch leaves the
\* version, the replicas and the configuration it found (rollback.py).
THEOREM RollbackUndoesHolds == Spec => []RollbackUndoes
<1>1. UndoInv => RollbackUndoes
  BY DEF UndoInv, RollbackUndoes
<1> QED BY <1>1, InitKind, NextKind, InitUndo, NextUndo, PTL DEF Spec

=============================================================================
