-------------------------- MODULE LifecycleProofs --------------------------
(***************************************************************************)
(* Proofs about one incident in the whole control plane, for every set of  *)
(* approvals and of publishers, every life of a permit and every bound of  *)
(* the clock: the threads and handlers together are a caller of fsm.py as  *)
(* IncidentFsm allows, what is executed is what was approved, and a run    *)
(* that no operator advanced is resolved on a verdict about its last       *)
(* change.                                                                 *)
(*                                                                         *)
(* The two safety properties relate the target to the run, and neither is  *)
(* inductive: a thread between its advance to EXECUTING and its verdict    *)
(* carries the permit in a local variable.  DriverInv says that at most    *)
(* one thread is in that stretch, which permit it holds, and what has been *)
(* changed and judged by the point it has reached.                         *)
(***************************************************************************)
EXTENDS Lifecycle, SequenceTheorems, TLAPS

-----------------------------------------------------------------------------
(* Types.                                                                  *)

Pc ==
  {"idle", "end", "adopt", "apply", "undo", "judge", "rejudge", "recheck",
   "rca", "publish", "triage", "correlate", "investigate", "diagnose",
   "diagnosed", "plan", "check", "deny", "approve", "start", "verify",
   "rollback", "reverify", "resolve", "escalate", "review", "published",
   "audited"}

Credential == [ref : Ref, expires : 0..MaxExpiry] \cup {NoPermit}

\* From the approval to the end of the rollback a thread has a permit in hand.
Holding == {"start", "apply", "verify", "judge", "rollback", "undo"}

ThreadState ==
  {s \in [pc : Pc, ts : 0..MaxTime, permit : Credential] :
     s.pc \in Holding => s.permit # NoPermit}

\* TypeOK, with permits bounded as the calls of IncidentFsm are.
Typed ==
  /\ run \in IncidentRun
  /\ served \in BOOLEAN /\ resuming \in BOOLEAN
  /\ manual \in BOOLEAN /\ broken \in BOOLEAN
  /\ approvals \in [Approval -> {"unminted", "minted"}]
  /\ queue \in Credential
  /\ thr \in [Thread -> ThreadState]
  /\ changes \in Seq(Change) /\ verdicts \in Seq(Verdict)
  /\ publications \in Nat /\ clock \in 0..MaxTime

LEMMA Pcs == 
  /\ {r[1] : r \in Route} \subseteq Pc
  /\ Pc \subseteq {"idle", "end", "adopt", "apply", "undo", "judge", "rejudge",
                   "recheck", "rca", "publish"} \cup {r[1] : r \in Route}
<1>1. \A r \in Route : r[1] \in Pc
  BY DEF Route, Pc
<1>2. \A p \in Pc : \/ p \in {"idle", "end", "adopt", "apply", "undo", "judge",
                              "rejudge", "recheck", "rca", "publish"}
                    \/ \E r \in Route : r[1] = p
  BY DEF Route, Pc
<1> QED BY <1>1, <1>2

LEMMA RouteTypes ==
  \A r \in Route :
    /\ r[1] \in Pc /\ r[2] \in States /\ r[3] \in Pc
    /\ r[3] \in Holding => r[1] \in Holding \/ r[2] = "APPROVED"
BY DEF Route, Pc, States, Holding

LEMMA Bounds ==
  /\ MaxTime \in Nat /\ Freshness \in Nat /\ MaxExpiry \in Nat
  /\ MaxExpiry = MaxTime + Freshness
  /\ MaxTime <= MaxExpiry
BY TimeAssumption DEF MaxExpiry

LEMMA CredentialIsPermit == Credential \subseteq Permit \cup {NoPermit}
BY Bounds DEF Credential, Permit

LEMMA TypedImpliesTypeOK == Typed => TypeOK
<1> SUFFICES ASSUME Typed PROVE TypeOK
  OBVIOUS
<1>1. ThreadState \subseteq
        [pc : {"idle", "end", "adopt", "apply", "undo", "judge", "rejudge",
               "recheck", "rca", "publish"} \cup {r[1] : r \in Route},
         ts : 0..MaxTime, permit : Permit \cup {NoPermit}]
  BY Pcs, CredentialIsPermit DEF ThreadState
<1> HIDE DEF ThreadState
<1>2. thr \in [Thread ->
        [pc : {"idle", "end", "adopt", "apply", "undo", "judge", "rejudge",
               "recheck", "rca", "publish"} \cup {r[1] : r \in Route},
         ts : 0..MaxTime, permit : Permit \cup {NoPermit}]]
  BY <1>1, Zenon DEF Typed
<1> QED BY <1>2, CredentialIsPermit DEF Typed, TypeOK

\* What fsm.py makes of a run record is a run record.
LEMMA AdvancedTyped ==
  ASSUME NEW r \in IncidentRun, NEW to \in States,
         NEW permit \in Permit \cup {NoPermit}, NEW now \in Nat,
         AdvanceOK(r, to, TRUE, TRUE, permit, now)
  PROVE  Advanced(r, to, permit, now) \in IncidentRun
<1>1. to = "EXECUTING" => r.permit \in Permit
  BY DEF AdvanceOK, IncidentRun
<1>2. [frm |-> r.state, to |-> to, forced |-> FALSE] \in TransitionRecord
  BY DEF TransitionRecord, IncidentRun
<1>3. Append(r.history, [frm |-> r.state, to |-> to, forced |-> FALSE]) \in Seq(TransitionRecord)
  BY <1>2 DEF IncidentRun
<1>4. PermitAfter(r, to, permit) \in Permit \cup {NoPermit}
  BY DEF PermitAfter, IncidentRun
<1>5. (IF to = "EXECUTING" THEN r.consumed_refs \cup {r.permit.ref} ELSE r.consumed_refs) \in SUBSET Ref
  BY <1>1 DEF IncidentRun, Permit
<1> QED BY <1>3, <1>4, <1>5 DEF Advanced, IncidentRun

LEMMA SweptTyped ==
  ASSUME NEW r \in IncidentRun, NEW now \in Nat
  PROVE  Swept(r, now) \in IncidentRun
<1>1. [frm |-> r.state, to |-> "ESCALATED", forced |-> TRUE] \in TransitionRecord
  BY DEF TransitionRecord, IncidentRun, States
<1>2. Append(r.history, [frm |-> r.state, to |-> "ESCALATED", forced |-> TRUE]) \in Seq(TransitionRecord)
  BY <1>1 DEF IncidentRun
<1> QED BY <1>2 DEF Swept, IncidentRun, States

LEMMA InitTyped == Init => Typed
<1> SUFFICES ASSUME Init PROVE Typed
  OBVIOUS
<1>1. Idle \in ThreadState /\ [Idle EXCEPT !.pc = "triage"] \in ThreadState
  BY Bounds DEF Idle, ThreadState, Pc, Credential, Holding
<1>2. thr \in [Thread -> ThreadState]
  BY <1>1 DEF Init
<1>3. run \in IncidentRun
  BY DEF Init, new_run, IncidentRun, States
<1>4. approvals \in [Approval -> {"unminted", "minted"}]
  BY DEF Init
<1>5. changes \in Seq(Change) /\ verdicts \in Seq(Verdict)
  BY EmptySeq DEF Init
<1>6. queue \in Credential
  BY DEF Init, Credential
<1>7. clock \in 0..MaxTime /\ publications \in Nat
  BY Bounds DEF Init
<1>8. /\ served \in BOOLEAN /\ resuming \in BOOLEAN
      /\ manual \in BOOLEAN /\ broken \in BOOLEAN
  BY DEF Init
<1> QED BY <1>2, <1>3, <1>4, <1>5, <1>6, <1>7, <1>8 DEF Typed

\* A thread moves on, or ends, as a thread.
LEMMA GotoTyped ==
  ASSUME Typed, NEW t \in Thread, NEW pc \in Pc, Goto(t, pc),
         pc \in Holding => thr[t].permit # NoPermit
  PROVE  thr' \in [Thread -> ThreadState] /\ resuming' \in BOOLEAN
<1>1. [thr[t] EXCEPT !.pc = pc] \in ThreadState
  BY DEF Typed, ThreadState
<1> QED BY <1>1 DEF Typed, Goto

LEMMA LeaveTyped ==
  ASSUME Typed, NEW t \in Thread, Leave(t)
  PROVE  thr' \in [Thread -> ThreadState] /\ resuming' \in BOOLEAN
<1>1. [Idle EXCEPT !.pc = IF t = "resume" THEN "idle" ELSE "end"] \in ThreadState
  BY Bounds DEF Idle, ThreadState, Pc, Credential, Holding
<1> QED BY <1>1 DEF Typed, Leave

LEMMA OfferedTyped ==
  ASSUME Typed, NEW t \in Thread, NEW to
  PROVE  Offered(t, to) \in Credential /\ thr[t].ts \in 0..MaxTime
BY DEF Typed, ThreadState, Offered, Credential

LEMMA WalkTyped ==
  ASSUME Typed, NEW t \in Thread, Walk(t)
  PROVE  Typed'
<1>1. PICK r \in Route : /\ At(t, r[1]) /\ Move(t, r[2])
                         /\ IF r[3] = "end" THEN Leave(t) ELSE Goto(t, r[3])
                         /\ UNCHANGED <<served, approvals, queue, changes, verdicts,
                                        publications, manual, broken, clock>>
  BY DEF Walk
<1>2. r[2] \in States /\ r[3] \in Pc
  BY RouteTypes
<1>3. Offered(t, r[2]) \in Permit \cup {NoPermit} /\ thr[t].ts \in Nat
  BY OfferedTyped, CredentialIsPermit, Bounds
<1>4. run' \in IncidentRun
  BY <1>1, <1>2, <1>3, AdvancedTyped DEF Move, Typed
<1>5. r[3] \in Holding => thr[t].permit # NoPermit
  <2>1. r[1] \in Holding => thr[t].permit # NoPermit
    BY <1>1 DEF Typed, ThreadState, At
  <2>2. r[2] = "APPROVED" => thr[t].permit # NoPermit
    BY <1>1 DEF Move, AdvanceOK, ApproveOK, Offered
  <2> QED BY <2>1, <2>2, RouteTypes
<1>6. thr' \in [Thread -> ThreadState] /\ resuming' \in BOOLEAN
  BY <1>1, <1>2, <1>5, GotoTyped, LeaveTyped
<1> QED BY <1>1, <1>4, <1>6 DEF Typed

\* What a thread does to the target.
LEMMA DoneTyped ==
  ASSUME Typed, NEW t \in Thread, NEW ok \in BOOLEAN, At(t, "apply") \/ At(t, "undo")
  PROVE  Done(t, ok) \in Change
<1>1. thr[t].permit # NoPermit /\ thr[t].permit \in Credential
  BY DEF Typed, ThreadState, Holding, At
<1> QED BY <1>1 DEF Done, Kind, Change, Credential

LEMMA ExecuteTyped ==
  ASSUME Typed, NEW t \in Thread, ExecuteOnce(t) \/ ExecutorRaises(t)
  PROVE  Typed'
<1>1. CASE ExecuteOnce(t)
  <2>1. At(t, "apply") \/ At(t, "undo")
    BY <1>1 DEF ExecuteOnce
  <2>2. changes' \in Seq(Change)
    <3>1. changes' \in {changes, Append(changes, Done(t, TRUE))}
      BY <1>1 DEF ExecuteOnce
    <3>2. Done(t, TRUE) \in Change /\ changes \in Seq(Change)
      BY <2>1, DoneTyped DEF Typed
    <3>3. Append(changes, Done(t, TRUE)) \in Seq(Change)
      BY <3>2, AppendProperties
    <3> QED BY <3>1, <3>2, <3>3
  <2>3. thr[t].permit # NoPermit
    BY <2>1 DEF Typed, ThreadState, Holding, At
  <2>4. thr' \in [Thread -> ThreadState] /\ resuming' \in BOOLEAN
    BY <1>1, <2>3, GotoTyped DEF ExecuteOnce, Pc
  <2> QED BY <1>1, <2>2, <2>4 DEF ExecuteOnce, Typed
<1>2. CASE ExecutorRaises(t)
  <2>1. At(t, "apply") \/ At(t, "undo")
    BY <1>2 DEF ExecutorRaises
  <2>2. changes' \in Seq(Change)
    <3>1. changes' \in {changes, Append(changes, Done(t, FALSE))}
      BY <1>2 DEF ExecutorRaises
    <3>2. Done(t, FALSE) \in Change /\ changes \in Seq(Change)
      BY <2>1, DoneTyped DEF Typed
    <3>3. Append(changes, Done(t, FALSE)) \in Seq(Change)
      BY <3>2, AppendProperties
    <3> QED BY <3>1, <3>2, <3>3
  <2>3. thr' \in [Thread -> ThreadState] /\ resuming' \in BOOLEAN
    BY <1>2, LeaveTyped DEF ExecutorRaises
  <2> QED BY <1>2, <2>2, <2>3 DEF ExecutorRaises, Typed
<1> QED BY <1>1, <1>2

LEMMA JudgeTyped ==
  ASSUME Typed, NEW t \in Thread, Judge(t)
  PROVE  Typed'
<1>1. PICK v \in Verdict :
        /\ verdicts' = Append(verdicts, v)
        /\ \E pc \in AfterVerdict(t, v) : Goto(t, pc)
  BY DEF Judge
<1>2. PICK pc \in AfterVerdict(t, v) : Goto(t, pc)
  BY <1>1
<1>3. pc \in Pc /\ (pc \in Holding => At(t, "judge"))
  BY DEF AfterVerdict, Pc, Holding
<1>4. At(t, "judge") => thr[t].permit # NoPermit
  BY DEF Typed, ThreadState, Holding, At
<1>5. thr' \in [Thread -> ThreadState] /\ resuming' \in BOOLEAN
  BY <1>2, <1>3, <1>4, GotoTyped
<1>6. verdicts' \in Seq(Verdict)
  BY <1>1 DEF Typed
<1> QED BY <1>5, <1>6 DEF Judge, Typed

\* The steps of any thread that touch neither the run nor the target.
LEMMA ThreadTyped ==
  ASSUME Typed, NEW t \in Thread,
         \/ WalkRaises(t) \/ CallRaises(t)
         \/ Finalize(t) \/ Publish(t) \/ StartPublish(t)
  PROVE  Typed'
<1>1. CASE WalkRaises(t)
  <2>1. Leave(t) /\ UNCHANGED <<run, served, approvals, queue, changes, verdicts,
                                publications, manual, broken, clock>>
    BY <1>1 DEF WalkRaises
  <2> QED BY <2>1, LeaveTyped DEF Typed
<1>2. CASE Finalize(t)
  <2>1. CASE AfterChecks = "end"
    BY <1>2, <2>1, LeaveTyped DEF Finalize, Typed
  <2>2. CASE AfterChecks # "end"
    <3>1. AfterChecks \in Pc \ Holding
      BY <2>2 DEF AfterChecks, Pc, Holding
    <3>2. [thr[t] EXCEPT !.pc = AfterChecks, !.ts = clock] \in ThreadState
      BY <3>1 DEF Typed, ThreadState
    <3> HIDE DEF ThreadState
    <3>3. thr' \in [Thread -> ThreadState]
      BY <1>2, <2>2, <3>2 DEF Finalize, Typed
    <3> QED BY <1>2, <2>2, <3>3 DEF Finalize, Typed
  <2> QED BY <2>1, <2>2
<1>3. CASE Publish(t)
  <2>1. thr' \in [Thread -> ThreadState] /\ resuming' \in BOOLEAN
    BY <1>3, GotoTyped, LeaveTyped DEF Publish, Pc, Holding
  <2> QED BY <1>3, <2>1 DEF Publish, Typed
<1>4. CASE StartPublish(t)
  <2>1. thr' \in [Thread -> ThreadState] /\ resuming' \in BOOLEAN
    BY <1>4, GotoTyped DEF StartPublish, Pc, Holding
  <2> QED BY <1>4, <2>1 DEF StartPublish, Typed
<1>5. CASE CallRaises(t)
  <2>1. thr' \in [Thread -> ThreadState] /\ resuming' \in BOOLEAN
    BY <1>5, LeaveTyped DEF CallRaises
  <2>2. broken' \in BOOLEAN
    BY <1>5 DEF CallRaises
  <2> QED BY <1>5, <2>1, <2>2 DEF CallRaises, Typed
<1> QED BY <1>1, <1>2, <1>3, <1>4, <1>5

LEMMA WorkerTyped ==
  ASSUME Typed, Allow \/ Adopt
  PROVE  Typed'
<1>0. "worker" \in Thread
  BY DEF Thread
<1>1. CASE Allow
  <2> DEFINE p == [ref |-> AutoRef, expires |-> thr["worker"].ts + Freshness]
             s == [thr["worker"] EXCEPT !.pc = "approve", !.permit = p]
  <2>0. thr["worker"] \in ThreadState /\ thr["worker"].ts \in 0..MaxTime
    BY <1>0 DEF Typed, ThreadState
  <2>1. p \in Credential
    <3>1. thr["worker"].ts + Freshness \in 0..MaxExpiry
      BY <2>0, Bounds
    <3> QED BY <3>1, AutoAssumption DEF Credential
  <2>2. s \in ThreadState
    <3> HIDE DEF p
    <3>1. p # NoPermit
      <4>1. p \in [ref : Ref, expires : Nat]
        BY <2>0, Bounds, AutoAssumption DEF p
      <4> QED BY <4>1, NoPermitAssumption
    <3> QED BY <2>0, <2>1, <3>1 DEF ThreadState, Pc, Holding
  <2>3. thr' = [thr EXCEPT !["worker"] = s]
    BY <1>1 DEF Allow
  <2>4. thr' \in [Thread -> ThreadState]
    BY <2>2, <2>3 DEF Typed
  <2> QED BY <1>1, <2>4 DEF Allow, Typed
<1>2. CASE Adopt
  BY <1>0, <1>2, LeaveTyped DEF Adopt, Typed
<1> QED BY <1>1, <1>2

LEMMA ResumerTyped ==
  ASSUME Typed, TakeJobNoRun \/ TakeJob \/ Recheck \/ Resumed
  PROVE  Typed'
<1>0. "resume" \in Thread
  BY DEF Thread
<1>1. CASE TakeJobNoRun
  BY <1>1 DEF TakeJobNoRun, Typed, Credential
<1>2. CASE TakeJob
  <2>1. [pc |-> "recheck", ts |-> clock, permit |-> queue] \in ThreadState
    BY DEF Typed, ThreadState, Pc, Holding
  <2>2. thr' \in [Thread -> ThreadState]
    BY <1>2, <2>1 DEF TakeJob, Typed
  <2> QED BY <1>2, <2>2 DEF TakeJob, Typed, Credential
<1>3. CASE Recheck
  <2>1. thr' \in [Thread -> ThreadState] /\ resuming' \in BOOLEAN
    BY <1>0, <1>3, GotoTyped DEF Recheck, Pc, Holding
  <2> QED BY <1>3, <2>1 DEF Recheck, Typed
<1>4. CASE Resumed
  <2>1. thr' \in [Thread -> ThreadState] /\ resuming' \in BOOLEAN
    BY <1>0, <1>4, GotoTyped DEF Resumed, Pc, Holding
  <2> QED BY <1>4, <2>1 DEF Resumed, Typed
<1> QED BY <1>1, <1>2, <1>3, <1>4

LEMMA HandlerTyped ==
  ASSUME Typed,
         \/ \E a \in Approval, e \in 1..MaxExpiry : Grant(a, e) \/ HttpApprove(a, e)
         \/ \E to \in States : HttpAdvance(to)
         \/ \E now \in 0..MaxExpiry, st, at \in 1..MaxExpiry : HttpSweep(now, st, at)
         \/ Tick
  PROVE  Typed'
<1>0. \A a \in Approval, e \in 1..MaxExpiry :
        /\ [ref |-> a, expires |-> e] \in Credential
        /\ [ref |-> a, expires |-> e] \in Permit
  BY Bounds DEF Approval, Credential, Permit
<1>1. ASSUME NEW a \in Approval, NEW e \in 1..MaxExpiry, Grant(a, e)
      PROVE  Typed'
  BY <1>0, <1>1 DEF Grant, MintPermit, Typed
<1>2. ASSUME NEW a \in Approval, NEW e \in 1..MaxExpiry, HttpApprove(a, e)
      PROVE  Typed'
  <2>1. clock \in Nat /\ "APPROVED" \in States /\ run \in IncidentRun
    BY Bounds DEF Typed, States
  <2>2. run' \in IncidentRun /\ manual' \in BOOLEAN
    BY <1>0, <1>2, <2>1, AdvancedTyped DEF HttpApprove, Typed
  <2> QED BY <1>2, <2>2 DEF HttpApprove, MintPermit, Typed
<1>3. ASSUME NEW to \in States, HttpAdvance(to)
      PROVE  Typed'
  <2>1. clock \in Nat /\ run \in IncidentRun
    BY Bounds DEF Typed
  <2>2. run' \in IncidentRun
    BY <1>3, <2>1, AdvancedTyped DEF HttpAdvance
  <2> QED BY <1>3, <2>2 DEF HttpAdvance, Typed
<1>4. ASSUME NEW now \in 0..MaxExpiry, NEW st \in 1..MaxExpiry, NEW at \in 1..MaxExpiry,
             HttpSweep(now, st, at)
      PROVE  Typed'
  <2>1. run' \in IncidentRun
    BY <1>4, Bounds, SweptTyped DEF HttpSweep, Typed
  <2> QED BY <1>4, <2>1 DEF HttpSweep, Typed
<1>5. CASE Tick
  BY <1>5, Bounds DEF Tick, Typed
<1> QED BY <1>1, <1>2, <1>3, <1>4, <1>5

LEMMA TypedStep == Typed /\ [Next]_vars => Typed'
<1> SUFFICES ASSUME Typed, [Next]_vars PROVE Typed'
  OBVIOUS
<1>1. ASSUME NEW t \in Thread, Proceed(t) \/ CallRaises(t) \/ ExecutorRaises(t) \/ StartPublish(t)
      PROVE  Typed'
  BY <1>1, WalkTyped, ThreadTyped, ExecuteTyped, JudgeTyped, WorkerTyped, ResumerTyped
     DEF Proceed
<1>2. CASE UNCHANGED vars
  BY <1>2 DEF vars, Typed
<1> QED BY <1>1, <1>2, HandlerTyped DEF Next

\* The run, the credentials and the threads keep their shapes, and every
\* thread that executes has a permit in hand.
THEOREM TypeCorrect == Spec => []TypeOK
<1>1. Spec => []Typed
  BY InitTyped, TypedStep, PTL DEF Spec
<1> QED BY <1>1, TypedImpliesTypeOK, PTL

-----------------------------------------------------------------------------
(* Lifecycle implements IncidentFsm.                                       *)

\* The instance reads a run by the same rules.
LEMMA SameRules ==
  /\ FsmRun!Time = 0..MaxExpiry
  /\ FsmRun!Offer = Credential
  /\ FsmRun!States = States
  /\ \A now : FsmRun!new_run(now) = new_run(now)
  /\ \A r, to, permit, now :
       /\ FsmRun!AdvanceOK(r, to, TRUE, TRUE, permit, now)
            <=> AdvanceOK(r, to, TRUE, TRUE, permit, now)
       /\ FsmRun!Advanced(r, to, permit, now) = Advanced(r, to, permit, now)
  /\ \A r, to : FsmRun!EdgeAllowed(r, to) = EdgeAllowed(r, to)
  /\ \A r, now, st, at : FsmRun!SweepDue(r, now, st, at) = SweepDue(r, now, st, at)
  /\ \A r, now : FsmRun!Swept(r, now) = Swept(r, now)
<1>1. FsmRun!Time = 0..MaxExpiry /\ FsmRun!Offer = Credential
  BY DEF FsmRun!Time, FsmRun!Offer, Credential
<1>2. FsmRun!States = States /\ FsmRun!Edges = Edges /\ FsmRun!Terminal = Terminal
      /\ FsmRun!TtlStages = TtlStages
  BY DEF FsmRun!States, States, FsmRun!Edges, Edges, FsmRun!Terminal, Terminal,
         FsmRun!TtlStages, TtlStages
<1>3. \A now : FsmRun!new_run(now) = new_run(now)
  BY DEF FsmRun!new_run, new_run
<1>4. \A r, to : /\ FsmRun!EdgeAllowed(r, to) = EdgeAllowed(r, to)
                 /\ FsmRun!IsReplan(r, to) = IsReplan(r, to)
                 /\ FsmRun!ReplanAllowed(r) = ReplanAllowed(r)
  BY <1>2 DEF FsmRun!EdgeAllowed, EdgeAllowed, FsmRun!IsReplan, IsReplan,
         FsmRun!ReplanAllowed, ReplanAllowed
<1>5. \A r, permit, now :
        /\ FsmRun!ApproveOK(r, permit, now) = ApproveOK(r, permit, now)
        /\ FsmRun!check_valid(permit, now) = check_valid(permit, now)
  BY DEF FsmRun!ApproveOK, ApproveOK, FsmRun!check_valid, check_valid
<1>6. \A r, to, permit, now :
        FsmRun!AdvanceOK(r, to, TRUE, TRUE, permit, now)
          <=> AdvanceOK(r, to, TRUE, TRUE, permit, now)
  BY <1>4, <1>5 DEF FsmRun!AdvanceOK, AdvanceOK
<1>7. \A r, to, permit : FsmRun!PermitAfter(r, to, permit) = PermitAfter(r, to, permit)
  BY DEF FsmRun!PermitAfter, PermitAfter
<1>8. \A r, to, permit, now :
        FsmRun!Advanced(r, to, permit, now) = Advanced(r, to, permit, now)
  BY <1>4, <1>7, Zenon DEF FsmRun!Advanced, Advanced
<1>9. /\ \A r, now, st, at : FsmRun!SweepDue(r, now, st, at) = SweepDue(r, now, st, at)
      /\ \A r, now : FsmRun!Swept(r, now) = Swept(r, now)
  BY <1>2, Zenon DEF FsmRun!SweepDue, SweepDue, FsmRun!Swept, Swept
<1> QED BY <1>1, <1>2, <1>3, <1>4, <1>6, <1>8, <1>9

\* An accepted advance of any caller is one of IncidentFsm's.
LEMMA AdvanceMaps ==
  ASSUME NEW to \in States, NEW permit \in Credential, NEW now \in 0..MaxExpiry,
         AdvanceOK(run, to, TRUE, TRUE, permit, now),
         run' = Advanced(run, to, permit, now)
  PROVE  FsmRun!Next
<1>1. FsmRun!Advance(to, TRUE, TRUE, permit, now)
  BY SameRules DEF FsmRun!Advance
<1>2. to \in FsmRun!Targets
  BY SameRules DEF FsmRun!Targets, AdvanceOK
<1> QED BY <1>1, <1>2, SameRules DEF FsmRun!Next

LEMMA SweepMaps ==
  ASSUME NEW now \in 0..MaxExpiry, NEW st \in 1..MaxExpiry, NEW at \in 1..MaxExpiry,
         SweepDue(run, now, st, at), run' = Swept(run, now)
  PROVE  FsmRun!Next
<1>1. FsmRun!Sweep(now, st, at)
  BY SameRules DEF FsmRun!Sweep
<1>2. st \in FsmRun!Time \ {0} /\ at \in FsmRun!Time \ {0} /\ now \in FsmRun!Time
  BY SameRules, Bounds
<1> QED BY <1>1, <1>2 DEF FsmRun!Next

LEMMA StepMaps == Typed /\ [Next]_vars => [FsmRun!Next]_run
<1> SUFFICES ASSUME Typed, [Next]_vars PROVE FsmRun!Next \/ UNCHANGED run
  OBVIOUS
<1>0. clock \in 0..MaxExpiry /\ NoPermit \in Credential
  BY Bounds DEF Typed, Credential
<1>1. ASSUME NEW t \in Thread, Walk(t)
      PROVE  FsmRun!Next
  <2>1. PICK r \in Route : Move(t, r[2])
    BY <1>1 DEF Walk
  <2>2. r[2] \in States /\ Offered(t, r[2]) \in Credential /\ thr[t].ts \in 0..MaxExpiry
    BY RouteTypes, OfferedTyped, Bounds
  <2> QED BY <2>1, <2>2, AdvanceMaps DEF Move
<1>2. ASSUME NEW a \in Approval, NEW e \in 1..MaxExpiry, HttpApprove(a, e)
      PROVE  FsmRun!Next \/ UNCHANGED run
  <2> DEFINE p == [ref |-> a, expires |-> e]
  <2>1. p \in Credential /\ "APPROVED" \in States
    BY Bounds DEF Approval, Credential, States
  <2>2. \/ UNCHANGED run
        \/ /\ AdvanceOK(run, "APPROVED", TRUE, TRUE, p, clock)
           /\ run' = Advanced(run, "APPROVED", p, clock)
    BY <1>2 DEF HttpApprove
  <2> HIDE DEF p
  <2> QED BY <2>1, <2>2, <1>0, AdvanceMaps
<1>3. ASSUME NEW to \in States, HttpAdvance(to)
      PROVE  FsmRun!Next
  BY <1>0, <1>3, AdvanceMaps DEF HttpAdvance
<1>4. ASSUME NEW now \in 0..MaxExpiry, NEW st \in 1..MaxExpiry, NEW at \in 1..MaxExpiry,
             HttpSweep(now, st, at)
      PROVE  FsmRun!Next
  BY <1>4, SweepMaps DEF HttpSweep
<1>5. ASSUME NEW t \in Thread, Proceed(t) \/ CallRaises(t) \/ ExecutorRaises(t) \/ StartPublish(t)
      PROVE  FsmRun!Next \/ UNCHANGED run
  BY <1>1, <1>5 DEF Proceed, WalkRaises, CallRaises, ExecuteOnce, Judge, Finalize, Publish, Allow,
     Adopt, TakeJobNoRun, TakeJob, Recheck, Resumed, ExecutorRaises, StartPublish
<1>6. ASSUME NEW a \in Approval, NEW e \in 1..MaxExpiry, Grant(a, e)
      PROVE  UNCHANGED run
  BY <1>6 DEF Grant
<1>7. CASE Tick \/ UNCHANGED vars
  BY <1>7 DEF Tick, vars
<1> QED BY <1>2, <1>3, <1>4, <1>5, <1>6, <1>7 DEF Next

LEMMA InitMaps == Init => FsmRun!Init
<1>1. 0 \in 0..MaxExpiry
  BY Bounds
<1> QED BY <1>1, SameRules DEF Init, FsmRun!Init

\* The worker, the resume thread, the publishers, the operator and the sweeps
\* together drive the run only as a caller of fsm.py may.
THEOREM FsmHolds == Spec => ImplementsIncidentFsm
<1>1. Spec => []Typed
  BY InitTyped, TypedStep, PTL DEF Spec
<1> QED BY <1>1, InitMaps, StepMaps, PTL DEF Spec, ImplementsIncidentFsm, FsmRun!Spec

-----------------------------------------------------------------------------
(* What the threads have done to the target.                               *)

\* The states from EXECUTING on: no edge leads from them back to APPROVED.
After == {"EXECUTING", "VERIFYING", "RESOLVED", "ROLLBACK", "ESCALATED",
          "RCA_PENDING", "RCA_PUBLISHED", "AUDITED"}

\* Where a thread is between its advance to EXECUTING and its last verdict.
Driving == {"apply", "verify", "judge", "rollback", "undo", "reverify",
            "rejudge", "resolve"}

\* What has been changed and judged when a driving thread is at a point.
Progress(pc) ==
  /\ pc = "apply" => Len(changes) = 0 /\ Len(verdicts) = 0
  /\ pc \in {"verify", "judge"} => Len(changes) = 1 /\ Len(verdicts) = 0
  /\ pc \in {"rollback", "undo"} => Len(changes) = 1 /\ Len(verdicts) = 1
  /\ pc \in {"verify", "judge", "rollback", "undo"} => changes[1].kind = "forward"
  /\ pc \in {"reverify", "rejudge"} => Len(changes) = 2 /\ Len(verdicts) = 1
  /\ pc = "resolve" => Verified

DriverInv ==
  /\ run.state \notin After =>
       run.consumed_refs = {} /\ changes = << >> /\ verdicts = << >>
  /\ \A t \in Thread : At(t, "start") =>
       /\ run.state \in After \cup {"APPROVED"}
       /\ run.state = "APPROVED" => run.permit = thr[t].permit
  /\ \A t \in Thread : thr[t].pc \in Driving =>
       /\ run.state \in After
       /\ Progress(thr[t].pc)
       /\ thr[t].pc \in Holding => run.consumed_refs = {thr[t].permit.ref}
  /\ \A t, u \in Thread : thr[t].pc \in Driving /\ thr[u].pc \in Driving => t = u
  /\ ExecutedAsApproved

\* Once the run is resolved nobody drives it any more.
ClosedInv ==
  /\ Entered("RESOLVED") => run.state \in After
  /\ Entered("RESOLVED") /\ ~manual =>
       Verified /\ \A t \in Thread : thr[t].pc \notin Driving

LInv == Typed /\ DriverInv /\ ClosedInv
\* What a call of fsm.py, accepted for the target to, does to the run.
Walked(to) ==
  /\ run'.state = to
  /\ run.state \in After => to \in After
  /\ to = "EXECUTING" <=> run.state = "APPROVED"
  /\ run'.consumed_refs = IF to = "EXECUTING"
                          THEN run.consumed_refs \cup {run.permit.ref}
                          ELSE run.consumed_refs
  /\ \A s : Entered(s)' <=> Entered(s) \/ s = to

LEMMA AppendEnters ==
  ASSUME NEW r \in TransitionRecord, run \in IncidentRun,
         run'.history = Append(run.history, r), NEW s
  PROVE  Entered(s)' <=> Entered(s) \/ s = r.to
<1>1. /\ Len(run.history) \in Nat
      /\ DOMAIN run.history = 1..Len(run.history)
      /\ DOMAIN run'.history = 1..(Len(run.history) + 1)
      /\ \A i \in 1..Len(run.history) : run'.history[i] = run.history[i]
      /\ run'.history[Len(run.history) + 1] = r
  BY DEF IncidentRun
<1> QED BY <1>1 DEF Entered

LEMMA AdvanceWalks ==
  ASSUME run \in IncidentRun, NEW to \in States,
         NEW permit \in Permit \cup {NoPermit}, NEW now \in Nat,
         AdvanceOK(run, to, TRUE, TRUE, permit, now),
         run' = Advanced(run, to, permit, now)
  PROVE  Walked(to) /\ (to = "APPROVED" => run'.permit = permit)
<1> DEFINE r == [frm |-> run.state, to |-> to, forced |-> FALSE]
<1>1. r \in TransitionRecord /\ r.to = to
  BY DEF TransitionRecord, IncidentRun
<1>2. run'.history = Append(run.history, r) /\ run'.state = to
  BY DEF Advanced
<1>3. <<run.state, to>> \in Edges
  BY DEF AdvanceOK, EdgeAllowed
<1>4. /\ run.state \in After => to \in After
      /\ to = "EXECUTING" <=> run.state = "APPROVED"
  BY <1>3 DEF Edges, After
<1>5. /\ run'.consumed_refs = IF to = "EXECUTING"
                              THEN run.consumed_refs \cup {run.permit.ref}
                              ELSE run.consumed_refs
      /\ to = "APPROVED" => run'.permit = permit
  BY DEF Advanced, PermitAfter
<1> HIDE DEF r
<1>6. \A s : Entered(s)' <=> Entered(s) \/ s = to
  BY <1>1, <1>2, AppendEnters
<1> QED BY <1>2, <1>4, <1>5, <1>6 DEF Walked

LEMMA SweepWalks ==
  ASSUME run \in IncidentRun, NEW now \in Nat, NEW st, NEW at,
         SweepDue(run, now, st, at), run' = Swept(run, now)
  PROVE  Walked("ESCALATED")
<1> DEFINE r == [frm |-> run.state, to |-> "ESCALATED", forced |-> TRUE]
<1>1. r \in TransitionRecord /\ r.to = "ESCALATED"
  BY DEF TransitionRecord, IncidentRun, States
<1>2. /\ run'.history = Append(run.history, r) /\ run'.state = "ESCALATED"
      /\ run'.consumed_refs = run.consumed_refs
  BY DEF Swept, IncidentRun
<1>3. run.state \notin After \cup {"APPROVED"}
  BY DEF SweepDue, TtlStages, After
<1> HIDE DEF r
<1>4. \A s : Entered(s)' <=> Entered(s) \/ s = "ESCALATED"
  BY <1>1, <1>2, AppendEnters
<1> QED BY <1>2, <1>3, <1>4 DEF Walked, After

LEMMA GotoEffect ==
  ASSUME Typed, NEW t \in Thread, NEW pc, Goto(t, pc)
  PROVE  /\ thr'[t].pc = pc /\ thr'[t].permit = thr[t].permit
         /\ \A u \in Thread \ {t} : thr'[u] = thr[u]
BY DEF Typed, ThreadState, Goto

LEMMA LeaveEffect ==
  ASSUME Typed, NEW t \in Thread, Leave(t)
  PROVE  /\ thr'[t].pc \in {"idle", "end"}
         /\ \A u \in Thread \ {t} : thr'[u] = thr[u]
BY DEF Typed, Leave, Idle

\* No thread enters the stretch that DriverInv is about.
NobodyStarts ==
  \A u \in Thread : \/ thr'[u] = thr[u]
                    \/ thr'[u].pc \notin Driving \cup {"start"}

LEMMA LocalStep ==
  ASSUME DriverInv, ClosedInv, NobodyStarts,
         UNCHANGED <<run, changes, verdicts, manual>>
  PROVE  DriverInv' /\ ClosedInv'
<1>1. (\A s : Entered(s)' <=> Entered(s)) /\ (Verified' <=> Verified)
      /\ (ExecutedAsApproved' <=> ExecutedAsApproved)
  BY DEF Entered, Verified, ExecutedAsApproved
<1>2. \A pc : Progress(pc)' <=> Progress(pc)
  BY <1>1 DEF Progress
<1>3. DriverInv'
  BY <1>1, <1>2 DEF DriverInv, NobodyStarts, At, Holding, Driving
<1>4. ClosedInv'
  BY <1>1 DEF ClosedInv, NobodyStarts
<1> QED BY <1>3, <1>4

\* The run moves, by whoever's call, and no thread enters the stretch.
LEMMA RunMoves ==
  ASSUME Typed, DriverInv, ClosedInv, NobodyStarts, NEW to, Walked(to),
         UNCHANGED <<changes, verdicts>>, manual => manual',
         to = "RESOLVED" => manual'
  PROVE  DriverInv' /\ ClosedInv'
<1>1. Verified' <=> Verified
  BY DEF Verified
<1>2. \A pc : Progress(pc)' <=> Progress(pc)
  BY <1>1 DEF Progress
<1>3. run.state \in After => run'.state \in After /\ run'.consumed_refs = run.consumed_refs
  BY DEF Walked, After
<1>4. run.state = "APPROVED" => run'.state \in After
  BY DEF Walked, After
<1>5. run'.state \notin After => run'.consumed_refs = {} /\ changes' = << >> /\ verdicts' = << >>
  BY DEF Walked, After, DriverInv
<1>6. ExecutedAsApproved'
  <2>1. CASE changes = << >>
    BY <2>1 DEF ExecutedAsApproved
  <2>2. CASE changes # << >>
    BY <2>2, <1>3 DEF DriverInv, ExecutedAsApproved
  <2> QED BY <2>1, <2>2
<1>7. \A u \in Thread : thr'[u].pc = "start" => run'.state \in After
  BY <1>3, <1>4 DEF DriverInv, NobodyStarts, At
<1>8. \A u \in Thread : thr'[u].pc \in Driving =>
        /\ thr'[u] = thr[u] /\ run'.state \in After
        /\ Progress(thr[u].pc)'
        /\ thr'[u].pc \in Holding => run'.consumed_refs = {thr'[u].permit.ref}
  BY <1>2, <1>3 DEF DriverInv, NobodyStarts
<1>9. DriverInv'
  <2>1. "APPROVED" \notin After
    BY DEF After
  <2> QED BY <1>5, <1>6, <1>7, <1>8, <2>1 DEF DriverInv, At
<1>10. ClosedInv'
  BY <1>1, <1>3 DEF ClosedInv, Walked, NobodyStarts, After
<1> QED BY <1>9, <1>10

\* A thread's own advance: into the stretch, along it, out of it, or elsewhere.
LEMMA WalkDrives ==
  ASSUME Typed, DriverInv, ClosedInv, NEW t \in Thread, Walk(t)
  PROVE  DriverInv' /\ ClosedInv'
<1>1. PICK r \in Route : /\ At(t, r[1]) /\ Move(t, r[2])
                         /\ IF r[3] = "end" THEN Leave(t) ELSE Goto(t, r[3])
                         /\ UNCHANGED <<changes, verdicts, manual>>
  BY DEF Walk
<1>2. /\ Walked(r[2])
      /\ r[2] = "APPROVED" => run'.permit = thr[t].permit
  <2>1. r[2] \in States /\ Offered(t, r[2]) \in Permit \cup {NoPermit}
        /\ thr[t].ts \in Nat /\ run \in IncidentRun
    BY RouteTypes, OfferedTyped, CredentialIsPermit, Bounds DEF Typed
  <2>2. Walked(r[2]) /\ (r[2] = "APPROVED" => run'.permit = Offered(t, r[2]))
    BY <1>1, <2>1, AdvanceWalks DEF Move
  <2> QED BY <2>2 DEF Offered
<1>3. /\ \A u \in Thread \ {t} : thr'[u] = thr[u]
      /\ IF r[3] = "end" THEN thr'[t].pc \in {"idle", "end"}
         ELSE thr'[t].pc = r[3] /\ thr'[t].permit = thr[t].permit
  BY <1>1, GotoEffect, LeaveEffect
<1>4. CASE r[3] = "start"
  <2>1. r[2] = "APPROVED" /\ r[1] = "approve"
    BY <1>4 DEF Route
  <2>2. /\ run.state \notin After \cup {"APPROVED"} /\ run'.state = "APPROVED"
        /\ run'.consumed_refs = run.consumed_refs
        /\ run'.state \notin After
    BY <1>2, <2>1 DEF Walked, After
  <2>3. changes' = << >> /\ verdicts' = << >> /\ run'.consumed_refs = {}
    BY <1>1, <2>2 DEF DriverInv
  <2>4. \A u \in Thread : thr'[u].pc \notin Driving
    BY <1>3, <1>4, <2>2 DEF DriverInv, Driving
  <2>5. \A u \in Thread : thr'[u].pc = "start" => u = t
    BY <1>3, <2>2 DEF DriverInv, At
  <2>6. ExecutedAsApproved'
    BY <2>3 DEF ExecutedAsApproved
  <2>7. DriverInv'
    BY <1>2, <1>3, <1>4, <2>1, <2>2, <2>3, <2>4, <2>5, <2>6 DEF DriverInv, At
  <2>8. ~Entered("RESOLVED")'
    BY <1>2, <2>1, <2>2 DEF Walked, ClosedInv
  <2> QED BY <2>7, <2>8 DEF ClosedInv
<1>5. CASE r[3] = "apply"
  <2>1. r[2] = "EXECUTING" /\ r[1] = "start"
    BY <1>5 DEF Route
  <2>2. /\ run.state = "APPROVED" /\ run'.state = "EXECUTING"
        /\ run.state \notin After /\ run'.state \in After
        /\ run.permit = thr[t].permit
    BY <1>1, <1>2, <2>1 DEF Walked, After, DriverInv
  <2>3. /\ changes' = << >> /\ verdicts' = << >>
        /\ run'.consumed_refs = {thr[t].permit.ref}
    BY <1>1, <1>2, <2>1, <2>2 DEF Walked, DriverInv
  <2>4. \A u \in Thread : thr'[u].pc \in Driving => u = t
    BY <1>3, <2>2 DEF DriverInv
  <2>5. Progress("apply")'
    BY <2>3 DEF Progress
  <2>6. ExecutedAsApproved'
    BY <2>3 DEF ExecutedAsApproved
  <2>7. DriverInv'
    <3>1. \A u \in Thread : thr'[u].pc \in Driving =>
            Progress(thr[u].pc)' /\ run'.consumed_refs = {thr'[u].permit.ref}
      BY <1>3, <1>5, <2>3, <2>4, <2>5
    <3>2. run'.state # "APPROVED"
      BY <2>2
    <3> QED BY <2>2, <2>4, <2>6, <3>1, <3>2 DEF DriverInv, At
  <2>8. ~Entered("RESOLVED")'
    BY <1>2, <2>1, <2>2 DEF Walked, ClosedInv
  <2> QED BY <2>2, <2>8 , <2>7 DEF ClosedInv
<1>6. CASE r[3] \in {"judge", "undo", "rejudge"}
  <2>1. /\ r[1] \in Driving /\ r[2] \in {"VERIFYING", "ROLLBACK"}
        /\ <<r[1], r[3]>> \in {<<"verify", "judge">>, <<"rollback", "undo">>,
                              <<"reverify", "rejudge">>}
    BY <1>6 DEF Route, Driving
  <2>2. /\ run.state \in After /\ Progress(r[1])
        /\ r[1] \in Holding => run.consumed_refs = {thr[t].permit.ref}
        /\ \A u \in Thread : thr[u].pc \in Driving => u = t
    BY <1>1, <2>1 DEF DriverInv, At
  <2>3. run'.state \in After /\ run'.consumed_refs = run.consumed_refs
    BY <1>2, <2>1, <2>2 DEF Walked, After
  <2>4. Progress(r[3])'
    BY <1>1, <2>1, <2>2 DEF Progress
  <2>5. \A u \in Thread : thr'[u].pc \in Driving => u = t
    BY <1>3, <2>2
  <2>6. r[3] \in Holding => r[1] \in Holding
    BY <2>1 DEF Holding
  <2>7. DriverInv'
    <3>1. thr'[t].pc = r[3] /\ thr'[t].permit = thr[t].permit
      BY <1>3, <1>6
    <3>2. \A u \in Thread : thr'[u].pc \in Driving =>
            /\ Progress(thr[u].pc)'
            /\ thr'[u].pc \in Holding => run'.consumed_refs = {thr'[u].permit.ref}
      BY <3>1, <2>2, <2>3, <2>4, <2>5, <2>6
    <3>3. ExecutedAsApproved'
      BY <1>1, <2>3 DEF DriverInv, ExecutedAsApproved
    <3>4. "APPROVED" \notin After
      BY DEF After
    <3> QED BY <2>3, <2>5, <3>2, <3>3, <3>4 DEF DriverInv, At
  <2>8. ~Entered("RESOLVED")' \/ manual'
    BY <1>1, <1>2, <2>1 DEF Walked, ClosedInv, At
  <2> QED BY <2>3, <2>7, <2>8 DEF ClosedInv
<1>7. CASE r[1] = "resolve"
  <2>1. r[2] = "RESOLVED" /\ r[3] = "adopt" /\ r[1] \in Driving
    BY <1>7 DEF Route, Driving
  <2>2. /\ run.state \in After /\ Verified
        /\ \A u \in Thread : thr[u].pc \in Driving => u = t
    BY <1>1, <1>7, <2>1 DEF DriverInv, At, Progress
  <2>3. run'.state \in After /\ run'.consumed_refs = run.consumed_refs
    BY <1>2, <2>1, <2>2 DEF Walked, After
  <2>4. Verified'
    BY <1>1, <2>2 DEF Verified
  <2>5. \A u \in Thread : thr'[u].pc \notin Driving
    BY <1>3, <2>1, <2>2 DEF Driving
  <2>6. ExecutedAsApproved'
    BY <1>1, <2>3 DEF DriverInv, ExecutedAsApproved
  <2>7. "APPROVED" \notin After
    BY DEF After
  <2> QED BY <2>3, <2>4, <2>5, <2>6, <2>7 DEF DriverInv, ClosedInv, At
<1>8. CASE /\ r[3] \notin {"start", "apply", "judge", "undo", "rejudge"}
           /\ r[1] # "resolve"
  <2>1. r[3] \notin Driving \cup {"start"} /\ r[2] # "RESOLVED"
    BY <1>8 DEF Route, Driving
  <2>2. NobodyStarts
    BY <1>3, <2>1 DEF NobodyStarts, Driving
  <2> QED BY <1>1, <1>2, <2>1, <2>2, RunMoves
<1> QED BY <1>4, <1>5, <1>6, <1>7, <1>8

\* The executor changes the target, or raises on the way.
LEMMA ExecuteDrives ==
  ASSUME Typed, DriverInv, ClosedInv, NEW t \in Thread,
         ExecuteOnce(t) \/ ExecutorRaises(t)
  PROVE  DriverInv' /\ ClosedInv'
<1>1. /\ At(t, "apply") \/ At(t, "undo")
      /\ UNCHANGED <<run, verdicts, manual>>
  BY DEF ExecuteOnce, ExecutorRaises
<1>2. /\ run.state \in After /\ run.consumed_refs = {thr[t].permit.ref}
      /\ Progress(thr[t].pc) /\ thr[t].pc \in Driving
      /\ \A u \in Thread : thr[u].pc \in Driving => u = t
  BY <1>1 DEF DriverInv, At, Driving, Holding
<1>3. ~Entered("RESOLVED")' \/ manual'
  BY <1>1, <1>2 DEF ClosedInv, Entered
<1>4. ClosedInv'
  BY <1>1, <1>2, <1>3 DEF ClosedInv
<1>5. \A ok \in BOOLEAN :
        /\ Done(t, ok) \in Change /\ Done(t, ok).ref = thr[t].permit.ref
        /\ Done(t, ok).kind = Kind(t)
  BY <1>1, DoneTyped DEF Done
<1>6. changes \in Seq(Change) /\ Len(changes) \in Nat /\ DOMAIN changes = 1..Len(changes)
  BY LenProperties DEF Typed
<1>7. ASSUME NEW ok \in BOOLEAN, changes' = Append(changes, Done(t, ok))
      PROVE  /\ Len(changes') = Len(changes) + 1
             /\ DOMAIN changes' = 1..(Len(changes) + 1)
             /\ \A i \in 1..Len(changes) : changes'[i] = changes[i]
             /\ changes'[Len(changes) + 1] = Done(t, ok)
  <2>1. Done(t, ok) \in Change
    BY <1>5
  <2> DEFINE d == Done(t, ok)
  <2>2. /\ changes' \in Seq(Change) /\ Len(changes') = Len(changes) + 1
        /\ \A i \in 1..Len(changes) : changes'[i] = changes[i]
        /\ changes'[Len(changes) + 1] = d
    <3>1. d \in Change /\ changes' = Append(changes, d)
      BY <1>7, <2>1
    <3> HIDE DEF d
    <3> QED BY <1>6, <3>1, AppendProperties
  <2>3. DOMAIN changes' = 1..Len(changes')
    BY <2>2, LenProperties
  <2>4. DOMAIN changes' = 1..(Len(changes) + 1)
    BY <2>2, <2>3, Zenon
  <2> QED BY <2>2, <2>4 DEF d
<1>8. /\ At(t, "apply") => Len(changes) = 0 /\ Len(verdicts) = 0 /\ Kind(t) = "forward"
      /\ At(t, "undo") => /\ Len(changes) = 1 /\ Len(verdicts) = 1
                          /\ changes[1].kind = "forward" /\ Kind(t) = "rollback"
  BY <1>2 DEF Progress, At, Kind
<1>9. ASSUME NEW ok \in BOOLEAN, changes' = Append(changes, Done(t, ok))
      PROVE  ExecutedAsApproved'
  <2>1. CASE At(t, "apply")
    <3>1. \A i \in DOMAIN changes' : i = 1 /\ changes'[i].ref = thr[t].permit.ref
      BY <1>5, <1>7, <1>8, <1>9, <2>1
    <3> QED BY <3>1, <1>1, <1>2 DEF ExecutedAsApproved
  <2>2. CASE At(t, "undo")
    <3>1. DOMAIN changes' = 1..2 /\ changes'[1] = changes[1] /\ changes'[2] = Done(t, ok)
      <4>1. Len(changes) = 1
        BY <1>8, <2>2, Zenon
      <4>2. 1 \in 1..Len(changes) /\ Len(changes) + 1 = 2
        BY <4>1
      <4> QED BY <1>7, <1>9, <4>1, <4>2
    <3>2. changes[1].ref = thr[t].permit.ref
      BY <1>2, <1>6, <1>8, <2>2 DEF DriverInv, ExecutedAsApproved
    <3>3. changes'[1].kind = "forward" /\ changes'[2].kind = "rollback"
      BY <1>5, <1>8, <2>2, <3>1
    <3> QED BY <1>1, <1>2, <1>5, <3>1, <3>2, <3>3 DEF ExecutedAsApproved
  <2> QED BY <1>1, <2>1, <2>2
<1>10. CASE ExecutorRaises(t)
  <2>1. Leave(t) /\ changes' \in {changes, Append(changes, Done(t, FALSE))}
    BY <1>10 DEF ExecutorRaises
  <2>2. \A u \in Thread : thr'[u].pc \notin Driving
    BY <1>2, <2>1, LeaveEffect DEF Driving
  <2>3. ExecutedAsApproved'
    BY <1>1, <1>9, <2>1 DEF DriverInv, ExecutedAsApproved
  <2>4. "APPROVED" \notin After
    BY DEF After
  <2>5. DriverInv'
    BY <1>1, <1>2, <2>2, <2>3, <2>4 DEF DriverInv, At
  <2> QED BY <1>4, <2>5
<1>11. CASE ExecuteOnce(t)
  <2>1. \A i \in DOMAIN changes : changes[i] # Done(t, TRUE)
    <3>1. CASE At(t, "apply")
      BY <1>6, <1>8, <3>1
    <3>2. CASE At(t, "undo")
      <4>1. Done(t, TRUE).kind = "rollback"
        BY <1>5, <1>8, <3>2
      <4>2. DOMAIN changes = 1..1 /\ changes[1].kind = "forward"
        BY <1>6, <1>8, <3>2, Zenon
      <4>3. \A i \in DOMAIN changes : changes[i].kind = "forward"
        BY <4>2
      <4> QED BY <4>1, <4>3
    <3> QED BY <1>1, <3>1, <3>2
  <2>2. changes' = Append(changes, Done(t, TRUE))
    BY <1>11, <2>1 DEF ExecuteOnce
  <2>3. ExecutedAsApproved'
    BY <1>9, <2>2
  <2>4. \/ At(t, "apply") /\ Goto(t, "verify")
        \/ At(t, "undo") /\ Goto(t, "reverify")
    BY <1>11 DEF ExecuteOnce
  <2>5. /\ \A u \in Thread \ {t} : thr'[u] = thr[u]
        /\ thr'[t].permit = thr[t].permit
        /\ \/ At(t, "apply") /\ thr'[t].pc = "verify"
           \/ At(t, "undo") /\ thr'[t].pc = "reverify"
    BY <2>4, GotoEffect
  <2>6. CASE At(t, "apply") /\ thr'[t].pc = "verify"
    <3>1. Len(changes') = 1 /\ changes'[1].kind = "forward" /\ Len(verdicts') = 0
      <4>1. Len(changes) = 0 /\ Len(changes') = 1 /\ changes'[1] = Done(t, TRUE)
        BY <1>6, <1>8, <2>2, <2>6, <1>7
      <4>2. Done(t, TRUE).kind = "forward" /\ Len(verdicts') = 0
        BY <1>1, <1>5, <1>8, <2>6
      <4> QED BY <4>1, <4>2
    <3>2. Progress("verify")'
      BY <3>1 DEF Progress
    <3> QED BY <3>2, <1>1, <1>2, <1>4, <2>3, <2>5, <2>6 DEF DriverInv, At, After, Driving
  <2>7. CASE At(t, "undo") /\ thr'[t].pc = "reverify"
    <3>1. Len(changes') = 2 /\ Len(verdicts') = 1
      <4>1. Len(changes) = 1 /\ Len(verdicts) = 1
        BY <1>8, <2>7
      <4>2. Len(changes') = Len(changes) + 1 /\ verdicts' = verdicts
        BY <1>1, <1>7, <2>2
      <4> QED BY <4>1, <4>2
    <3>2. Progress("reverify")'
      BY <3>1 DEF Progress
    <3> QED BY <3>2, <1>1, <1>2, <1>4, <2>3, <2>5, <2>7 DEF DriverInv, At, After, Driving
  <2> QED BY <2>5, <2>6, <2>7
<1> QED BY <1>10, <1>11

\* The verifier's verdict leads out of the stretch or to the one rollback.
LEMMA JudgeDrives ==
  ASSUME Typed, DriverInv, ClosedInv, NEW t \in Thread, Judge(t)
  PROVE  DriverInv' /\ ClosedInv'
<1>1. PICK v \in Verdict :
        /\ verdicts' = Append(verdicts, v)
        /\ \E pc \in AfterVerdict(t, v) : Goto(t, pc)
  BY DEF Judge
<1>2. PICK pc \in AfterVerdict(t, v) : Goto(t, pc)
  BY <1>1
<1>3. /\ At(t, "judge") \/ At(t, "rejudge")
      /\ UNCHANGED <<run, changes, manual>>
  BY DEF Judge
<1>4. /\ run.state \in After /\ Progress(thr[t].pc) /\ thr[t].pc \in Driving
      /\ At(t, "judge") => run.consumed_refs = {thr[t].permit.ref}
      /\ \A u \in Thread : thr[u].pc \in Driving => u = t
  BY <1>3 DEF DriverInv, At, Driving, Holding
<1>5. ~Entered("RESOLVED")' \/ manual'
  BY <1>3, <1>4 DEF ClosedInv, Entered
<1>6. ClosedInv'
  BY <1>3, <1>4, <1>5 DEF ClosedInv
<1>7. /\ \A u \in Thread \ {t} : thr'[u] = thr[u]
      /\ thr'[t].pc = pc /\ thr'[t].permit = thr[t].permit
  BY <1>2, GotoEffect
<1>8. verdicts \in Seq(Verdict) /\ Len(verdicts) \in Nat
  BY LenProperties DEF Typed
<1>9. Len(verdicts') = Len(verdicts) + 1 /\ verdicts'[Len(verdicts) + 1] = v
  BY <1>1, <1>8, AppendProperties
<1>10. /\ At(t, "judge") => Len(changes) = 1 /\ Len(verdicts) = 0 /\ changes[1].kind = "forward"
       /\ At(t, "rejudge") => Len(changes) = 2 /\ Len(verdicts) = 1
  BY <1>4 DEF Progress, At
<1>11. /\ pc \in {"resolve", "rollback", "escalate"}
       /\ pc = "resolve" => v = "RESOLVED"
       /\ pc = "rollback" => At(t, "judge")
  BY <1>2 DEF AfterVerdict
<1>12. Progress(pc)'
  <2>1. pc = "resolve" => Verified'
    <3>1. Len(verdicts') = Len(changes')
      <4>1. CASE At(t, "judge")
        <5>1. Len(changes) = 1 /\ Len(verdicts) = 0
          BY <1>10, <4>1, Zenon
        <5> QED BY <1>3, <1>9, <5>1
      <4>2. CASE At(t, "rejudge")
        <5>1. Len(changes) = 2 /\ Len(verdicts) = 1
          BY <1>10, <4>2, Zenon
        <5> QED BY <1>3, <1>9, <5>1
      <4> QED BY <1>3, <4>1, <4>2
    <3>2. changes' # << >>
      <4>1. Len(changes) # 0
        BY <1>3, <1>10
      <4> QED BY <1>3, <4>1, EmptySeq
    <3> QED BY <3>1, <3>2, <1>8, <1>9, <1>11 DEF Verified
  <2> QED BY <1>3, <1>9, <1>10, <1>11, <2>1 DEF Progress
<1>13. ExecutedAsApproved'
  BY <1>3 DEF DriverInv, ExecutedAsApproved
<1>14. "APPROVED" \notin After
  BY DEF After
<1>15. \A u \in Thread : thr'[u].pc \in Driving => u = t
  BY <1>4, <1>7
<1>16. \A u \in Thread : thr'[u].pc \in Driving =>
         /\ Progress(thr[u].pc)'
         /\ thr'[u].pc \in Holding => run'.consumed_refs = {thr'[u].permit.ref}
  BY <1>3, <1>4, <1>7, <1>11, <1>12, <1>15 DEF Holding
<1>17. DriverInv'
  BY <1>3, <1>4, <1>13, <1>14, <1>15, <1>16 DEF DriverInv, At
<1> QED BY <1>6, <1>17

\* The remaining steps of threads only take them elsewhere.
LEMMA OthersDrive ==
  ASSUME Typed, DriverInv, ClosedInv,
         \/ \E t \in Thread : \/ WalkRaises(t) \/ CallRaises(t) \/ Finalize(t)
                             \/ Publish(t) \/ StartPublish(t)
         \/ Allow \/ Adopt
         \/ TakeJobNoRun \/ TakeJob \/ Recheck \/ Resumed
         \/ \E a \in Approval, e \in 1..MaxExpiry : Grant(a, e)
         \/ Tick
  PROVE  DriverInv' /\ ClosedInv'
<1>0. "worker" \in Thread /\ "resume" \in Thread
  BY DEF Thread
<1>1. UNCHANGED <<run, changes, verdicts, manual>>
  BY DEF WalkRaises, CallRaises, Finalize, Publish, StartPublish, Allow, Adopt,
         TakeJobNoRun, TakeJob, Recheck, Resumed, Grant, Tick
<1>2. ASSUME NEW t \in Thread, Leave(t) PROVE NobodyStarts
  BY <1>2, LeaveEffect DEF NobodyStarts, Driving
<1>3. ASSUME NEW t \in Thread, NEW pc, Goto(t, pc), pc \notin Driving \cup {"start"}
      PROVE  NobodyStarts
  BY <1>3, GotoEffect DEF NobodyStarts
<1>4. ASSUME NEW t \in Thread, NEW s, thr' = [thr EXCEPT ![t] = s],
             s.pc \notin Driving \cup {"start"}
      PROVE  NobodyStarts
  BY <1>4 DEF NobodyStarts, Typed
<1>5. ASSUME NEW t \in Thread,
             \/ WalkRaises(t) \/ CallRaises(t)
             \/ Finalize(t) \/ Publish(t) \/ StartPublish(t)
      PROVE  NobodyStarts
  <2>1. CASE WalkRaises(t) \/ CallRaises(t) \/ Publish(t) \/ StartPublish(t)
    BY <1>2, <1>3, <2>1 DEF WalkRaises, CallRaises, Publish, StartPublish, Driving
  <2>2. CASE Finalize(t) /\ AfterChecks = "end"
    BY <1>2, <2>2 DEF Finalize
  <2>3. CASE Finalize(t) /\ AfterChecks # "end"
    <3> DEFINE s == [thr[t] EXCEPT !.pc = AfterChecks, !.ts = clock]
    <3>1. AfterChecks \notin Driving \cup {"start"}
      BY <2>3 DEF AfterChecks, Driving
    <3>2. s.pc = AfterChecks
      BY DEF Typed, ThreadState
    <3>3. \A u \in Thread : thr'[u] = IF u = t THEN s ELSE thr[u]
      BY <2>3 DEF Finalize, Typed
    <3> HIDE DEF s
    <3> QED BY <3>1, <3>2, <3>3 DEF NobodyStarts
  <2> QED BY <1>5, <2>1, <2>2, <2>3
<1>6. Adopt => NobodyStarts
  BY <1>0, <1>2 DEF Adopt
<1>7. Allow => NobodyStarts
  <2> SUFFICES ASSUME Allow PROVE NobodyStarts
    OBVIOUS
  <2> DEFINE s == [thr["worker"] EXCEPT !.pc = "approve",
                     !.permit = [ref |-> AutoRef, expires |-> thr["worker"].ts + Freshness]]
  <2>1. s.pc = "approve"
    BY <1>0 DEF Typed, ThreadState
  <2>2. thr' = [thr EXCEPT !["worker"] = s]
    BY DEF Allow
  <2> HIDE DEF s
  <2> QED BY <1>0, <1>4, <2>1, <2>2 DEF Driving
<1>8. TakeJob => NobodyStarts
  BY <1>0, <1>4 DEF TakeJob, Driving
<1>9. Recheck \/ Resumed => NobodyStarts
  BY <1>0, <1>3 DEF Recheck, Resumed, Driving
<1>10. TakeJobNoRun \/ Tick \/ (\E a \in Approval, e \in 1..MaxExpiry : Grant(a, e))
         => NobodyStarts
  BY DEF TakeJobNoRun, Tick, Grant, NobodyStarts
<1>11. NobodyStarts
  BY <1>5, <1>6, <1>7, <1>8, <1>9, <1>10
<1> QED BY <1>1, <1>11, LocalStep

\* Calls over HTTP: a resolution by hand is marked, and nothing else resolves.
LEMMA HttpDrives ==
  ASSUME Typed, DriverInv, ClosedInv,
         \/ \E a \in Approval, e \in 1..MaxExpiry : HttpApprove(a, e)
         \/ \E to \in States : HttpAdvance(to)
         \/ \E now \in 0..MaxExpiry, st, at \in 1..MaxExpiry : HttpSweep(now, st, at)
  PROVE  DriverInv' /\ ClosedInv'
<1>0. run \in IncidentRun /\ clock \in Nat /\ NobodyStarts
      /\ UNCHANGED <<changes, verdicts>>
  <2>1. run \in IncidentRun /\ clock \in Nat
    BY Bounds DEF Typed
  <2>2. UNCHANGED <<thr, changes, verdicts>>
    BY DEF HttpApprove, HttpAdvance, HttpSweep
  <2> QED BY <2>1, <2>2 DEF NobodyStarts
<1>1. ASSUME NEW a \in Approval, NEW e \in 1..MaxExpiry, HttpApprove(a, e)
      PROVE  DriverInv' /\ ClosedInv'
  <2> DEFINE p == [ref |-> a, expires |-> e]
  <2>1. p \in Permit /\ "APPROVED" \in States
    BY Bounds DEF Approval, Permit, States
  <2>2. CASE UNCHANGED <<run, manual>>
    BY <1>0, <2>2, LocalStep
  <2>3. CASE /\ AdvanceOK(run, "APPROVED", TRUE, TRUE, p, clock)
             /\ run' = Advanced(run, "APPROVED", p, clock)
             /\ manual' = TRUE
    <3> HIDE DEF p
    <3>1. Walked("APPROVED")
      BY <1>0, <2>1, <2>3, AdvanceWalks
    <3> QED BY <1>0, <2>3, <3>1, RunMoves
  <2> QED BY <1>1, <2>2, <2>3 DEF HttpApprove
<1>2. ASSUME NEW to \in States, HttpAdvance(to)
      PROVE  DriverInv' /\ ClosedInv'
  <2>1. Walked(to) /\ manual'
    BY <1>0, <1>2, AdvanceWalks DEF HttpAdvance
  <2> QED BY <1>0, <2>1, RunMoves
<1>3. ASSUME NEW now \in 0..MaxExpiry, NEW st \in 1..MaxExpiry, NEW at \in 1..MaxExpiry,
             HttpSweep(now, st, at)
      PROVE  DriverInv' /\ ClosedInv'
  <2>1. Walked("ESCALATED") /\ manual' = manual
    BY <1>0, <1>3, Bounds, SweepWalks DEF HttpSweep
  <2> QED BY <1>0, <2>1, RunMoves
<1> QED BY <1>1, <1>2, <1>3

LEMMA InitLInv == Init => LInv
<1> SUFFICES ASSUME Init PROVE LInv
  OBVIOUS
<1>1. run.state = "NEW" /\ run.consumed_refs = {} /\ run.history = << >>
      /\ changes = << >> /\ verdicts = << >>
  BY DEF Init, new_run
<1>2. \A t \in Thread : thr[t].pc \in {"idle", "triage"}
  BY DEF Init, Idle
<1>3. ~Entered("RESOLVED") /\ ExecutedAsApproved
  BY <1>1 DEF Entered, ExecutedAsApproved
<1>4. DriverInv /\ ClosedInv
  BY <1>1, <1>2, <1>3 DEF DriverInv, ClosedInv, At, Driving, After
<1> QED BY <1>4, InitTyped DEF LInv

LEMMA LInvStep == LInv /\ [Next]_vars => LInv'
<1> SUFFICES ASSUME LInv, [Next]_vars PROVE DriverInv' /\ ClosedInv'
  BY TypedStep DEF LInv
<1>0. Typed /\ DriverInv /\ ClosedInv
  BY DEF LInv
<1>1. ASSUME NEW t \in Thread, Proceed(t) \/ CallRaises(t) \/ ExecutorRaises(t) \/ StartPublish(t)
      PROVE  DriverInv' /\ ClosedInv'
  BY <1>0, <1>1, WalkDrives, ExecuteDrives, JudgeDrives, OthersDrive DEF Proceed
<1>2. CASE UNCHANGED vars
  <2>1. NobodyStarts /\ UNCHANGED <<run, changes, verdicts, manual>>
    BY <1>2 DEF vars, NobodyStarts
  <2> QED BY <1>0, <2>1, LocalStep
<1>3. ASSUME NEW a \in Approval, NEW e \in 1..MaxExpiry, Grant(a, e) \/ HttpApprove(a, e)
      PROVE  DriverInv' /\ ClosedInv'
  BY <1>0, <1>3, OthersDrive, HttpDrives
<1>4. CASE Tick
  BY <1>0, <1>4, OthersDrive
<1>5. CASE \/ \E to \in States : HttpAdvance(to)
           \/ \E now \in 0..MaxExpiry, st, at \in 1..MaxExpiry : HttpSweep(now, st, at)
  BY <1>0, <1>5, HttpDrives
<1> QED BY <1>1, <1>2, <1>3, <1>4, <1>5 DEF Next

\* Every change of the target was made under the one permit that the run
\* consumed, at most one of them forward and one of them back.
THEOREM ExecutedAsApprovedHolds == Spec => []ExecutedAsApproved
<1>1. LInv => ExecutedAsApproved
  BY DEF LInv, DriverInv
<1> QED BY <1>1, InitLInv, LInvStep, PTL DEF Spec

\* A run that no operator advanced is RESOLVED on a verdict that says so, given
\* after the last change of the target.
THEOREM ResolvedIsVerifiedHolds == Spec => []ResolvedIsVerified
<1>1. LInv => ResolvedIsVerified
  BY DEF LInv, ClosedInv, ResolvedIsVerified
<1> QED BY <1>1, InitLInv, LInvStep, PTL DEF Spec

=============================================================================
