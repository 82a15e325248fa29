------------------------ MODULE ApprovalGateProofs ------------------------
(***************************************************************************)
(* Theorems about ApprovalGate, for every set of approvals and of handler  *)
(* threads, every bound, both identity modes, failing disks and crashes.   *)
(*                                                                         *)
(* Which stale status a thread, the memory or the disk may hold is         *)
(* unbounded; what bounds it is the nonce log, which only grows.  The      *)
(* invariant therefore relates every place that can carry a decision to    *)
(* the burned token (TokenInv), and the permits, with the threads about to *)
(* issue one, to the burned nonces (PermitInv).  A denial is final as long *)
(* as nothing has disturbed the store (CalmInv): then memory, the file and *)
(* the one handler that runs agree on what was answered.                   *)
(***************************************************************************)
EXTENDS ApprovalGate, FiniteSetTheorems, TLAPS

Burned(a) == <<a, "token">> \in nonces

Permitted(a) == <<a, "permit">> \in nonces

\* The handler got past the burn of its token.
Decided(h) ==
  \/ h.pc \in {"approve", "trigger", "mint", "burn", "issue"}
  \/ h.pc \in {"save", "replace", "load", "fill"} /\ h.then = "trigger"

TokenInv ==
  /\ \A a \in Approval : status[a] = "approved" \/ disk[a] = "approved" => Burned(a)
  /\ \A t \in Thread : Decided(thr[t]) => Burned(thr[t].a)
  /\ \A t \in Thread, a \in Approval : thr[t].snap[a] = "approved" => Burned(a)

\* t burned the permit nonce of a and makes the permit next.
Issuing(t, a) == At(t, "issue") /\ thr[t].a = a

PermitInv ==
  /\ \A a \in Approval : Permits(a) # {} => Permitted(a)
  /\ \A a \in Approval : Permitted(a) => Burned(a)
  /\ \A t \in Thread, a \in Approval : Issuing(t, a) => Permitted(a) /\ Permits(a) = {}
  /\ \A t, u \in Thread, a \in Approval : Issuing(t, a) /\ Issuing(u, a) => t = u
  /\ OnePermit
  /\ PermitNotWasted

IInv == TypeOK /\ TokenInv /\ PermitInv

-----------------------------------------------------------------------------
(* Type correctness.                                                       *)

LEMMA EmptyType == Empty \in Statuses
  BY DEF Empty, Statuses, Status

LEMMA IdleHandlerType == IdleHandler \in Handler
  BY ApprovalAssumption, EmptyType DEF IdleHandler, Handler

\* The steps of a thread keep the handlers well typed.
LEMMA HandlerSteps ==
  ASSUME thr \in [Thread -> Handler], NEW t \in Thread
  PROVE  /\ \A pc \in {"idle", "ready", "verify", "approve", "deny", "save", "replace",
                       "view", "trigger", "mint", "burn", "issue"} :
              Goto(t, pc) => thr' \in [Thread -> Handler]
         /\ Done(t) => thr' \in [Thread -> Handler]
         /\ \A a \in Approval, then \in {"idle", "request", "trigger", "view"} :
              SaveThen(t, a, then) => thr' \in [Thread -> Handler]
         /\ thr[t] \in Handler
<1>1. thr[t] \in Handler
  OBVIOUS
<1>2. Done(t) => thr' \in [Thread -> Handler]
  BY IdleHandlerType DEF Done
<1>3. ASSUME NEW pc \in {"idle", "ready", "verify", "approve", "deny", "save", "replace",
                         "view", "trigger", "mint", "burn", "issue"},
             Goto(t, pc)
      PROVE  thr' \in [Thread -> Handler]
  <2>1. [thr[t] EXCEPT !.pc = pc] \in Handler
    BY <1>1 DEF Handler
  <2> QED BY <1>3, <2>1 DEF Goto
<1>4. ASSUME NEW a \in Approval, NEW then \in {"idle", "request", "trigger", "view"},
             SaveThen(t, a, then)
      PROVE  thr' \in [Thread -> Handler]
  <2>1. [thr[t] EXCEPT !.pc = "save", !.a = a, !.then = then, !.stale = FALSE] \in Handler
    BY <1>1 DEF Handler
  <2> QED BY <1>4, <2>1 DEF SaveThen
<1> QED BY <1>1, <1>2, <1>3, <1>4

LEMMA SetType ==
  ASSUME TypeOK, NEW t \in Thread, NEW a \in Approval, NEW s \in Status,
         SetStatus(a, s) \/ SetHeld(t, s)
  PROVE  status' \in Statuses
<1>1. thr[t].a \in Approval
  BY DEF TypeOK, Handler
<1> QED BY <1>1 DEF TypeOK, SetStatus, SetHeld, Statuses

\* A handler that starts reads the file, or finds memory loaded.
LEMMA BeginType ==
  ASSUME TypeOK, NEW t \in Thread, Enter(t) \/ ReadFile(t) \/ Return(t)
  PROVE  TypeOK'
<1> USE DEF TypeOK
<1>1. thr[t] \in Handler
  OBVIOUS
<1>2. CASE Enter(t)
  <2>1. thr' \in [Thread -> Handler]
    BY <1>2, HandlerSteps DEF Enter
  <2> QED BY <1>2, <2>1 DEF Enter, Begins
<1>3. CASE ReadFile(t)
  <2> DEFINE then == IF Idle(t) THEN "ready" ELSE thr[t].pc
  <2>1. then \in {"ready", "view", "trigger"}
    BY <1>3 DEF ReadFile, Idle
  <2>2. [thr[t] EXCEPT !.pc = "load", !.snap = disk, !.then = then] \in Handler
    BY <1>1, <2>1 DEF Handler
  <2>3. thr' = [thr EXCEPT ![t] = [thr[t] EXCEPT !.pc = "load", !.snap = disk, !.then = then]]
    BY <1>3 DEF ReadFile
  <2> HIDE DEF then
  <2>4. thr' \in [Thread -> Handler]
    BY <2>2, <2>3
  <2> QED BY <1>3, <2>4 DEF ReadFile, Begins
<1>4. CASE Return(t)
  BY <1>4, HandlerSteps DEF Return
<1> QED BY <1>2, <1>3, <1>4

LEMMA LoadType ==
  ASSUME TypeOK, NEW t \in Thread, Clear(t) \/ Fill(t)
  PROVE  TypeOK'
<1> USE DEF TypeOK
<1>1. \A u \in Thread : thr[u] \in Handler
  OBVIOUS
<1>2. CASE Clear(t)
  <2>1. /\ [thr[t] EXCEPT !.pc = "fill"] \in Handler
        /\ \A u \in Thread : [thr[u] EXCEPT !.stale = TRUE] \in Handler
    BY <1>1, <1>2 DEF Clear, At, Handler
  <2>2. thr' \in [Thread -> Handler]
    BY <1>1, <1>2, <2>1 DEF Clear
  <2> QED BY <1>2, <2>2, EmptyType DEF Clear
<1>3. CASE Fill(t)
  <2>1. thr[t].then \in {"ready", "view", "trigger"} /\ thr[t].snap \in Statuses
    BY <1>1, <1>3 DEF Fill, At, Handler
  <2>2. /\ [thr[t] EXCEPT !.pc = thr[t].then, !.snap = Empty, !.then = "idle"] \in Handler
        /\ \A u \in Thread : [thr[u] EXCEPT !.stale = TRUE] \in Handler
    BY <1>1, <2>1, EmptyType DEF Handler
  <2>3. thr' \in [Thread -> Handler]
    BY <1>1, <1>3, <2>2 DEF Fill
  <2>4. status' \in Statuses
    BY <1>3, <2>1 DEF Fill, Statuses
  <2> QED BY <1>3, <2>3, <2>4 DEF Fill
<1> QED BY <1>2, <1>3

\* The handler saves, or is done with it.
LEMMA SaveType ==
  ASSUME TypeOK, NEW t \in Thread, Snapshot(t) \/ Replace(t) \/ ReplaceFails(t)
  PROVE  TypeOK'
<1> USE DEF TypeOK
<1>1. thr[t] \in Handler /\ thr[t].a \in Approval /\ thr[t].snap \in Statuses
  BY DEF Handler
<1>2. CASE Snapshot(t)
  <2>1. [thr[t] EXCEPT !.pc = "replace", !.snap = status] \in Handler
    BY <1>1 DEF Handler
  <2>2. thr' = [thr EXCEPT ![t] = [thr[t] EXCEPT !.pc = "replace", !.snap = status]]
    BY <1>2 DEF Snapshot
  <2>3. thr' \in [Thread -> Handler]
    BY <2>1, <2>2
  <2> QED BY <1>2, <2>3 DEF Snapshot
<1>3. ASSUME AfterSave(t)
      PROVE  thr' \in [Thread -> Handler] /\ answers' \in SUBSET (Approval \X {"token", "denied"})
  <2>1. CASE thr[t].then \in {"view", "trigger"}
    <3>1. [thr[t] EXCEPT !.pc = thr[t].then, !.snap = Empty, !.then = "idle"] \in Handler
      BY <1>1, <2>1, EmptyType DEF Handler
    <3>2. thr' = [thr EXCEPT ![t] = [thr[t] EXCEPT !.pc = thr[t].then, !.snap = Empty, !.then = "idle"]]
      BY <1>3, <2>1 DEF AfterSave
    <3>3. thr' \in [Thread -> Handler]
      BY <3>1, <3>2
    <3> QED BY <1>1, <1>3, <3>3 DEF AfterSave
  <2>2. CASE thr[t].then \notin {"view", "trigger"}
    BY <1>1, <1>3, <2>2, HandlerSteps DEF AfterSave
  <2> QED BY <2>1, <2>2
<1>4. CASE Replace(t)
  BY <1>1, <1>3, <1>4 DEF Replace
<1>5. CASE ReplaceFails(t)
  BY <1>3, <1>5 DEF ReplaceFails
<1> QED BY <1>2, <1>4, <1>5

\* The handler fetches a request and decides it.
LEMMA DecideType ==
  ASSUME TypeOK, NEW t \in Thread, NEW a \in Approval, NEW own \in BOOLEAN,
         \/ Request(t, a) \/ Approve(t, a, own) \/ Reject(t, a) \/ MintForAdvance(t, a)
         \/ VerifyExpired(t) \/ Verify(t) \/ VerifyReplayed(t) \/ WriteApproved(t)
         \/ WriteDenied(t) \/ View(t) \/ SweepApprovals(t)
  PROVE  TypeOK'
<1> USE DEF TypeOK
<1>1. thr[t] \in Handler /\ thr[t].a \in Approval
  BY DEF Handler
<1>2. \A s : s \in {"pending", "approved", "denied", "expired"} => s \in Status
  BY DEF Status
<1>3. CASE Request(t, a)
  <2>1. thr' \in [Thread -> Handler]
    BY <1>3, HandlerSteps DEF Request
  <2>2. status' \in Statuses
    BY <1>2, <1>3, SetType DEF Request
  <2>3. expires' \in [Approval -> Nat]
    BY <1>3, TtlAssumption, BoundsAssumption DEF Request
  <2> QED BY <1>3, <2>1, <2>2, <2>3 DEF Request
<1>4. CASE Approve(t, a, own)
  <2>1. [thr[t] EXCEPT !.pc = "verify", !.a = a, !.own = own] \in Handler
    BY <1>1 DEF Handler
  <2> QED BY <1>4, <2>1 DEF Approve
<1>5. CASE Reject(t, a)
  <2>1. [thr[t] EXCEPT !.pc = "deny", !.a = a] \in Handler
    BY <1>1 DEF Handler
  <2> QED BY <1>5, <2>1 DEF Reject
<1>6. CASE MintForAdvance(t, a)
  <2>1. [thr[t] EXCEPT !.pc = "mint", !.a = a, !.own = TRUE] \in Handler
    BY <1>1 DEF Handler
  <2> QED BY <1>6, <2>1 DEF MintForAdvance
<1>7. CASE VerifyExpired(t)
  <2>1. thr' \in [Thread -> Handler]
    BY <1>1, <1>7, HandlerSteps DEF VerifyExpired
  <2>2. status' \in Statuses
    BY <1>1, <1>2, <1>7, SetType DEF VerifyExpired
  <2> QED BY <1>7, <2>1, <2>2 DEF VerifyExpired
<1>8. CASE Verify(t)
  <2>1. thr' \in [Thread -> Handler]
    BY <1>8, HandlerSteps DEF Verify
  <2>2. nonces' \in SUBSET Nonce
    BY <1>1, <1>8 DEF Verify, Consume, Nonce
  <2> QED BY <1>8, <2>1, <2>2 DEF Verify
<1>9. CASE VerifyReplayed(t)
  BY <1>9, HandlerSteps DEF VerifyReplayed
<1>10. CASE WriteApproved(t)
  <2>1. thr' \in [Thread -> Handler]
    BY <1>1, <1>10, HandlerSteps DEF WriteApproved
  <2>2. status' \in Statuses
    BY <1>1, <1>2, <1>10, SetType DEF WriteApproved
  <2> QED BY <1>10, <2>1, <2>2 DEF WriteApproved
<1>11. CASE WriteDenied(t)
  <2>1. thr' \in [Thread -> Handler]
    BY <1>1, <1>11, HandlerSteps DEF WriteDenied
  <2>2. status' \in Statuses
    BY <1>1, <1>2, <1>11, SetType DEF WriteDenied
  <2> QED BY <1>11, <2>1, <2>2 DEF WriteDenied
<1>12. CASE View(t)
  <2>1. thr' \in [Thread -> Handler]
    BY <1>12, HandlerSteps DEF View
  <2>2. answers' \in SUBSET (Approval \X {"token", "denied"})
    BY <1>1, <1>12 DEF View
  <2> QED BY <1>12, <2>1, <2>2 DEF View
<1>13. CASE SweepApprovals(t)
  <2>1. thr' \in [Thread -> Handler]
    BY <1>1, <1>13, HandlerSteps DEF SweepApprovals
  <2>2. status' \in Statuses
    BY <1>2, <1>13 DEF SweepApprovals, Statuses
  <2> QED BY <1>13, <2>1, <2>2 DEF SweepApprovals
<1> QED BY <1>3, <1>4, <1>5, <1>6, <1>7, <1>8, <1>9, <1>10, <1>11, <1>12, <1>13

\* The handler asks for the permit, and gets it or is refused.
LEMMA MintType ==
  ASSUME TypeOK, NEW t \in Thread,
         \/ TriggerNoWorker(t) \/ Trigger(t)
         \/ MintExpired(t) \/ MintRefused(t) \/ MintVerified(t)
         \/ Burn(t) \/ BurnReplayed(t) \/ Issue(t)
  PROVE  TypeOK'
<1> USE DEF TypeOK
<1>1. thr[t] \in Handler /\ thr[t].a \in Approval
  BY DEF Handler
<1>2. CASE TriggerNoWorker(t) \/ Trigger(t) \/ MintRefused(t) \/ BurnReplayed(t)
  BY <1>2, HandlerSteps DEF TriggerNoWorker, Trigger, MintRefused, BurnReplayed
<1>3. CASE MintExpired(t)
  <2>1. status' \in Statuses
    BY <1>1, <1>3, SetType DEF MintExpired, Status
  <2> QED BY <1>3, <2>1, HandlerSteps DEF MintExpired
<1>4. CASE MintVerified(t)
  <2>1. [thr[t] EXCEPT !.pc = "burn", !.stale = FALSE] \in Handler
    BY <1>1 DEF Handler
  <2> QED BY <1>4, <2>1 DEF MintVerified
<1>5. CASE Burn(t)
  <2>1. thr' \in [Thread -> Handler]
    BY <1>5, HandlerSteps DEF Burn
  <2>2. nonces' \in SUBSET Nonce
    BY <1>1, <1>5 DEF Burn, Consume, Nonce
  <2> QED BY <1>5, <2>1, <2>2 DEF Burn
<1>6. CASE Issue(t)
  <2> DEFINE p == [ref |-> thr[t].a, expires |-> Min2(expires[thr[t].a], clock + Freshness),
                   under |-> status[thr[t].a]]
  <2>1. p \in NewPermit
    BY <1>1, FreshnessAssumption, BoundsAssumption DEF Min2, Statuses, NewPermit
  <2>2. minted' = Append(minted, p)
    BY <1>6 DEF Issue
  <2> HIDE DEF p
  <2>3. minted' \in Seq(NewPermit)
    BY <2>1, <2>2
  <2> QED BY <1>6, <2>3, HandlerSteps DEF Issue
<1> QED BY <1>2, <1>3, <1>4, <1>5, <1>6

LEMMA TypeStep ==
  ASSUME TypeOK, [Next]_vars
  PROVE  TypeOK'
<1>1. ASSUME NEW t \in Thread, Proceed(t) PROVE TypeOK'
  BY <1>1, ApprovalAssumption, BeginType, LoadType, SaveType, DecideType, MintType DEF Proceed
<1>2. ASSUME NEW t \in Thread,
             \/ Enter(t) \/ ReadFile(t) \/ Return(t) \/ TriggerNoWorker(t)
             \/ ReplaceFails(t) \/ SweepApprovals(t)
      PROVE  TypeOK'
  BY <1>2, ApprovalAssumption, BeginType, SaveType, DecideType, MintType
<1>3. ASSUME NEW t \in Thread, NEW a \in Approval, NEW own \in BOOLEAN,
             Request(t, a) \/ Reject(t, a) \/ MintForAdvance(t, a) \/ Approve(t, a, own)
      PROVE  TypeOK'
  BY <1>3, DecideType
<1>4. CASE Restart
  BY <1>4, IdleHandlerType, EmptyType, BoundsAssumption DEF Restart, TypeOK
<1>5. CASE Tick
  BY <1>5, BoundsAssumption DEF Tick, TypeOK
<1>6. CASE UNCHANGED vars
  BY <1>6 DEF vars, TypeOK
<1> QED BY <1>1, <1>2, <1>3, <1>4, <1>5, <1>6 DEF Next

-----------------------------------------------------------------------------
(* Decisions and tokens.                                                   *)

\* What the ways to move a handler leave in it, and in the others.
LEMMA HandlerEffects ==
  ASSUME thr \in [Thread -> Handler], NEW t \in Thread
  PROVE  /\ Done(t) => /\ thr'[t] = IdleHandler
                       /\ \A u \in Thread \ {t} : thr'[u] = thr[u]
         /\ \A pc : Goto(t, pc) =>
              /\ thr'[t].pc = pc /\ thr'[t].a = thr[t].a
              /\ thr'[t].snap = thr[t].snap /\ thr'[t].then = thr[t].then
              /\ thr'[t].stale = thr[t].stale
              /\ \A u \in Thread \ {t} : thr'[u] = thr[u]
         /\ \A a, then : SaveThen(t, a, then) =>
              /\ thr'[t].pc = "save" /\ thr'[t].a = a /\ thr'[t].then = then
              /\ thr'[t].snap = thr[t].snap /\ thr'[t].stale = FALSE
              /\ \A u \in Thread \ {t} : thr'[u] = thr[u]
         /\ AfterSave(t) /\ thr[t].then \in {"view", "trigger"} =>
              /\ thr'[t].pc = thr[t].then /\ thr'[t].a = thr[t].a
              /\ thr'[t].snap = Empty /\ thr'[t].stale = thr[t].stale
              /\ \A u \in Thread \ {t} : thr'[u] = thr[u]
<1>1. thr[t] \in Handler
  OBVIOUS
<1>2. Done(t) => /\ thr'[t] = IdleHandler
                 /\ \A u \in Thread \ {t} : thr'[u] = thr[u]
  BY DEF Done
<1>3. ASSUME NEW pc, Goto(t, pc)
      PROVE  /\ thr'[t].pc = pc /\ thr'[t].a = thr[t].a
             /\ thr'[t].snap = thr[t].snap /\ thr'[t].then = thr[t].then
             /\ thr'[t].stale = thr[t].stale
             /\ \A u \in Thread \ {t} : thr'[u] = thr[u]
  BY <1>1, <1>3 DEF Goto, Handler
<1>4. ASSUME NEW a, NEW then, SaveThen(t, a, then)
      PROVE  /\ thr'[t].pc = "save" /\ thr'[t].a = a /\ thr'[t].then = then
             /\ thr'[t].snap = thr[t].snap /\ thr'[t].stale = FALSE
             /\ \A u \in Thread \ {t} : thr'[u] = thr[u]
  BY <1>1, <1>4 DEF SaveThen, Handler
<1>5. ASSUME AfterSave(t), thr[t].then \in {"view", "trigger"}
      PROVE  /\ thr'[t].pc = thr[t].then /\ thr'[t].a = thr[t].a
             /\ thr'[t].snap = Empty /\ thr'[t].stale = thr[t].stale
             /\ \A u \in Thread \ {t} : thr'[u] = thr[u]
  BY <1>1, <1>5 DEF AfterSave, Handler
<1> QED BY <1>2, <1>3, <1>4, <1>5

\* A reload touches the other handlers only in that their entries go stale.
LEMMA LoadEffects ==
  ASSUME thr \in [Thread -> Handler], NEW t \in Thread, Clear(t) \/ Fill(t)
  PROVE  /\ \A u \in Thread \ {t} :
              /\ thr'[u].pc = thr[u].pc /\ thr'[u].a = thr[u].a
              /\ thr'[u].snap = thr[u].snap /\ thr'[u].then = thr[u].then
              /\ thr[u].pc = "idle" => thr'[u] = thr[u]
         /\ thr'[t].a = thr[t].a /\ thr'[t].stale = thr[t].stale
         /\ Clear(t) => /\ thr[t].pc = "load" /\ thr'[t].pc = "fill"
                        /\ thr'[t].snap = thr[t].snap /\ thr'[t].then = thr[t].then
         /\ Fill(t) => /\ thr[t].pc = "fill" /\ thr'[t].pc = thr[t].then
                       /\ thr[t].then \in {"ready", "view", "trigger"}
                       /\ thr'[t].snap = Empty
<1>1. ASSUME NEW u \in Thread \ {t}
      PROVE  /\ thr'[u].pc = thr[u].pc /\ thr'[u].a = thr[u].a
             /\ thr'[u].snap = thr[u].snap /\ thr'[u].then = thr[u].then
             /\ thr[u].pc = "idle" => thr'[u] = thr[u]
  <2>1. thr[u] \in Handler
    OBVIOUS
  <2>2. \/ thr'[u] = [thr[u] EXCEPT !.stale = TRUE] /\ thr[u].pc # "idle"
        \/ thr'[u] = thr[u]
    BY DEF Clear, Fill, Holds
  <2> HIDE DEF Handler
  <2>3. CASE thr'[u] = [thr[u] EXCEPT !.stale = TRUE] /\ thr[u].pc # "idle"
    BY <2>1, <2>3 DEF Handler
  <2> QED BY <2>2, <2>3
<1>2. CASE Clear(t)
  <2>1. thr'[t] = [thr[t] EXCEPT !.pc = "fill"] /\ thr[t].pc = "load" /\ thr[t] \in Handler
    BY <1>2 DEF Clear, At
  <2>2. ~Fill(t)
    BY <2>1 DEF Fill, At
  <2>3. /\ thr'[t].a = thr[t].a /\ thr'[t].stale = thr[t].stale /\ thr'[t].pc = "fill"
        /\ thr'[t].snap = thr[t].snap /\ thr'[t].then = thr[t].then
    BY <2>1 DEF Handler
  <2> QED BY <1>1, <2>1, <2>2, <2>3
<1>3. CASE Fill(t)
  <2>1. /\ thr'[t] = [thr[t] EXCEPT !.pc = thr[t].then, !.snap = Empty, !.then = "idle"]
        /\ thr[t].pc = "fill" /\ ~Clear(t) /\ thr[t] \in Handler
    BY <1>3 DEF Fill, Clear, At
  <2>2. /\ thr'[t].a = thr[t].a /\ thr'[t].stale = thr[t].stale
        /\ thr'[t].pc = thr[t].then /\ thr'[t].snap = Empty
        /\ thr[t].then \in {"ready", "view", "trigger"}
    BY <2>1 DEF Handler
  <2> QED BY <1>1, <2>1, <2>2
<1> QED BY <1>2, <1>3

LEMMA ReadEffects ==
  ASSUME thr \in [Thread -> Handler], NEW t \in Thread, ReadFile(t)
  PROVE  /\ \A u \in Thread \ {t} : thr'[u] = thr[u]
         /\ thr'[t].pc = "load" /\ thr'[t].snap = disk
         /\ thr'[t].a = thr[t].a /\ thr'[t].stale = thr[t].stale
         /\ thr'[t].then = IF Idle(t) THEN "ready" ELSE thr[t].pc
BY DEF ReadFile, Handler

LEMMA IdleCarriesNothing ==
  /\ ~Decided(IdleHandler) /\ IdleHandler.snap = Empty
  /\ \A a \in Approval : Empty[a] # "approved"
  BY DEF IdleHandler, Decided, Empty

\* A status is written to what the handler holds, or to nothing.
LEMMA HeldEffect ==
  ASSUME TypeOK, NEW t \in Thread, NEW s, SetHeld(t, s)
  PROVE  \A b \in Approval :
           status'[b] = status[b] \/ (b = thr[t].a /\ status'[b] = s)
<1>1. CASE thr[t].stale
  BY <1>1 DEF SetHeld
<1>2. CASE ~thr[t].stale
  BY <1>2 DEF SetHeld, SetStatus, TypeOK, Statuses
<1> QED BY <1>1, <1>2

\* Nonces are never forgotten, so a step of t need only be checked for t.
LEMMA TokenInvByThread ==
  ASSUME TokenInv, nonces \subseteq nonces', NEW t \in Thread,
         \A u \in Thread \ {t} :
           /\ thr'[u].pc = thr[u].pc /\ thr'[u].a = thr[u].a
           /\ thr'[u].snap = thr[u].snap /\ thr'[u].then = thr[u].then,
         (Decided(thr[t]) => Burned(thr[t].a))',
         \A a \in Approval : thr'[t].snap[a] = "approved" => Burned(a)',
         \A a \in Approval : status'[a] = "approved" \/ disk'[a] = "approved" => Burned(a)'
  PROVE  TokenInv'
<1>1. \A u \in Thread : (Decided(thr[u]) => Burned(thr[u].a))'
  BY DEF TokenInv, Burned, Decided
<1>2. \A u \in Thread, a \in Approval : thr'[u].snap[a] = "approved" => Burned(a)'
  BY DEF TokenInv, Burned
<1> QED BY <1>1, <1>2 DEF TokenInv

\* A step that gives t, memory and the file no decision they did not have.
LEMMA NoNewDecision ==
  ASSUME TokenInv, nonces \subseteq nonces', NEW t \in Thread,
         \A u \in Thread \ {t} : thr'[u] = thr[u],
         \/ ~Decided(thr[t])'
         \/ Decided(thr[t]) /\ thr'[t].a = thr[t].a,
         thr'[t].snap \in {thr[t].snap, Empty, status, disk},
         disk' \in {disk, thr[t].snap},
         \A b \in Approval : status'[b] = "approved" => status[b] = "approved"
  PROVE  TokenInv'
<1>1. (Decided(thr[t]) => Burned(thr[t].a))'
  BY DEF TokenInv, Burned
<1>2. \A a \in Approval : thr'[t].snap[a] = "approved" => Burned(a)'
  BY IdleCarriesNothing DEF TokenInv, Burned
<1>3. \A a \in Approval : status'[a] = "approved" \/ disk'[a] = "approved" => Burned(a)'
  BY DEF TokenInv, Burned
<1> QED BY <1>1, <1>2, <1>3, TokenInvByThread

\* The handler returns.
LEMMA DoneToken ==
  ASSUME TypeOK, TokenInv, nonces \subseteq nonces', NEW t \in Thread, Done(t),
         disk' \in {disk, thr[t].snap},
         \A b \in Approval : status'[b] = "approved" => status[b] = "approved"
  PROVE  TokenInv'
<1>1. thr'[t] = IdleHandler /\ \A u \in Thread \ {t} : thr'[u] = thr[u]
  BY HandlerEffects DEF TypeOK
<1>2. ~Decided(thr[t])' /\ thr'[t].snap = Empty
  BY <1>1, IdleCarriesNothing DEF Decided
<1> QED BY <1>1, <1>2, NoNewDecision

\* Memory is read, cleared and filled again from the file.
LEMMA LoadToken ==
  ASSUME TypeOK, TokenInv, NEW t \in Thread, ReadFile(t) \/ Clear(t) \/ Fill(t)
  PROVE  TokenInv'
<1>0. thr \in [Thread -> Handler]
  BY DEF TypeOK
<1>1. CASE ReadFile(t)
  <2>1. /\ \A u \in Thread \ {t} : thr'[u] = thr[u]
        /\ thr'[t].pc = "load" /\ thr'[t].snap = disk /\ thr'[t].a = thr[t].a
        /\ thr'[t].then = IF Idle(t) THEN "ready" ELSE thr[t].pc
    BY <1>0, <1>1, ReadEffects
  <2>2. UNCHANGED <<status, disk, nonces>>
    BY <1>1 DEF ReadFile
  <2>3. ~Decided(thr[t])' \/ Decided(thr[t])
    BY <2>1 DEF Decided
  <2> QED BY <2>1, <2>2, <2>3, NoNewDecision
<1>2. CASE Clear(t)
  <2>1. /\ \A u \in Thread \ {t} :
             /\ thr'[u].pc = thr[u].pc /\ thr'[u].a = thr[u].a
             /\ thr'[u].snap = thr[u].snap /\ thr'[u].then = thr[u].then
        /\ thr'[t].a = thr[t].a
        /\ thr[t].pc = "load" /\ thr'[t].pc = "fill"
        /\ thr'[t].snap = thr[t].snap /\ thr'[t].then = thr[t].then
    BY <1>0, <1>2, LoadEffects
  <2>2. status' = Empty /\ UNCHANGED <<disk, nonces>>
    BY <1>2 DEF Clear
  <2>3. Decided(thr[t])' => Decided(thr[t])
    BY <2>1 DEF Decided
  <2> QED BY <2>1, <2>2, <2>3, IdleCarriesNothing, TokenInvByThread DEF TokenInv, Burned
<1>3. CASE Fill(t)
  <2>1. /\ \A u \in Thread \ {t} :
             /\ thr'[u].pc = thr[u].pc /\ thr'[u].a = thr[u].a
             /\ thr'[u].snap = thr[u].snap /\ thr'[u].then = thr[u].then
        /\ thr'[t].a = thr[t].a
        /\ thr[t].pc = "fill" /\ thr'[t].pc = thr[t].then
        /\ thr[t].then \in {"ready", "view", "trigger"}
        /\ thr'[t].snap = Empty
    BY <1>0, <1>3, LoadEffects
  <2>2. UNCHANGED <<disk, nonces>>
        /\ \A b \in Approval : status'[b] = status[b] \/ status'[b] = thr[t].snap[b]
    BY <1>3 DEF Fill
  <2>3. Decided(thr[t])' => Decided(thr[t])
    BY <2>1 DEF Decided
  <2> QED BY <2>1, <2>2, <2>3, IdleCarriesNothing, TokenInvByThread DEF TokenInv, Burned
<1> QED BY <1>1, <1>2, <1>3

\* A request is fetched and decided; only a burned token leads to "approved".
LEMMA DecideToken ==
  ASSUME TypeOK, TokenInv, NEW t \in Thread, NEW a \in Approval, NEW own \in BOOLEAN,
         \/ Request(t, a) \/ Approve(t, a, own) \/ Reject(t, a) \/ MintForAdvance(t, a)
         \/ VerifyExpired(t) \/ Verify(t) \/ WriteApproved(t)
         \/ WriteDenied(t) \/ SweepApprovals(t)
  PROVE  TokenInv'
<1>0. thr \in [Thread -> Handler] /\ thr[t] \in Handler
  BY DEF TypeOK
<1>1. CASE Request(t, a) \/ VerifyExpired(t) \/ WriteDenied(t) \/ SweepApprovals(t)
  <2>1. PICK b, then : SaveThen(t, b, then) /\ then # "trigger"
    BY <1>0, <1>1 DEF Request, VerifyExpired, WriteDenied, SweepApprovals
  <2>2. /\ thr'[t].pc = "save" /\ thr'[t].then = then /\ thr'[t].snap = thr[t].snap
        /\ \A u \in Thread \ {t} : thr'[u] = thr[u]
    BY <1>0, <2>1, HandlerEffects
  <2>5. ~Decided(thr[t])'
    BY <2>1, <2>2 DEF Decided
  <2>3. UNCHANGED <<nonces, disk>>
    BY <1>1 DEF Request, VerifyExpired, WriteDenied, SweepApprovals
  <2>4. \A c \in Approval : status'[c] = "approved" => status[c] = "approved"
    <3>1. CASE Request(t, a)
      BY <3>1 DEF Request, SetStatus, TypeOK, Statuses
    <3>2. CASE VerifyExpired(t) \/ WriteDenied(t)
      BY <3>2, HeldEffect DEF VerifyExpired, WriteDenied
    <3>3. CASE SweepApprovals(t)
      BY <3>3 DEF SweepApprovals
    <3> QED BY <1>1, <3>1, <3>2, <3>3
  <2> QED BY <2>2, <2>3, <2>4, <2>5, NoNewDecision
<1>2. CASE Approve(t, a, own) \/ Reject(t, a)
  <2>1. /\ ~Decided(thr[t])' /\ thr'[t].snap = thr[t].snap
        /\ \A u \in Thread \ {t} : thr'[u] = thr[u]
    BY <1>0, <1>2 DEF Approve, Reject, Decided, Handler
  <2>2. UNCHANGED <<nonces, disk, status>>
    BY <1>2 DEF Approve, Reject
  <2> QED BY <2>1, <2>2, NoNewDecision
<1>3. CASE MintForAdvance(t, a)
  <2>1. thr'[t].a = a /\ thr'[t].snap = thr[t].snap
        /\ \A u \in Thread \ {t} : thr'[u] = thr[u]
    BY <1>0, <1>3 DEF MintForAdvance, Handler
  <2>2. Burned(a) /\ UNCHANGED <<status, disk, nonces>>
    BY <1>3 DEF MintForAdvance, TokenInv
  <2>3. (Decided(thr[t]) => Burned(thr[t].a))'
    BY <2>1, <2>2 DEF Burned
  <2>4. \A b \in Approval : thr'[t].snap[b] = "approved" => Burned(b)'
    BY <2>1, <2>2 DEF TokenInv, Burned
  <2>5. \A b \in Approval : status'[b] = "approved" \/ disk'[b] = "approved" => Burned(b)'
    BY <2>2 DEF TokenInv, Burned
  <2> QED BY <2>1, <2>2, <2>3, <2>4, <2>5, TokenInvByThread
<1>4. CASE Verify(t)
  <2>1. thr'[t].a = thr[t].a /\ thr'[t].snap = thr[t].snap
        /\ \A u \in Thread \ {t} : thr'[u] = thr[u]
    BY <1>0, <1>4, HandlerEffects DEF Verify
  <2>2. nonces' = nonces \cup {<<thr[t].a, "token">>} /\ UNCHANGED <<status, disk>>
    BY <1>4 DEF Verify, Consume
  <2>3. Burned(thr[t].a)'
    BY <2>1, <2>2 DEF Burned
  <2> QED BY <2>1, <2>2, <2>3, TokenInvByThread DEF TokenInv, Burned
<1>5. CASE WriteApproved(t)
  <2>1. Burned(thr[t].a)
    BY <1>5 DEF WriteApproved, At, TokenInv, Decided
  <2>2. thr'[t].a = thr[t].a /\ thr'[t].snap = thr[t].snap
        /\ \A u \in Thread \ {t} : thr'[u] = thr[u]
    BY <1>0, <1>5, HandlerEffects DEF WriteApproved
  <2>3. UNCHANGED <<nonces, disk>>
        /\ \A b \in Approval : status'[b] = status[b] \/ b = thr[t].a
    BY <1>5, HeldEffect DEF WriteApproved
  <2> QED BY <2>1, <2>2, <2>3, TokenInvByThread DEF TokenInv, Burned
<1> QED BY <1>1, <1>2, <1>3, <1>4, <1>5

\* The file gets a snapshot of memory; what was decided stays decided.
LEMMA SaveToken ==
  ASSUME TypeOK, TokenInv, NEW t \in Thread, Snapshot(t) \/ Replace(t) \/ ReplaceFails(t)
  PROVE  TokenInv'
<1>0. thr \in [Thread -> Handler] /\ thr[t] \in Handler
  BY DEF TypeOK
<1>1. CASE Snapshot(t)
  <2>1. /\ ~Decided(thr[t])' \/ Decided(thr[t])
        /\ thr'[t].a = thr[t].a /\ thr'[t].snap = status
        /\ \A u \in Thread \ {t} : thr'[u] = thr[u]
    BY <1>0, <1>1 DEF Snapshot, At, Decided, Handler
  <2>2. UNCHANGED <<nonces, disk, status>>
    BY <1>1 DEF Snapshot
  <2> QED BY <2>1, <2>2, NoNewDecision
<1>2. CASE Replace(t) \/ ReplaceFails(t)
  <2>1. /\ AfterSave(t) /\ thr[t].pc = "replace" /\ UNCHANGED <<status, nonces>>
        /\ disk' \in {disk, thr[t].snap}
    BY <1>2 DEF Replace, ReplaceFails, At
  <2>2. CASE thr[t].then \in {"view", "trigger"}
    <3>1. /\ thr'[t].pc = thr[t].then /\ thr'[t].a = thr[t].a /\ thr'[t].snap = Empty
          /\ \A u \in Thread \ {t} : thr'[u] = thr[u]
      BY <1>0, <2>1, <2>2, HandlerEffects
    <3>2. ~Decided(thr[t])' \/ Decided(thr[t])
      BY <2>1, <2>2, <3>1 DEF Decided
    <3> QED BY <2>1, <3>1, <3>2, NoNewDecision
  <2>3. CASE thr[t].then \notin {"view", "trigger"}
    <3>1. Done(t)
      BY <2>1, <2>3 DEF AfterSave
    <3> QED BY <2>1, <3>1, DoneToken
  <2> QED BY <2>2, <2>3
<1> QED BY <1>1, <1>2

\* The permit is asked for.
LEMMA MintToken ==
  ASSUME TypeOK, TokenInv, NEW t \in Thread,
         \/ Trigger(t) \/ MintExpired(t) \/ MintVerified(t) \/ Burn(t) \/ Issue(t)
  PROVE  TokenInv'
<1>0. thr \in [Thread -> Handler] /\ thr[t] \in Handler
  BY DEF TypeOK
<1>1. CASE Trigger(t) /\ status[thr[t].a] = "approved"
  <2>1. /\ thr'[t].a = thr[t].a /\ thr'[t].snap = thr[t].snap
        /\ Decided(thr[t])
        /\ \A u \in Thread \ {t} : thr'[u] = thr[u]
    BY <1>0, <1>1, HandlerEffects DEF Trigger, At, Decided
  <2>2. UNCHANGED <<nonces, disk, status>>
    BY <1>1 DEF Trigger
  <2> QED BY <2>1, <2>2, NoNewDecision
<1>2. CASE Trigger(t) /\ status[thr[t].a] # "approved"
  <2>1. Done(t) /\ UNCHANGED <<nonces, disk, status>>
    BY <1>2 DEF Trigger
  <2> QED BY <2>1, DoneToken
<1>3. CASE MintExpired(t)
  <2>1. Done(t) /\ UNCHANGED <<nonces, disk>>
        /\ \A b \in Approval : status'[b] = "approved" => status[b] = "approved"
    BY <1>3, HeldEffect DEF MintExpired
  <2> QED BY <2>1, DoneToken
<1>4. CASE MintVerified(t)
  <2>1. /\ thr'[t].a = thr[t].a /\ thr'[t].snap = thr[t].snap
        /\ Decided(thr[t])
        /\ \A u \in Thread \ {t} : thr'[u] = thr[u]
    BY <1>0, <1>4 DEF MintVerified, At, Decided, Handler
  <2>2. UNCHANGED <<nonces, disk, status>>
    BY <1>4 DEF MintVerified
  <2> QED BY <2>1, <2>2, NoNewDecision
<1>5. CASE Burn(t)
  <2>1. /\ thr'[t].a = thr[t].a /\ thr'[t].snap = thr[t].snap
        /\ Decided(thr[t])
        /\ \A u \in Thread \ {t} : thr'[u] = thr[u]
    BY <1>0, <1>5, HandlerEffects DEF Burn, At, Decided
  <2>2. nonces \subseteq nonces' /\ UNCHANGED <<disk, status>>
    BY <1>5 DEF Burn, Consume
  <2> QED BY <2>1, <2>2, NoNewDecision
<1>6. CASE Issue(t)
  <2>1. Done(t) /\ UNCHANGED <<nonces, disk, status>>
    BY <1>6 DEF Issue
  <2> QED BY <2>1, DoneToken
<1> QED BY <1>1, <1>2, <1>3, <1>4, <1>5, <1>6

\* The handler starts, or returns as it was.
LEMMA QuietToken ==
  ASSUME TypeOK, TokenInv, NEW t \in Thread,
         \/ Enter(t) \/ Return(t) \/ View(t) \/ TriggerNoWorker(t)
         \/ VerifyReplayed(t) \/ MintRefused(t) \/ BurnReplayed(t)
  PROVE  TokenInv'
<1>1. UNCHANGED <<status, disk, nonces>>
  BY DEF Enter, Return, View, TriggerNoWorker, VerifyReplayed, MintRefused, BurnReplayed
<1>2. CASE Enter(t)
  <2>1. Goto(t, "ready") /\ thr \in [Thread -> Handler]
    BY <1>2 DEF Enter, TypeOK
  <2>2. /\ thr'[t].pc = "ready" /\ thr'[t].snap = thr[t].snap
        /\ \A u \in Thread \ {t} : thr'[u] = thr[u]
    BY <2>1, HandlerEffects
  <2>3. ~Decided(thr[t])'
    BY <2>2 DEF Decided
  <2> QED BY <1>1, <2>2, <2>3, NoNewDecision
<1>3. CASE Done(t)
  BY <1>1, <1>3, DoneToken
<1> QED
  BY <1>2, <1>3 DEF Return, View, TriggerNoWorker, VerifyReplayed, MintRefused, BurnReplayed

LEMMA TokenStep ==
  ASSUME TypeOK, TokenInv, [Next]_vars
  PROVE  TokenInv'
<1>1. ASSUME NEW t \in Thread, Proceed(t) PROVE TokenInv'
  BY <1>1, ApprovalAssumption, LoadToken, DecideToken, SaveToken, MintToken, QuietToken
     DEF Proceed
<1>2. ASSUME NEW t \in Thread,
             \/ Enter(t) \/ ReadFile(t) \/ Return(t) \/ TriggerNoWorker(t)
             \/ ReplaceFails(t) \/ SweepApprovals(t)
      PROVE  TokenInv'
  BY <1>2, ApprovalAssumption, LoadToken, DecideToken, SaveToken, QuietToken
<1>3. ASSUME NEW t \in Thread, NEW a \in Approval, NEW own \in BOOLEAN,
             Request(t, a) \/ Reject(t, a) \/ MintForAdvance(t, a) \/ Approve(t, a, own)
      PROVE  TokenInv'
  BY <1>3, DecideToken
<1>4. CASE Restart
  BY <1>4, IdleCarriesNothing DEF Restart, TokenInv, Burned, Decided
<1>5. CASE Tick \/ UNCHANGED vars
  BY <1>5 DEF Tick, vars, TokenInv, Burned, Decided
<1> QED BY <1>1, <1>2, <1>3, <1>4, <1>5 DEF Next

-----------------------------------------------------------------------------
(* Permits.                                                                *)

\* The threads about to make a permit are the same as before.
SameIssuers == \A t \in Thread : \A a : Issuing(t, a)' <=> Issuing(t, a)

\* A step of t that takes it neither to the making of a permit nor from it.
LEMMA NotIssuing ==
  ASSUME NEW t \in Thread,
         \A u \in Thread \ {t} : thr'[u].pc = thr[u].pc /\ thr'[u].a = thr[u].a,
         thr[t].pc # "issue", thr'[t].pc # "issue"
  PROVE  SameIssuers
BY DEF SameIssuers, Issuing, At

\* Only four actions touch what a permit depends on.
LEMMA StepKinds ==
  ASSUME TypeOK, [Next]_vars
  PROVE  \/ UNCHANGED <<nonces, minted, crashes>> /\ SameIssuers
         \/ \E t \in Thread : Verify(t) \/ Burn(t) \/ Issue(t)
         \/ Restart
<1> DEFINE Quiet == UNCHANGED <<nonces, minted, crashes>> /\ SameIssuers
<1>0. thr \in [Thread -> Handler] /\ IdleHandler.pc = "idle"
  BY DEF TypeOK, IdleHandler
<1>1. CASE UNCHANGED vars
  BY <1>1 DEF vars, SameIssuers, Issuing, At
<1>2. CASE Tick
  BY <1>2 DEF Tick, SameIssuers, Issuing, At
<1>3. ASSUME NEW t \in Thread, Done(t) \/ Goto(t, "ready") \/ Goto(t, "approve") \/ Goto(t, "mint"),
             thr[t].pc # "issue"
      PROVE  SameIssuers
  <2>1. CASE Done(t)
    <3>1. thr'[t] = IdleHandler /\ \A u \in Thread \ {t} : thr'[u] = thr[u]
      BY <1>0, <2>1, HandlerEffects
    <3> QED BY <1>0, <1>3, <3>1, NotIssuing
  <2>2. CASE \E pc : Goto(t, pc) /\ pc # "issue"
    <3>1. PICK pc : Goto(t, pc) /\ pc # "issue"
      BY <2>2
    <3>2. thr'[t].pc = pc /\ \A u \in Thread \ {t} : thr'[u] = thr[u]
      BY <1>0, <3>1 DEF Goto, Handler
    <3> QED BY <1>3, <3>1, <3>2, NotIssuing
  <2> QED BY <1>3, <2>1, <2>2
<1>4. ASSUME NEW t \in Thread, \E a, then : SaveThen(t, a, then), thr[t].pc # "issue"
      PROVE  SameIssuers
  <2>1. thr'[t].pc # "issue" /\ \A u \in Thread \ {t} : thr'[u] = thr[u]
    BY <1>0, <1>4, HandlerEffects
  <2> QED BY <1>4, <2>1, NotIssuing
<1>5. ASSUME NEW t \in Thread, NEW a \in Approval, NEW own \in BOOLEAN,
             Request(t, a) \/ Reject(t, a) \/ MintForAdvance(t, a) \/ Approve(t, a, own)
      PROVE  Quiet
  <2>1. UNCHANGED <<nonces, minted, crashes>> /\ thr[t].pc # "issue"
    BY <1>5 DEF Request, Reject, MintForAdvance, Approve, At
  <2>2. CASE Request(t, a)
    BY <1>4, <2>1, <2>2 DEF Request
  <2>3. CASE Reject(t, a) \/ MintForAdvance(t, a) \/ Approve(t, a, own)
    <3>1. thr'[t].pc # "issue" /\ \A u \in Thread \ {t} : thr'[u] = thr[u]
      BY <1>0, <2>3 DEF Reject, MintForAdvance, Approve, Handler
    <3> QED BY <2>1, <3>1, NotIssuing
  <2> QED BY <1>5, <2>2, <2>3
<1>6. ASSUME NEW t \in Thread,
             \/ Enter(t) \/ Return(t) \/ TriggerNoWorker(t) \/ VerifyReplayed(t) \/ View(t)
             \/ Trigger(t) \/ MintExpired(t) \/ MintRefused(t) \/ BurnReplayed(t)
      PROVE  Quiet
  <2>1. /\ UNCHANGED <<nonces, minted, crashes>> /\ thr[t].pc # "issue"
        /\ Done(t) \/ Goto(t, "ready") \/ Goto(t, "mint")
    BY <1>6 DEF Enter, Return, TriggerNoWorker, VerifyReplayed, View, Trigger, MintExpired,
                MintRefused, BurnReplayed, At, Idle
  <2> QED BY <1>3, <2>1
<1>7. ASSUME NEW t \in Thread,
             VerifyExpired(t) \/ WriteApproved(t) \/ WriteDenied(t) \/ SweepApprovals(t)
      PROVE  Quiet
  <2>1. /\ UNCHANGED <<nonces, minted, crashes>> /\ thr[t].pc # "issue"
        /\ \E a, then : SaveThen(t, a, then)
    BY <1>7 DEF VerifyExpired, WriteApproved, WriteDenied, SweepApprovals, At
  <2> QED BY <1>4, <2>1
<1>8. ASSUME NEW t \in Thread, Snapshot(t) \/ MintVerified(t) PROVE Quiet
  <2>1. /\ UNCHANGED <<nonces, minted, crashes>> /\ thr[t].pc # "issue"
    BY <1>8 DEF Snapshot, MintVerified, At
  <2>2. thr'[t].pc # "issue" /\ \A u \in Thread \ {t} : thr'[u] = thr[u]
    BY <1>0, <1>8 DEF Snapshot, MintVerified, Handler
  <2> QED BY <2>1, <2>2, NotIssuing
<1>9. ASSUME NEW t \in Thread, Replace(t) \/ ReplaceFails(t) PROVE Quiet
  <2>1. /\ UNCHANGED <<nonces, minted, crashes>> /\ thr[t].pc # "issue" /\ AfterSave(t)
    BY <1>9 DEF Replace, ReplaceFails, At
  <2>2. CASE thr[t].then \in {"view", "trigger"}
    <3>1. thr'[t].pc # "issue" /\ \A u \in Thread \ {t} : thr'[u] = thr[u]
      BY <1>0, <2>1, <2>2, HandlerEffects
    <3> QED BY <2>1, <3>1, NotIssuing
  <2>3. CASE thr[t].then \notin {"view", "trigger"}
    <3>1. Done(t)
      BY <2>1, <2>3 DEF AfterSave
    <3> QED BY <1>3, <2>1, <3>1
  <2> QED BY <2>2, <2>3
<1>10. ASSUME NEW t \in Thread, ReadFile(t) \/ Clear(t) \/ Fill(t) PROVE Quiet
  <2>1. UNCHANGED <<nonces, minted, crashes>> /\ thr[t].pc # "issue"
    BY <1>10 DEF ReadFile, Clear, Fill, At
  <2>2. /\ thr'[t].pc # "issue"
        /\ \A u \in Thread \ {t} : thr'[u].pc = thr[u].pc /\ thr'[u].a = thr[u].a
    <3>1. CASE ReadFile(t)
      BY <1>0, <3>1, ReadEffects
    <3>2. CASE Clear(t) \/ Fill(t)
      BY <1>0, <3>2, LoadEffects
    <3> QED BY <1>10, <3>1, <3>2
  <2> QED BY <2>1, <2>2, NotIssuing
<1>11. ASSUME NEW t \in Thread, Proceed(t), ~(Verify(t) \/ Burn(t) \/ Issue(t))
       PROVE  Quiet
  BY <1>6, <1>7, <1>8, <1>9, <1>10, <1>11 DEF Proceed
<1> HIDE DEF Quiet
<1>12. CASE Next
  BY <1>2, <1>5, <1>6, <1>7, <1>9, <1>10, <1>11, <1>12 DEF Next, Quiet
<1> QED BY <1>1, <1>12

\* What happens to the permits of every approval when a gets one.
LEMMA IssuePermits ==
  ASSUME TypeOK, NEW t \in Thread, Issue(t)
  PROVE  LET n == Len(minted) + 1 IN
         /\ \A b : \A i : i \in Permits(b)' <=> i \in Permits(b) \/ (i = n /\ b = thr[t].a)
         /\ \A b : n \notin Permits(b)
         /\ DOMAIN minted = 1..Len(minted) /\ DOMAIN minted' = 1..n
         /\ Len(minted) \in Nat
         /\ \A i \in DOMAIN minted : minted'[i].ref = minted[i].ref
         /\ minted'[n].ref = thr[t].a
<1> DEFINE p == [ref |-> thr[t].a, expires |-> Min2(expires[thr[t].a], clock + Freshness),
                 under |-> status[thr[t].a]]
<1> DEFINE m == Len(minted)
<1>1. p \in NewPermit
  BY FreshnessAssumption, BoundsAssumption DEF TypeOK, Handler, Min2, Statuses, NewPermit
<1>2. p.ref = thr[t].a
  OBVIOUS
<1>3. minted \in Seq(NewPermit) /\ minted' = Append(minted, p)
  BY DEF TypeOK, Issue
<1> HIDE DEF p
<1>4. /\ m \in Nat /\ DOMAIN minted = 1..m /\ DOMAIN minted' = 1..(m + 1)
      /\ \A i \in 1..m : minted'[i] = minted[i]
      /\ minted'[m + 1] = p
  BY <1>1, <1>3
<1>5. \A i : i \in DOMAIN minted' <=> i \in DOMAIN minted \/ i = m + 1
  BY <1>4
<1>6. \A i \in DOMAIN minted : minted'[i] = minted[i] /\ i # m + 1
  BY <1>4
<1>7. minted'[m + 1].ref = thr[t].a
  BY <1>2, <1>4
<1> HIDE DEF m
<1>8. \A b : \A i : i \in Permits(b)' <=> i \in Permits(b) \/ (i = m + 1 /\ b = thr[t].a)
  BY <1>5, <1>6, <1>7 DEF Permits
<1>9. \A b : m + 1 \notin Permits(b)
  BY <1>6 DEF Permits
<1> QED BY <1>4, <1>6, <1>7, <1>8, <1>9 DEF m

LEMMA PermitStep ==
  ASSUME IInv, [Next]_vars
  PROVE  PermitInv'
<1>0. TypeOK /\ PermitInv
  BY DEF IInv
<1>1. CASE UNCHANGED <<nonces, minted, crashes>> /\ SameIssuers
  <2>1. \A b : Permits(b)' = Permits(b) /\ Permitted(b)' = Permitted(b) /\ Burned(b)' = Burned(b)
    BY <1>1 DEF Permits, Permitted, Burned
  <2>2. \A t \in Thread : \A a : Issuing(t, a)' <=> Issuing(t, a)
    BY <1>1 DEF SameIssuers
  <2>3. OnePermit'
    BY <1>0, <1>1 DEF PermitInv, OnePermit
  <2>4. PermitNotWasted'
    <3>1. \A a \in Approval : Permitted(a) /\ crashes = 0 =>
            Permits(a) # {} \/ \E t \in Thread : Issuing(t, a)
      BY <1>0 DEF PermitInv, PermitNotWasted, Permitted, Issuing
    <3>2. (\A a \in Approval : Permitted(a) /\ crashes = 0 =>
            Permits(a) # {} \/ \E t \in Thread : Issuing(t, a))'
      BY <1>1, <2>1, <2>2, <3>1
    <3> QED BY <3>2 DEF PermitNotWasted, Permitted, Issuing
  <2> QED BY <1>0, <2>1, <2>2, <2>3, <2>4 DEF PermitInv
<1>2. ASSUME NEW t \in Thread, Verify(t) PROVE PermitInv'
  <2>1. /\ nonces' = nonces \cup {<<thr[t].a, "token">>} /\ UNCHANGED <<minted, crashes>>
        /\ thr[t].pc = "verify"
    BY <1>2 DEF Verify, Consume, At
  <2>2. \A b : Permits(b)' = Permits(b) /\ Permitted(b)' = Permitted(b) /\ (Burned(b) => Burned(b)')
    BY <2>1 DEF Permits, Permitted, Burned
  <2>3. thr'[t].pc = "approve" /\ \A u \in Thread \ {t} : thr'[u] = thr[u]
    BY <1>0, <1>2, HandlerEffects DEF Verify, TypeOK
  <2>4. \A u \in Thread : \A a : Issuing(u, a)' <=> Issuing(u, a)
    BY <2>1, <2>3, NotIssuing DEF SameIssuers
  <2>5. OnePermit'
    BY <1>0, <2>1 DEF PermitInv, OnePermit
  <2>6. PermitNotWasted'
    <3>1. \A a \in Approval : Permitted(a) /\ crashes = 0 =>
            Permits(a) # {} \/ \E u \in Thread : Issuing(u, a)
      BY <1>0 DEF PermitInv, PermitNotWasted, Permitted, Issuing
    <3>2. (\A a \in Approval : Permitted(a) /\ crashes = 0 =>
            Permits(a) # {} \/ \E u \in Thread : Issuing(u, a))'
      BY <2>1, <2>2, <2>4, <3>1
    <3> QED BY <3>2 DEF PermitNotWasted, Permitted, Issuing
  <2> QED BY <1>0, <2>2, <2>4, <2>5, <2>6 DEF PermitInv
<1>3. ASSUME NEW t \in Thread, Burn(t) PROVE PermitInv'
  <2> DEFINE a == thr[t].a
  <2>0. a \in Approval /\ thr \in [Thread -> Handler]
    BY <1>0 DEF TypeOK, Handler
  <2>1. /\ nonces' = nonces \cup {<<a, "permit">>} /\ UNCHANGED <<minted, crashes>>
        /\ ~Permitted(a) /\ thr[t].pc = "burn"
    BY <1>3 DEF Burn, Consume, Unused, Permitted, At
  <2>2. Burned(a)
    BY <2>0, <2>1 DEF IInv, TokenInv, Decided
  <2>3. thr'[t].pc = "issue" /\ thr'[t].a = a /\ \A u \in Thread \ {t} : thr'[u] = thr[u]
    BY <2>0, <1>3, HandlerEffects DEF Burn
  <2> HIDE DEF a
  <2>4. \A b : /\ Permits(b)' = Permits(b) /\ Burned(b)' = Burned(b)
               /\ Permitted(b)' <=> Permitted(b) \/ b = a
    BY <2>1 DEF Permits, Permitted, Burned
  <2>5. \A u \in Thread, b \in Approval : Issuing(u, b)' <=> Issuing(u, b) \/ (u = t /\ b = a)
    BY <2>1, <2>3 DEF Issuing, At
  <2>6. \A u \in Thread : ~Issuing(u, a)
    BY <1>0, <2>0, <2>1 DEF PermitInv
  <2>7. Permits(a) = {}
    BY <1>0, <2>0, <2>1 DEF PermitInv
  <2>8. OnePermit'
    BY <1>0, <2>1 DEF PermitInv, OnePermit
  <2>9. PermitNotWasted'
    <3>1. \A b \in Approval : Permitted(b) /\ crashes = 0 =>
            Permits(b) # {} \/ \E u \in Thread : Issuing(u, b)
      BY <1>0 DEF PermitInv, PermitNotWasted, Permitted, Issuing
    <3>2. ASSUME NEW b \in Approval, Permitted(b)', crashes' = 0
          PROVE  Permits(b)' # {} \/ \E u \in Thread : Issuing(u, b)'
      <4>1. CASE b = a
        BY <2>5, <4>1
      <4>2. CASE b # a
        BY <2>1, <2>4, <2>5, <3>1, <3>2, <4>2
      <4> QED BY <4>1, <4>2
    <3> QED BY <3>2 DEF PermitNotWasted, Permitted, Issuing
  <2>10. \A b \in Approval : Permits(b)' # {} => Permitted(b)'
    BY <1>0, <2>4 DEF PermitInv
  <2>11. \A b \in Approval : Permitted(b)' => Burned(b)'
    BY <1>0, <2>2, <2>4 DEF PermitInv
  <2>12. \A u \in Thread, b \in Approval : Issuing(u, b)' => Permitted(b)' /\ Permits(b)' = {}
    BY <1>0, <2>4, <2>5, <2>7 DEF PermitInv
  <2>13. \A u, v \in Thread, b \in Approval : Issuing(u, b)' /\ Issuing(v, b)' => u = v
    BY <1>0, <2>5, <2>6 DEF PermitInv
  <2> QED BY <2>8, <2>9, <2>10, <2>11, <2>12, <2>13 DEF PermitInv
<1>4. ASSUME NEW t \in Thread, Issue(t) PROVE PermitInv'
  <2> PICK a : a = thr[t].a
    OBVIOUS
  <2> PICK n : n = Len(minted) + 1
    OBVIOUS
  <2>0. a \in Approval /\ thr \in [Thread -> Handler] /\ Issuing(t, a)
    BY <1>0, <1>4 DEF TypeOK, Handler, Issue, Issuing
  <2>1. /\ \A b : \A i : i \in Permits(b)' <=> i \in Permits(b) \/ (i = n /\ b = a)
        /\ \A b : n \notin Permits(b) /\ n = Len(minted) + 1
        /\ DOMAIN minted = 1..Len(minted) /\ DOMAIN minted' = 1..n
        /\ Len(minted) \in Nat
        /\ \A i \in DOMAIN minted : minted'[i].ref = minted[i].ref
        /\ minted'[n].ref = a
    BY <1>0, <1>4, IssuePermits
  <2>2. UNCHANGED <<nonces, crashes>> /\ Done(t)
    BY <1>4 DEF Issue
  <2>3. thr'[t].pc # "issue" /\ \A u \in Thread \ {t} : thr'[u] = thr[u]
    <3>1. thr'[t] = IdleHandler /\ \A u \in Thread \ {t} : thr'[u] = thr[u]
      BY <2>0, <2>2, HandlerEffects
    <3> QED BY <3>1 DEF IdleHandler
  <2>4. Permitted(a) /\ Permits(a) = {} /\ \A u \in Thread : Issuing(u, a) => u = t
    BY <1>0, <2>0 DEF PermitInv
  <2>5. DOMAIN minted' = DOMAIN minted \cup {n}
    BY <2>1
  <2>6. OnePermit'
    <3>1. \A i \in DOMAIN minted : minted[i].ref # a
      BY <2>4 DEF Permits
    <3>2. \A i, j \in DOMAIN minted : minted[i].ref = minted[j].ref => i = j
      BY <1>0 DEF PermitInv, OnePermit
    <3> QED BY <2>1, <2>5, <3>1, <3>2 DEF OnePermit
  <2>7. ASSUME NEW b, b # a PROVE Permits(b)' = Permits(b)
    <3>1. \A i : i \in Permits(b)' <=> i \in Permits(b)
      BY <2>1, <2>7
    <3> QED BY <3>1
  <2>8. Permits(a)' # {}
    BY <2>1
  <2>9. \A b : Permitted(b)' = Permitted(b) /\ Burned(b)' = Burned(b)
    BY <2>2 DEF Permitted, Burned
  <2>10. \A u \in Thread, b \in Approval : Issuing(u, b)' <=> Issuing(u, b) /\ u # t
    BY <2>3 DEF Issuing, At
  <2>11. \A b : Issuing(t, b) => b = a
    BY <2>0 DEF Issuing
  <2>12. PermitNotWasted'
    <3>1. \A b \in Approval : Permitted(b) /\ crashes = 0 =>
            Permits(b) # {} \/ \E u \in Thread : Issuing(u, b)
      BY <1>0 DEF PermitInv, PermitNotWasted, Permitted, Issuing
    <3>2. ASSUME NEW b \in Approval, Permitted(b)', crashes' = 0
          PROVE  Permits(b)' # {} \/ \E u \in Thread : Issuing(u, b)'
      <4>1. CASE b = a
        BY <2>8, <4>1
      <4>2. CASE b # a
        BY <2>2, <2>7, <2>9, <2>10, <2>11, <3>1, <3>2, <4>2
      <4> QED BY <4>1, <4>2
    <3> QED BY <3>2 DEF PermitNotWasted, Permitted, Issuing
  <2>13. \A b \in Approval : Permits(b)' # {} => Permitted(b)'
    BY <1>0, <2>4, <2>7, <2>9 DEF PermitInv
  <2>14. \A b \in Approval : Permitted(b)' => Burned(b)'
    BY <1>0, <2>9 DEF PermitInv
  <2>15. \A u \in Thread, b \in Approval : Issuing(u, b)' => Permitted(b)' /\ Permits(b)' = {}
    BY <1>0, <2>4, <2>7, <2>9, <2>10 DEF PermitInv
  <2>16. \A u, v \in Thread, b \in Approval : Issuing(u, b)' /\ Issuing(v, b)' => u = v
    BY <1>0, <2>10 DEF PermitInv
  <2> QED BY <2>6, <2>12, <2>13, <2>14, <2>15, <2>16 DEF PermitInv
<1>5. CASE Restart
  <2>1. UNCHANGED <<nonces, minted>> /\ crashes' # 0
    BY <1>0, <1>5, BoundsAssumption DEF Restart, TypeOK
  <2>2. \A u \in Thread : \A b : ~Issuing(u, b)'
    BY <1>5 DEF Restart, Issuing, At, IdleHandler
  <2>3. \A b : Permits(b)' = Permits(b) /\ Permitted(b)' = Permitted(b) /\ Burned(b)' = Burned(b)
    BY <2>1 DEF Permits, Permitted, Burned
  <2>4. OnePermit' /\ PermitNotWasted'
    BY <1>0, <2>1 DEF PermitInv, OnePermit, PermitNotWasted
  <2> QED BY <1>0, <2>2, <2>3, <2>4 DEF PermitInv
<1> QED BY <1>0, <1>1, <1>2, <1>3, <1>4, <1>5, StepKinds

-----------------------------------------------------------------------------
(* The invariant.                                                          *)

LEMMA InitInv == Init => IInv
<1> SUFFICES ASSUME Init PROVE IInv
  OBVIOUS
<1>1. TypeOK
  <2>1. thr \in [Thread -> Handler] /\ status \in Statuses /\ disk \in Statuses
    BY IdleHandlerType, EmptyType DEF Init
  <2>2. minted \in Seq(NewPermit) /\ expires \in [Approval -> Nat]
    BY DEF Init
  <2>3. clock \in 0..MaxTime /\ crashes \in 0..MaxCrashes
    BY BoundsAssumption DEF Init
  <2> QED BY <2>1, <2>2, <2>3 DEF Init, TypeOK
<1>2. TokenInv
  BY IdleCarriesNothing DEF Init, TokenInv
<1>3. PermitInv
  BY DEF Init, PermitInv, Permits, Permitted, Issuing, At, IdleHandler, OnePermit, PermitNotWasted
<1> QED BY <1>1, <1>2, <1>3 DEF IInv

LEMMA StepInv == IInv /\ [Next]_vars => IInv'
  BY TypeStep, TokenStep, PermitStep DEF IInv

\* The inductive invariant holds in every reachable state.
THEOREM Invariance == Spec => []IInv
  BY InitInv, StepInv, PTL DEF Spec

\* Every variable keeps its type, whatever the threads, failures and crashes.
THEOREM TypeCorrect == Spec => []TypeOK
<1>1. IInv => TypeOK
  BY DEF IInv
<1> QED BY <1>1, Invariance, PTL

\* One approval mints at most one permit, although the resume trigger and
\* POST /runs/{id}/advance of any number of threads race for it.
THEOREM OnePermitHolds == Spec => []OnePermit
<1>1. IInv => OnePermit
  BY DEF IInv, PermitInv
<1> QED BY <1>1, Invariance, PTL

\* No interleaving of decisions, saves, reloads and restarts makes a request
\* approved, in memory or on disk, or mints for it, unless its token was burned.
THEOREM ApprovedByTokenHolds == Spec => []ApprovedByToken
<1>1. IInv => ApprovedByToken
  BY DEF IInv, TokenInv, PermitInv, Burned, Permitted, ApprovedByToken
<1> QED BY <1>1, Invariance, PTL

\* The one permit nonce of an approval is never burned for nothing, unless the
\* process dies between the burn and the permit: a refused, late or replayed
\* request for a permit, and a reload that races it, cost nothing.
THEOREM PermitNotWastedHolds == Spec => []PermitNotWasted
<1>1. IInv => PermitNotWasted
  BY DEF IInv, PermitInv
<1> QED BY <1>1, Invariance, PTL

-----------------------------------------------------------------------------
(* Refinement.                                                             *)

Phase ==
  [a \in Approval |-> IF Permits(a) # {} THEN "issued"
                     ELSE IF <<a, "token">> \in nonces THEN "granted" ELSE "open"]

Count == [a \in Approval |-> Cardinality(Permits(a))]

LEMMA LedgerInit == Init => Ledger!Init
<1> SUFFICES ASSUME Init PROVE Ledger!Init
  OBVIOUS
<1>1. \A a \in Approval : Permits(a) = {}
  BY DEF Init, Permits
<1> QED BY <1>1, FS_EmptySet DEF Init, Ledger!Init

LEMMA LedgerStep ==
  ASSUME IInv, [Next]_vars
  PROVE  [Ledger!Next]_<<Phase, Count>>
<1>0. TypeOK /\ PermitInv
  BY DEF IInv
<1>1. ASSUME UNCHANGED minted, \A a : Burned(a)' = Burned(a) PROVE UNCHANGED <<Phase, Count>>
  <2>1. \A a : Permits(a)' = Permits(a)
    BY <1>1 DEF Permits
  <2> QED BY <1>1, <2>1 DEF Phase, Count, Burned
<1>2. CASE UNCHANGED <<nonces, minted>>
  BY <1>1, <1>2 DEF Burned
<1>3. ASSUME NEW t \in Thread, Burn(t)
      PROVE  UNCHANGED <<Phase, Count>>
  BY <1>1, <1>3 DEF Burn, Consume, Burned
<1>4. ASSUME NEW t \in Thread, Verify(t) PROVE Ledger!Next
  <2>1. PICK a \in Approval : a = thr[t].a
    BY <1>0 DEF TypeOK, Handler
  <2>2. /\ nonces' = nonces \cup {<<a, "token">>} /\ ~Burned(a)
        /\ minted' = minted
    BY <1>4, <2>1 DEF Verify, Consume, Unused, Burned
  <2>3. \A b : Permits(b)' = Permits(b)
    BY <2>2 DEF Permits
  <2>4. Permits(a) = {}
    BY <1>0, <2>2 DEF PermitInv
  <2>5. Phase[a] = "open"
    BY <2>2, <2>4 DEF Phase, Burned
  <2>6. Phase' = [Phase EXCEPT ![a] = "granted"]
    BY <2>2, <2>3, <2>4 DEF Phase, Burned
  <2>7. Count' = Count
    BY <2>3 DEF Count
  <2>8. Ledger!Grant(a)
    BY <2>5, <2>6, <2>7 DEF Ledger!Grant, Phase, Count
  <2> QED BY <2>8 DEF Ledger!Next
<1>5. ASSUME NEW t \in Thread, Issue(t) PROVE Ledger!Next
  <2> DEFINE n == Len(minted) + 1
  <2>1. PICK a \in Approval : a = thr[t].a
    BY <1>0 DEF TypeOK, Handler
  <2>2. /\ \A b : \A i : i \in Permits(b)' <=> i \in Permits(b) \/ (i = n /\ b = a)
        /\ nonces' = nonces
    BY <1>0, <1>5, <2>1, IssuePermits DEF Issue
  <2>3. Permits(a) = {} /\ Burned(a)
    BY <1>0, <1>5, <2>1 DEF PermitInv, Issuing, Issue
  <2> HIDE DEF n
  <2>4. Permits(a)' = {n} /\ \A b : b # a => Permits(b)' = Permits(b)
    <3>1. \A i : i \in Permits(a)' <=> i = n
      BY <2>2, <2>3
    <3>2. ASSUME NEW b, b # a PROVE Permits(b)' = Permits(b)
      <4>1. \A i : i \in Permits(b)' <=> i \in Permits(b)
        BY <2>2, <3>2
      <4> QED BY <4>1
    <3>3. Permits(a)' = {n}
      BY <3>1
    <3> QED BY <3>2, <3>3
  <2>5. Phase[a] = "granted"
    BY <2>3 DEF Phase, Burned
  <2>6. Phase' = [Phase EXCEPT ![a] = "issued"]
    BY <2>2, <2>3, <2>4 DEF Phase
  <2>7. Count[a] = 0 /\ Count'[a] = 1
    BY <2>3, <2>4, FS_EmptySet, FS_Singleton DEF Count
  <2>8. \A b \in Approval \ {a} : Count'[b] = Count[b]
    BY <2>4 DEF Count
  <2>9. Count' = [Count EXCEPT ![a] = @ + 1]
    <3>1. Count = [b \in Approval |-> Count[b]] /\ Count' = [b \in Approval |-> Count'[b]]
      BY DEF Count
    <3> HIDE DEF Count
    <3> QED BY <2>7, <2>8, <3>1
  <2>10. Ledger!Issue(a)
    BY <2>5, <2>6, <2>9 DEF Ledger!Issue, Phase, Count
  <2> QED BY <2>10 DEF Ledger!Next
<1>6. CASE Restart
  BY <1>2, <1>6 DEF Restart
<1> QED
  <2>1. Ledger!Next \/ UNCHANGED <<Phase, Count>>
    BY <1>0, <1>2, <1>3, <1>4, <1>5, <1>6, StepKinds
  <2> QED BY <2>1

\* What the executor relies on: a grant spends the token once, a permit follows
\* a grant, and nothing (no thread, crash or stale approvals.json) undoes either.
THEOREM LedgerHolds == Spec => ImplementsLedger
<1>1. IInv /\ [Next]_vars => [Ledger!Next]_<<Phase, Count>>
  BY LedgerStep
<1> QED BY <1>1, LedgerInit, Invariance, PTL
        DEF Spec, ImplementsLedger, Ledger!Spec, Phase, Count

-----------------------------------------------------------------------------
(* Denials, while nothing has disturbed the store.                         *)

Rejected(a) == <<a, "denied">> \in answers

\* No two handlers are at work.
Alone == \A t, u \in Thread : ~Idle(t) /\ ~Idle(u) => t = u

\* Memory, once loaded, and the file agree on what was answered and on what a
\* permit was minted for; a request is raised once.
ApprovalFits(a) ==
  /\ status[a] # "none" \/ disk[a] # "none" => expires[a] # 0
  /\ Rejected(a) => /\ disk[a] = "denied" /\ ~Permitted(a)
                    /\ status[a] = "denied" \/ status = Empty
  /\ Permitted(a) => /\ disk[a] \in {"approved", "expired"}
                     /\ status[a] \in {"approved", "expired"} \/ status = Empty

\* The handler decides what is still open, on memory that is loaded.
HandlerFits(h) ==
  /\ ~h.stale
  /\ h.pc \notin {"idle", "load", "fill"} => Loaded
  /\ h.pc \in {"load", "fill"} => h.snap = disk /\ status = Empty /\ h.then # "view"
  /\ h.pc \in {"verify", "approve", "deny", "mint"} => expires[h.a] # 0
  /\ h.pc \in {"verify", "approve"} => ~Rejected(h.a)
  /\ h.pc = "deny" => ~Permitted(h.a)
  /\ h.pc \in {"save", "replace"} /\ h.then = "view" =>
       status[h.a] = "denied" /\ ~Permitted(h.a)
  /\ h.pc = "view" => status[h.a] = "denied" /\ disk[h.a] = "denied" /\ ~Permitted(h.a)
  /\ h.pc = "replace" => h.snap = status
  /\ h.pc \in {"mint", "burn", "issue"} => status[h.a] = "approved"

Saving(h) == h.pc \in {"save", "replace"}

\* What is approved in memory is on disk.
Synced == \A a \in Approval : status[a] = "approved" => disk[a] = "approved"

SerialInv ==
  /\ Alone
  /\ \A a \in Approval : ApprovalFits(a)
  /\ \A t \in Thread : HandlerFits(thr[t])
  /\ Synced \/ \E t \in Thread : Saving(thr[t])

CalmInv == ~disturbed => SerialInv

\* The handler at work, and the ones that are not.
OnlyAtWork(t) ==
  /\ \A u \in Thread \ {t} : Idle(u) /\ thr'[u] = thr[u]
  /\ SerialInv

\* A step of the one handler at work need only be checked for it.
LEMMA SerialByThread ==
  ASSUME NEW t \in Thread, OnlyAtWork(t),
         \A a \in Approval : ApprovalFits(a)',
         HandlerFits(thr[t])',
         Synced' \/ Saving(thr[t])'
  PROVE  SerialInv'
<1>1. Alone'
  BY DEF OnlyAtWork, Alone, Idle
<1>2. ASSUME NEW u \in Thread PROVE HandlerFits(thr[u])'
  <2>1. CASE u = t
    BY <2>1
  <2>2. CASE u # t
    <3>1. thr'[u] = thr[u] /\ thr[u].pc = "idle" /\ ~thr[u].stale
      BY <2>2 DEF OnlyAtWork, SerialInv, HandlerFits, Idle
    <3> QED BY <3>1 DEF HandlerFits
  <2> QED BY <2>1, <2>2
<1> QED BY <1>1, <1>2 DEF SerialInv

\* What t handles, and what holds of it.
LEMMA Handled ==
  ASSUME TypeOK, NEW t \in Thread, OnlyAtWork(t)
  PROVE  /\ thr \in [Thread -> Handler] /\ thr[t] \in Handler /\ thr[t].a \in Approval
         /\ HandlerFits(thr[t])
         /\ \A a \in Approval : ApprovalFits(a)
         /\ ~Saving(thr[t]) => Synced
BY DEF TypeOK, Handler, OnlyAtWork, SerialInv, Idle, Saving

LEMMA IdleFits == ~IdleHandler.stale /\ IdleHandler.pc = "idle"
BY DEF IdleHandler

LEMMA EmptyHolds == \A a \in Approval : Empty[a] = "none"
BY DEF Empty

\* The handler returns without a save.
LEMMA DoneSerial ==
  ASSUME TypeOK, NEW t \in Thread, OnlyAtWork(t), Done(t), ~Saving(thr[t]),
         UNCHANGED disk,
         \A a \in Approval : ApprovalFits(a)',
         \A a \in Approval : status'[a] = "approved" => status[a] = "approved"
  PROVE  SerialInv'
<1>1. thr'[t] = IdleHandler
  BY HandlerEffects, Handled
<1>2. Synced'
  BY Handled DEF Synced
<1>3. HandlerFits(thr[t])'
  BY <1>1, IdleFits DEF HandlerFits
<1> QED BY <1>2, <1>3, SerialByThread

\* The handler saves next.
LEMMA SavedSerial ==
  ASSUME TypeOK, NEW t \in Thread, OnlyAtWork(t), NEW a \in Approval, NEW then,
         SaveThen(t, a, then), \A b \in Approval : ApprovalFits(b)',
         Loaded',
         then = "view" => status'[a] = "denied" /\ <<a, "permit">> \notin nonces'
  PROVE  SerialInv'
<1>1. thr'[t].pc = "save" /\ thr'[t].a = a /\ thr'[t].then = then /\ thr'[t].stale = FALSE
  BY Handled DEF SaveThen, Handler
<1>2. HandlerFits(thr[t])'
  BY <1>1 DEF HandlerFits, Permitted
<1>3. Saving(thr[t])'
  BY <1>1 DEF Saving
<1> QED BY <1>2, <1>3, SerialByThread

\* A step that leaves every approval as it is, in memory and on disk.
LEMMA QuietSerial ==
  ASSUME TypeOK, NEW t \in Thread, OnlyAtWork(t),
         UNCHANGED <<status, disk, expires, answers>>,
         \A a : Permitted(a)' <=> Permitted(a),
         HandlerFits(thr[t])',
         Saving(thr[t]) => Saving(thr[t])'
  PROVE  SerialInv'
<1>1. (\A a \in Approval : ApprovalFits(a))'
  BY Handled DEF ApprovalFits, Rejected
<1>2. Synced' \/ Saving(thr[t])'
  BY Handled DEF Synced
<1> QED BY <1>1, <1>2, SerialByThread

\* The status of one approval changes, and nothing that it is compared with.
LEMMA ChangedFits ==
  ASSUME TypeOK, NEW t \in Thread, OnlyAtWork(t), NEW a \in Approval, NEW s, SetStatus(a, s),
         UNCHANGED <<disk, nonces, expires, answers>>,
         Loaded, s # "none", expires[a] # 0,
         Rejected(a) => s = "denied",
         Permitted(a) => s \in {"approved", "expired"}
  PROVE  (\A b \in Approval : ApprovalFits(b)') /\ Loaded' /\ status'[a] = s
<1>1. status'[a] = s /\ \A b \in Approval : b # a => status'[b] = status[b]
  BY DEF TypeOK, Statuses, SetStatus
<1>2. status' # Empty
  BY <1>1, EmptyHolds
<1>3. \A b \in Approval : ApprovalFits(b)
  BY Handled
<1>4. ASSUME NEW b \in Approval PROVE ApprovalFits(b)'
  <2>1. ApprovalFits(b)
    BY <1>3
  <2>2. disk[b] # "none" => status # Empty
    BY EmptyHolds DEF Loaded
  <2>3. CASE b = a
    BY <1>1, <1>2, <2>1, <2>3 DEF ApprovalFits, Permitted, Rejected
  <2>4. CASE b # a
    BY <1>1, <1>2, <2>1, <2>2, <2>4 DEF ApprovalFits, Permitted, Rejected
  <2> QED BY <2>3, <2>4
<1> QED BY <1>1, <1>2, <1>4 DEF Loaded

LEMMA HeldIsSet ==
  ASSUME TypeOK, NEW t \in Thread, OnlyAtWork(t), NEW s, SetHeld(t, s)
  PROVE  SetStatus(thr[t].a, s)
BY Handled DEF SetHeld, HandlerFits

\* The handler starts, on memory that is loaded or is to be.
LEMMA BeginSerial ==
  ASSUME TypeOK, NEW t \in Thread, OnlyAtWork(t), Enter(t) \/ ReadFile(t) \/ Return(t)
  PROVE  SerialInv'
<1>0. thr \in [Thread -> Handler] /\ HandlerFits(thr[t])
  BY Handled
<1>1. CASE Enter(t)
  <2>1. Goto(t, "ready") /\ Loaded /\ UNCHANGED <<status, disk, expires, nonces, answers>>
        /\ thr[t].pc = "idle"
    BY <1>1 DEF Enter, Idle
  <2>2. thr'[t].pc = "ready" /\ thr'[t].stale = thr[t].stale
    BY <1>0, <2>1, HandlerEffects
  <2>3. HandlerFits(thr[t])' /\ ~Saving(thr[t])
    BY <1>0, <2>1, <2>2 DEF HandlerFits, Loaded, Saving
  <2> QED BY <2>1, <2>3, QuietSerial DEF Permitted
<1>2. CASE ReadFile(t)
  <2>1. /\ thr[t].pc \in {"idle", "view", "trigger"} /\ status = Empty
        /\ UNCHANGED <<status, disk, expires, nonces, answers>>
    BY <1>2 DEF ReadFile
  <2>2. thr[t].pc # "view"
    BY <1>0, <2>1, Handled, EmptyHolds DEF HandlerFits
  <2>3. /\ thr'[t].pc = "load" /\ thr'[t].snap = disk /\ thr'[t].stale = thr[t].stale
        /\ thr'[t].then = IF Idle(t) THEN "ready" ELSE thr[t].pc
    BY <1>0, <1>2, ReadEffects
  <2>4. HandlerFits(thr[t])' /\ ~Saving(thr[t])
    BY <1>0, <2>1, <2>2, <2>3 DEF HandlerFits, Saving
  <2> QED BY <2>1, <2>4, QuietSerial DEF Permitted
<1>3. CASE Return(t)
  <2>1. Done(t) /\ UNCHANGED <<status, disk, expires, nonces, answers>> /\ ~Saving(thr[t])
    BY <1>3 DEF Return, At, Saving
  <2>2. \A a \in Approval : ApprovalFits(a)'
    BY <2>1, Handled DEF ApprovalFits, Permitted, Rejected
  <2> QED BY <2>1, <2>2, DoneSerial
<1> QED BY <1>1, <1>2, <1>3

\* Memory becomes what the file holds.
LEMMA LoadSerial ==
  ASSUME TypeOK, NEW t \in Thread, OnlyAtWork(t), Clear(t) \/ Fill(t)
  PROVE  SerialInv'
<1>0. thr \in [Thread -> Handler] /\ HandlerFits(thr[t]) /\ \A a \in Approval : ApprovalFits(a)
  BY Handled
<1>1. CASE Clear(t)
  <2>1. /\ thr[t].pc = "load" /\ thr'[t].pc = "fill" /\ thr'[t].stale = thr[t].stale
        /\ thr'[t].snap = thr[t].snap /\ thr'[t].then = thr[t].then
    BY <1>0, <1>1, LoadEffects
  <2>2. status' = Empty /\ UNCHANGED <<disk, expires, nonces, answers>>
    BY <1>1 DEF Clear
  <2>3. status = Empty /\ thr[t].snap = disk /\ ~thr[t].stale /\ thr[t].then # "view"
    BY <1>0, <2>1 DEF HandlerFits
  <2>4. HandlerFits(thr[t])' /\ ~Saving(thr[t])
    BY <2>1, <2>2, <2>3 DEF HandlerFits, Saving
  <2> QED BY <2>2, <2>3, <2>4, QuietSerial DEF Permitted
<1>2. CASE Fill(t)
  <2>1. /\ thr[t].pc = "fill" /\ thr'[t].pc = thr[t].then /\ thr'[t].stale = thr[t].stale
        /\ thr[t].then \in {"ready", "view", "trigger"}
    BY <1>0, <1>2, LoadEffects
  <2>2. status = Empty /\ thr[t].snap = disk /\ ~thr[t].stale /\ thr[t].then # "view"
    BY <1>0, <2>1 DEF HandlerFits
  <2>3. status' = disk /\ UNCHANGED <<disk, expires, nonces, answers>>
    BY <1>2, <2>2, EmptyHolds DEF Fill, TypeOK, Statuses
  <2>4. Synced'
    BY <2>3 DEF Synced
  <2>5. Loaded'
    BY <2>3 DEF Loaded
  <2>6. HandlerFits(thr[t])'
    BY <2>1, <2>2, <2>5 DEF HandlerFits
  <2>7. \A a \in Approval : ApprovalFits(a)'
    BY <1>0, <2>3 DEF ApprovalFits, Permitted, Rejected
  <2> QED BY <2>4, <2>6, <2>7, SerialByThread
<1> QED BY <1>1, <1>2

LEMMA RequestSerial ==
  ASSUME TypeOK, NEW t \in Thread, OnlyAtWork(t), NEW a \in Approval, Request(t, a)
  PROVE  SerialInv'
<1>0. thr[t].pc = "ready" /\ HandlerFits(thr[t]) /\ \A b \in Approval : ApprovalFits(b)
  BY Handled DEF Request, At
<1>1. status[a] = "none" /\ disk[a] = "none" /\ ~Rejected(a) /\ ~Permitted(a) /\ Loaded
  BY <1>0 DEF Request, ApprovalFits, HandlerFits
<1>2. /\ status'[a] = "pending" /\ \A b \in Approval : b # a => status'[b] = status[b]
      /\ expires'[a] = clock + Ttl /\ \A b \in Approval : b # a => expires'[b] = expires[b]
      /\ UNCHANGED <<disk, nonces, answers>>
  BY DEF TypeOK, Statuses, Request, SetStatus
<1>3. expires'[a] # 0
  BY <1>2, TtlAssumption, BoundsAssumption DEF TypeOK
<1>4. status' # Empty
  BY <1>2, EmptyHolds
<1>5. ASSUME NEW b \in Approval PROVE ApprovalFits(b)'
  <2>1. ApprovalFits(b)
    BY <1>0
  <2>2. disk[b] # "none" => status # Empty
    BY <1>1, EmptyHolds DEF Loaded
  <2>3. CASE b = a
    BY <1>1, <1>2, <1>3, <1>4, <2>1, <2>3 DEF ApprovalFits, Permitted, Rejected
  <2>4. CASE b # a
    BY <1>2, <1>4, <2>1, <2>2, <2>4 DEF ApprovalFits, Permitted, Rejected
  <2> QED BY <2>3, <2>4
<1>6. SaveThen(t, a, "request") /\ Loaded'
  BY <1>4 DEF Request, Loaded
<1> QED BY <1>5, <1>6, SavedSerial

LEMMA DecideSerial ==
  ASSUME TypeOK, NEW t \in Thread, OnlyAtWork(t),
         VerifyExpired(t) \/ WriteApproved(t) \/ WriteDenied(t)
  PROVE  SerialInv'
<1> DEFINE a == thr[t].a
<1>1. a \in Approval /\ HandlerFits(thr[t]) /\ ApprovalFits(a)
  BY Handled
<1>2. thr[t].pc \in {"verify", "approve", "deny"}
  BY DEF VerifyExpired, WriteApproved, WriteDenied, At
<1>3. Loaded /\ expires[a] # 0
  BY <1>1, <1>2 DEF HandlerFits
<1>4. CASE VerifyExpired(t)
  <2>1. ~Rejected(a)
    BY <1>1, <1>4 DEF VerifyExpired, At, HandlerFits
  <2>2. SetStatus(a, "expired") /\ SaveThen(t, a, "idle") /\ UNCHANGED <<disk, expires, nonces, answers>>
    BY <1>4, HeldIsSet DEF VerifyExpired
  <2>3. (\A b \in Approval : ApprovalFits(b)') /\ Loaded'
    BY <1>1, <1>3, <2>1, <2>2, ChangedFits
  <2> QED BY <1>1, <2>2, <2>3, SavedSerial
<1>5. CASE WriteApproved(t)
  <2>1. ~Rejected(a)
    BY <1>1, <1>5 DEF WriteApproved, At, HandlerFits
  <2>2. SetStatus(a, "approved") /\ SaveThen(t, a, "trigger") /\ UNCHANGED <<disk, expires, nonces, answers>>
    BY <1>5, HeldIsSet DEF WriteApproved
  <2>3. (\A b \in Approval : ApprovalFits(b)') /\ Loaded'
    BY <1>1, <1>3, <2>1, <2>2, ChangedFits
  <2> QED BY <1>1, <2>2, <2>3, SavedSerial
<1>6. CASE WriteDenied(t)
  <2>1. ~Permitted(a)
    BY <1>1, <1>6 DEF WriteDenied, At, HandlerFits
  <2>2. SetStatus(a, "denied") /\ SaveThen(t, a, "view") /\ UNCHANGED <<disk, expires, nonces, answers>>
    BY <1>6, HeldIsSet DEF WriteDenied
  <2>3. (\A b \in Approval : ApprovalFits(b)') /\ Loaded' /\ status'[a] = "denied"
    BY <1>1, <1>3, <2>1, <2>2, ChangedFits
  <2>4. <<a, "permit">> \notin nonces'
    BY <2>1, <2>2 DEF Permitted
  <2> QED BY <1>1, <2>2, <2>3, <2>4, SavedSerial
<1> QED BY <1>4, <1>5, <1>6

LEMMA SweepSerial ==
  ASSUME TypeOK, NEW t \in Thread, OnlyAtWork(t), SweepApprovals(t)
  PROVE  SerialInv'
<1>0. thr[t].pc = "ready" /\ HandlerFits(thr[t]) /\ thr[t].a \in Approval
      /\ \A b \in Approval : ApprovalFits(b)
  BY Handled DEF SweepApprovals, At
<1>1. \A b \in Approval : status'[b] = status[b] \/ (status[b] = "pending" /\ status'[b] = "expired")
  BY DEF SweepApprovals, Overdue
<1>2. status = Empty => status' = Empty
  BY <1>1, EmptyHolds DEF SweepApprovals, TypeOK, Statuses, Empty
<1>3. status' = Empty => status = Empty
  BY <1>1, EmptyHolds DEF TypeOK, Statuses, Empty
<1>4. Loaded' /\ UNCHANGED <<disk, expires, nonces, answers>>
  BY <1>0, <1>3 DEF SweepApprovals, HandlerFits, Loaded
<1>5. ASSUME NEW b \in Approval PROVE ApprovalFits(b)'
  <2>1. ApprovalFits(b)
    BY <1>0
  <2> QED BY <1>1, <1>2, <1>4, <2>1 DEF ApprovalFits, Permitted, Rejected
<1> QED BY <1>0, <1>4, <1>5, SavedSerial DEF SweepApprovals

\* The handler goes on without a write: a check passed, or a snapshot was taken.
LEMMA GoOnSerial ==
  ASSUME TypeOK, NEW t \in Thread, OnlyAtWork(t), NEW a \in Approval, NEW own \in BOOLEAN,
         \/ Approve(t, a, own) \/ Reject(t, a) \/ MintForAdvance(t, a)
         \/ Verify(t) \/ Snapshot(t)
         \/ Trigger(t) /\ status[thr[t].a] = "approved"
  PROVE  SerialInv'
<1>1. /\ thr[t] \in Handler /\ thr[t].a \in Approval /\ HandlerFits(thr[t])
      /\ thr \in [Thread -> Handler] /\ ApprovalFits(a) /\ ApprovalFits(thr[t].a)
  BY Handled
<1>2. CASE Approve(t, a, own) \/ Reject(t, a) \/ MintForAdvance(t, a)
  <2>1. /\ thr[t].pc = "ready" /\ UNCHANGED <<status, disk, expires, nonces, answers>>
        /\ thr'[t].a = a /\ thr'[t].stale = thr[t].stale
    BY <1>1, <1>2 DEF Approve, Reject, MintForAdvance, At, Handler
  <2>2. \/ thr'[t].pc \in {"verify", "deny"} /\ status[a] = "pending"
        \/ thr'[t].pc = "mint" /\ status[a] = "approved"
    BY <1>1, <1>2 DEF Approve, Reject, MintForAdvance, Handler
  <2>3. Loaded' /\ ~thr'[t].stale /\ ~Saving(thr[t])
    BY <1>1, <2>1 DEF HandlerFits, Loaded, Saving
  <2>4. expires'[a] # 0 /\ ~Rejected(a)' /\ (status[a] = "pending" => ~Permitted(a)')
    <3>1. status # Empty
      BY <2>2, EmptyHolds
    <3> QED BY <1>1, <2>1, <2>2, <3>1 DEF ApprovalFits, Rejected, Permitted
  <2>5. HandlerFits(thr[t])'
    BY <2>1, <2>2, <2>3, <2>4 DEF HandlerFits
  <2> QED BY <2>1, <2>3, <2>5, QuietSerial DEF Permitted
<1>3. CASE Verify(t)
  <2>1. /\ thr'[t].pc = "approve" /\ thr'[t].a = thr[t].a /\ thr[t].pc = "verify"
        /\ thr'[t].stale = thr[t].stale
    BY <1>1, <1>3, HandlerEffects DEF Verify, At
  <2>2. UNCHANGED <<status, disk, expires, answers>> /\ nonces' = nonces \cup {<<thr[t].a, "token">>}
    BY <1>3 DEF Verify, Consume
  <2>3. HandlerFits(thr[t])' /\ ~Saving(thr[t])
    BY <1>1, <2>1, <2>2 DEF HandlerFits, Loaded, Rejected, Saving
  <2>4. \A b : Permitted(b)' <=> Permitted(b)
    BY <2>2 DEF Permitted
  <2> QED BY <2>2, <2>3, <2>4, QuietSerial
<1>4. CASE Snapshot(t)
  <2>1. /\ thr'[t].pc = "replace" /\ thr'[t].a = thr[t].a /\ thr'[t].snap = status
        /\ thr'[t].then = thr[t].then /\ thr[t].pc = "save" /\ thr'[t].stale = thr[t].stale
    BY <1>1, <1>4 DEF Snapshot, At, Handler
  <2>2. UNCHANGED <<status, disk, expires, nonces, answers>>
    BY <1>4 DEF Snapshot
  <2>3. HandlerFits(thr[t])' /\ Saving(thr[t])'
    BY <1>1, <2>1, <2>2 DEF HandlerFits, Loaded, Permitted, Saving
  <2> QED BY <2>2, <2>3, QuietSerial DEF Permitted
<1>5. CASE Trigger(t) /\ status[thr[t].a] = "approved"
  <2>1. Goto(t, "mint") /\ thr[t].pc = "trigger" /\ UNCHANGED <<status, disk, expires, nonces, answers>>
        /\ status[thr[t].a] = "approved"
    BY <1>5 DEF Trigger, At
  <2>2. thr'[t].pc = "mint" /\ thr'[t].a = thr[t].a /\ thr'[t].stale = thr[t].stale
    BY <1>1, <2>1 DEF Goto, Handler
  <2>3. expires[thr[t].a] # 0
    BY <1>1, <2>1 DEF ApprovalFits
  <2>4. HandlerFits(thr[t])' /\ ~Saving(thr[t])
    BY <1>1, <2>1, <2>2, <2>3 DEF HandlerFits, Loaded, Saving
  <2> QED BY <2>1, <2>4, QuietSerial DEF Permitted
<1> QED BY <1>2, <1>3, <1>4, <1>5

LEMMA ReplaceSerial ==
  ASSUME TypeOK, NEW t \in Thread, OnlyAtWork(t), Replace(t)
  PROVE  SerialInv'
<1> DEFINE a == thr[t].a
<1>1. /\ thr \in [Thread -> Handler] /\ thr[t] \in Handler /\ a \in Approval
      /\ HandlerFits(thr[t]) /\ thr[t].pc = "replace"
      /\ \A b \in Approval : ApprovalFits(b)
  BY Handled DEF Replace, At
<1>2. disk' = status /\ UNCHANGED <<status, nonces, expires>> /\ AfterSave(t)
  BY <1>1 DEF Replace, HandlerFits
<1>3. Loaded /\ ~thr[t].stale /\ (thr[t].then = "view" => status[a] = "denied" /\ ~Permitted(a))
  BY <1>1 DEF HandlerFits
<1>4. \A b : Rejected(b)' <=> Rejected(b)
  BY <1>2 DEF AfterSave, Rejected
<1>5. ASSUME NEW b \in Approval PROVE ApprovalFits(b)'
  <2>1. ApprovalFits(b)
    BY <1>1
  <2>2. status = Empty => disk[b] = "none"
    BY <1>3, EmptyHolds DEF Loaded
  <2>3. (status[b] # "none" => expires[b] # 0)
        /\ (Rejected(b) => status[b] = "denied" /\ ~Permitted(b))
        /\ (Permitted(b) => status[b] \in {"approved", "expired"})
    BY <2>1, <2>2 DEF ApprovalFits
  <2> QED BY <1>2, <1>4, <2>3 DEF ApprovalFits, Permitted
<1>6. Synced' /\ Loaded'
  BY <1>2 DEF Synced, Loaded
<1>7. HandlerFits(thr[t])'
  <2>1. CASE thr[t].then \in {"view", "trigger"}
    <3>1. thr'[t].pc = thr[t].then /\ thr'[t].a = a /\ thr'[t].stale = thr[t].stale
      BY <1>1, <1>2, <2>1, HandlerEffects
    <3> HIDE DEF a
    <3> QED BY <1>2, <1>3, <1>6, <2>1, <3>1 DEF HandlerFits, Permitted
  <2>2. CASE thr[t].then \notin {"view", "trigger"}
    <3>1. Done(t)
      BY <1>2, <2>2 DEF AfterSave
    <3>2. thr'[t] = IdleHandler
      BY <1>1, <3>1, HandlerEffects
    <3> QED BY <3>2, IdleFits DEF HandlerFits
  <2> QED BY <2>1, <2>2
<1> QED BY <1>5, <1>6, <1>7, SerialByThread

LEMMA ReturnSerial ==
  ASSUME TypeOK, NEW t \in Thread, OnlyAtWork(t),
         \/ VerifyReplayed(t) \/ TriggerNoWorker(t) \/ MintRefused(t) \/ BurnReplayed(t)
         \/ Issue(t)
         \/ Trigger(t) /\ status[thr[t].a] # "approved"
  PROVE  SerialInv'
<1>1. /\ Done(t) /\ UNCHANGED <<status, disk, nonces, expires, answers>>
      /\ ~Saving(thr[t])
  BY DEF VerifyReplayed, TriggerNoWorker, MintRefused, BurnReplayed, Issue, Trigger, At, Saving
<1>2. \A a \in Approval : ApprovalFits(a)'
  BY <1>1, Handled DEF ApprovalFits, Permitted, Rejected
<1> QED BY <1>1, <1>2, DoneSerial

LEMMA ViewSerial ==
  ASSUME TypeOK, NEW t \in Thread, OnlyAtWork(t), View(t)
  PROVE  SerialInv'
<1> PICK a : a = thr[t].a
  OBVIOUS
<1>1. /\ HandlerFits(thr[t]) /\ thr[t].pc = "view" /\ ~Saving(thr[t])
      /\ \A b \in Approval : ApprovalFits(b)
  BY Handled DEF View, At, Saving
<1>2. status[a] = "denied" /\ disk[a] = "denied" /\ ~Permitted(a)
  BY <1>1 DEF HandlerFits
<1>3. Done(t) /\ UNCHANGED <<status, disk, nonces, expires>>
      /\ \A b : Rejected(b)' => Rejected(b) \/ b = a
  BY DEF View, Rejected
<1>4. ASSUME NEW b \in Approval PROVE ApprovalFits(b)'
  <2>1. ApprovalFits(b)
    BY <1>1
  <2> QED BY <1>2, <1>3, <2>1 DEF ApprovalFits, Permitted
<1> QED BY <1>1, <1>3, <1>4, DoneSerial

LEMMA MintSerial ==
  ASSUME TypeOK, NEW t \in Thread, OnlyAtWork(t),
         MintExpired(t) \/ MintVerified(t) \/ Burn(t)
  PROVE  SerialInv'
<1> PICK a : a = thr[t].a
  OBVIOUS
<1>1. /\ thr \in [Thread -> Handler] /\ a \in Approval /\ HandlerFits(thr[t]) /\ ~Saving(thr[t])
      /\ thr[t] \in Handler /\ thr[t].pc \in {"mint", "burn"} /\ Synced
      /\ \A b \in Approval : ApprovalFits(b)
  BY Handled DEF MintExpired, MintVerified, Burn, At, Saving
<1>2. status[a] = "approved" /\ disk[a] = "approved" /\ Loaded /\ ~thr[t].stale
  BY <1>1 DEF HandlerFits, Synced
<1>3. ~Rejected(a)
  BY <1>1, <1>2 DEF ApprovalFits
<1>4. CASE MintExpired(t)
  <2>1. SetStatus(a, "expired") /\ UNCHANGED <<disk, nonces, expires, answers>> /\ Done(t)
        /\ thr[t].pc = "mint"
    BY <1>4, HeldIsSet DEF MintExpired, At
  <2>2. expires[a] # 0
    BY <1>1, <2>1 DEF HandlerFits
  <2>3. \A b \in Approval : ApprovalFits(b)'
    BY <1>1, <1>2, <1>3, <2>1, <2>2, ChangedFits
  <2>4. \A b \in Approval : status'[b] = "approved" => status[b] = "approved"
    BY <2>1 DEF SetStatus, TypeOK, Statuses
  <2> QED BY <1>1, <2>1, <2>3, <2>4, DoneSerial
<1>5. CASE MintVerified(t)
  <2>1. thr'[t].pc = "burn" /\ thr'[t].a = a /\ ~thr'[t].stale
        /\ UNCHANGED <<status, disk, expires, nonces, answers>>
    BY <1>1, <1>5 DEF MintVerified, Handler
  <2>2. HandlerFits(thr[t])'
    BY <1>2, <2>1 DEF HandlerFits, Loaded
  <2> QED BY <1>1, <2>1, <2>2, QuietSerial DEF Permitted
<1>6. CASE Burn(t)
  <2>1. Goto(t, "issue") /\ UNCHANGED <<status, disk, expires, answers>>
        /\ nonces' = nonces \cup {<<a, "permit">>}
    BY <1>6 DEF Burn, Consume
  <2>2. thr'[t].pc = "issue" /\ thr'[t].a = a /\ thr'[t].stale = thr[t].stale
    BY <1>1, <2>1 DEF Goto, Handler
  <2>3. HandlerFits(thr[t])'
    BY <1>2, <2>1, <2>2 DEF HandlerFits, Loaded
  <2>4. Synced'
    BY <1>1, <2>1 DEF Synced
  <2>5. ASSUME NEW b \in Approval PROVE ApprovalFits(b)'
    <3>1. ApprovalFits(b)
      BY <1>1
    <3>2. Permitted(b)' <=> Permitted(b) \/ b = a
      BY <2>1 DEF Permitted
    <3> QED BY <1>2, <1>3, <2>1, <3>1, <3>2 DEF ApprovalFits, Rejected
  <2> QED BY <2>3, <2>4, <2>5, SerialByThread
<1> QED BY <1>4, <1>5, <1>6

LEMMA RestartSerial == ASSUME SerialInv, Restart PROVE SerialInv'
<1>1. status' = Empty /\ UNCHANGED <<disk, expires, nonces, answers>>
      /\ \A t \in Thread : thr'[t] = IdleHandler
  BY DEF Restart
<1>2. \A a \in Approval : ApprovalFits(a)'
  BY <1>1, EmptyHolds DEF SerialInv, ApprovalFits, Permitted, Rejected
<1>3. \A t \in Thread : HandlerFits(thr[t])' /\ Idle(t)'
  BY <1>1, IdleFits DEF HandlerFits, Idle
<1>4. Synced'
  BY <1>1, EmptyHolds DEF Synced
<1> QED BY <1>2, <1>3, <1>4 DEF SerialInv, Alone

LEMMA InitSerial == Init => CalmInv
<1> SUFFICES ASSUME Init PROVE SerialInv
  BY DEF CalmInv
<1>1. \A a \in Approval : ApprovalFits(a)
  BY EmptyHolds DEF Init, ApprovalFits, Permitted, Rejected
<1>2. \A t \in Thread : HandlerFits(thr[t]) /\ Idle(t)
  BY IdleFits DEF Init, HandlerFits, Idle
<1>3. Synced
  BY EmptyHolds DEF Init, Synced
<1> QED BY <1>1, <1>2, <1>3 DEF SerialInv, Alone

\* A handler that takes a step while nothing has disturbed the store is the only
\* one at work.
LEMMA AtWork ==
  ASSUME TypeOK, SerialInv, NEW t \in Thread, ~disturbed',
         \/ \E a \in Approval, own \in BOOLEAN :
              Request(t, a) \/ Reject(t, a) \/ MintForAdvance(t, a) \/ Approve(t, a, own)
         \/ Enter(t) \/ ReadFile(t) \/ Proceed(t) \/ Return(t)
         \/ TriggerNoWorker(t) \/ SweepApprovals(t)
  PROVE  OnlyAtWork(t)
<1>0. thr \in [Thread -> Handler]
  BY DEF TypeOK
<1>1. \A u \in Thread \ {t} : Idle(u)
  <2>1. CASE Enter(t) \/ (ReadFile(t) /\ Idle(t))
    BY <2>1 DEF Enter, ReadFile, Begins
  <2>2. CASE ~Idle(t)
    BY <2>2 DEF SerialInv, Alone
  <2>3. CASE Idle(t) /\ ~Enter(t) /\ ~ReadFile(t)
    BY <2>3 DEF Idle, At, Request, Reject, MintForAdvance, Approve, Proceed, Return,
                TriggerNoWorker, SweepApprovals, Clear, Fill, VerifyExpired, Verify,
                VerifyReplayed, WriteApproved, WriteDenied, View, Snapshot, Replace, Trigger,
                MintExpired, MintRefused, MintVerified, Burn, BurnReplayed, Issue
  <2> QED BY <2>1, <2>2, <2>3
<1>2. ASSUME NEW u \in Thread \ {t} PROVE thr'[u] = thr[u]
  <2>1. CASE Clear(t) \/ Fill(t)
    BY <1>0, <1>1, <2>1, LoadEffects DEF Idle
  <2>2. CASE ReadFile(t)
    BY <1>0, <2>2, ReadEffects
  <2>3. CASE Done(t)
    BY <2>3 DEF Done
  <2>4. CASE \E pc : Goto(t, pc)
    BY <2>4 DEF Goto
  <2>5. CASE \E a, then : SaveThen(t, a, then)
    BY <1>0, <2>5 DEF SaveThen
  <2>6. CASE AfterSave(t)
    BY <1>0, <2>6 DEF AfterSave, Done
  <2>7. CASE MintVerified(t) \/ Snapshot(t)
    BY <1>0, <2>7 DEF MintVerified, Snapshot
  <2>8. CASE \E a \in Approval, own \in BOOLEAN :
               Reject(t, a) \/ MintForAdvance(t, a) \/ Approve(t, a, own)
    BY <1>0, <2>8 DEF Reject, MintForAdvance, Approve
  <2>9. \/ Done(t) \/ (\E pc : Goto(t, pc)) \/ (\E a, then : SaveThen(t, a, then))
        \/ AfterSave(t) \/ ReadFile(t) \/ Clear(t) \/ Fill(t) \/ MintVerified(t) \/ Snapshot(t)
        \/ \E a \in Approval, own \in BOOLEAN :
             Reject(t, a) \/ MintForAdvance(t, a) \/ Approve(t, a, own)
    BY DEF Enter, Request, Proceed, Return, TriggerNoWorker, SweepApprovals,
           VerifyExpired, Verify, VerifyReplayed, WriteApproved, WriteDenied, View, Replace,
           Trigger, MintExpired, MintRefused, Burn, BurnReplayed, Issue
  <2> QED BY <2>1, <2>2, <2>3, <2>4, <2>5, <2>6, <2>7, <2>8, <2>9
<1> QED BY <1>1, <1>2 DEF OnlyAtWork

\* Once disturbed, always disturbed.
LEMMA DisturbedStays == ASSUME [Next]_vars, disturbed PROVE disturbed'
<1>1. CASE Restart \/ Tick \/ UNCHANGED vars
  BY <1>1 DEF Restart, Tick, vars
<1>2. ASSUME NEW t \in Thread, NEW a \in Approval, NEW own \in BOOLEAN,
             Request(t, a) \/ Reject(t, a) \/ MintForAdvance(t, a) \/ Approve(t, a, own)
      PROVE  disturbed'
  BY <1>2 DEF Request, Reject, MintForAdvance, Approve
<1>3. ASSUME NEW t \in Thread, Enter(t) \/ ReadFile(t) PROVE disturbed'
  BY <1>3 DEF Enter, ReadFile, Begins
<1>4. ASSUME NEW t \in Thread,
             Return(t) \/ TriggerNoWorker(t) \/ ReplaceFails(t) \/ SweepApprovals(t)
      PROVE  disturbed'
  BY <1>4 DEF Return, TriggerNoWorker, ReplaceFails, SweepApprovals
<1>5. ASSUME NEW t \in Thread, Proceed(t), ~ReadFile(t) PROVE disturbed'
  BY <1>5 DEF Proceed, Clear, Fill, VerifyExpired, Verify, VerifyReplayed, WriteApproved,
              WriteDenied, View, Snapshot, Replace, Trigger, MintExpired, MintRefused,
              MintVerified, Burn, BurnReplayed, Issue
<1> QED BY <1>1, <1>2, <1>3, <1>4, <1>5 DEF Next

LEMMA StepSerial == IInv /\ CalmInv /\ [Next]_vars => CalmInv'
<1> SUFFICES ASSUME IInv, CalmInv, [Next]_vars, ~disturbed' PROVE SerialInv'
  BY DEF CalmInv
<1>0. TypeOK /\ SerialInv
  BY DisturbedStays DEF IInv, CalmInv
<1>1. CASE Tick \/ UNCHANGED vars
  BY <1>0, <1>1 DEF Tick, vars, SerialInv, ApprovalFits, HandlerFits, Permitted, Rejected,
                    Alone, Idle, Synced, Saving, Loaded
<1>2. CASE Restart
  BY <1>0, <1>2, RestartSerial
<1>3. ASSUME NEW t \in Thread,
             Proceed(t) \/ TriggerNoWorker(t) \/ SweepApprovals(t) \/ Enter(t) \/ ReadFile(t) \/ Return(t)
      PROVE  SerialInv'
  <2>0. OnlyAtWork(t)
    BY <1>0, <1>3, AtWork
  <2>1. CASE Trigger(t)
    BY <1>0, <2>0, <2>1, ApprovalAssumption, GoOnSerial, ReturnSerial
  <2>2. CASE Verify(t) \/ Snapshot(t)
    BY <1>0, <2>0, <2>2, ApprovalAssumption, GoOnSerial
  <2>3. CASE Enter(t) \/ ReadFile(t) \/ Return(t) \/ Clear(t) \/ Fill(t)
    BY <1>0, <2>0, <2>3, BeginSerial, LoadSerial
  <2>4. CASE VerifyExpired(t) \/ WriteApproved(t) \/ WriteDenied(t) \/ SweepApprovals(t)
    BY <1>0, <2>0, <2>4, DecideSerial, SweepSerial
  <2>5. CASE Replace(t) \/ View(t) \/ MintExpired(t) \/ MintVerified(t) \/ Burn(t)
    BY <1>0, <2>0, <2>5, ReplaceSerial, ViewSerial, MintSerial
  <2>6. CASE VerifyReplayed(t) \/ TriggerNoWorker(t) \/ MintRefused(t) \/ BurnReplayed(t) \/ Issue(t)
    BY <1>0, <2>0, <2>6, ReturnSerial
  <2> QED BY <1>3, <2>1, <2>2, <2>3, <2>4, <2>5, <2>6 DEF Proceed
<1>4. ASSUME NEW t \in Thread, NEW a \in Approval, NEW own \in BOOLEAN,
             Request(t, a) \/ Reject(t, a) \/ MintForAdvance(t, a) \/ Approve(t, a, own)
      PROVE  SerialInv'
  <2>0. OnlyAtWork(t)
    BY <1>0, <1>4, AtWork
  <2> QED BY <1>0, <1>4, <2>0, RequestSerial, GoOnSerial
<1>5. ASSUME NEW t \in Thread, ReplaceFails(t) PROVE FALSE
  BY <1>5 DEF ReplaceFails
<1>6. CASE Next
  BY <1>1, <1>2, <1>3, <1>4, <1>5, <1>6 DEF Next
<1> QED BY <1>1, <1>6

\* A denial that was answered is final, through restarts and reloads too, and its
\* request has no permit, in every behaviour and up to the moment at which two
\* handlers run at once or a write of approvals.json fails.
THEOREM DenialSticksHolds == Spec => []DenialSticks
<1>1. IInv /\ CalmInv => DenialSticks
  <2> SUFFICES ASSUME IInv, SerialInv, NEW a \in Approval, Rejected(a)
               PROVE  Record(a) = "denied" /\ Permits(a) = {}
    BY DEF CalmInv, DenialSticks, Rejected
  <2>1. ApprovalFits(a)
    BY DEF SerialInv
  <2> QED BY <2>1 DEF ApprovalFits, Record, IInv, PermitInv
<1>2. IInv /\ CalmInv /\ [Next]_vars => CalmInv'
  BY StepSerial
<1> QED BY <1>1, <1>2, InitSerial, Invariance, PTL DEF Spec

=============================================================================
