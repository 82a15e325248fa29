----------------------------- MODULE Lifecycle -----------------------------
(***************************************************************************)
(* One incident through the whole control plane: the orchestrator's worker *)
(* thread walks it through run_pipeline, a human's approval hands it to    *)
(* the resume thread (resume_from_approval, then finalize_rca), and HTTP   *)
(* handlers advance it, sweep it and publish its postmortem meanwhile.     *)
(*                                                                         *)
(* The IncidentRun is one Python object.  The worker owns it until it puts *)
(* it in runs.REPO_STORE; from then on the resume thread and the handlers' *)
(* thread pool mutate it with no lock around more than one fsm.advance, so *)
(* a thread is split between any two calls that touch the run, the target  *)
(* or the audit chain.  One advance() or sweep() is one step.              *)
(*                                                                         *)
(* Left out: agent handoffs, the records of the chain other than the       *)
(* verdicts and the postmortem, runs created by POST /runs (IncidentFsm    *)
(* covers them), and crashes: runs.json is not the subject here.           *)
(***************************************************************************)
EXTENDS Fsm, FiniteSets

CONSTANTS
  AutoRef,        \* token_ref of the permit that policy ALLOW mints
  Publisher,      \* threads of POST /incidents/{id}/rca/publish
  Freshness,      \* life of a permit
  CallsFail,      \* the calls a thread makes between its steps may raise,
                  \* the executor before or after it changed the target
  PolicyTurns,    \* the approved action may be denied when it is re-checked
  MaxTime         \* bound of the clock

ASSUME AutoAssumption == AutoRef \in Ref
ASSUME PublisherAssumption == Publisher \cap {"worker", "resume"} = {}
ASSUME TimeAssumption == Freshness \in Nat \ {0} /\ MaxTime \in Nat
ASSUME FlagAssumption == CallsFail \in BOOLEAN /\ PolicyTurns \in BOOLEAN

VARIABLES
  run,            \* the IncidentRun
  served,         \* it is in runs.REPO_STORE
  approvals,      \* per approval: its permit is "unminted" or "minted"
  queue,          \* the permit of the queued ResumeJob, or NoPermit
  resuming,       \* the incident is in orchestrator._resuming
  thr,            \* where each thread is
  changes,        \* what the executor did to the target, in order
  verdicts,       \* what the verifier said, in order
  publications,   \* "rca.publish: published" events on the chain
  manual,         \* history: an operator advanced the run over HTTP
  broken,         \* history: a call raised between a change and its verdict
  clock           \* time.time()

vars == <<run, served, approvals, queue, resuming, thr, changes,
          verdicts, publications, manual, broken, clock>>

\* The latest time a permit, or the body of a sweep, can name.
MaxExpiry == MaxTime + Freshness

Approval == Ref \ {AutoRef}

Thread == {"worker", "resume"} \cup Publisher

Change == [kind : {"forward", "rollback"}, ref : Ref, ok : BOOLEAN]

Verdict == {"RESOLVED", "PARTIAL", "ROLLBACK_REQUIRED"}

-----------------------------------------------------------------------------

\* ts is the clock the thread read when it started; permit is its credential.
Idle == [pc |-> "idle", ts |-> 0, permit |-> NoPermit]

Init ==
  /\ run = new_run(0)
  /\ served = FALSE
  /\ approvals = [a \in Approval |-> "unminted"]
  /\ queue = NoPermit /\ resuming = FALSE
  /\ thr = [t \in Thread |-> IF t = "worker" THEN [Idle EXCEPT !.pc = "triage"] ELSE Idle]
  /\ changes = << >> /\ verdicts = << >> /\ publications = 0
  /\ manual = FALSE /\ broken = FALSE /\ clock = 0

At(t, pc) == thr[t].pc = pc

Goto(t, pc) == thr' = [thr EXCEPT ![t].pc = pc] /\ UNCHANGED resuming

\* The thread returns or raises.  The resume thread releases its claim in a
\* finally clause and takes the next job; the others serve one call.
Leave(t) ==
  /\ thr' = [thr EXCEPT ![t] = [Idle EXCEPT !.pc = IF t = "resume" THEN "idle" ELSE "end"]]
  /\ resuming' = (resuming /\ t # "resume")

\* The permit a thread offers with an edge.
Offered(t, to) == IF to = "APPROVED" THEN thr[t].permit ELSE NoPermit

-----------------------------------------------------------------------------
(* Walking the FSM.                                                        *)

\* <<pc, target of the advance, pc after it>>
Route ==
  {<<"triage", "TRIAGING", "correlate">>,
   <<"correlate", "CORRELATED", "investigate">>,
   <<"investigate", "INVESTIGATING", "diagnose">>,
   <<"diagnose", "DIAGNOSING", "diagnosed">>,
   <<"diagnosed", "PLANNED", "plan">>,
   <<"diagnosed", "ESCALATED", "adopt">>,           \* not PINNED
   <<"plan", "POLICY_CHECK", "check">>,
   <<"check", "BLOCKED", "adopt">>,                 \* planner, validator, DENY
   <<"check", "AWAITING_APPROVAL", "adopt">>,       \* ESCALATE
   <<"deny", "BLOCKED", "end">>,                    \* denied at resume
   <<"approve", "APPROVED", "start">>,
   <<"start", "EXECUTING", "apply">>,
   <<"verify", "VERIFYING", "judge">>,
   <<"rollback", "ROLLBACK", "undo">>,
   <<"reverify", "VERIFYING", "rejudge">>,
   <<"resolve", "RESOLVED", "adopt">>,
   <<"escalate", "ESCALATED", "adopt">>,
   <<"review", "RCA_PENDING", "publish">>,
   <<"published", "RCA_PUBLISHED", "audited">>,
   <<"audited", "AUDITED", "end">>}

\* Bug: the thread moves the run without advance()'s checks.
MoveUnchecked(t, to) ==
  run' = Advanced(run, to, Offered(t, to), thr[t].ts)

\* fsm.advance accepts.
Move(t, to) ==
  /\ AdvanceOK(run, to, TRUE, TRUE, Offered(t, to), thr[t].ts)
  /\ run' = Advanced(run, to, Offered(t, to), thr[t].ts)

\* The thread's next advance.
Walk(t) ==
  \E r \in Route :
    /\ At(t, r[1])
    /\ Move(t, r[2])
    /\ IF r[3] = "end" THEN Leave(t) ELSE Goto(t, r[3])
    /\ UNCHANGED <<served, approvals, queue, changes, verdicts,
                   publications, manual, broken, clock>>

\* fsm.advance raises and the thread ends: somebody else moved the run, or the
\* permit expired.
WalkRaises(t) ==
  \E r \in Route :
    /\ At(t, r[1])
    /\ ~AdvanceOK(run, r[2], TRUE, TRUE, Offered(t, r[2]), thr[t].ts)
    /\ Leave(t)
    /\ UNCHANGED <<run, served, approvals, queue, changes, verdicts,
                   publications, manual, broken, clock>>

\* Where a thread that has changed the target has not got its verdict yet.
Unjudged == {"verify", "judge", "reverify", "rejudge"}

\* Where other calls lie between two steps of run_pipeline or of
\* resume_from_approval: agents, the evidence pack, the runbook, the policy
\* files, the state before the change, the service levels, chain.emit, the
\* report.
Breakable ==
  Unjudged \cup {"correlate", "diagnose", "diagnosed", "plan", "check",
                 "recheck", "deny", "apply", "rollback", "undo", "resolve",
                 "escalate", "adopt", "rca"}

\* Such a call raises and the thread ends: nothing is verified, undone, adopted
\* or finalized after it.
CallRaises(t) ==
  /\ CallsFail
  /\ thr[t].pc \in Breakable
  /\ Leave(t)
  /\ broken' = (broken \/ thr[t].pc \in Unjudged)
  /\ UNCHANGED <<run, served, approvals, queue, changes, verdicts,
                 publications, manual, clock>>

-----------------------------------------------------------------------------
(* The worker.                                                             *)

\* Policy ALLOW mints a permit.
Allow ==
  /\ At("worker", "check")
  /\ thr' = [thr EXCEPT !["worker"] = [@ EXCEPT
       !.pc = "approve", !.permit = [ref |-> AutoRef, expires |-> thr["worker"].ts + Freshness]]]
  /\ UNCHANGED <<run, served, approvals, queue, resuming, changes,
                 verdicts, publications, manual, broken, clock>>

\* REPO_STORE[incident_id] = run
Adopt ==
  /\ At("worker", "adopt")
  /\ served' = TRUE
  /\ Leave("worker")
  /\ UNCHANGED <<run, approvals, queue, changes, verdicts,
                 publications, manual, broken, clock>>

-----------------------------------------------------------------------------
(* Executing and verifying: the same code in run_pipeline and in           *)
(* resume_from_approval.                                                   *)

Kind(t) == IF At(t, "apply") THEN "forward" ELSE "rollback"

Done(t, ok) == [kind |-> Kind(t), ref |-> thr[t].permit.ref, ok |-> ok]

\* Bug: the thread returns with the execution's result.
ExecuteOnceAndReturn(t) ==
  /\ At(t, "apply") \/ At(t, "undo")
  /\ Leave(t)
  /\ changes' = Append(changes, Done(t, TRUE))
  /\ UNCHANGED <<run, served, approvals, queue, verdicts,
                 publications, manual, broken, clock>>

\* execute_once: a key in idem_store is not executed again.
ExecuteOnce(t) ==
  /\ \/ At(t, "apply") /\ Goto(t, "verify")
     \/ At(t, "undo") /\ Goto(t, "reverify")
  /\ changes' = IF \E i \in DOMAIN changes : changes[i] = Done(t, TRUE)
                THEN changes ELSE Append(changes, Done(t, TRUE))
  /\ UNCHANGED <<run, served, approvals, queue, verdicts,
                 publications, manual, broken, clock>>

\* The executor raises; nothing is verified and nothing is undone.
ExecutorRaises(t) ==
  /\ CallsFail
  /\ At(t, "apply") \/ At(t, "undo")
  /\ changes' \in {changes, Append(changes, Done(t, FALSE))}
  /\ Leave(t)
  /\ UNCHANGED <<run, served, approvals, queue, verdicts,
                 publications, manual, broken, clock>>

\* Bugs: a partial recovery counts as one; it is rolled back like a failure.
AfterVerdictLenient(t, v) ==
  IF v # "ROLLBACK_REQUIRED" THEN {"resolve"}
  ELSE IF At(t, "judge") THEN {"rollback", "escalate"} ELSE {"escalate"}

AfterVerdictEager(t, v) ==
  IF v = "RESOLVED" THEN {"resolve"}
  ELSE IF At(t, "judge") THEN {"rollback", "escalate"} ELSE {"escalate"}

\* Where a verdict leads.  A rollback is attempted once, and may be refused:
\* no inverse, validator, policy.
AfterVerdict(t, v) ==
  IF v = "RESOLVED" THEN {"resolve"}
  ELSE IF v = "ROLLBACK_REQUIRED" /\ At(t, "judge") THEN {"rollback", "escalate"}
  ELSE {"escalate"}

Judge(t) ==
  /\ At(t, "judge") \/ At(t, "rejudge")
  /\ \E v \in Verdict :
       /\ verdicts' = Append(verdicts, v)
       /\ \E pc \in AfterVerdict(t, v) : Goto(t, pc)
  /\ UNCHANGED <<run, served, approvals, queue, changes,
                 publications, manual, broken, clock>>

-----------------------------------------------------------------------------
(* Approving and resuming.                                                 *)

\* verified_permit: a permit of approval a that lives until expires.
MintPermit(a, expires) ==
  /\ approvals[a] = "unminted"
  /\ expires \in (clock + 1)..(clock + Freshness)
  /\ approvals' = [approvals EXCEPT ![a] = "minted"]

\* A human approves, maybe before the run is served: the gate lists a parked
\* action while the worker still holds the run, and a request needs no run.
\* orchestrator.resume queues the job, or loses the permit when the incident is
\* being resumed already.
Grant(a, expires) ==
  /\ MintPermit(a, expires)
  /\ queue' = IF resuming THEN queue ELSE [ref |-> a, expires |-> expires]
  /\ resuming' = TRUE
  /\ UNCHANGED <<run, served, thr, changes, verdicts, publications,
                 manual, broken, clock>>

\* _resume_sync finds no run: it returns before the try whose finally clause
\* releases the claim.
TakeJobNoRun ==
  /\ At("resume", "idle") /\ queue # NoPermit /\ ~served
  /\ queue' = NoPermit
  /\ UNCHANGED <<run, served, approvals, resuming, thr, changes,
                 verdicts, publications, manual, broken, clock>>

TakeJob ==
  /\ At("resume", "idle") /\ queue # NoPermit /\ served
  /\ queue' = NoPermit
  /\ thr' = [thr EXCEPT !["resume"] = [pc |-> "recheck", ts |-> clock, permit |-> queue]]
  /\ UNCHANGED <<run, served, approvals, resuming, changes, verdicts,
                 publications, manual, broken, clock>>

\* Bug: a resume that finds the run approved goes straight on.
RecheckSkipsApproval ==
  /\ At("resume", "recheck")
  /\ Goto("resume", IF run.state = "APPROVED" THEN "start" ELSE "approve")
  /\ UNCHANGED <<run, served, approvals, queue, changes, verdicts,
                 publications, manual, broken, clock>>

\* resume_from_approval validates the action and evaluates policy again.
Recheck ==
  /\ At("resume", "recheck")
  /\ \/ Goto("resume", "approve")
     \/ PolicyTurns /\ Goto("resume", "deny")
  /\ UNCHANGED <<run, served, approvals, queue, changes, verdicts,
                 publications, manual, broken, clock>>

\* resume_from_approval returned; finalize_rca follows.
Resumed ==
  /\ At("resume", "adopt")
  /\ Goto("resume", "rca")
  /\ UNCHANGED <<run, served, approvals, queue, changes, verdicts,
                 publications, manual, broken, clock>>

-----------------------------------------------------------------------------
(* finalize_rca.                                                           *)

\* http_rca_publish
StartPublish(t) ==
  /\ t \in Publisher /\ served /\ At(t, "idle")
  /\ Goto(t, "rca")
  /\ UNCHANGED <<run, served, approvals, queue, changes, verdicts,
                 publications, manual, broken, clock>>

\* Where the checks of run.state lead.
AfterChecks ==
  CASE run.state \in {"RESOLVED", "ESCALATED"} -> "review"
    [] run.state = "RCA_PENDING"               -> "publish"
    [] OTHER                                   -> "end"

\* The checks of run.state, and a new reading of the clock.
Finalize(t) ==
  /\ At(t, "rca")
  /\ IF AfterChecks = "end"
     THEN Leave(t)
     ELSE /\ thr' = [thr EXCEPT ![t].pc = AfterChecks, ![t].ts = clock]
          /\ UNCHANGED resuming
  /\ UNCHANGED <<run, served, approvals, queue, changes, verdicts,
                 publications, manual, broken, clock>>

\* publish_rca passes the MUST-CITE gate and emits, or is denied.
Publish(t) ==
  /\ At(t, "publish")
  /\ \/ publications' = publications + 1 /\ Goto(t, "published")
     \/ publications' = publications /\ Leave(t)
  /\ UNCHANGED <<run, served, approvals, queue, changes, verdicts,
                 manual, broken, clock>>

-----------------------------------------------------------------------------
(* HTTP handlers that call the FSM directly.                               *)

\* POST /runs/{id}/advance.  A call that fsm.advance rejects changes nothing.
HttpAdvance(to) ==
  /\ served
  /\ AdvanceOK(run, to, TRUE, TRUE, NoPermit, clock)
  /\ run' = Advanced(run, to, NoPermit, clock)
  /\ manual' = TRUE
  /\ UNCHANGED <<served, approvals, queue, resuming, thr, changes,
                 verdicts, publications, broken, clock>>

\* The same to APPROVED: the permit is minted whether or not it is accepted.
HttpApprove(a, expires) ==
  LET permit == [ref |-> a, expires |-> expires] IN
  /\ served
  /\ MintPermit(a, expires)
  /\ IF AdvanceOK(run, "APPROVED", TRUE, TRUE, permit, clock)
     THEN run' = Advanced(run, "APPROVED", permit, clock) /\ manual' = TRUE
     ELSE UNCHANGED <<run, manual>>
  /\ UNCHANGED <<served, queue, resuming, thr, changes, verdicts,
                 publications, broken, clock>>

\* POST /runs/{id}/sweep, with the clock and the TTLs of the request body.
HttpSweep(now, stage_ttl, approval_ttl) ==
  /\ served
  /\ SweepDue(run, now, stage_ttl, approval_ttl)
  /\ run' = Swept(run, now)
  /\ UNCHANGED <<served, approvals, queue, resuming, thr, changes,
                 verdicts, publications, manual, broken, clock>>

Tick ==
  /\ clock < MaxTime
  /\ clock' = clock + 1
  /\ UNCHANGED <<run, served, approvals, queue, resuming, thr, changes,
                 verdicts, publications, manual, broken>>

-----------------------------------------------------------------------------

\* What a started thread does next.
Proceed(t) ==
  \/ Walk(t) \/ WalkRaises(t) \/ ExecuteOnce(t) \/ Judge(t)
  \/ Finalize(t) \/ Publish(t)
  \/ t = "worker" /\ (Allow \/ Adopt)
  \/ t = "resume" /\ (TakeJobNoRun \/ TakeJob \/ Recheck \/ Resumed)

Next ==
  \/ \E t \in Thread :
       Proceed(t) \/ CallRaises(t) \/ ExecutorRaises(t) \/ StartPublish(t)
  \/ \E a \in Approval, e \in 1..MaxExpiry :
       Grant(a, e) \/ HttpApprove(a, e)
  \/ \E to \in States : HttpAdvance(to)
  \/ \E now \in 0..MaxExpiry, st, at \in 1..MaxExpiry : HttpSweep(now, st, at)
  \/ Tick

Spec == Init /\ [][Next]_vars

\* A started thread runs to its end, and the resume queue is drained: both
\* loops run as long as the orchestrator does.  No human is obliged to act.
LiveSpec == Spec /\ \A t \in Thread : WF_vars(Proceed(t))

-----------------------------------------------------------------------------
(* Properties.                                                             *)

Entered(s) == \E i \in DOMAIN run.history : run.history[i].to = s

TypeOK ==
  /\ run \in IncidentRun
  /\ served \in BOOLEAN /\ resuming \in BOOLEAN
  /\ manual \in BOOLEAN /\ broken \in BOOLEAN
  /\ approvals \in [Approval -> {"unminted", "minted"}]
  /\ queue \in Permit \cup {NoPermit}
  /\ thr \in [Thread -> [pc : {"idle", "end", "adopt", "apply", "undo",
                               "judge", "rejudge", "recheck", "rca", "publish"}
                              \cup {r[1] : r \in Route},
                         ts : 0..MaxTime, permit : Permit \cup {NoPermit}]]
  /\ changes \in Seq(Change) /\ verdicts \in Seq(Verdict)
  /\ publications \in Nat /\ clock \in 0..MaxTime

\* However the threads interleave, the run sees a sequence of fsm.py calls, so
\* all that IncidentFsm promises holds of it.
FsmRun == INSTANCE IncidentFsm WITH MaxTime <- MaxExpiry

ImplementsIncidentFsm == FsmRun!Spec

\* "The thing executed is the thing approved": every change of the target was
\* made under the one permit the run consumed, at most one of them forward,
\* though several approvals and an operator compete for the same run.
ExecutedAsApproved ==
  /\ \A i \in DOMAIN changes : run.consumed_refs = {changes[i].ref}
  /\ \A i, j \in DOMAIN changes : changes[i].kind = changes[j].kind => i = j

\* A sweep that races the resume thread loses or wins, never both: a run that
\* was force-escalated was not changed before and is not changed after.
SweptIsUntouched ==
  (\E i \in DOMAIN run.history : run.history[i].forced) => changes = << >>

\* The target is rolled back once, after a forward change that was verified
\* and called for it, and not before or without the run saying ROLLBACK.
RollbackAnswersFailure ==
  \A i \in DOMAIN changes :
    changes[i].kind = "rollback" =>
      /\ i = 2 /\ changes[1].kind = "forward" /\ changes[1].ok
      /\ verdicts[1] = "ROLLBACK_REQUIRED"
      /\ Entered("ROLLBACK")

\* Every change was judged and the last verdict says RESOLVED.
Verified ==
  /\ changes # << >> /\ Len(verdicts) = Len(changes)
  /\ verdicts[Len(verdicts)] = "RESOLVED"

\* An incident closes as RESOLVED on the verifier's word about the last change,
\* as long as no operator advances the run by hand.
ResolvedIsVerified == Entered("RESOLVED") /\ ~manual => Verified

\* Invariant 9, "mutations need verification": a change of the target is
\* eventually judged, unless the executor raised, a call between the change and
\* its verdict raised, or an operator took the run.
ChangeIsJudged ==
  \A i \in 1..2 :
    (Len(changes) >= i /\ changes[i].ok) ~> (Len(verdicts) >= i \/ manual \/ broken)

\* Spec section 40: "no endpoint bypasses policy/HITL/verify".
ResolvedMeansVerified == Entered("RESOLVED") => Verified

\* finalize_rca: "an operator retry or a duplicate worker cannot
\* double-publish".
PublishedOnce == publications <= 1

\* resume_from_approval: "policy DENY at execution time (audited BLOCKED)".
DeniedIsBlocked ==
  [][At("resume", "deny") /\ thr'["resume"].pc # "deny" => run'.state = "BLOCKED"]_vars

\* _trigger_resume: "the seam that makes the lifecycle close"; without it "the
\* run sat at AWAITING_APPROVAL forever".
GrantEndsTheWait ==
  (queue # NoPermit /\ run.state = "AWAITING_APPROVAL")
    ~> (run.state # "AWAITING_APPROVAL")

\* API.md: the post-incident stage "is driven automatically by the
\* orchestrator after a run reaches RESOLVED/ESCALATED".
ClosedIsReviewed ==
  \A s \in {"RESOLVED", "ESCALATED"} :
    (served /\ run.state = s) ~> (run.state # s)

=============================================================================
