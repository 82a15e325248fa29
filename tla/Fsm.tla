-------------------------------- MODULE Fsm --------------------------------
(***************************************************************************)
(* The rules of backend/app/services/fsm.py as operators on one run: which *)
(* edges exist, what advance() accepts, what an accepted call leaves       *)
(* behind, what a rejected one leaves behind, and what sweep() forces.     *)
(*                                                                         *)
(* IncidentFsm drives one run through these rules with an arbitrary        *)
(* sequence of calls; Lifecycle drives it with the worker, the resume      *)
(* thread and the HTTP handlers.                                           *)
(*                                                                         *)
(* Data left out: incident ids, reason texts, the individual gate refs,    *)
(* the agent handoffs and the wall-clock stamps of the history records.    *)
(* entered_at is a dict in the code, but only the entry of the current     *)
(* state is ever read, so it is one number here.                           *)
(***************************************************************************)
EXTENDS Naturals, Sequences

CONSTANTS
  Ref,          \* token_refs of permits
  NoPermit,     \* run.permit = None
  MaxReplans    \* fsm.MAX_REPLANS

ASSUME NoPermitAssumption == NoPermit \notin [ref : Ref, expires : Nat]
ASSUME MaxReplansAssumption == MaxReplans \in Nat

-----------------------------------------------------------------------------

States ==
  {"NEW", "TRIAGING", "CORRELATED", "INVESTIGATING", "DIAGNOSING", "PLANNED",
   "POLICY_CHECK", "BLOCKED", "AWAITING_APPROVAL", "APPROVED", "EXECUTING",
   "VERIFYING", "RESOLVED", "ROLLBACK", "ESCALATED", "RCA_PENDING",
   "RCA_PUBLISHED", "AUDITED"}

Terminal == {"BLOCKED", "AUDITED"}

\* TRANSITIONS, as a set of edges.
Edges ==
  {<<"NEW", "TRIAGING">>,
   <<"TRIAGING", "CORRELATED">>, <<"TRIAGING", "ESCALATED">>,
   <<"CORRELATED", "INVESTIGATING">>, <<"CORRELATED", "ESCALATED">>,
   <<"INVESTIGATING", "DIAGNOSING">>, <<"INVESTIGATING", "ESCALATED">>,
   <<"DIAGNOSING", "PLANNED">>, <<"DIAGNOSING", "ESCALATED">>,
   <<"PLANNED", "POLICY_CHECK">>, <<"PLANNED", "DIAGNOSING">>,
   <<"PLANNED", "ESCALATED">>,
   <<"POLICY_CHECK", "BLOCKED">>, <<"POLICY_CHECK", "AWAITING_APPROVAL">>,
   <<"POLICY_CHECK", "APPROVED">>,
   <<"AWAITING_APPROVAL", "APPROVED">>, <<"AWAITING_APPROVAL", "ESCALATED">>,
   <<"APPROVED", "EXECUTING">>,
   <<"EXECUTING", "VERIFYING">>,
   <<"VERIFYING", "RESOLVED">>, <<"VERIFYING", "ROLLBACK">>,
   <<"VERIFYING", "ESCALATED">>,
   <<"ROLLBACK", "VERIFYING">>,
   <<"RESOLVED", "RCA_PENDING">>, <<"ESCALATED", "RCA_PENDING">>,
   <<"RCA_PENDING", "RCA_PUBLISHED">>,
   <<"RCA_PUBLISHED", "AUDITED">>}

\* Bug: a stage that changes the target is swept like the agents' stages.
TtlStagesWithVerifying ==
  {"TRIAGING", "CORRELATED", "INVESTIGATING", "DIAGNOSING", "PLANNED", "VERIFYING"}

\* Agent stages the TTL sweep may escalate.
TtlStages == {"TRIAGING", "CORRELATED", "INVESTIGATING", "DIAGNOSING", "PLANNED"}

Permit == [ref : Ref, expires : Nat]

TransitionRecord == [frm : States, to : States, forced : BOOLEAN]

IncidentRun ==
  [state : States, history : Seq(TransitionRecord), replans : Nat,
   rolled_back : BOOLEAN, permit : Permit \cup {NoPermit},
   consumed_refs : SUBSET Ref, entered_at : Nat]

new_run(now) ==
  [state |-> "NEW", history |-> << >>, replans |-> 0, rolled_back |-> FALSE,
   permit |-> NoPermit, consumed_refs |-> {}, entered_at |-> now]

-----------------------------------------------------------------------------

\* Bugs: an edge too many.  A failed verification goes back to the planner; a
\* denial can be appealed; an execution closes without the verifier.
EdgeAllowedWithRetry(run, to) ==
  <<run.state, to>> \in Edges \cup {<<"VERIFYING", "PLANNED">>}

EdgeAllowedWithAppeal(run, to) ==
  <<run.state, to>> \in Edges \cup {<<"BLOCKED", "POLICY_CHECK">>}

EdgeAllowedUnverified(run, to) ==
  <<run.state, to>> \in Edges \cup {<<"EXECUTING", "RESOLVED">>}

\* The state is not terminal and the edge is in TRANSITIONS.
EdgeAllowed(run, to) ==
  run.state \notin Terminal /\ <<run.state, to>> \in Edges

\* The PLANNED -> DIAGNOSING back-edge, whose uses run.replans counts.
IsReplan(run, to) == run.state = "PLANNED" /\ to = "DIAGNOSING"

\* Bug: the bound is off by one.
ReplanAllowedOnceMore(run) == run.replans <= MaxReplans

ReplanAllowed(run) == run.replans < MaxReplans

\* Permit.check_valid
check_valid(permit, now) == permit.expires > now

\* _approve accepts the permit offered with an edge into APPROVED.
ApproveOK(run, permit, now) ==
  /\ permit # NoPermit
  /\ check_valid(permit, now)
  /\ permit.ref \notin run.consumed_refs
  /\ run.permit = NoPermit

\* advance(run, to, ...) returns. reason and refs say whether the caller gave
\* a non-blank reason and at least one gate ref.
AdvanceOK(run, to, reason, refs, permit, now) ==
  /\ EdgeAllowed(run, to)
  /\ IsReplan(run, to) => ReplanAllowed(run)
  /\ to = "BLOCKED" => reason
  /\ IF to = "APPROVED" THEN ApproveOK(run, permit, now)
                        ELSE permit = NoPermit
  /\ to = "EXECUTING" => run.permit # NoPermit /\ check_valid(run.permit, now)
  /\ to = "ROLLBACK" => ~run.rolled_back
  /\ to \in {"RCA_PUBLISHED", "AUDITED"} => refs

\* Bug: the permit survives the execution it paid for.
PermitKept(run, to, permit) == IF to = "APPROVED" THEN permit ELSE run.permit

\* APPROVED stores the permit, EXECUTING spends it.
PermitAfter(run, to, permit) ==
  IF to = "APPROVED" THEN permit
  ELSE IF to = "EXECUTING" THEN NoPermit ELSE run.permit

\* What an accepted advance leaves behind.
Advanced(run, to, permit, now) ==
  [state         |-> to,
   history       |-> Append(run.history,
                            [frm |-> run.state, to |-> to, forced |-> FALSE]),
   replans       |-> IF IsReplan(run, to) THEN run.replans + 1 ELSE run.replans,
   rolled_back   |-> run.rolled_back \/ to = "ROLLBACK",
   permit        |-> PermitAfter(run, to, permit),
   consumed_refs |-> IF to = "EXECUTING"
                     THEN run.consumed_refs \cup {run.permit.ref}
                     ELSE run.consumed_refs,
   entered_at    |-> now]

\* advance counts a re-plan before it rejects the permit that came with it, so
\* this rejected call still spends one of the run's re-plans.
ReplanSpentByRejection(run, to, permit) ==
  IsReplan(run, to) /\ ReplanAllowed(run) /\ permit # NoPermit

-----------------------------------------------------------------------------

\* sweep(run, now, stage_ttl, approval_ttl) escalates.
SweepDue(run, now, stage_ttl, approval_ttl) ==
  \/ run.state = "AWAITING_APPROVAL" /\ now > run.entered_at + approval_ttl
  \/ run.state \in TtlStages /\ now > run.entered_at + stage_ttl

\* Bug: the sweep writes its reason where the state belongs.
SweptToReason(run, now) ==
  [run EXCEPT !.state = "ttl-expired", !.entered_at = now,
              !.history = Append(@, [frm |-> run.state, to |-> "ESCALATED",
                                     forced |-> TRUE])]

\* The run after a forced escalation.
Swept(run, now) ==
  [run EXCEPT !.state = "ESCALATED", !.entered_at = now,
              !.history = Append(@, [frm |-> run.state, to |-> "ESCALATED",
                                     forced |-> TRUE])]

=============================================================================
