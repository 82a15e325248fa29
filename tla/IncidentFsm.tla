---------------------------- MODULE IncidentFsm ----------------------------
(***************************************************************************)
(* One incident run under an arbitrary sequence of fsm.py calls: any       *)
(* advance() with any target, reason, refs, permit and clock, any sweep()  *)
(* with any clock and any positive TTL.  Both functions take the time from *)
(* their caller, and callers do pass old times: the pipeline reads the     *)
(* clock once and stamps every later transition with it, and POST          *)
(* /runs/{id}/sweep takes clock and TTLs from the request body.  The       *)
(* caller is not constrained by what the pipeline would do next, so what   *)
(* holds here holds for every caller that serialises its calls; Lifecycle  *)
(* implements this specification.                                          *)
(***************************************************************************)
EXTENDS Fsm, FiniteSets

CONSTANTS
  MaxTime       \* bound of the clocks, the permits' expiry and the TTLs

ASSUME MaxTimeAssumption == MaxTime \in Nat

VARIABLE
  run           \* the IncidentRun

Time == 0..MaxTime

Offer == [ref : Ref, expires : Time] \cup {NoPermit}

-----------------------------------------------------------------------------

Init == \E now \in Time : run = new_run(now)

\* advance() returns the new state.
Advance(to, reason, refs, permit, now) ==
  /\ AdvanceOK(run, to, reason, refs, permit, now)
  /\ run' = Advanced(run, to, permit, now)

\* advance() raises PermitRejected for a permit offered with the back-edge.
\* Every other rejection leaves the run as it was: a stuttering step.
AdvanceRejected(to, permit) ==
  /\ ReplanSpentByRejection(run, to, permit)
  /\ run' = [run EXCEPT !.replans = @ + 1]

\* sweep() returns True.
Sweep(now, stage_ttl, approval_ttl) ==
  /\ SweepDue(run, now, stage_ttl, approval_ttl)
  /\ run' = Swept(run, now)

\* The targets TRANSITIONS allows; a call with another changes nothing.
Targets == {to \in States : EdgeAllowed(run, to)}

Next ==
  \/ \E to \in Targets, reason, refs \in BOOLEAN, permit \in Offer, now \in Time :
       Advance(to, reason, refs, permit, now)
  \/ \E to \in Targets, permit \in Offer : AdvanceRejected(to, permit)
  \/ \E now \in Time, stage_ttl, approval_ttl \in Time \ {0} :
       Sweep(now, stage_ttl, approval_ttl)

Spec == Init /\ [][Next]_run

-----------------------------------------------------------------------------
(* Reading the history.                                                    *)

\* Positions at which the run entered state s.
Entries(s) == {i \in DOMAIN run.history : run.history[i].to = s}

\* Positions of the back-edge PLANNED -> DIAGNOSING.
Replans == {i \in Entries("DIAGNOSING") : run.history[i].frm = "PLANNED"}

Executed == Entries("EXECUTING") # {}

-----------------------------------------------------------------------------
(* Properties.                                                             *)

\* Every field of the run has the shape the dataclass declares.
TypeOK == run \in IncidentRun

\* No skip: the run enters EXECUTING at most once, and only as the step right
\* after it entered APPROVED, so no history reaches the executor around the
\* approval edge (fsm.py: "every EXECUTING has exactly one APPROVED permit
\* behind it").
NoSkip ==
  /\ \A i, j \in Entries("EXECUTING") : i = j
  /\ \A i \in Entries("EXECUTING") : i - 1 \in Entries("APPROVED")

\* Permit accounting: a permit is held exactly while the run sits in APPROVED,
\* and the consumed refs are exactly one per execution: a sweep, a rejected
\* call or a later edge neither leaks a live permit nor loses a spent one.
PermitAccounted ==
  /\ run.permit # NoPermit <=> run.state = "APPROVED"
  /\ Executed => \E r \in Ref : run.consumed_refs = {r}
  /\ ~Executed => run.consumed_refs = {}

\* A denial is final: a run that was BLOCKED has never executed anything and
\* never moves again.
DeniedNeverExecutes ==
  Entries("BLOCKED") # {} => run.state = "BLOCKED" /\ ~Executed

\* The TTL sweep never takes a run away from an execution in progress: a run
\* with a forced record in its history has neither executed nor been approved
\* before it or after it.
SweepSparesExecution ==
  \A i \in DOMAIN run.history :
    run.history[i].forced => ~Executed /\ Entries("APPROVED") = {}

\* Every change of the target is verified: an EXECUTING or ROLLBACK entry is
\* either the run's present or is followed at once by VERIFYING, so no path
\* leads from a change to a closed incident around the verifier.
ChangeIsVerified ==
  \A i \in Entries("EXECUTING") \cup Entries("ROLLBACK") :
    i = Len(run.history) \/ i + 1 \in Entries("VERIFYING")

\* Bounds: re-plans never exceed the limit however calls are rejected, every
\* taken back-edge is paid for, and at most one rollback is attempted, only
\* after an execution.
BoundedRetries ==
  /\ run.replans <= MaxReplans
  /\ Cardinality(Replans) <= run.replans
  /\ \A i, j \in Entries("ROLLBACK") : i = j
  /\ \A i \in Entries("ROLLBACK") : \E j \in Entries("EXECUTING") : j < i

=============================================================================
