-------------------------- MODULE IncidentProofs --------------------------
(***************************************************************************)
(* Proofs about incidents: how IncidentFsm moves their runs, and how       *)
(* Correlator makes them of alerts.                                        *)
(*                                                                         *)
(* Every caller of fsm.py keeps the safety properties of IncidentFsm, for  *)
(* every set of permits, every clock bound and every re-plan limit.  None  *)
(* of the properties is inductive: each speaks of the history, which       *)
(* a step can only extend, so what makes the next step safe is what the    *)
(* present state says about the past.  IInv states that link (PastOf), the *)
(* shape of the history (Chained, Legal), and the accounts of permits,     *)
(* rollbacks and re-plans.                                                 *)
(*                                                                         *)
(* The theorems about Correlator are for every set of batches, bundles and *)
(* contexts, however long, every arrival time and every cap.  A storm is   *)
(* reported because the alerts are thinned in the order of their times     *)
(* (SortInv): the kept alert an alert repeats is not later than it.  The   *)
(* incidents partition the kept alerts because the loop puts each of them  *)
(* in one place, and no two of them are equal (GroupInv, PlaceInv); what   *)
(* an incident counts is what its group holds (ReturnInv).  No fold over   *)
(* the groups is unfolded: the loop's turns and the places in the groups   *)
(* are in bijection, so their numbers are equal.                           *)
(***************************************************************************)
EXTENDS IncidentFsm, Correlator, SequenceTheorems, FiniteSetTheorems,
        WellFoundedInduction, TLAPS

-----------------------------------------------------------------------------
(* The inductive invariant.                                                *)

\* States a run reaches only after it was approved, or after it escalated.
PostApproval == {"EXECUTING", "VERIFYING", "RESOLVED", "ROLLBACK", "ESCALATED",
                 "RCA_PENDING", "RCA_PUBLISHED", "AUDITED"}

\* States a run reaches only through EXECUTING.
OnlyAfterExecution == {"EXECUTING", "VERIFYING", "RESOLVED", "ROLLBACK"}

Closing == {"ESCALATED", "RCA_PENDING", "RCA_PUBLISHED", "AUDITED"}

\* A record of the history is an edge of TRANSITIONS or a sweep.
LegalRecord(r) ==
  \/ ~r.forced /\ <<r.frm, r.to>> \in Edges
  \/ r.forced /\ r.to = "ESCALATED"
     /\ r.frm \in TtlStages \cup {"AWAITING_APPROVAL"}

Legal == \A i \in DOMAIN run.history : LegalRecord(run.history[i])

\* Each record starts where the one before it ended, and the last one ends in
\* the present state.
Chained ==
  /\ run.history = << >> => run.state = "NEW"
  /\ run.history # << >> => run.history[Len(run.history)].to = run.state
  /\ \A i \in DOMAIN run.history :
       IF i = 1 THEN run.history[i].frm = "NEW"
                ELSE run.history[i].frm = run.history[i - 1].to

\* What the present state says about the past.
PastOf ==
  /\ Executed => run.state \in PostApproval
  /\ run.state \in OnlyAfterExecution => Executed
  /\ Entries("APPROVED") # {} => run.state \in PostApproval \cup {"APPROVED"}
  /\ Entries("BLOCKED") # {} => run.state = "BLOCKED"
  /\ \A i \in DOMAIN run.history : run.history[i].forced => run.state \in Closing

\* rolled_back and replans account for the entries they bound.
Bounded ==
  /\ run.rolled_back <=> Entries("ROLLBACK") # {}
  /\ run.replans <= MaxReplans
  /\ Cardinality(Replans) <= run.replans
  /\ \A i, j \in Entries("ROLLBACK") : i = j
  /\ \A i \in Entries("ROLLBACK") : \E j \in Entries("EXECUTING") : j < i

OneExecution == \A i, j \in Entries("EXECUTING") : i = j

Unapproved == \A i \in DOMAIN run.history :
                run.history[i].forced => ~Executed /\ Entries("APPROVED") = {}

IInv ==
  /\ TypeOK /\ Legal /\ Chained /\ PastOf /\ Bounded
  /\ PermitAccounted /\ OneExecution /\ Unapproved

-----------------------------------------------------------------------------
(* A step that records a transition.                                       *)

\* The step appends the record r, which leads from the state to the next one.
Records(r) ==
  /\ r \in TransitionRecord
  /\ r.frm = run.state
  /\ r.to = run'.state
  /\ LegalRecord(r)
  /\ run'.history = Append(run.history, r)

\* Advance and Sweep record one legal transition each.
LEMMA AdvanceRecords ==
  ASSUME TypeOK,
         NEW to \in States, NEW reason \in BOOLEAN, NEW refs \in BOOLEAN,
         NEW permit \in Offer, NEW now \in Time,
             Advance(to, reason, refs, permit, now)
  PROVE  \E r : Records(r) /\ r.to = to
<1> DEFINE q == [frm |-> run.state, to |-> to, forced |-> FALSE]
<1>1. Records(q)
  BY DEF TypeOK, IncidentRun, Advance, AdvanceOK, EdgeAllowed, Advanced, Records, LegalRecord,
         TransitionRecord
<1>2. q.to = to
  OBVIOUS
<1> HIDE DEF q
<1> QED BY <1>1, <1>2

LEMMA SweepRecords ==
  ASSUME TypeOK,
         NEW now \in Time, NEW stage_ttl, NEW approval_ttl,
         Sweep(now, stage_ttl, approval_ttl)
  PROVE  \E r : Records(r) /\ r.to = "ESCALATED"
<1> DEFINE q == [frm |-> run.state, to |-> "ESCALATED", forced |-> TRUE]
<1>1. Records(q)
  BY DEF TypeOK, IncidentRun, Sweep, SweepDue, Swept, Records, LegalRecord,
         TransitionRecord, TtlStages, States
<1>2. q.to = "ESCALATED"
  OBVIOUS
<1> HIDE DEF q
<1> QED BY <1>1, <1>2

\* Recording a transition adds one entry, of the state it leads to.
LEMMA EntriesAfter ==
  ASSUME TypeOK, NEW r, Records(r), NEW s
  PROVE  /\ r.to = s => Entries(s)' = Entries(s) \cup {Len(run.history) + 1}
         /\ r.to # s => Entries(s)' = Entries(s)
BY DEF TypeOK, IncidentRun, Records, Entries

LEMMA HistoryAfter ==
  ASSUME TypeOK, NEW r, Records(r)
  PROVE  /\ Len(run'.history) = Len(run.history) + 1
         /\ DOMAIN run'.history = 1..(Len(run.history) + 1)
         /\ DOMAIN run.history = 1..Len(run.history)
         /\ \A i \in DOMAIN run.history : run'.history[i] = run.history[i]
         /\ run'.history[Len(run.history) + 1] = r
BY DEF TypeOK, IncidentRun, Records

-----------------------------------------------------------------------------
(* What a recorded transition keeps of the invariant that only speaks of   *)
(* the history and the state.                                              *)

HistoryInv == Legal /\ Chained /\ PastOf /\ OneExecution /\ Unapproved

LEMMA HistoryInvStep ==
  ASSUME TypeOK, HistoryInv, run.state \notin Terminal, NEW r, Records(r)
  PROVE  HistoryInv'
<1> DEFINE n == Len(run.history) + 1
<1>0. /\ n \in Nat /\ n - 1 = Len(run.history) /\ n > 0
      /\ r.frm = run.state /\ r.to = run'.state /\ run.state \in States
      /\ r.forced \in BOOLEAN /\ run'.state \in States
  BY DEF TypeOK, IncidentRun, Records, TransitionRecord
<1>1. /\ Len(run'.history) = n
      /\ DOMAIN run'.history = 1..n
      /\ DOMAIN run.history = 1..(n - 1)
      /\ \A i \in 1..(n - 1) : run'.history[i] = run.history[i]
      /\ run'.history[n] = r
      /\ run'.history # << >>
  <2> HIDE DEF n
  <2>1. n - 1 = Len(run.history) /\ n = Len(run.history) + 1
    BY DEF n, TypeOK, IncidentRun
  <2>2. /\ Len(run'.history) = n
        /\ DOMAIN run'.history = 1..n
        /\ DOMAIN run.history = 1..(n - 1)
        /\ \A i \in DOMAIN run.history : run'.history[i] = run.history[i]
        /\ run'.history[n] = r
    BY HistoryAfter, <2>1
  <2>3. run'.history # << >>
    BY DEF TypeOK, IncidentRun, Records
  <2> QED BY <2>2, <2>3
<1>2. \A s : /\ r.to = s => Entries(s)' = Entries(s) \cup {n}
             /\ r.to # s => Entries(s)' = Entries(s)
  BY EntriesAfter
<1>3. LegalRecord(r)
  BY DEF Records
<1>4. Legal'
  BY <1>0, <1>1, <1>3 DEF HistoryInv, Legal
<1>5. Chained'
  <2>1. IF n = 1 THEN r.frm = "NEW" ELSE r.frm = run.history[n - 1].to
    BY <1>0, <1>1 DEF HistoryInv, Chained, TypeOK, IncidentRun
  <2>2. \A i \in 1..n : IF i = 1 THEN run'.history[i].frm = "NEW"
                                 ELSE run'.history[i].frm = run'.history[i - 1].to
    <3> SUFFICES ASSUME NEW i \in 1..n
                 PROVE  IF i = 1 THEN run'.history[i].frm = "NEW"
                                 ELSE run'.history[i].frm = run'.history[i - 1].to
      OBVIOUS
    <3>1. CASE i = n
      BY <3>1, <2>1, <1>0, <1>1
    <3>2. CASE i # n
      <4>1. i \in DOMAIN run.history /\ (i # 1 => i - 1 \in DOMAIN run.history)
        BY <3>2, <1>0, <1>1
      <4>2. /\ run'.history[i] = run.history[i]
            /\ i # 1 => run'.history[i - 1] = run.history[i - 1]
        BY <4>1, <1>1
      <4> QED BY <4>1, <4>2 DEF HistoryInv, Chained
    <3> QED BY <3>1, <3>2
  <2> QED BY <2>2, <1>0, <1>1 DEF Chained
<1>6. PastOf'
  <2>1. Executed' <=> Executed \/ r.to = "EXECUTING"
    BY <1>2 DEF Executed
  <2>2. Executed' => run'.state \in PostApproval
    BY <2>1, <1>0, <1>3 DEF HistoryInv, PastOf, PostApproval, LegalRecord, Edges,
       TtlStages, Terminal, States
  <2>3. run'.state \in OnlyAfterExecution => Executed'
    BY <2>1, <1>0, <1>3 DEF HistoryInv, PastOf, OnlyAfterExecution, LegalRecord, Edges
  <2>4. Entries("APPROVED")' # {} => run'.state \in PostApproval \cup {"APPROVED"}
    BY <1>2, <1>0, <1>3 DEF HistoryInv, PastOf, PostApproval, LegalRecord, Edges,
       TtlStages
  <2>5. Entries("BLOCKED")' # {} => run'.state = "BLOCKED"
    BY <1>2, <1>0 DEF HistoryInv, PastOf, Terminal
  <2>6. ASSUME NEW i \in 1..n, run'.history[i].forced PROVE run'.state \in Closing
    <3>1. CASE i = n
      BY <3>1, <2>6, <1>0, <1>1, <1>3 DEF LegalRecord, Closing
    <3>2. CASE i # n
      <4>1. run.state \in Closing
        <5>1. i \in DOMAIN run.history /\ run.history[i].forced
          BY <3>2, <2>6, <1>0, <1>1
        <5> QED BY <5>1 DEF HistoryInv, PastOf
      <4> QED BY <4>1, <1>0, <1>3 DEF Closing, LegalRecord, Edges, TtlStages, Terminal
    <3> QED BY <3>1, <3>2
  <2> QED BY <2>2, <2>3, <2>4, <2>5, <2>6, <1>1 DEF PastOf
<1>7. OneExecution'
  <2>1. r.to = "EXECUTING" => Entries("EXECUTING") = {}
    BY <1>0, <1>3 DEF HistoryInv, PastOf, Executed, PostApproval, LegalRecord, Edges
  <2> QED BY <2>1, <1>2 DEF HistoryInv, OneExecution
<1>8. Unapproved'
  <2> SUFFICES ASSUME NEW i \in 1..n, run'.history[i].forced
               PROVE  ~Executed' /\ Entries("APPROVED")' = {}
    BY <1>1 DEF Unapproved
  <2>1. r.to \notin {"EXECUTING", "APPROVED"} /\ ~Executed /\ Entries("APPROVED") = {}
    <3>1. CASE i = n
      BY <3>1, <1>0, <1>1, <1>3 DEF HistoryInv, PastOf, LegalRecord, TtlStages,
         PostApproval
    <3>2. CASE i # n
      <4>1. run.history[i].forced /\ i \in DOMAIN run.history
        BY <3>2, <1>0, <1>1
      <4>2. run.state \in Closing
        BY <4>1 DEF HistoryInv, PastOf
      <4>3. r.to \notin {"EXECUTING", "APPROVED"}
        BY <4>2, <1>0, <1>3 DEF Closing, LegalRecord, Edges
      <4> QED BY <4>1, <4>3 DEF HistoryInv, Unapproved
    <3> QED BY <3>1, <3>2
  <2> QED BY <2>1, <1>2 DEF Executed
<1> QED BY <1>4, <1>5, <1>6, <1>7, <1>8 DEF HistoryInv

-----------------------------------------------------------------------------
(* The four actions preserve the invariant.                                *)

LEMMA TypeStep ==
  ASSUME TypeOK, [Next]_run
  PROVE  TypeOK'
<1> USE DEF TypeOK, IncidentRun
<1>1. ASSUME NEW to \in States, NEW reason \in BOOLEAN, NEW refs \in BOOLEAN,
             NEW permit \in Offer, NEW now \in Time,
             Advance(to, reason, refs, permit, now)
      PROVE  TypeOK'
  <2>1. permit \in Permit \cup {NoPermit} /\ now \in Nat
    BY MaxTimeAssumption DEF Offer, Permit, Time
  <2>2. [frm |-> run.state, to |-> to, forced |-> FALSE] \in TransitionRecord
    BY DEF TransitionRecord
  <2>3. run'.history \in Seq(TransitionRecord)
    BY <1>1, <2>2 DEF Advance, Advanced
  <2>4. run'.consumed_refs \in SUBSET Ref
    BY <1>1 DEF Advance, AdvanceOK, Advanced, PermitAfter, Permit
  <2>5. run' = Advanced(run, to, permit, now)
    BY <1>1 DEF Advance
  <2> QED BY <2>1, <2>3, <2>4, <2>5 DEF Advanced, PermitAfter
<1>2. ASSUME NEW to \in States, NEW permit \in Offer, AdvanceRejected(to, permit)
      PROVE  TypeOK'
  BY <1>2 DEF AdvanceRejected
<1>3. ASSUME NEW now \in Time, NEW stage_ttl, NEW approval_ttl,
             Sweep(now, stage_ttl, approval_ttl)
      PROVE  TypeOK'
  <2> DEFINE h == Append(run.history, [frm |-> run.state, to |-> "ESCALATED",
                                       forced |-> TRUE])
  <2>1. [frm |-> run.state, to |-> "ESCALATED", forced |-> TRUE] \in TransitionRecord
    BY DEF TransitionRecord, States
  <2>2. h \in Seq(TransitionRecord) /\ now \in Nat
    BY <2>1, MaxTimeAssumption DEF Time
  <2>3. run' = [run EXCEPT !.state = "ESCALATED", !.entered_at = now, !.history = h]
    BY <1>3 DEF Sweep, Swept
  <2> HIDE DEF h
  <2> QED BY <2>2, <2>3 DEF States
<1>4. CASE UNCHANGED run
  BY <1>4
<1>5. Targets \subseteq States
  BY DEF Targets
<1> QED BY <1>1, <1>2, <1>3, <1>4, <1>5 DEF Next

\* A step either records a transition or leaves state and history alone.
LEMMA StepRecords ==
  ASSUME TypeOK, [Next]_run
  PROVE  \/ run.state \notin Terminal /\ \E r : Records(r)
         \/ UNCHANGED <<run.state, run.history, run.rolled_back, run.permit,
                        run.consumed_refs>>
<1>1. ASSUME NEW to \in States, NEW reason \in BOOLEAN, NEW refs \in BOOLEAN,
             NEW permit \in Offer, NEW now \in Time,
             Advance(to, reason, refs, permit, now)
      PROVE  run.state \notin Terminal /\ \E r : Records(r)
  BY <1>1, AdvanceRecords DEF Advance, AdvanceOK, EdgeAllowed
<1>2. ASSUME NEW to \in States, NEW permit \in Offer, AdvanceRejected(to, permit)
      PROVE  UNCHANGED <<run.state, run.history, run.rolled_back, run.permit,
                         run.consumed_refs>>
  BY <1>2 DEF AdvanceRejected, TypeOK, IncidentRun
<1>3. ASSUME NEW now \in Time, NEW stage_ttl, NEW approval_ttl,
             Sweep(now, stage_ttl, approval_ttl)
      PROVE  run.state \notin Terminal /\ \E r : Records(r)
  BY <1>3, SweepRecords DEF Sweep, SweepDue, Terminal, TtlStages
<1>4. Targets \subseteq States
  BY DEF Targets
<1> QED BY <1>1, <1>2, <1>3, <1>4 DEF Next

LEMMA HistoryStep ==
  ASSUME TypeOK, HistoryInv, [Next]_run
  PROVE  HistoryInv'
<1>1. CASE run.state \notin Terminal /\ \E r : Records(r)
  BY <1>1, HistoryInvStep
<1>2. CASE UNCHANGED <<run.state, run.history, run.rolled_back, run.permit,
                       run.consumed_refs>>
  BY <1>2 DEF HistoryInv, Legal, Chained, PastOf, OneExecution, Unapproved,
     Entries, Executed
<1> QED BY <1>1, <1>2, StepRecords

LEMMA PermitStep ==
  ASSUME TypeOK, HistoryInv, PermitAccounted, [Next]_run
  PROVE  PermitAccounted'
<1>1. ASSUME NEW to \in States, NEW reason \in BOOLEAN, NEW refs \in BOOLEAN,
             NEW permit \in Offer, NEW now \in Time,
             Advance(to, reason, refs, permit, now)
      PROVE  PermitAccounted'
  <2>1. PICK r : Records(r) /\ r.to = to
    BY <1>1, AdvanceRecords
  <2>2. Executed' <=> Executed \/ to = "EXECUTING"
    BY <2>1, EntriesAfter DEF Executed
  <2>3. run.state \in States /\ <<run.state, to>> \in Edges
    BY <1>1 DEF TypeOK, IncidentRun, Advance, AdvanceOK, EdgeAllowed
  <2>4. run' = Advanced(run, to, permit, now) /\ AdvanceOK(run, to, reason, refs, permit, now)
    BY <1>1 DEF Advance
  <2>5. CASE to = "EXECUTING"
    <3>1. run.state = "APPROVED"
      BY <2>3, <2>5 DEF Edges
    <3>2. ~Executed /\ run.consumed_refs = {}
      BY <3>1 DEF HistoryInv, PastOf, PostApproval, PermitAccounted
    <3>3. run.permit.ref \in Ref
      BY <2>4, <2>5 DEF AdvanceOK, TypeOK, IncidentRun, Permit
    <3>4. run'.permit = NoPermit /\ run'.state = "EXECUTING"
          /\ run'.consumed_refs = {run.permit.ref}
      BY <2>4, <2>5, <3>2 DEF Advanced, PermitAfter
    <3> QED BY <3>3, <3>4, <2>2, <2>5 DEF PermitAccounted
  <2>6. CASE to # "EXECUTING"
    <3>1. run'.consumed_refs = run.consumed_refs /\ (Executed' <=> Executed)
          /\ run'.state = to
      BY <2>2, <2>4, <2>6 DEF Advanced
    <3>2. run'.permit # NoPermit <=> to = "APPROVED"
      BY <2>3, <2>4, <2>6 DEF Advanced, PermitAfter, AdvanceOK, ApproveOK,
         PermitAccounted, Edges
    <3> QED BY <3>1, <3>2 DEF PermitAccounted
  <2> QED BY <2>5, <2>6
<1>2. ASSUME NEW now \in Time, NEW stage_ttl, NEW approval_ttl,
             Sweep(now, stage_ttl, approval_ttl)
      PROVE  PermitAccounted'
  <2>1. PICK r : Records(r) /\ r.to = "ESCALATED"
    BY <1>2, SweepRecords
  <2>2. Executed' <=> Executed
    BY <2>1, EntriesAfter DEF Executed
  <2>3. run.state # "APPROVED" /\ run'.state = "ESCALATED"
        /\ run'.permit = run.permit /\ run'.consumed_refs = run.consumed_refs
    BY <1>2 DEF Sweep, SweepDue, Swept, TtlStages, TypeOK, IncidentRun
  <2> QED BY <2>2, <2>3 DEF PermitAccounted
<1>3. CASE UNCHANGED <<run.state, run.history, run.permit, run.consumed_refs>>
  BY <1>3 DEF PermitAccounted, Executed, Entries
<1>4. ASSUME NEW to \in States, NEW permit \in Offer, AdvanceRejected(to, permit)
      PROVE  UNCHANGED <<run.state, run.history, run.permit, run.consumed_refs>>
  BY <1>4 DEF AdvanceRejected, TypeOK, IncidentRun
<1>5. Targets \subseteq States
  BY DEF Targets
<1> QED BY <1>1, <1>2, <1>3, <1>4, <1>5 DEF Next

LEMMA ReplansFinite ==
  ASSUME TypeOK
  PROVE  IsFiniteSet(Replans) /\ Cardinality(Replans) \in Nat
<1>1. Len(run.history) \in Nat /\ DOMAIN run.history = 1..Len(run.history)
  BY DEF TypeOK, IncidentRun
<1>2. Replans \subseteq 1..Len(run.history)
  BY <1>1 DEF Replans, Entries
<1>3. IsFiniteSet(1..Len(run.history))
  BY <1>1, FS_Interval
<1> QED BY <1>2, <1>3, FS_Subset, FS_CardinalityType

\* The back-edges taken: a recorded transition adds at most one.
LEMMA ReplansAfter ==
  ASSUME TypeOK, NEW r, Records(r)
  PROVE  /\ r.to = "DIAGNOSING" /\ r.frm = "PLANNED"
              => Replans' = Replans \cup {Len(run.history) + 1}
         /\ ~(r.to = "DIAGNOSING" /\ r.frm = "PLANNED") => Replans' = Replans
         /\ IsFiniteSet(Replans)
         /\ Len(run.history) + 1 \notin Replans
<1>1. /\ DOMAIN run'.history = 1..(Len(run.history) + 1)
      /\ DOMAIN run.history = 1..Len(run.history)
      /\ \A i \in DOMAIN run.history : run'.history[i] = run.history[i]
      /\ run'.history[Len(run.history) + 1] = r
      /\ Len(run.history) \in Nat
  BY HistoryAfter DEF TypeOK, IncidentRun
<1>2. Replans = {i \in 1..Len(run.history) : run.history[i].to = "DIAGNOSING"
                                             /\ run.history[i].frm = "PLANNED"}
  BY <1>1 DEF Replans, Entries
<1>3. Replans' = {i \in 1..(Len(run.history) + 1) :
                    run'.history[i].to = "DIAGNOSING"
                    /\ run'.history[i].frm = "PLANNED"}
  BY <1>1 DEF Replans, Entries
<1>4. IsFiniteSet(Replans)
  BY ReplansFinite
<1>5. /\ r.to = "DIAGNOSING" /\ r.frm = "PLANNED"
           => Replans' = Replans \cup {Len(run.history) + 1}
      /\ ~(r.to = "DIAGNOSING" /\ r.frm = "PLANNED") => Replans' = Replans
  BY <1>1, <1>2, <1>3
<1>6. Len(run.history) + 1 \notin Replans
  BY <1>1, <1>2
<1> QED BY <1>4, <1>5, <1>6

LEMMA BoundedStep ==
  ASSUME TypeOK, HistoryInv, Bounded, [Next]_run
  PROVE  Bounded'
<1>1. ASSUME NEW to \in States, NEW reason \in BOOLEAN, NEW refs \in BOOLEAN,
             NEW permit \in Offer, NEW now \in Time,
             Advance(to, reason, refs, permit, now)
      PROVE  Bounded'
  <2>1. PICK r : Records(r) /\ r.to = to
    BY <1>1, AdvanceRecords
  <2>2. /\ run' = Advanced(run, to, permit, now)
        /\ AdvanceOK(run, to, reason, refs, permit, now)
        /\ r.frm = run.state
    BY <1>1, <2>1 DEF Advance, Records
  <2>3. Cardinality(Replans') <= run'.replans /\ run'.replans <= MaxReplans
    <3>1. Cardinality(Replans) \in Nat /\ run.replans \in Nat
      BY <2>1, ReplansAfter, FS_CardinalityType DEF TypeOK, IncidentRun
    <3>2. CASE IsReplan(run, to)
      <4>1. Replans' = Replans \cup {Len(run.history) + 1}
        BY <3>2, <2>1, <2>2, ReplansAfter DEF IsReplan
      <4>2. Cardinality(Replans') = Cardinality(Replans) + 1
        BY <4>1, <2>1, ReplansAfter, FS_AddElement
      <4>3. run'.replans = run.replans + 1 /\ run.replans < MaxReplans
        BY <3>2, <2>2 DEF Advanced, AdvanceOK, ReplanAllowed
      <4> QED BY <4>2, <4>3, <3>1, MaxReplansAssumption DEF Bounded
    <3>3. CASE ~IsReplan(run, to)
      <4>1. Replans' = Replans
        BY <3>3, <2>1, <2>2, ReplansAfter DEF IsReplan
      <4>2. run'.replans = run.replans
        BY <3>3, <2>2 DEF Advanced
      <4> QED BY <4>1, <4>2 DEF Bounded
    <3> QED BY <3>2, <3>3
  <2>4. CASE to = "ROLLBACK"
    <3>1. Entries("ROLLBACK") = {} /\ ~run.rolled_back
      BY <2>2, <2>4 DEF AdvanceOK, Bounded
    <3>2. run'.rolled_back
      BY <2>2, <2>4 DEF Advanced
    <3>3. Entries("ROLLBACK")' = {Len(run.history) + 1}
          /\ Entries("EXECUTING")' = Entries("EXECUTING")
      BY <2>1, <2>4, <3>1, EntriesAfter
    <3>4. Entries("EXECUTING") # {}
      BY <2>2, <2>4 DEF AdvanceOK, EdgeAllowed, Edges, HistoryInv, PastOf, OnlyAfterExecution,
         Executed
    <3>5. \A j \in Entries("EXECUTING") : j < Len(run.history) + 1
      BY DEF Entries, TypeOK, IncidentRun
    <3> QED BY <2>3, <3>2, <3>3, <3>4, <3>5 DEF Bounded
  <2>5. CASE to # "ROLLBACK"
    <3>1. run'.rolled_back = run.rolled_back
      BY <2>2, <2>5 DEF Advanced, TypeOK, IncidentRun
    <3>2. Entries("ROLLBACK")' = Entries("ROLLBACK")
          /\ Entries("EXECUTING") \subseteq Entries("EXECUTING")'
      BY <2>1, <2>5, EntriesAfter
    <3> QED BY <2>3, <3>1, <3>2 DEF Bounded
  <2> QED BY <2>4, <2>5
<1>2. ASSUME NEW now \in Time, NEW stage_ttl, NEW approval_ttl,
             Sweep(now, stage_ttl, approval_ttl)
      PROVE  Bounded'
  <2>1. PICK r : Records(r) /\ r.to = "ESCALATED"
    BY <1>2, SweepRecords
  <2>2. Entries("ROLLBACK")' = Entries("ROLLBACK")
        /\ Entries("EXECUTING")' = Entries("EXECUTING") /\ Replans' = Replans
    BY <2>1, EntriesAfter, ReplansAfter
  <2>3. run'.rolled_back = run.rolled_back /\ run'.replans = run.replans
    BY <1>2 DEF Sweep, Swept, TypeOK, IncidentRun
  <2> QED BY <2>2, <2>3 DEF Bounded
<1>3. ASSUME NEW to \in States, NEW permit \in Offer, AdvanceRejected(to, permit)
      PROVE  Bounded'
  <2>1. run'.history = run.history /\ run'.rolled_back = run.rolled_back
        /\ run'.replans = run.replans + 1 /\ run.replans < MaxReplans
    BY <1>3 DEF AdvanceRejected, ReplanSpentByRejection, ReplanAllowed, TypeOK, IncidentRun
  <2>2. \A s : Entries(s)' = Entries(s)
    BY <2>1 DEF Entries
  <2>3. Replans' = Replans
    BY <2>1, <2>2 DEF Replans
  <2>4. Cardinality(Replans) \in Nat
    BY ReplansFinite
  <2>5. run.replans \in Nat
    BY DEF TypeOK, IncidentRun
  <2>6. Entries("ROLLBACK")' = Entries("ROLLBACK")
        /\ Entries("EXECUTING")' = Entries("EXECUTING")
    BY <2>2
  <2> QED BY <2>1, <2>6, <2>3, <2>4, <2>5, MaxReplansAssumption DEF Bounded
<1>4. CASE UNCHANGED run
  BY <1>4 DEF Bounded, Replans, Entries
<1>5. Targets \subseteq States
  BY DEF Targets
<1> QED BY <1>1, <1>2, <1>3, <1>4, <1>5 DEF Next

-----------------------------------------------------------------------------
(* The invariant, and the properties it implies.                           *)

LEMMA InitIInv == Init => IInv
<1> SUFFICES ASSUME Init PROVE IInv
  OBVIOUS
<1>1. run.history = << >> /\ run.state = "NEW" /\ run.replans = 0
      /\ run.rolled_back = FALSE /\ run.permit = NoPermit /\ run.consumed_refs = {}
  BY DEF Init, new_run
<1>2. \A s : Entries(s) = {}
  BY <1>1 DEF Entries
<1>3. Replans = {} /\ Cardinality(Replans) = 0
  BY <1>1, <1>2, FS_EmptySet DEF Replans
<1>4. TypeOK
  BY MaxTimeAssumption DEF Init, new_run, TypeOK, IncidentRun, States, Time
<1>5. Legal /\ Chained /\ Unapproved /\ OneExecution
  BY <1>1, <1>2 DEF Legal, Chained, Unapproved, OneExecution
<1>6. PastOf
  BY <1>1, <1>2 DEF PastOf, Executed, OnlyAfterExecution
<1>7. Bounded
  BY <1>1, <1>2, <1>3, MaxReplansAssumption DEF Bounded
<1>8. PermitAccounted
  BY <1>1, <1>2 DEF PermitAccounted, Executed
<1> QED BY <1>4, <1>5, <1>6, <1>7, <1>8 DEF IInv

LEMMA NextIInv == IInv /\ [Next]_run => IInv'
<1> SUFFICES ASSUME IInv, [Next]_run PROVE IInv'
  OBVIOUS
<1>1. TypeOK /\ HistoryInv /\ PermitAccounted /\ Bounded
  BY DEF IInv, HistoryInv
<1>2. TypeOK' /\ HistoryInv' /\ PermitAccounted' /\ Bounded'
  BY <1>1, TypeStep, HistoryStep, PermitStep, BoundedStep
<1> QED BY <1>2 DEF IInv, HistoryInv

THEOREM InductiveInvariant == Spec => []IInv
BY InitIInv, NextIInv, PTL DEF Spec

\* Type correctness of every run, for every caller.
THEOREM TypeCorrect == Spec => []TypeOK
<1>1. IInv => TypeOK
  BY DEF IInv
<1> QED BY <1>1, InductiveInvariant, PTL

\* No caller of fsm.py reaches EXECUTING around the approval edge, or twice.
THEOREM NoSkipHolds == Spec => []NoSkip
<1>1. IInv => NoSkip
  <2> SUFFICES ASSUME IInv, NEW i \in Entries("EXECUTING")
               PROVE  i - 1 \in Entries("APPROVED")
    BY DEF NoSkip, IInv, OneExecution
  <2>1. i \in DOMAIN run.history /\ run.history[i].to = "EXECUTING"
    BY DEF Entries
  <2>2. run.history[i].frm = "APPROVED"
    BY <2>1 DEF IInv, Legal, LegalRecord, Edges
  <2>3. i # 1 /\ run.history[i].frm = run.history[i - 1].to
    BY <2>1, <2>2 DEF IInv, Chained
  <2>4. i - 1 \in DOMAIN run.history
    BY <2>1, <2>3 DEF IInv, TypeOK, IncidentRun
  <2> QED BY <2>2, <2>3, <2>4 DEF Entries
<1> QED BY <1>1, InductiveInvariant, PTL

\* A permit is held exactly in APPROVED and spent exactly by the execution.
THEOREM PermitAccountedHolds == Spec => []PermitAccounted
<1>1. IInv => PermitAccounted
  BY DEF IInv
<1> QED BY <1>1, InductiveInvariant, PTL

\* A run that was BLOCKED stays BLOCKED and has executed nothing.
THEOREM DeniedNeverExecutesHolds == Spec => []DeniedNeverExecutes
<1>1. IInv => DeniedNeverExecutes
  BY DEF IInv, PastOf, DeniedNeverExecutes, PostApproval
<1> QED BY <1>1, InductiveInvariant, PTL

\* A sweep never escalates a run that was approved or executed.
THEOREM SweepSparesExecutionHolds == Spec => []SweepSparesExecution
<1>1. IInv => SweepSparesExecution
  BY DEF IInv, Unapproved, SweepSparesExecution
<1> QED BY <1>1, InductiveInvariant, PTL

\* VERIFYING follows every EXECUTING and ROLLBACK entry at once.
THEOREM ChangeIsVerifiedHolds == Spec => []ChangeIsVerified
<1>1. IInv => ChangeIsVerified
  <2> SUFFICES ASSUME IInv,
                      NEW i \in Entries("EXECUTING") \cup Entries("ROLLBACK"),
                      i # Len(run.history)
               PROVE  i + 1 \in Entries("VERIFYING")
    BY DEF ChangeIsVerified
  <2>1. /\ i \in DOMAIN run.history /\ i + 1 \in DOMAIN run.history
        /\ (i + 1) - 1 = i /\ i + 1 # 1
        /\ run.history[i].to \in {"EXECUTING", "ROLLBACK"}
    BY DEF Entries, IInv, TypeOK, IncidentRun
  <2>2. run.history[i + 1].frm = run.history[i].to
    BY <2>1 DEF IInv, Chained
  <2>3. LegalRecord(run.history[i + 1])
    BY <2>1 DEF IInv, Legal
  <2>4. run.history[i + 1].to = "VERIFYING"
    BY <2>1, <2>2, <2>3 DEF LegalRecord, Edges, TtlStages
  <2> QED BY <2>1, <2>4 DEF Entries
<1> QED BY <1>1, InductiveInvariant, PTL

\* Re-plans and rollbacks stay within their bounds.
THEOREM BoundedRetriesHolds == Spec => []BoundedRetries
<1>1. IInv => BoundedRetries
  BY DEF IInv, Bounded, BoundedRetries
<1> QED BY <1>1, InductiveInvariant, PTL

-----------------------------------------------------------------------------
(* Correlator: the least of a set of positions, and the insertion.         *)

\* Min of a set of natural numbers is its least.
LEMMA LeastOf ==
  ASSUME NEW T, T \subseteq Nat, T # {}
  PROVE  Min(T) \in T /\ \A y \in T : Min(T) <= y
<1>1. PICK x \in T : \A y \in T : ~(<<y, x>> \in OpToRel(<, Nat))
  BY NatLessThanWellFounded, WFMin
<1>2. \A y \in T : x <= y
  <2>1. \A y \in T : ~(y < x)
    BY <1>1 DEF OpToRel
  <2> QED BY <2>1
<1> QED BY <1>2 DEF Min

\* In the order of the alerts' times.
Chrono(s) == \A i, j \in DOMAIN s : i < j => s[i].ts <= s[j].ts

\* What the insertion does to the places of a sequence.
LEMMA Inserted ==
  ASSUME NEW S, NEW s \in Seq(S), NEW e \in S, NEW k \in 1..(Len(s) + 1)
  PROVE  /\ InsertAt(s, k, e) \in Seq(S)
         /\ Len(InsertAt(s, k, e)) = Len(s) + 1
         /\ \A i \in 1..(Len(s) + 1) :
              InsertAt(s, k, e)[i] = IF i < k THEN s[i] ELSE IF i = k THEN e ELSE s[i - 1]
<1> DEFINE before == SubSeq(s, 1, k - 1)
           after == SubSeq(s, k, Len(s))
           two == before \o <<e>>
<1>1. /\ before \in Seq(S) /\ Len(before) = k - 1
      /\ \A i \in 1..(k - 1) : before[i] = s[i]
  <2>1. \A i \in 1..(k - 1) : s[i] \in S
    OBVIOUS
  <2> QED BY <2>1, SubSeqProperties
<1>2. /\ after \in Seq(S) /\ Len(after) = Len(s) - k + 1
      /\ \A i \in 1..(Len(s) - k + 1) : after[i] = s[k + i - 1]
  <2>1. \A i \in k..Len(s) : s[i] \in S
    OBVIOUS
  <2> QED BY <2>1, SubSeqProperties
<1> HIDE DEF before, after
<1>3. /\ <<e>> \in Seq(S) /\ Len(<<e>>) = 1 /\ <<e>>[1] = e
  OBVIOUS
<1>4. /\ two \in Seq(S) /\ Len(two) = k
      /\ \A i \in 1..k : two[i] = IF i < k THEN s[i] ELSE e
  <2>1. /\ two \in Seq(S) /\ Len(two) = Len(before) + 1
        /\ \A i \in 1..(Len(before) + 1) :
             two[i] = IF i <= Len(before) THEN before[i] ELSE <<e>>[i - Len(before)]
    BY <1>1, <1>3, ConcatProperties
  <2> HIDE DEF two
  <2> QED BY <1>1, <1>3, <2>1
<1> HIDE DEF two
<1>5. /\ two \o after \in Seq(S) /\ Len(two \o after) = Len(two) + Len(after)
      /\ \A i \in 1..(Len(two) + Len(after)) :
           (two \o after)[i] = IF i <= Len(two) THEN two[i] ELSE after[i - Len(two)]
  BY <1>2, <1>4, ConcatProperties
<1>6. InsertAt(s, k, e) = two \o after
  BY DEF InsertAt, two, before, after
<1>7. ASSUME NEW i \in 1..(Len(s) + 1)
      PROVE  InsertAt(s, k, e)[i] = IF i < k THEN s[i] ELSE IF i = k THEN e ELSE s[i - 1]
  <2>1. CASE i <= k
    BY <2>1, <1>2, <1>4, <1>5, <1>6
  <2>2. CASE i > k
    <3>1. i - k \in 1..(Len(s) - k + 1)
      BY <2>2
    <3>2. after[i - k] = s[k + (i - k) - 1]
      BY <3>1, <1>2
    <3> QED BY <2>2, <3>2, <1>2, <1>4, <1>5, <1>6
  <2> QED BY <2>1, <2>2
<1> QED BY <1>2, <1>4, <1>5, <1>6, <1>7

\* A sorted list stays sorted, and keeps its alerts.
LEMMA SortedSorts ==
  ASSUME NEW s \in Seq(Alert), Chrono(s), NEW a \in Alert
  PROVE  Sorted(s, a) \in Seq(Alert) /\ Chrono(Sorted(s, a))
<1> DEFINE later == {i \in DOMAIN s : s[i].ts > a.ts}
           k == Min(later \cup {Len(s) + 1})
<1>1. DOMAIN s = 1..Len(s) /\ Len(s) \in Nat /\ \A i \in DOMAIN s : s[i] \in Alert
  OBVIOUS
<1>2. a.ts \in Nat /\ \A i \in DOMAIN s : s[i].ts \in Nat
  BY <1>1 DEF Alert
<1>3. /\ k \in later \cup {Len(s) + 1}
      /\ \A y \in later \cup {Len(s) + 1} : k <= y
  <2>1. later \cup {Len(s) + 1} \subseteq Nat /\ later \cup {Len(s) + 1} # {}
    BY <1>1
  <2> HIDE DEF later
  <2> QED BY <2>1, LeastOf
<1>4. k \in 1..(Len(s) + 1)
  BY <1>1, <1>3
<1>5. \A i \in DOMAIN s : i < k => s[i].ts <= a.ts
  <2>1. \A i \in DOMAIN s : s[i].ts > a.ts => k <= i
    BY <1>3
  <2> HIDE DEF k
  <2> QED BY <1>1, <1>2, <1>4, <2>1
<1>6. \A i \in DOMAIN s : i >= k => s[i].ts > a.ts
  <2> SUFFICES ASSUME NEW i \in DOMAIN s, i >= k PROVE s[i].ts > a.ts
    OBVIOUS
  <2>1. k \in later
    BY <1>1, <1>3, <1>4
  <2>2. k = i \/ s[k].ts <= s[i].ts
    BY <1>1, <1>4, <2>1 DEF Chrono
  <2> QED BY <1>1, <1>2, <2>1, <2>2
<1>7. Sorted(s, a) = InsertAt(s, k, a)
  BY DEF Sorted
<1> HIDE DEF k, later
<1>8. /\ InsertAt(s, k, a) \in Seq(Alert) /\ Len(InsertAt(s, k, a)) = Len(s) + 1
      /\ \A i \in 1..(Len(s) + 1) :
           InsertAt(s, k, a)[i] = IF i < k THEN s[i] ELSE IF i = k THEN a ELSE s[i - 1]
  <2> DEFINE Fits(t, n) ==
        /\ t \in Seq(Alert) /\ Len(t) = Len(s) + 1
        /\ \A i \in 1..(Len(s) + 1) : t[i] = IF i < n THEN s[i] ELSE IF i = n THEN a ELSE s[i - 1]
  <2>1. \A n \in 1..(Len(s) + 1) : Fits(InsertAt(s, n, a), n)
    <3> SUFFICES ASSUME NEW n \in 1..(Len(s) + 1) PROVE Fits(InsertAt(s, n, a), n)
      OBVIOUS
    <3> QED BY Inserted
  <2> HIDE DEF Fits
  <2>2. Fits(InsertAt(s, k, a), k)
    BY <1>4, <2>1
  <2> QED BY <2>2 DEF Fits
<1>9. Chrono(InsertAt(s, k, a))
  <2> DEFINE t == InsertAt(s, k, a)
  <2> HIDE DEF t
  <2>1. t \in Seq(Alert) /\ DOMAIN t = 1..(Len(s) + 1)
    BY <1>8 DEF t
  <2> SUFFICES ASSUME NEW i \in 1..(Len(s) + 1), NEW j \in 1..(Len(s) + 1), i < j
               PROVE  t[i].ts <= t[j].ts
    BY <2>1 DEF Chrono, t
  <2>2. /\ t[i] = IF i < k THEN s[i] ELSE IF i = k THEN a ELSE s[i - 1]
        /\ t[j] = IF j < k THEN s[j] ELSE IF j = k THEN a ELSE s[j - 1]
    BY <1>8 DEF t
  <2>3. CASE j < k
    BY <2>2, <2>3, <1>1, <1>4 DEF Chrono
  <2>4. CASE j = k
    BY <2>2, <2>4, <1>1, <1>4, <1>5
  <2>5. CASE j > k /\ i < k
    <3>1. t[i] = s[i] /\ t[j] = s[j - 1] /\ i \in DOMAIN s /\ j - 1 \in DOMAIN s /\ j - 1 >= k
      BY <2>2, <2>5, <1>1, <1>4
    <3>2. s[i].ts <= a.ts /\ s[j - 1].ts > a.ts
      BY <3>1, <2>5, <1>5, <1>6
    <3> QED BY <3>1, <3>2, <1>2
  <2>6. CASE j > k /\ i = k
    <3>1. t[i] = a /\ t[j] = s[j - 1] /\ j - 1 \in DOMAIN s /\ j - 1 >= k
      BY <2>2, <2>6, <1>1, <1>4
    <3>2. s[j - 1].ts > a.ts
      BY <3>1, <1>6
    <3> QED BY <3>1, <3>2, <1>2
  <2>7. CASE j > k /\ i > k
    <3>1. t[i] = s[i - 1] /\ t[j] = s[j - 1] /\ i - 1 \in DOMAIN s /\ j - 1 \in DOMAIN s
      BY <2>2, <2>7, <1>1, <1>4
    <3> QED BY <3>1 DEF Chrono
  <2> QED BY <2>3, <2>4, <2>5, <2>6, <2>7, <1>4
<1> QED BY <1>7, <1>8, <1>9

-----------------------------------------------------------------------------
(* Thinning.                                                               *)

\* The alerts are sorted, and what is kept or suppressed came before what is
\* left to be looked at.
SortInv ==
  /\ pc \in {"normalize", "correlate", "refused", "returned"}
  /\ given \in Seq(Raw)
  /\ canon \in Seq(Alert) /\ unique \in Seq(Alert) /\ suppressed \in Seq(Alert)
  /\ Chrono(canon)
  /\ \A i \in DOMAIN unique, j \in DOMAIN canon : unique[i].ts <= canon[j].ts
  /\ pc = "normalize" => unique = << >> /\ suppressed = << >>

\* What normalize_alert accepts becomes an alert.
LEMMA NormalizedType ==
  ASSUME given \in Seq(Raw), given # << >>, Accepted(Head(given))
  PROVE  Normalized(Head(given)) \in Alert
<1> DEFINE r == Head(given)
<1>1. r \in Raw /\ Len(given) \in Nat
  OBVIOUS
<1>2. Accepted(r)
  OBVIOUS
<1> HIDE DEF r
<1>3. /\ r.id \in Nat /\ (r.service = "missing" \/ r.service \in Service) /\ r.signature \in SUBSET STRING
      /\ r.env \in Env /\ r.ts \in Nat \cup {Missing}
  BY <1>1, <1>2 DEF Raw, Accepted
<1>4. Arrival \in Nat
  BY CapAssumption
<1>5. /\ (IF r.id = Blank THEN -Len(given) ELSE r.id) \in Int
      /\ (IF r.service = "missing" THEN "unknown" ELSE r.service) \in Service
      /\ (IF r.ts = Missing THEN Arrival ELSE r.ts) \in Nat
  <2>1. (IF r.id = Blank THEN -Len(given) ELSE r.id) \in Int
    BY <1>1, <1>3
  <2>2. (IF r.service = "missing" THEN "unknown" ELSE r.service) \in Service
    BY <1>3, ServiceAssumption
  <2>3. (IF r.ts = Missing THEN Arrival ELSE r.ts) \in Nat
    BY <1>3, <1>4
  <2> QED BY <2>1, <2>2, <2>3
<1> QED BY <1>3, <1>5 DEF Normalized, Alert, r

LEMMA InitSort == CorInit => SortInv
<1> SUFFICES ASSUME CorInit PROVE SortInv
  OBVIOUS
<1>1. given \in Seq(Raw)
  BY BatchesAssumption DEF CorInit
<1>2. << >> \in Seq(Alert) /\ DOMAIN << >> = {}
  OBVIOUS
<1> QED BY <1>1, <1>2 DEF CorInit, SortInv, Chrono

\* Thinning takes the first alert and judges it.
LEMMA DeduplicateSort ==
  ASSUME SortInv, Deduplicate
  PROVE  SortInv'
<1> DEFINE a == Head(canon)
<1>1. /\ canon \in Seq(Alert) /\ canon # << >> /\ canon' = Tail(canon)
      /\ unique \in Seq(Alert) /\ suppressed \in Seq(Alert) /\ Chrono(canon)
      /\ \A i \in DOMAIN unique, j \in DOMAIN canon : unique[i].ts <= canon[j].ts
  BY DEF SortInv, Deduplicate
<1>2. /\ a \in Alert /\ a = canon[1] /\ Len(canon) \in Nat \ {0}
      /\ Tail(canon) \in Seq(Alert) /\ Len(Tail(canon)) = Len(canon) - 1
      /\ \A i \in 1..(Len(canon) - 1) : Tail(canon)[i] = canon[i + 1]
  BY <1>1
<1>3. Chrono(canon')
  BY <1>1, <1>2 DEF Chrono
<1>4. \A j \in DOMAIN canon' : a.ts <= canon'[j].ts /\ \E k \in DOMAIN canon : canon'[j] = canon[k]
  <2> DEFINE t == Tail(canon)
  <2> HIDE DEF a, t
  <2>1. DOMAIN t = 1..(Len(canon) - 1) /\ DOMAIN canon = 1..Len(canon)
    BY <1>1, <1>2 DEF t
  <2>2. \A j \in DOMAIN t : t[j] = canon[j + 1] /\ j + 1 \in DOMAIN canon /\ 1 \in DOMAIN canon /\ 1 < j + 1
    BY <1>2, <2>1 DEF t
  <2>3. \A j \in DOMAIN t : a.ts <= t[j].ts /\ \E k \in DOMAIN canon : t[j] = canon[k]
    BY <1>1, <1>2, <2>2 DEF Chrono
  <2> QED BY <1>1, <2>3 DEF t
<1>5. CASE unique' = unique /\ suppressed' = Append(suppressed, a)
  <2>1. suppressed' \in Seq(Alert) /\ unique' \in Seq(Alert)
    BY <1>1, <1>2, <1>5
  <2>2. \A i \in DOMAIN unique', j \in DOMAIN canon' : unique'[i].ts <= canon'[j].ts
    BY <1>1, <1>4, <1>5
  <2> QED BY <1>1, <1>2, <1>3, <2>1, <2>2 DEF SortInv, Deduplicate
<1>6. CASE unique' = Append(unique, a) /\ suppressed' = suppressed
  <2>1. suppressed' \in Seq(Alert) /\ unique' \in Seq(Alert)
    BY <1>1, <1>2, <1>6
  <2>2. /\ DOMAIN unique' = 1..(Len(unique) + 1) /\ DOMAIN unique = 1..Len(unique)
        /\ \A i \in 1..Len(unique) : unique'[i] = unique[i]
        /\ unique'[Len(unique) + 1] = a
    BY <1>1, <1>2, <1>6
  <2>3. ASSUME NEW i \in DOMAIN unique', NEW j \in DOMAIN canon'
        PROVE  unique'[i].ts <= canon'[j].ts
    <3>1. CASE i = Len(unique) + 1
      BY <3>1, <2>2, <1>4
    <3>2. CASE i # Len(unique) + 1
      <4>1. PICK k \in DOMAIN canon : canon'[j] = canon[k]
        BY <1>4
      <4>2. i \in DOMAIN unique /\ unique'[i] = unique[i]
        BY <3>2, <2>2, <1>1
      <4>3. unique[i].ts <= canon[k].ts
        BY <4>2, <1>1
      <4> QED BY ONLY <4>1, <4>2, <4>3
    <3> QED BY <3>1, <3>2
  <2> QED BY <1>1, <1>2, <1>3, <2>1, <2>3 DEF SortInv, Deduplicate
<1> QED BY <1>5, <1>6 DEF Deduplicate

LEMMA NextSort == SortInv /\ [CorNext]_vars => SortInv'
<1> SUFFICES ASSUME SortInv, [CorNext]_vars PROVE SortInv'
  OBVIOUS
<1>1. CASE NormalizeAlert
  <2>1. Tail(given) \in Seq(Raw) /\ given # << >>
    BY <1>1 DEF SortInv, NormalizeAlert
  <2>2. canon' \in Seq(Alert) /\ Chrono(canon')
    <3>1. CASE Accepted(Head(given))
      BY <3>1, <1>1, <2>1, NormalizedType, SortedSorts DEF SortInv, NormalizeAlert
    <3>2. CASE ~Accepted(Head(given))
      BY <3>2, <1>1 DEF SortInv, NormalizeAlert
    <3> QED BY <3>1, <3>2
  <2>3. unique' = << >> /\ suppressed' = << >> /\ pc' \in {"normalize", "refused"}
    BY <1>1 DEF SortInv, NormalizeAlert
  <2> QED BY <1>1, <2>1, <2>2, <2>3 DEF SortInv, NormalizeAlert
<1>2. CASE NormalizeRecord
  BY <1>2 DEF SortInv, NormalizeRecord
<1>3. CASE Correlate
  BY <1>3 DEF SortInv, Correlate
<1>4. CASE Deduplicate
  BY <1>4, DeduplicateSort
<1>5. CASE Group
  BY <1>5 DEF SortInv, Group
<1>6. CASE Return
  BY <1>6 DEF SortInv, Return
<1>7. CASE UNCHANGED vars
  BY <1>7 DEF SortInv, vars
<1> QED BY <1>1, <1>2, <1>3, <1>4, <1>5, <1>6, <1>7 DEF CorNext

\* A storm is thinned, never swallowed.
LEMMA NextStorm == SortInv /\ StormIsReported /\ [CorNext]_vars => StormIsReported'
<1> SUFFICES ASSUME SortInv, StormIsReported, [CorNext]_vars PROVE StormIsReported'
  OBVIOUS
<1>1. CASE Deduplicate
  <2> DEFINE a == Head(canon)
  <2>1. /\ a \in Alert /\ unique \in Seq(Alert) /\ suppressed \in Seq(Alert)
        /\ \A i \in DOMAIN unique : unique[i].ts <= a.ts
    BY <1>1 DEF SortInv, Deduplicate
  <2>2. /\ \A i \in DOMAIN unique : unique[i].ts \in Nat
        /\ a.ts \in Nat
    <3> HIDE DEF a
    <3>1. \A x \in Alert : x.ts \in Nat
      BY DEF Alert
    <3>2. \A i \in DOMAIN unique : unique[i] \in Alert
      BY <2>1
    <3> QED BY <2>1, <3>1, <3>2
  <2>3. CASE Seen(a.id) \/ Recent(a)
    <3>1. unique' = unique /\ suppressed' = Append(suppressed, a)
      BY <1>1, <2>3 DEF Deduplicate
    <3>2. \E b \in ToSet(unique) : b.id = a.id \/ (Key(b) = Key(a) /\ b.ts <= a.ts /\ a.ts - b.ts <= 5)
      <4>1. CASE Seen(a.id)
        BY <4>1 DEF Seen, ToSet
      <4>2. CASE Recent(a)
        BY <4>2, <2>1 DEF Recent, ToSet, DedupWindow
      <4> QED BY <4>1, <4>2, <2>3
    <3>3. \A x \in ToSet(suppressed') : x \in ToSet(suppressed) \/ x = a
      BY <2>1, <3>1 DEF ToSet
    <3> HIDE DEF a
    <3>4. \A x \in ToSet(suppressed') : \E b \in ToSet(unique') :
            b.id = x.id \/ (Key(b) = Key(x) /\ b.ts <= x.ts /\ x.ts - b.ts <= 5)
      BY <3>1, <3>2, <3>3 DEF StormIsReported
    <3> QED BY <3>1, <3>4 DEF StormIsReported
  <2>4. CASE ~(Seen(a.id) \/ Recent(a))
    <3>1. unique' = Append(unique, a) /\ suppressed' = suppressed
      BY <1>1, <2>4 DEF Deduplicate
    <3>2. /\ DOMAIN unique' = 1..(Len(unique) + 1) /\ DOMAIN unique = 1..Len(unique)
          /\ Len(unique) \in Nat
          /\ \A i \in 1..Len(unique) : unique'[i] = unique[i]
          /\ unique'[Len(unique) + 1] = a
      BY <2>1, <3>1
    <3>3. ToSet(unique) \subseteq ToSet(unique')
      BY <3>2 DEF ToSet
    <3>4. \A i \in DOMAIN unique : unique[i].id # a.id
                                   /\ (Key(unique[i]) = Key(a) => a.ts - unique[i].ts > 5)
      BY <2>4, <2>1, <2>2 DEF Seen, Recent, ToSet, DedupWindow
    <3> HIDE DEF a
    <3>5. ASSUME NEW i \in DOMAIN unique', NEW j \in DOMAIN unique', i < j
          PROVE  /\ unique'[i].id # unique'[j].id
                 /\ Key(unique'[i]) = Key(unique'[j]) => unique'[j].ts - unique'[i].ts > 5
      <4>1. CASE j = Len(unique) + 1
        BY <4>1, <3>2, <3>4, <3>5
      <4>2. CASE j # Len(unique) + 1
        <5>1. i \in DOMAIN unique /\ j \in DOMAIN unique /\ unique'[i] = unique[i] /\ unique'[j] = unique[j]
          BY <4>2, <3>2, <3>5
        <5> QED BY <5>1, <3>5 DEF StormIsReported
      <4> QED BY <4>1, <4>2
    <3>6. \A x \in ToSet(suppressed') : \E b \in ToSet(unique') :
            b.id = x.id \/ (Key(b) = Key(x) /\ b.ts <= x.ts /\ x.ts - b.ts <= 5)
      BY <3>1, <3>3 DEF StormIsReported
    <3> QED BY <3>5, <3>6 DEF StormIsReported
  <2> QED BY <2>3, <2>4
<1>2. CASE UNCHANGED <<unique, suppressed>>
  BY <1>2 DEF StormIsReported
<1> QED BY <1>1, <1>2 DEF CorNext, vars, NormalizeAlert, NormalizeRecord, Correlate, Group, Return

LEMMA InitStorm == CorInit => StormIsReported
<1>1. DOMAIN << >> = {} /\ ToSet(<< >>) = {}
  BY DEF ToSet
<1> QED BY <1>1 DEF CorInit, StormIsReported

-----------------------------------------------------------------------------
(* Grouping.                                                               *)

GroupRecord ==
  [service : Service, signature : SUBSET STRING, env : Env,
   fp : {Fingerprint(a) : a \in Alert}, alerts : Seq(Alert), last : Nat,
   keys : SUBSET {Key(a) : a \in Alert}]

\* Nothing is grouped before everything is thinned.
GroupInv ==
  /\ groups \in Seq(GroupRecord)
  /\ turn \in 0..Len(unique)
  /\ canon # << >> \/ pc \notin {"correlate", "returned"} => turn = 0 /\ groups = << >>

\* The alert belongs to the group it is in, the p-th of it.
Belongs(g, p) ==
  LET a == g.alerts[p] IN
  \/ Fingerprint(a) = g.fp
  \/ /\ {a.service, g.service} \in context.edges
     /\ p > 1 /\ a.ts - g.alerts[p - 1].ts <= 600

\* The groups have no empty member and know their last alert; they hold the
\* alerts of the turns so far, each in one place, where it belongs.
PlaceInv ==
  /\ \A i \in DOMAIN groups :
       LET s == groups[i].alerts IN s # << >> /\ groups[i].last = s[Len(s)].ts
  /\ \A i \in DOMAIN groups : \A p \in DOMAIN groups[i].alerts :
       \E k \in 1..turn : groups[i].alerts[p] = unique[k]
  /\ \A k \in 1..turn : \E i \in DOMAIN groups : \E p \in DOMAIN groups[i].alerts :
       groups[i].alerts[p] = unique[k]
  /\ \A i, j \in DOMAIN groups :
       \A p \in DOMAIN groups[i].alerts, q \in DOMAIN groups[j].alerts :
         groups[i].alerts[p] = groups[j].alerts[q] => i = j /\ p = q
  /\ \A i \in DOMAIN groups : \A p \in DOMAIN groups[i].alerts : Belongs(groups[i], p)

\* What is returned is what the groups hold.
ReturnInv ==
  /\ pc # "returned" => incidents = << >>
  /\ pc = "returned" =>
       /\ turn = Len(unique) /\ DOMAIN incidents = DOMAIN groups
       /\ \A i \in DOMAIN groups :
            /\ incidents[i].count = Len(groups[i].alerts)
            /\ incidents[i].ids = Stored(groups[i])

\* An alert opens a group or joins one.
LEMMA JoinedType ==
  ASSUME NEW a \in Alert, NEW g, g \in GroupRecord \/ g = Opened(a)
  PROVE  /\ Joined(g, a) \in GroupRecord
         /\ g.alerts \in Seq(Alert) /\ Joined(g, a).alerts = Append(g.alerts, a)
         /\ Joined(g, a).last = a.ts
         /\ Joined(g, a).fp = g.fp /\ Joined(g, a).service = g.service
<1> DEFINE fps == {Fingerprint(b) : b \in Alert}
           ks == {Key(b) : b \in Alert}
           R == [service : Service, signature : SUBSET STRING, env : Env,
                 fp : fps, alerts : Seq(Alert), last : Nat, keys : SUBSET ks]
<1>1. Fingerprint(a) \in fps /\ Key(a) \in ks
  OBVIOUS
<1>2. a.service \in Service /\ a.signature \in SUBSET STRING /\ a.env \in Env /\ a.ts \in Nat
  BY DEF Alert
<1>3. GroupRecord = R
  BY DEF GroupRecord
<1> HIDE DEF fps, ks
<1>4. Opened(a) \in R
  <2>1. << >> \in Seq(Alert) /\ 0 \in Nat /\ {} \in SUBSET ks
    OBVIOUS
  <2> QED BY <1>1, <1>2, <2>1 DEF Opened
<1>5. g \in R
  BY <1>3, <1>4
<1>6. Append(g.alerts, a) \in Seq(Alert) /\ g.keys \cup {Key(a)} \in SUBSET ks /\ g.alerts \in Seq(Alert)
  BY <1>1, <1>5
<1> QED BY <1>2, <1>3, <1>5, <1>6 DEF Joined

\* The place of an alert is a group it belongs to, or a new one.
LEMMA PlaceFits ==
  ASSUME groups \in Seq(GroupRecord), NEW a \in Alert
  PROVE  /\ Place(a) \in 1..(Len(groups) + 1)
         /\ Place(a) \in DOMAIN groups =>
              Merges(a, groups[Place(a)]) \/ groups[Place(a)].fp = Fingerprint(a)
<1> DEFINE merged == {i \in DOMAIN groups : Merges(a, groups[i])}
           own == {i \in DOMAIN groups : groups[i].fp = Fingerprint(a)}
<1>1. DOMAIN groups = 1..Len(groups) /\ Len(groups) \in Nat
  OBVIOUS
<1>2. merged \subseteq Nat /\ own \subseteq Nat
  BY <1>1
<1>3. CASE merged # {}
  <2>1. Min(merged) \in merged
    BY <1>2, <1>3, LeastOf
  <2>2. Place(a) = Min(merged)
    BY <1>3 DEF Place
  <2> QED BY <1>1, <2>1, <2>2
<1>4. CASE merged = {} /\ own # {}
  <2>1. Min(own) \in own
    BY <1>2, <1>4, LeastOf
  <2>2. Place(a) = Min(own)
    BY <1>4 DEF Place
  <2> QED BY <1>1, <2>1, <2>2
<1>5. CASE merged = {} /\ own = {}
  <2>1. Place(a) = Len(groups) + 1
    BY <1>5 DEF Place
  <2> QED BY <1>1, <2>1
<1> QED BY <1>3, <1>4, <1>5

\* What one turn of the loop does: the i-th group gets the alert at its end.
Turned(a, i, old) ==
  /\ i \in 1..(Len(groups) + 1)
  /\ old \in Seq(Alert)
  /\ i \in DOMAIN groups => old = groups[i].alerts /\ old # << >>
  /\ i \notin DOMAIN groups => old = << >>
  /\ groups' \in Seq(GroupRecord)
  /\ DOMAIN groups' = DOMAIN groups \cup {i}
  /\ \A j \in DOMAIN groups : j # i => groups'[j] = groups[j]
  /\ groups'[i].alerts = Append(old, a) /\ groups'[i].last = a.ts
  /\ i \in DOMAIN groups => groups'[i].fp = groups[i].fp /\ groups'[i].service = groups[i].service
  /\ \/ groups'[i].fp = Fingerprint(a)
     \/ i \in DOMAIN groups /\ Merges(a, groups[i])

LEMMA GroupTurn ==
  ASSUME SortInv, GroupInv, PlaceInv, Group
  PROVE  /\ turn + 1 \in DOMAIN unique /\ unique[turn + 1] \in Alert
         /\ \E i, old : Turned(unique[turn + 1], i, old)
<1> DEFINE a == unique[turn + 1]
           i == Place(a)
<1>1. turn + 1 \in 1..Len(unique) /\ DOMAIN unique = 1..Len(unique) /\ a \in Alert
  BY DEF SortInv, GroupInv, Group
<1>2. groups \in Seq(GroupRecord) /\ DOMAIN groups = 1..Len(groups) /\ Len(groups) \in Nat
  BY DEF GroupInv
<1>3. groups' = IF i \in DOMAIN groups THEN [groups EXCEPT ![i] = Joined(@, a)]
                ELSE Append(groups, Joined(Opened(a), a))
  BY DEF Group
<1> HIDE DEF a
<1>4. i \in 1..(Len(groups) + 1)
      /\ (i \in DOMAIN groups => Merges(a, groups[i]) \/ groups[i].fp = Fingerprint(a))
  BY <1>1, <1>2, PlaceFits
<1> HIDE DEF i
<1>5. CASE i \in DOMAIN groups
  <2> DEFINE g == groups[i]
             h == Joined(g, a)
  <2>1. g \in GroupRecord /\ g.alerts # << >>
    BY <1>2, <1>5 DEF PlaceInv
  <2>2. /\ h \in GroupRecord /\ g.alerts \in Seq(Alert) /\ h.alerts = Append(g.alerts, a)
        /\ h.last = a.ts /\ h.fp = g.fp /\ h.service = g.service
    <3> HIDE DEF g
    <3> QED BY <1>1, <2>1, JoinedType
  <2>3. groups' = [groups EXCEPT ![i] = h]
    BY <1>3, <1>5
  <2> HIDE DEF h
  <2>4. /\ groups' \in Seq(GroupRecord) /\ DOMAIN groups' = DOMAIN groups
        /\ groups'[i] = h /\ \A j \in DOMAIN groups : j # i => groups'[j] = groups[j]
    BY <1>2, <1>5, <2>2, <2>3, ExceptSeq
  <2>5. Turned(a, i, g.alerts)
    BY <1>4, <1>5, <2>1, <2>2, <2>4 DEF Turned
  <2> QED BY <1>1, <2>5 DEF a
<1>6. CASE i \notin DOMAIN groups
  <2> DEFINE h == Joined(Opened(a), a)
  <2>1. i = Len(groups) + 1
    BY <1>2, <1>4, <1>6
  <2>2. /\ h \in GroupRecord /\ h.alerts = Append(Opened(a).alerts, a)
        /\ h.last = a.ts /\ h.fp = Opened(a).fp
    BY <1>1, JoinedType
  <2>3. Opened(a).alerts = << >> /\ Opened(a).fp = Fingerprint(a)
    BY DEF Opened
  <2>4. groups' = Append(groups, h)
    BY <1>3, <1>6
  <2> HIDE DEF h
  <2>5. /\ groups' \in Seq(GroupRecord) /\ DOMAIN groups' = DOMAIN groups \cup {i}
        /\ groups'[i] = h /\ \A j \in DOMAIN groups : j # i => groups'[j] = groups[j]
    BY <1>2, <2>1, <2>2, <2>4
  <2>6. Turned(a, i, << >>)
    BY <1>4, <1>6, <2>2, <2>3, <2>5 DEF Turned
  <2> QED BY <1>1, <2>6 DEF a
<1> QED BY <1>5, <1>6

\* The deploys do not change: neither do the fingerprints.
LEMMA SameContext ==
  ASSUME UNCHANGED context
  PROVE  (\A a : Fingerprint(a)' = Fingerprint(a)) /\ GroupRecord' = GroupRecord
<1>1. ASSUME NEW a PROVE Fingerprint(a)' = Fingerprint(a)
  BY DEF Fingerprint, DeployOf
<1>2. GroupRecord' = GroupRecord
  BY DEF GroupRecord, Fingerprint, DeployOf, Key
<1> QED BY <1>1, <1>2

\* The place (j, p) holds after the turn what it held before.
Stays(j, p) ==
  /\ j \in DOMAIN groups /\ p \in DOMAIN groups[j].alerts
  /\ j \in DOMAIN groups' /\ p \in DOMAIN groups'[j].alerts
  /\ groups'[j].alerts[p] = groups[j].alerts[p]
  /\ groups'[j].fp = groups[j].fp /\ groups'[j].service = groups[j].service
  /\ p > 1 => p - 1 \in DOMAIN groups[j].alerts /\ groups'[j].alerts[p - 1] = groups[j].alerts[p - 1]

\* A turn keeps every place and adds one at the end of a group.
LEMMA TurnPlaces ==
  ASSUME groups \in Seq(GroupRecord), NEW a \in Alert, NEW i, NEW old, Turned(a, i, old)
  PROVE  /\ \A j \in DOMAIN groups : \A p \in DOMAIN groups[j].alerts : Stays(j, p)
         /\ \A j \in DOMAIN groups' : \A p \in DOMAIN groups'[j].alerts :
              Stays(j, p) \/ (j = i /\ p = Len(old) + 1)
         /\ i \in DOMAIN groups' /\ Len(old) + 1 \in DOMAIN groups'[i].alerts
         /\ groups'[i].alerts[Len(old) + 1] = a
<1>1. /\ old \in Seq(Alert) /\ Len(old) \in Nat /\ DOMAIN old = 1..Len(old)
      /\ groups'[i].alerts = Append(old, a)
      /\ i \in DOMAIN groups => old = groups[i].alerts
      /\ i \notin DOMAIN groups => old = << >>
      /\ DOMAIN groups' = DOMAIN groups \cup {i}
      /\ \A j \in DOMAIN groups : j # i => groups'[j] = groups[j]
      /\ i \in DOMAIN groups => groups'[i].fp = groups[i].fp /\ groups'[i].service = groups[i].service
  BY DEF Turned
<1>2. /\ DOMAIN Append(old, a) = 1..(Len(old) + 1)
      /\ \A p \in 1..Len(old) : Append(old, a)[p] = old[p]
      /\ Append(old, a)[Len(old) + 1] = a
  BY <1>1
<1>3. \A j \in DOMAIN groups : groups[j].alerts \in Seq(Alert)
  <2>1. \A g \in GroupRecord : g.alerts \in Seq(Alert)
    BY DEF GroupRecord
  <2> QED BY <2>1
<1>4. ASSUME NEW j \in DOMAIN groups, NEW p \in DOMAIN groups[j].alerts
      PROVE  Stays(j, p)
  <2>1. p \in 1..Len(groups[j].alerts) /\ Len(groups[j].alerts) \in Nat
    BY <1>3
  <2>2. p > 1 => p - 1 \in DOMAIN groups[j].alerts
    BY <1>3, <2>1
  <2>3. CASE j # i
    BY <1>1, <2>2, <2>3 DEF Stays
  <2>4. CASE j = i
    <3>1. old = groups[i].alerts /\ p \in 1..Len(old) /\ (p > 1 => p - 1 \in 1..Len(old))
      BY <1>1, <1>4, <2>1, <2>2, <2>4
    <3>2. p \in DOMAIN groups'[i].alerts /\ groups'[i].alerts[p] = old[p]
          /\ (p > 1 => groups'[i].alerts[p - 1] = old[p - 1])
      BY <1>1, <1>2, <3>1
    <3> QED BY <1>1, <1>4, <2>2, <2>4, <3>1, <3>2 DEF Stays
  <2> QED BY <2>3, <2>4
<1>5. ASSUME NEW j \in DOMAIN groups', NEW p \in DOMAIN groups'[j].alerts
      PROVE  Stays(j, p) \/ (j = i /\ p = Len(old) + 1)
  <2>1. CASE j # i
    <3>1. j \in DOMAIN groups /\ p \in DOMAIN groups[j].alerts
      BY <1>1, <1>5, <2>1
    <3> QED BY <1>4, <3>1
  <2>2. CASE j = i /\ p # Len(old) + 1
    <3>1. p \in 1..Len(old)
      BY <1>1, <1>2, <1>5, <2>2
    <3>2. i \in DOMAIN groups /\ old = groups[i].alerts
      BY <1>1, <3>1
    <3>3. p \in DOMAIN groups[i].alerts
      BY <1>1, <3>1, <3>2
    <3> QED BY <1>4, <2>2, <3>2, <3>3
  <2> QED BY <2>1, <2>2
<1> QED BY <1>1, <1>2, <1>4, <1>5

\* One turn puts the next alert where it belongs.
LEMMA GroupPlace ==
  ASSUME SortInv, StormIsReported, GroupInv, PlaceInv, Group
  PROVE  PlaceInv'
<1> DEFINE a == unique[turn + 1]
<1>1. /\ turn' = turn + 1 /\ unique' = unique /\ context' = context
      /\ turn \in Nat /\ groups \in Seq(GroupRecord)
  BY DEF Group, GroupInv, SortInv
<1>2. turn + 1 \in DOMAIN unique /\ a \in Alert /\ unique \in Seq(Alert)
  BY GroupTurn DEF SortInv
<1>3. PICK i, old : Turned(a, i, old)
  BY GroupTurn
<1>4. \A k \in 1..turn : unique[k] # a
  <2>1. \A k \in 1..turn : k \in DOMAIN unique /\ k < turn + 1
    BY <1>1, <1>2
  <2> QED BY <1>2, <2>1 DEF StormIsReported
<1>5. \A x : Fingerprint(x)' = Fingerprint(x)
  BY <1>1, SameContext
<1> HIDE DEF a
<1> DEFINE n == Len(old) + 1
<1>6. /\ \A j \in DOMAIN groups : \A p \in DOMAIN groups[j].alerts : Stays(j, p)
      /\ \A j \in DOMAIN groups' : \A p \in DOMAIN groups'[j].alerts : Stays(j, p) \/ (j = i /\ p = n)
      /\ i \in DOMAIN groups' /\ n \in DOMAIN groups'[i].alerts /\ groups'[i].alerts[n] = a
  BY <1>1, <1>2, <1>3, TurnPlaces
<1>7. /\ old \in Seq(Alert) /\ Len(old) \in Nat /\ n \in Nat /\ n = Len(old) + 1
      /\ groups'[i].alerts = Append(old, a) /\ groups'[i].last = a.ts
      /\ DOMAIN groups' = DOMAIN groups \cup {i}
      /\ \A j \in DOMAIN groups : j # i => groups'[j] = groups[j]
      /\ i \in DOMAIN groups => /\ old = groups[i].alerts /\ old # << >>
                                /\ groups'[i].service = groups[i].service
      /\ \/ groups'[i].fp = Fingerprint(a)
         \/ i \in DOMAIN groups /\ Merges(a, groups[i])
  BY <1>3 DEF Turned
<1> HIDE DEF n
<1>8. ASSUME NEW j \in DOMAIN groups'
      PROVE  groups'[j].alerts # << >> /\ groups'[j].last = groups'[j].alerts[Len(groups'[j].alerts)].ts
  <2>1. CASE j = i
    <3>1. Append(old, a) # << >> /\ Append(old, a)[Len(Append(old, a))] = a
      BY <1>2, <1>7
    <3> QED BY <1>7, <2>1, <3>1
  <2>2. CASE j # i
    BY <1>7, <1>8, <2>2 DEF PlaceInv
  <2> QED BY <2>1, <2>2
<1>9. ASSUME NEW j \in DOMAIN groups', NEW p \in DOMAIN groups'[j].alerts
      PROVE  \E k \in 1..(turn + 1) : groups'[j].alerts[p] = unique[k]
  <2>1. CASE Stays(j, p)
    <3>1. \E k \in 1..turn : groups[j].alerts[p] = unique[k]
      BY <2>1 DEF Stays, PlaceInv
    <3> QED BY <1>1, <2>1, <3>1 DEF Stays
  <2>2. CASE j = i /\ p = n
    BY <1>1, <1>6, <2>2 DEF a
  <2> QED BY <1>6, <2>1, <2>2
<1>10. ASSUME NEW k \in 1..(turn + 1)
       PROVE  \E j \in DOMAIN groups' : \E p \in DOMAIN groups'[j].alerts : groups'[j].alerts[p] = unique[k]
  <2>1. CASE k = turn + 1
    BY <1>6, <2>1 DEF a
  <2>2. CASE k # turn + 1
    <3>1. k \in 1..turn
      BY <1>1, <2>2
    <3>2. PICK j \in DOMAIN groups : \E p \in DOMAIN groups[j].alerts : groups[j].alerts[p] = unique[k]
      BY <3>1 DEF PlaceInv
    <3>3. PICK p \in DOMAIN groups[j].alerts : groups[j].alerts[p] = unique[k]
      BY <3>2
    <3>4. Stays(j, p)
      BY <1>6
    <3> QED BY <3>3, <3>4 DEF Stays
  <2> QED BY <2>1, <2>2
<1>11. ASSUME NEW j, NEW p, Stays(j, p) PROVE groups'[j].alerts[p] # a
  <2>1. \E k \in 1..turn : groups[j].alerts[p] = unique[k]
    BY <1>11 DEF Stays, PlaceInv
  <2> QED BY <1>4, <1>11, <2>1 DEF Stays
<1>12. ASSUME NEW j \in DOMAIN groups', NEW l \in DOMAIN groups',
              NEW p \in DOMAIN groups'[j].alerts, NEW q \in DOMAIN groups'[l].alerts,
              groups'[j].alerts[p] = groups'[l].alerts[q]
       PROVE  j = l /\ p = q
  <2>1. CASE Stays(j, p) /\ Stays(l, q)
    <3>1. /\ j \in DOMAIN groups /\ p \in DOMAIN groups[j].alerts
          /\ l \in DOMAIN groups /\ q \in DOMAIN groups[l].alerts
          /\ groups[j].alerts[p] = groups[l].alerts[q]
      BY <1>12, <2>1 DEF Stays
    <3> QED BY <3>1 DEF PlaceInv
  <2>2. CASE Stays(j, p) /\ l = i /\ q = n
    BY <1>6, <1>11, <1>12, <2>2
  <2>3. CASE Stays(l, q) /\ j = i /\ p = n
    BY <1>6, <1>11, <1>12, <2>3
  <2> QED BY <1>6, <2>1, <2>2, <2>3
<1>13. ASSUME NEW j \in DOMAIN groups', NEW p \in DOMAIN groups'[j].alerts
       PROVE  LET b == groups'[j].alerts[p] IN
              \/ Fingerprint(b) = groups'[j].fp
              \/ /\ {b.service, groups'[j].service} \in context.edges
                 /\ p > 1 /\ b.ts - groups'[j].alerts[p - 1].ts <= 600
  <2>1. CASE Stays(j, p)
    <3>1. Belongs(groups[j], p)
      BY <2>1 DEF Stays, PlaceInv
    <3> QED BY <2>1, <3>1 DEF Stays, Belongs
  <2>2. CASE j = i /\ p = n /\ groups'[i].fp = Fingerprint(a)
    BY <1>6, <2>2
  <2>3. CASE j = i /\ p = n /\ i \in DOMAIN groups /\ Merges(a, groups[i])
    <3>1. old = groups[i].alerts /\ old # << >> /\ groups[i].last = old[Len(old)].ts
      BY <1>7, <2>3 DEF PlaceInv
    <3>2. n > 1 /\ n - 1 = Len(old) /\ groups'[i].alerts[n - 1] = old[Len(old)]
      BY <1>2, <1>7, <3>1
    <3>3. {a.service, groups'[i].service} \in context.edges /\ a.ts - groups[i].last <= 600
      BY <1>7, <2>3 DEF Merges, Edge, Near, MergeWindow
    <3> QED BY <1>6, <2>3, <3>1, <3>2, <3>3
  <2> QED BY <1>6, <1>7, <2>1, <2>2, <2>3
<1>14. ASSUME NEW j \in DOMAIN groups', NEW p \in DOMAIN groups'[j].alerts
       PROVE  Belongs(groups[j], p)'
  BY <1>1, <1>5, <1>13 DEF Belongs
<1> QED BY <1>1, <1>8, <1>9, <1>10, <1>12, <1>14 DEF PlaceInv

LEMMA InitGroups == CorInit => GroupInv /\ PlaceInv /\ ReturnInv
<1> SUFFICES ASSUME CorInit PROVE GroupInv /\ PlaceInv /\ ReturnInv
  OBVIOUS
<1>1. groups = << >> /\ unique = << >> /\ turn = 0 /\ pc = "normalize" /\ incidents = << >>
  BY DEF CorInit
<1>2. << >> \in Seq(GroupRecord) /\ DOMAIN << >> = {} /\ Len(<< >>) = 0 /\ 1..0 = {}
  OBVIOUS
<1> QED BY <1>1, <1>2 DEF GroupInv, PlaceInv, ReturnInv

\* The places do not change with what is normalized, thinned or returned.
LEMMA SamePlaces ==
  ASSUME PlaceInv, UNCHANGED <<groups, turn, context>>,
         \A k \in 1..turn : unique'[k] = unique[k]
  PROVE  PlaceInv'
<1>1. \A x : Fingerprint(x)' = Fingerprint(x)
  BY SameContext
<1>2. ASSUME NEW i \in DOMAIN groups', NEW p \in DOMAIN groups'[i].alerts
      PROVE  Belongs(groups[i], p)'
  <2>1. Belongs(groups[i], p)
    BY DEF PlaceInv
  <2> QED BY <1>1, <2>1 DEF Belongs
<1>3. /\ \A i \in DOMAIN groups' : \A p \in DOMAIN groups'[i].alerts :
           \E k \in 1..turn' : groups'[i].alerts[p] = unique'[k]
      /\ \A k \in 1..turn' : \E i \in DOMAIN groups' : \E p \in DOMAIN groups'[i].alerts :
           groups'[i].alerts[p] = unique'[k]
  BY DEF PlaceInv
<1>4. /\ \A i \in DOMAIN groups' :
           LET s == groups'[i].alerts IN s # << >> /\ groups'[i].last = s[Len(s)].ts
      /\ \A i, j \in DOMAIN groups' :
           \A p \in DOMAIN groups'[i].alerts, q \in DOMAIN groups'[j].alerts :
             groups'[i].alerts[p] = groups'[j].alerts[q] => i = j /\ p = q
  BY DEF PlaceInv
<1> QED BY <1>2, <1>3, <1>4 DEF PlaceInv

LEMMA NextGroups ==
  SortInv /\ StormIsReported /\ GroupInv /\ PlaceInv /\ ReturnInv /\ [CorNext]_vars
    => GroupInv' /\ PlaceInv' /\ ReturnInv'
<1> SUFFICES ASSUME SortInv, StormIsReported, GroupInv, PlaceInv, ReturnInv, [CorNext]_vars
             PROVE  GroupInv' /\ PlaceInv' /\ ReturnInv'
  OBVIOUS
<1>1. context' = context
  BY DEF CorNext, vars, NormalizeAlert, NormalizeRecord, Correlate, Deduplicate, Group, Return
<1>2. GroupRecord' = GroupRecord
  BY <1>1, SameContext
<1>3. CASE NormalizeAlert \/ NormalizeRecord \/ Correlate
  <2>1. /\ pc = "normalize" /\ pc' \in {"normalize", "correlate", "refused"}
        /\ UNCHANGED <<groups, turn, context, unique, incidents>>
    BY <1>3 DEF NormalizeAlert, NormalizeRecord, Correlate
  <2>2. turn = 0 /\ groups = << >>
    BY <2>1 DEF GroupInv
  <2>3. GroupInv'
    BY <1>2, <2>1, <2>2 DEF GroupInv
  <2>4. PlaceInv'
    BY <2>1, SamePlaces
  <2> QED BY <2>1, <2>3, <2>4 DEF ReturnInv
<1>4. CASE Deduplicate
  <2>1. /\ pc = "correlate" /\ pc' = pc /\ canon # << >>
        /\ UNCHANGED <<groups, turn, context, incidents>>
    BY <1>4 DEF Deduplicate
  <2>2. turn = 0 /\ groups = << >>
    BY <2>1 DEF GroupInv
  <2>3. unique' \in Seq(Alert)
    BY DeduplicateSort, <1>4 DEF SortInv
  <2>4. GroupInv'
    BY <1>2, <2>1, <2>2, <2>3 DEF GroupInv
  <2>5. PlaceInv'
    BY <2>1, <2>2, SamePlaces
  <2> QED BY <2>1, <2>4, <2>5 DEF ReturnInv
<1>5. CASE Group
  <2>1. /\ pc = "correlate" /\ pc' = pc /\ canon = << >> /\ canon' = canon
        /\ turn < Len(unique) /\ turn' = turn + 1
        /\ UNCHANGED <<context, unique, incidents>>
    BY <1>5 DEF Group
  <2>2. groups' \in Seq(GroupRecord)
    BY <1>5, GroupTurn DEF Turned
  <2>3. GroupInv'
    <3>1. turn' \in 0..Len(unique)
      BY <2>1 DEF GroupInv, SortInv
    <3> QED BY <1>2, <2>1, <2>2, <3>1 DEF GroupInv
  <2>4. PlaceInv'
    BY <1>5, GroupPlace
  <2> QED BY <2>1, <2>3, <2>4 DEF ReturnInv
<1>6. CASE Return
  <2>1. /\ pc = "correlate" /\ pc' = "returned" /\ canon = << >> /\ turn = Len(unique)
        /\ UNCHANGED <<groups, turn, context, unique, canon>>
        /\ incidents' = [i \in DOMAIN groups |-> Incident(groups[i])]
    BY <1>6 DEF Return
  <2>2. GroupInv'
    BY <1>2, <2>1 DEF GroupInv
  <2>3. PlaceInv'
    BY <2>1, SamePlaces
  <2>4. \A g : Incident(g).count = Len(g.alerts) /\ Incident(g).ids = Stored(g)
    BY DEF Incident
  <2>5. DOMAIN incidents' = DOMAIN groups /\ \A i \in DOMAIN groups : incidents'[i] = Incident(groups[i])
    BY <2>1
  <2>6. ReturnInv'
    <3>1. \A i \in DOMAIN groups' : incidents'[i].count = Len(groups'[i].alerts)
                                    /\ incidents'[i].ids = Stored(groups'[i])
      BY <2>1, <2>4, <2>5
    <3>2. \A i \in DOMAIN groups' : Stored(groups'[i]) = Stored(groups[i])'
      BY DEF Stored
    <3> QED BY <2>1, <2>5, <3>1, <3>2 DEF ReturnInv
  <2> QED BY <2>2, <2>3, <2>6
<1>7. CASE UNCHANGED vars
  <2>1. UNCHANGED <<pc, groups, turn, context, unique, canon, incidents>>
    BY <1>7 DEF vars
  <2>2. GroupInv'
    BY <1>2, <2>1 DEF GroupInv
  <2>3. PlaceInv'
    BY <2>1, SamePlaces
  <2>4. ReturnInv'
    BY <2>1 DEF ReturnInv, Stored
  <2> QED BY <2>2, <2>3, <2>4
<1> QED BY <1>3, <1>4, <1>5, <1>6, <1>7 DEF CorNext

-----------------------------------------------------------------------------
(* The incidents.                                                          *)

\* No two alerts that were kept are equal.
LEMMA KeptDiffer ==
  ASSUME SortInv, StormIsReported
  PROVE  \A k, l \in DOMAIN unique : unique[k] = unique[l] => k = l
<1> SUFFICES ASSUME NEW k \in DOMAIN unique, NEW l \in DOMAIN unique, k < l
             PROVE  unique[k] # unique[l]
  BY DEF SortInv
<1> QED BY DEF StormIsReported

\* What the places of the returned incidents are.
LEMMA PlacesAre ==
  ASSUME SortInv, GroupInv, ReturnInv, pc = "returned"
  PROVE  /\ \A i \in DOMAIN groups : groups[i].alerts \in Seq(Alert)
         /\ \A x : x \in Places <=>
              \E i \in DOMAIN groups : \E p \in DOMAIN groups[i].alerts : x = <<i, p>>
<1>1. \A i \in DOMAIN groups : groups[i].alerts \in Seq(Alert)
  <2>1. \A g \in GroupRecord : g.alerts \in Seq(Alert)
    BY DEF GroupRecord
  <2> QED BY <2>1 DEF GroupInv
<1>2. \A i \in DOMAIN groups : 1..incidents[i].count = DOMAIN groups[i].alerts
  BY <1>1 DEF ReturnInv
<1>3. DOMAIN incidents = DOMAIN groups
  BY DEF ReturnInv
<1>4. \A x : x \in Places <=> \E i \in DOMAIN incidents : x \in {i} \X (1..incidents[i].count)
  BY DEF Places
<1>5. \A x : x \in Places <=> \E i \in DOMAIN groups : x \in {i} \X (DOMAIN groups[i].alerts)
  BY <1>2, <1>3, <1>4
<1> QED BY <1>1, <1>5

\* The kept alerts and the places are in bijection: their numbers are equal.
LEMMA CountsAddUp ==
  ASSUME SortInv, StormIsReported, GroupInv, PlaceInv, ReturnInv, pc = "returned"
  PROVE  Cardinality(Places) = Len(unique)
<1> DEFINE n == Len(unique)
           At(x, k) == groups[x[1]].alerts[x[2]] = unique[k]
           f == [k \in 1..n |-> CHOOSE x \in Places : At(x, k)]
<1>1. n \in Nat /\ DOMAIN unique = 1..n /\ turn = n
  BY DEF SortInv, ReturnInv
<1>2. \A x : x \in Places <=>
        \E i \in DOMAIN groups : \E p \in DOMAIN groups[i].alerts : x = <<i, p>>
  BY PlacesAre
<1>3. \A k \in 1..n : \E x \in Places : At(x, k)
  <2> SUFFICES ASSUME NEW k \in 1..n PROVE \E x \in Places : At(x, k)
    OBVIOUS
  <2>1. PICK i \in DOMAIN groups : \E p \in DOMAIN groups[i].alerts : groups[i].alerts[p] = unique[k]
    BY <1>1 DEF PlaceInv
  <2>2. PICK p \in DOMAIN groups[i].alerts : groups[i].alerts[p] = unique[k]
    BY <2>1
  <2>3. <<i, p>> \in Places /\ At(<<i, p>>, k)
    BY <1>2, <2>2
  <2> QED BY <2>3
<1>4. \A x \in Places : \E k \in 1..n : At(x, k)
  <2> SUFFICES ASSUME NEW x \in Places PROVE \E k \in 1..n : At(x, k)
    OBVIOUS
  <2>1. PICK i \in DOMAIN groups : \E p \in DOMAIN groups[i].alerts : x = <<i, p>>
    BY <1>2
  <2>2. PICK p \in DOMAIN groups[i].alerts : x = <<i, p>>
    BY <2>1
  <2>3. \E k \in 1..n : groups[i].alerts[p] = unique[k]
    BY <1>1 DEF PlaceInv
  <2> QED BY <2>2, <2>3
<1>5. \A x, y \in Places, k \in 1..n : At(x, k) /\ At(y, k) => x = y
  <2> SUFFICES ASSUME NEW x \in Places, NEW y \in Places, NEW k \in 1..n, At(x, k), At(y, k)
               PROVE  x = y
    OBVIOUS
  <2>1. PICK i \in DOMAIN groups : \E p \in DOMAIN groups[i].alerts : x = <<i, p>>
    BY <1>2
  <2>2. PICK p \in DOMAIN groups[i].alerts : x = <<i, p>>
    BY <2>1
  <2>3. PICK j \in DOMAIN groups : \E q \in DOMAIN groups[j].alerts : y = <<j, q>>
    BY <1>2
  <2>4. PICK q \in DOMAIN groups[j].alerts : y = <<j, q>>
    BY <2>3
  <2>5. groups[i].alerts[p] = groups[j].alerts[q]
    BY <2>2, <2>4
  <2>6. i = j /\ p = q
    BY <2>5 DEF PlaceInv
  <2> QED BY <2>2, <2>4, <2>6
<1>6. \A x \in Places, k, l \in 1..n : At(x, k) /\ At(x, l) => k = l
  BY <1>1, KeptDiffer
<1> HIDE DEF At
<1>7. \A k \in 1..n : f[k] \in Places /\ At(f[k], k)
  BY <1>3
<1>8. f \in [1..n -> Places]
  BY <1>7
<1> HIDE DEF f, n
<1>9. \A k, l \in 1..n : f[k] = f[l] => k = l
  BY <1>6, <1>7
<1>10. \A x \in Places : \E k \in 1..n : f[k] = x
  BY <1>4, <1>5, <1>7
<1>11. f \in Bijection(1..n, Places)
  BY <1>8, <1>9, <1>10 DEF Bijection, Injection, Surjection, IsInjective
<1>12. ExistsBijection(1..n, Places)
  BY <1>11 DEF ExistsBijection
<1>13. IsFiniteSet(1..n) /\ Cardinality(1..n) = n
  BY <1>1, FS_Interval
<1>14. Cardinality(Places) = Cardinality(1..n)
  BY <1>12, <1>13, FS_Bijection
<1> QED BY <1>13, <1>14 DEF n

\* The groups partition what was kept.
LEMMA Partition ==
  ASSUME SortInv, StormIsReported, GroupInv, PlaceInv, ReturnInv
  PROVE  IncidentsPartition
<1>1. ASSUME pc = "returned", NEW a \in ToSet(unique)
      PROVE  Cardinality({i \in DOMAIN groups : a \in ToSet(groups[i].alerts)}) = 1
  <2>1. PICK k \in 1..turn : a = unique[k]
    BY <1>1 DEF ToSet, SortInv, ReturnInv
  <2>2. PICK i \in DOMAIN groups : \E p \in DOMAIN groups[i].alerts : groups[i].alerts[p] = a
    BY <2>1 DEF PlaceInv
  <2>3. a \in ToSet(groups[i].alerts)
    BY <2>2 DEF ToSet
  <2>4. ASSUME NEW j \in DOMAIN groups, a \in ToSet(groups[j].alerts) PROVE j = i
    BY <2>2, <2>4 DEF ToSet, PlaceInv
  <2>5. {j \in DOMAIN groups : a \in ToSet(groups[j].alerts)} = {i}
    BY <2>3, <2>4
  <2> QED BY <2>5, FS_Singleton
<1>2. pc = "returned" => Cardinality(Places) = Len(unique)
  BY CountsAddUp
<1>3. ASSUME NEW i \in DOMAIN groups, NEW k \in DOMAIN groups[i].alerts
      PROVE  LET a == groups[i].alerts[k] IN
             \/ Fingerprint(a) = groups[i].fp
             \/ /\ {a.service, groups[i].service} \in context.edges
                /\ k > 1 /\ a.ts - groups[i].alerts[k - 1].ts <= 600
  <2>1. Belongs(groups[i], k)
    BY DEF PlaceInv
  <2> QED BY <2>1 DEF Belongs
<1> QED BY <1>1, <1>2, <1>3 DEF IncidentsPartition

\* The ids an incident stores are as many as the cap allows.
LEMMA StoredLen ==
  ASSUME NEW g, g.alerts \in Seq(Alert)
  PROVE  Len(Stored(g)) = Min({Len(g.alerts), Cap})
<1> DEFINE n == Min({Len(g.alerts), Cap})
<1>1. {Len(g.alerts), Cap} \subseteq Nat /\ {Len(g.alerts), Cap} # {}
  BY CapAssumption
<1>2. n \in Nat
  BY <1>1, LeastOf
<1>3. Stored(g) = [i \in 1..n |-> g.alerts[i].id]
  BY DEF Stored
<1> HIDE DEF n
<1>4. Len(Stored(g)) = n
  BY <1>2, <1>3
<1> QED BY <1>4 DEF n

LEMMA Typed ==
  ASSUME SortInv, GroupInv, PlaceInv, ReturnInv
  PROVE  CorTypeOK
<1>1. \A s \in {canon, unique, suppressed} : \A i \in DOMAIN s : s[i] \in Alert
  <2>1. \A s \in Seq(Alert) : \A i \in DOMAIN s : s[i] \in Alert
    OBVIOUS
  <2> QED BY <2>1 DEF SortInv
<1>2. ASSUME NEW i \in DOMAIN groups
      PROVE  groups[i].alerts # << >> /\ ToSet(groups[i].alerts) \subseteq ToSet(unique)
  <2>1. \A k \in 1..turn : k \in DOMAIN unique
    BY DEF SortInv, GroupInv
  <2>2. \A p \in DOMAIN groups[i].alerts : \E k \in DOMAIN unique : groups[i].alerts[p] = unique[k]
    BY <2>1 DEF PlaceInv
  <2> QED BY <2>2 DEF PlaceInv, ToSet
<1>3. ASSUME NEW i \in DOMAIN incidents
      PROVE  Len(incidents[i].ids) = Min({incidents[i].count, Cap})
  <2>1. pc = "returned"
    <3>1. DOMAIN << >> = {}
      OBVIOUS
    <3> QED BY <1>3, <3>1 DEF ReturnInv
  <2>2. i \in DOMAIN groups /\ incidents[i].count = Len(groups[i].alerts)
        /\ incidents[i].ids = Stored(groups[i])
    BY <1>3, <2>1 DEF ReturnInv
  <2>3. groups[i].alerts \in Seq(Alert)
    BY <2>1, <2>2, PlacesAre
  <2> QED BY <2>2, <2>3, StoredLen
<1> QED BY <1>1, <1>2, <1>3 DEF CorTypeOK, SortInv, ReturnInv

CorInv == SortInv /\ StormIsReported /\ GroupInv /\ PlaceInv /\ ReturnInv

LEMMA CorInvariance == CorSpec => []CorInv
<1>1. CorInit => CorInv
  BY InitSort, InitStorm, InitGroups DEF CorInv
<1>2. CorInv /\ [CorNext]_vars => CorInv'
  BY NextSort, NextStorm, NextGroups DEF CorInv
<1> QED BY <1>1, <1>2, PTL DEF CorSpec

\* Every variable keeps its type; an incident stores no more ids than the cap.
THEOREM CorTypeCorrect == CorSpec => []CorTypeOK
<1>1. CorInv => CorTypeOK
  BY Typed DEF CorInv
<1> QED BY <1>1, CorInvariance, PTL

\* Whatever is suppressed was reported by an alert that was kept, and what is
\* kept has no duplicates (correlator.py, deduplicate).
THEOREM StormIsReportedHolds == CorSpec => []StormIsReported
<1>1. CorInv => StormIsReported
  BY DEF CorInv
<1> QED BY <1>1, CorInvariance, PTL

\* Every kept alert is in exactly one incident, where it belongs, and the counts
\* of the incidents add up to what was kept (correlator.py, correlate).
THEOREM IncidentsPartitionHolds == CorSpec => []IncidentsPartition
<1>1. CorInv => IncidentsPartition
  BY Partition DEF CorInv
<1> QED BY <1>1, CorInvariance, PTL

=============================================================================
