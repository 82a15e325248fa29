---------------------------- MODULE Orchestrator ----------------------------
(***************************************************************************)
(* backend/app/services/orchestrator.py over the run store: submission     *)
(* with its permanent claim and its capacity, the incident generator, the  *)
(* worker that drives one queued incident at a time, the resume queue with *)
(* its claim, the kill switch of routers/ingest.py, and a restart of the   *)
(* process, which keeps the files and loses everything else.               *)
(*                                                                         *)
(* What the pipeline does with a run is Lifecycle's subject; here a walk   *)
(* is one step with the outcomes the orchestrator tells apart.  The        *)
(* counters of OrchestratorStats are left out, no step reads them.         *)
(***************************************************************************)
EXTENDS RunStore

CONSTANTS
  Generated,     \* the ids _generate_one will use, in the order of its seeds
  MaxIncidents   \* Orchestrator.max_incidents

ASSUME GeneratedAssumption == Generated \in Seq(Incident)
ASSUME MaxIncidentsAssumption == MaxIncidents \in Nat \ {0}

VARIABLES
  claimed,       \* _claimed, which are also the keys of _context
  queue,         \* _queue
  resuming,      \* _resuming
  resumes,       \* _resume_queue
  enabled,       \* stats.enabled
  seeds,         \* _seed_counter
  pending,       \* approvals.json: incidents with an undecided proposal
  walks,         \* ghost: walks of each incident in this life of the process
  overwritten    \* ghost: an adoption replaced a run opened over HTTP

orchVars == <<claimed, queue, resuming, resumes, enabled, seeds,
              pending, walks, overwritten>>

vars == <<storeVars, orchVars>>

-----------------------------------------------------------------------------

InitOrchestrator ==
  /\ claimed = {} /\ resuming = {}
  /\ queue = << >> /\ resumes = << >>
  /\ enabled = TRUE
  /\ seeds = 0
  /\ walks = [i \in Incident |-> 0]

Init ==
  /\ InitStore
  /\ InitOrchestrator
  /\ pending = {}
  /\ overwritten = FALSE

\* _live_claimed(): claimed, and no run or a run that is not terminal.
Live == {i \in claimed : IF mem[i] = NoRun THEN TRUE ELSE mem[i].stage # "TERMINAL"}

\* Bug: the comparison is off by one.
AtCapacityLate == Cardinality(Live) > MaxIncidents

AtCapacity == Cardinality(Live) >= MaxIncidents

\* Bug: the claim ends with the run.
AcceptFinished(i) ==
  /\ i \notin Live
  /\ ~AtCapacity
  /\ claimed' = claimed \cup {i}
  /\ queue' = Append(queue, i)

\* Bug: the job is queued, the claim is forgotten.
AcceptUnclaimed(i) ==
  /\ i \notin claimed
  /\ ~AtCapacity
  /\ claimed' = claimed
  /\ queue' = Append(queue, i)

\* submit(), accepting.  Between the claim, made under the lock, and the job
\* nobody else can act on the id, so they are one step.
Accept(i) ==
  /\ i \notin claimed
  /\ ~AtCapacity
  /\ claimed' = claimed \cup {i}
  /\ queue' = Append(queue, i)

\* submit(), refusing a duplicate or for want of capacity.
Refused(i) == i \in claimed \/ AtCapacity

\* The four webhooks name the incident after their source, the service and the
\* second, and submit it whether the worker is enabled or not.
Webhook(i) ==
  /\ Accept(i)
  /\ UNCHANGED <<storeVars, resuming, resumes, enabled, seeds, pending, walks,
                 overwritten>>

\* POST /alerts/ingest: only an enabled worker gets the job.
\* A refused submission, or process=false, changes nothing.
Ingest(i) ==
  /\ enabled
  /\ Accept(i)
  /\ UNCHANGED <<storeVars, resuming, resumes, enabled, seeds, pending, walks,
                 overwritten>>

\* _generate_one(): the seed is spent whether submit() accepts or not, and
\* stats.enabled is not asked.
GenerateOne ==
  /\ seeds < Len(Generated)
  /\ seeds' = seeds + 1
  /\ LET i == Generated[seeds + 1] IN
       IF Refused(i) THEN UNCHANGED <<claimed, queue>> ELSE Accept(i)
  /\ UNCHANGED <<storeVars, resuming, resumes, enabled, pending, walks, overwritten>>

\* POST /orchestrator/stop.
Stop ==
  /\ enabled /\ Event
  /\ enabled' = FALSE
  /\ UNCHANGED <<mem, disk, th, behind, boots, claimed, queue, resuming, resumes,
                 seeds, pending, walks, overwritten>>

-----------------------------------------------------------------------------
(* The worker: _run() and _process_sync().                                 *)

TakeJob ==
  /\ At("worker", "idle")
  /\ queue # << >>
  /\ th' = [th EXCEPT !["worker"].pc = "drive", !["worker"].id = Head(queue)]
  /\ queue' = Tail(queue)
  /\ walks' = [walks EXCEPT ![Head(queue)] = @ + 1]
  /\ UNCHANGED <<mem, disk, behind, boots, events, claimed, resuming, resumes,
                 enabled, seeds, pending, overwritten>>

\* run_pipeline stalls on an approval, is blocked, or runs to its end; a
\* proposal is listed for approval before the run is adopted.
Drive ==
  LET i == th["worker"].id IN
  /\ At("worker", "drive")
  /\ \E s \in {"AWAITING_APPROVAL", "TERMINAL", "ACTIVE"} :
       /\ th' = [th EXCEPT !["worker"].pc = "adopt",
                           !["worker"].run = [walk |-> boots + 1, stage |-> s,
                                              results |-> s = "ACTIVE"]]
       /\ pending' = IF s = "AWAITING_APPROVAL" THEN pending \cup {i} ELSE pending
  /\ UNCHANGED <<mem, disk, behind, boots, events, claimed, queue, resuming,
                 resumes, enabled, seeds, walks, overwritten>>

\* Any other exception: counted, and the job is over.
DriveFails ==
  /\ At("worker", "drive")
  /\ End("worker")
  /\ UNCHANGED <<mem, disk, behind, boots, events, orchVars>>

\* REPO_STORE[incident] = run, whatever is there.
Adopt ==
  LET i == th["worker"].id IN
  /\ At("worker", "adopt")
  /\ mem' = [mem EXCEPT ![i] = th["worker"].run]
  /\ overwritten' = (overwritten \/ mem[i] # NoRun)
  /\ th' = [th EXCEPT !["worker"].pc = "save", !["worker"].run = NoRun]
  /\ UNCHANGED <<disk, behind, boots, events, claimed, queue, resuming, resumes,
                 enabled, seeds, pending, walks>>

-----------------------------------------------------------------------------
(* A human approves; resume() and _resume_sync().                          *)

\* Bug: the claim is taken by the thread that resumes, not by the request.
ApproveUnclaimed(i) ==
  /\ enabled
  /\ i \in pending
  /\ pending' = pending \ {i}
  /\ IF i \in resuming
     THEN UNCHANGED resumes
     ELSE resumes' = Append(resumes, i)
  /\ UNCHANGED <<storeVars, resuming, claimed, queue, enabled, seeds, walks, overwritten>>

\* request_approval(): a proposal can be listed for any incident, and again.
RequestApproval(i) ==
  /\ i \notin pending /\ Event
  /\ pending' = pending \cup {i}
  /\ UNCHANGED <<mem, disk, th, behind, boots, claimed, queue, resuming, resumes,
                 enabled, seeds, walks, overwritten>>

\* _trigger_resume() on an enabled worker: the permit is minted either way.
Approve(i) ==
  /\ enabled
  /\ i \in pending
  /\ pending' = pending \ {i}
  /\ IF i \in resuming
     THEN UNCHANGED <<resuming, resumes>>
     ELSE resuming' = resuming \cup {i} /\ resumes' = Append(resumes, i)
  /\ UNCHANGED <<storeVars, claimed, queue, enabled, seeds, walks, overwritten>>

\* The early returns come before the try: the claim stays.
TakeResume ==
  LET i == Head(resumes) IN
  /\ At("resumer", "idle")
  /\ resumes # << >>
  /\ resumes' = Tail(resumes)
  /\ IF i \in claimed /\ mem[i] # NoRun
     THEN th' = [th EXCEPT !["resumer"].pc = "resume", !["resumer"].id = i,
                           !["resumer"].run = mem[i]]
     ELSE UNCHANGED th
  /\ UNCHANGED <<mem, disk, behind, boots, events, claimed, queue, resuming,
                 enabled, seeds, pending, walks, overwritten>>

\* resume_from_approval and finalize_rca work on the run object that was
\* fetched, which is then put (back) into the store.
Resume ==
  LET i == th["resumer"].id
      held == th["resumer"].run
      now == IF mem[i] # NoRun /\ mem[i].walk = held.walk THEN mem[i] ELSE held
  IN
  /\ At("resumer", "resume")
  /\ now.stage = "AWAITING_APPROVAL"
  /\ \E s \in {"ACTIVE", "TERMINAL"} :
       mem' = [mem EXCEPT ![i] = [now EXCEPT !.stage = s, !.results = TRUE]]
  /\ th' = [th EXCEPT !["resumer"].pc = "save", !["resumer"].run = NoRun]
  /\ UNCHANGED <<disk, behind, boots, events, orchVars>>

\* resume_from_approval raises before it moves the run (a run that is not
\* waiting, a denial, an expired permit), or after: the run of the store has been
\* approved and is executing when the executor or the verifier raises.  Neither
\* is saved; the finally clause is next.
ResumeFails ==
  LET i == th["resumer"].id IN
  /\ At("resumer", "resume")
  /\ \/ UNCHANGED <<mem, behind, events>>
     \/ /\ Event
        /\ mem[i] # NoRun /\ mem[i].walk = th["resumer"].run.walk
        /\ mem[i].stage = "AWAITING_APPROVAL"
        /\ \E verified \in {mem[i].results, TRUE} :
             mem' = [mem EXCEPT ![i].stage = "ACTIVE", ![i].results = verified]
        /\ behind' = behind \cup {i}
  /\ th' = [th EXCEPT !["resumer"].pc = "release", !["resumer"].run = NoRun]
  /\ UNCHANGED <<disk, boots, orchVars>>

Release ==
  /\ At("resumer", "release")
  /\ resuming' = resuming \ {th["resumer"].id}
  /\ End("resumer")
  /\ UNCHANGED <<mem, disk, behind, boots, events, claimed, queue, resumes,
                 enabled, seeds, pending, walks, overwritten>>

-----------------------------------------------------------------------------

\* The process dies and starts again: main.py starts a new worker and loads
\* nothing; runs.json and approvals.json are what is left.
Restart ==
  /\ boots < MaxBoots /\ Event
  /\ boots' = boots + 1
  /\ mem' = EmptyStore
  /\ th' = [t \in Thread |-> IdleThread]
  /\ behind' = {}
  /\ claimed' = {} /\ resuming' = {}
  /\ queue' = << >> /\ resumes' = << >>
  /\ enabled' = TRUE
  /\ seeds' = 0
  /\ walks' = [i \in Incident |-> 0]
  /\ overwritten' = FALSE
  /\ UNCHANGED <<disk, pending>>

Worker == TakeJob \/ Drive \/ DriveFails \/ Adopt
Resumer == TakeResume \/ Resume \/ ResumeFails \/ Release

Next ==
  \/ \E i \in Incident : Ingest(i) \/ Webhook(i) \/ RequestApproval(i) \/ Approve(i)
  \/ GenerateOne \/ Stop \/ Restart
  \/ Worker \/ Resumer
  \/ \E t \in Http, op \in Ops, i \in Incident : HttpCall(t, op, i) /\ UNCHANGED orchVars
  \/ \E t \in Http : HttpStep(t) /\ UNCHANGED orchVars
  \/ \E t \in Thread : SaveStep(t) /\ UNCHANGED orchVars

Spec == Init /\ [][Next]_vars

\* Both loops run as long as the process does; a thread that holds the store
\* lock gives it back, and one that waits for it gets it in the end.  Nobody is
\* obliged to submit, to approve or to restart.
LiveSpec ==
  /\ Spec
  /\ WF_vars(Worker) /\ WF_vars(Resumer)
  /\ \A t \in {"worker", "resumer"} : SF_vars(SaveStep(t) /\ UNCHANGED orchVars)
  /\ \A t \in Http : WF_vars(Replace(t) /\ UNCHANGED orchVars)

-----------------------------------------------------------------------------
(* Properties.                                                             *)

InQueue(i) == \E n \in DOMAIN queue : queue[n] = i

Waiting(i) == {n \in DOMAIN resumes : resumes[n] = i}

TypeOK ==
  /\ mem \in Store
  /\ disk \in File \cup {NoFile}
  /\ \A t \in Thread :
       /\ th[t].pc \in {"idle", "drive", "adopt", "save", "replace", "resume",
                        "release", "ensure", "clear", "fill", "merge", "answer"}
       /\ th[t].id \in Incident \cup {NoRun} /\ th[t].op \in Ops \cup {NoRun}
       /\ th[t].run \in Run \cup {NoRun} /\ th[t].img \in File \cup {NoFile}
       /\ th[t].staged \in Store \cup {NoFile}
  /\ behind \subseteq Incident /\ enabled \in BOOLEAN /\ overwritten \in BOOLEAN
  /\ boots \in 0..MaxBoots /\ events \in 0..MaxEvents /\ seeds \in 0..Len(Generated)
  /\ claimed \subseteq Incident
  /\ resuming \subseteq Incident /\ pending \subseteq Incident
  /\ queue \in Seq(claimed) /\ resumes \in Seq(Incident)
  /\ walks \in [Incident -> Nat]

\* submit(): "an incident id is accepted once", whoever submits it, however
\* often, and whatever became of its run: in one life of the process no
\* incident is driven twice or queued to be.
DrivenOnce ==
  \A i \in Incident : walks[i] + (IF InQueue(i) THEN 1 ELSE 0) <= 1

\* resume(): "exactly-once claiming": of one incident never two resumes are
\* queued or running, though every approval of a proposal asks for one.
SingleResume ==
  \A i \in Incident :
    Cardinality(Waiting(i)) + (IF th["resumer"].id = i THEN 1 ELSE 0) <= 1

\* _live_claimed(): the bound on incidents in flight, checked only when one is
\* accepted, holds all the time: a finished incident does not come back to life.
\* A restart, or an adoption over a run that was opened and finished by hand,
\* may break it.
InFlightBounded ==
  boots = 0 /\ ~overwritten => Cardinality(Live) <= MaxIncidents

\* save_store(): "the lock makes snapshot+replace indivisible".  Whenever no save
\* is to begin or under way, the file has of every incident what the memory has,
\* those apart that a failed write or a resume that raised left behind, and that
\* no save has caught up with since.  An earlier life of the process leaves a file
\* the memory does not have.
DiskFollowsMemory ==
  boots = 0 /\ (\A t \in Thread : ~At(t, "save") /\ ~At(t, "replace"))
    => \A i \in Incident \ behind : OnDisk(i) = Stored(mem[i])

\* The worker has the incident in hand.
Working(i) == InQueue(i) \/ th["worker"].id = i

\* save_store() on the race it closes: a run dropped from the file is one that
\* "a restart lost".  What is in the file stays in it.
RunsSurvive ==
  [][disk # NoFile => \A i \in Incident : disk[i] # NoRun => disk'[i] # NoRun]_vars

\* _live_claimed(): "An id with no run is counted, because it is queued or in
\* flight".
NoRunIsInFlight ==
  \A i \in claimed : mem[i] = NoRun => Working(i)

\* stop_orchestrator(): "Kill-switch: stop accepting and driving incidents".
StoppedDrivesNothing ==
  [][~enabled => walks' = walks \/ boots' # boots]_vars

=============================================================================
