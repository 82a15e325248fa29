------------------------------ MODULE RunStore ------------------------------
(***************************************************************************)
(* The run repository of backend/app/routers/runs.py: REPO_STORE in memory *)
(* and runs.json on disk.  Every thread of the process works on both:      *)
(* save_store() copies the memory under _STORE_LOCK and renames the copy   *)
(* over the file, _ensure_loaded() reads the file back without the lock.   *)
(*                                                                         *)
(* A run is reduced to what the stores and the orchestrator read of it:    *)
(* which walk made it (0: opened over HTTP, n: driven in the n-th life of  *)
(* the process), how far it is, and whether it carries the verifier's      *)
(* results, which the file format leaves out.                              *)
(*                                                                         *)
(* One step per dict operation of the interpreter would be finer; clear()  *)
(* and update() are two steps, the setdefault() loop of a merge is one.    *)
(***************************************************************************)
EXTENDS Naturals, Sequences, FiniteSets

CONSTANTS
  Incident,   \* incident ids
  Http,       \* HTTP handler threads
  NoRun,      \* absent from a store
  NoFile,     \* runs.json does not exist
  MaxBoots,   \* bound: restarts of the process
  MaxEvents   \* bound: HTTP calls, failed writes, raising executors, stops and
              \* restarts together

ASSUME NoRunAssumption == NoRun \notin Incident
ASSUME HttpAssumption == Http \cap {"worker", "resumer"} = {}
ASSUME MaxBootsAssumption == MaxBoots \in Nat
ASSUME MaxEventsAssumption == MaxEvents \in Nat

VARIABLES
  mem,        \* REPO_STORE
  disk,       \* runs.json
  th,         \* what each thread is doing
  behind,     \* ghost: runs the file is behind on, and no save is to come for them
  boots,      \* restarts so far
  events      \* bound: how many of them so far

storeVars == <<mem, disk, th, behind, boots, events>>

-----------------------------------------------------------------------------

\* TERMINAL: BLOCKED or AUDITED; ACTIVE: any other state but the wait for a
\* human.
Stage == {"ACTIVE", "AWAITING_APPROVAL", "TERMINAL"}

Run == [walk : 0..(MaxBoots + 1), stage : Stage, results : BOOLEAN]

Store == [Incident -> Run \cup {NoRun}]

EmptyStore == [i \in Incident |-> NoRun]

Thread == {"worker", "resumer"} \cup Http

IdleThread == [pc |-> "idle", id |-> NoRun, op |-> NoRun, run |-> NoRun, img |-> NoFile,
               staged |-> NoFile]

FileRun == [walk : 0..(MaxBoots + 1), stage : Stage]

File == [Incident -> FileRun \cup {NoRun}]

\* What is absent is neither a run nor a file.
ASSUME AbsentAssumption == NoRun \notin Run \cup FileRun /\ NoFile \notin File

\* _run_to_json(): verification_results is not a key of the file ...
Stored(run) == IF run = NoRun THEN NoRun ELSE [walk |-> run.walk, stage |-> run.stage]

\* ... so _run_from_json() brings the run back without them.
Restored(entry) ==
  IF entry = NoRun THEN NoRun
  ELSE [walk |-> entry.walk, stage |-> entry.stage, results |-> FALSE]

\* What the file has of an incident.
OnDisk(i) == IF disk = NoFile THEN NoRun ELSE disk[i]

\* One of the events that MaxEvents bounds.
Event == events < MaxEvents /\ events' = events + 1

InitStore ==
  /\ mem = EmptyStore
  /\ disk = NoFile
  /\ th = [t \in Thread |-> IdleThread]
  /\ behind = {}
  /\ boots = 0
  /\ events = 0

At(t, pc) == th[t].pc = pc

Goto(t, pc) == th' = [th EXCEPT ![t].pc = pc]

End(t) == th' = [th EXCEPT ![t] = IdleThread]

-----------------------------------------------------------------------------
(* save_store(), called by a thread that has changed the memory.           *)

\* Bug: the lock is not taken.
LockIgnored == TRUE

\* _STORE_LOCK is held from the copy to the rename.
LockFree == \A t \in Thread : ~At(t, "replace")

\* The copy of the memory.
Snapshot(t) ==
  /\ At(t, "save")
  /\ LockFree
  /\ th' = [th EXCEPT ![t].pc = "replace",
                      ![t].img = [i \in Incident |-> Stored(mem[i])]]
  /\ behind' = {}
  /\ UNCHANGED <<mem, disk, boots, events>>

\* The resume thread drops its claim after the save; the others are done.
Saved(t) ==
  th' = [th EXCEPT ![t] = IF t = "resumer" THEN [@ EXCEPT !.pc = "release", !.img = NoFile]
                          ELSE IdleThread]

\* os.replace.
Replace(t) ==
  /\ At(t, "replace")
  /\ disk' = th[t].img
  /\ Saved(t)
  /\ UNCHANGED <<mem, behind, boots, events>>

\* _save_best_effort swallows the OSError.
ReplaceFails(t) ==
  /\ At(t, "replace") /\ Event
  /\ behind' = behind \cup {i \in Incident : OnDisk(i) # th[t].img[i]}
  /\ Saved(t)
  /\ UNCHANGED <<mem, disk, boots>>

-----------------------------------------------------------------------------
(* _ensure_loaded() and the handlers that call it.                         *)

Ops == {"create", "get", "advance"}

\* A call that cannot be answered from the memory alone.  get_run() looks for
\* the id first; list_runs() is a get on an empty memory, and create_run()
\* calls _ensure_loaded() without an id.
HttpCall(t, op, i) ==
  /\ At(t, "idle") /\ t \in Http /\ Event
  /\ op = "get" => mem[i] = NoRun
  /\ th' = [th EXCEPT ![t].id = i, ![t].op = op,
       ![t].pc = IF op = "advance" /\ mem[i] # NoRun THEN "answer" ELSE "ensure"]
  /\ UNCHANGED <<mem, disk, behind, boots>>

\* _read_store(): the whole file, run by run.
ReadStore == [i \in Incident |-> Restored(disk[i])]

\* A miss on warm memory merges, a miss on empty memory restores everything.
EnsureLoaded(t) ==
  LET read(pc) == th' = [th EXCEPT ![t].pc = pc, ![t].staged = ReadStore] IN
  /\ At(t, "ensure")
  /\ IF disk = NoFile THEN Goto(t, "answer")
     ELSE IF mem = EmptyStore THEN read("clear")
     ELSE IF th[t].op = "create" THEN Goto(t, "answer")
     ELSE read("merge")
  /\ UNCHANGED <<mem, disk, behind, boots, events>>

\* load_store(): REPO_STORE.clear() ...
Clear(t) ==
  /\ At(t, "clear")
  /\ mem' = EmptyStore
  /\ Goto(t, "fill")
  /\ UNCHANGED <<disk, behind, boots, events>>

\* ... and REPO_STORE.update(staged).
Fill(t) ==
  /\ At(t, "fill")
  /\ mem' = [i \in Incident |-> IF th[t].staged[i] = NoRun THEN mem[i] ELSE th[t].staged[i]]
  /\ th' = [th EXCEPT ![t].pc = "answer", ![t].staged = NoFile]
  /\ UNCHANGED <<disk, behind, boots, events>>

\* REPO_STORE.setdefault(key, run).
Merge(t) ==
  /\ At(t, "merge")
  /\ mem' = [i \in Incident |-> IF mem[i] = NoRun THEN th[t].staged[i] ELSE mem[i]]
  /\ th' = [th EXCEPT ![t].pc = "answer", ![t].staged = NoFile]
  /\ UNCHANGED <<disk, behind, boots, events>>

\* create_run(): RepoExists, or a new run.
CreateRun(t) ==
  /\ At(t, "answer") /\ th[t].op = "create"
  /\ IF mem[th[t].id] # NoRun
     THEN End(t) /\ UNCHANGED mem
     ELSE /\ mem' = [mem EXCEPT ![th[t].id] = [walk |-> 0, stage |-> "ACTIVE", results |-> FALSE]]
          /\ Goto(t, "save")
  /\ UNCHANGED <<disk, behind, boots, events>>

\* get_run() for a reader, and RepoMissing.
Answer(t) ==
  /\ At(t, "answer")
  /\ th[t].op = "get" \/ (th[t].op = "advance" /\ mem[th[t].id] = NoRun)
  /\ End(t)
  /\ UNCHANGED <<mem, disk, behind, boots, events>>

\* Where the edges of the FSM lead from a stage, in one or more calls.
Forward(s) ==
  {to \in Stage : s = "ACTIVE" \/ (s = "AWAITING_APPROVAL" /\ to = "ACTIVE")}

\* advance_run() and sweep_run(): the run moves and is saved, or the call
\* raises before the save.
AdvanceRun(t) ==
  /\ At(t, "answer") /\ th[t].op = "advance" /\ mem[th[t].id] # NoRun
  /\ \/ /\ \E s \in Forward(mem[th[t].id].stage) :
             mem' = [mem EXCEPT ![th[t].id].stage = s]
        /\ Goto(t, "save")
     \/ End(t) /\ UNCHANGED mem
  /\ UNCHANGED <<disk, behind, boots, events>>

\* A save blocks on nothing but the lock; so it ends.
SaveStep(t) == Snapshot(t) \/ Replace(t) \/ ReplaceFails(t)

HttpStep(t) ==
  \/ EnsureLoaded(t) \/ Clear(t) \/ Fill(t) \/ Merge(t)
  \/ CreateRun(t) \/ Answer(t) \/ AdvanceRun(t)

=============================================================================
