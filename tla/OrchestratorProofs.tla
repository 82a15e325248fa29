------------------------- MODULE OrchestratorProofs -------------------------
(***************************************************************************)
(* Theorems about Orchestrator, for every set of incidents and of HTTP     *)
(* threads, every capacity, every sequence of generated incidents and any  *)
(* number of restarts: no incident is driven twice in one life of the      *)
(* process, of none are two resumes on their way, and in the first life no *)
(* more are in flight than there is room for and the file follows the      *)
(* memory, those runs apart that a failed write or a resume that raised    *)
(* has left behind.                                                        *)
(*                                                                         *)
(* None is inductive.  An incident is not driven again because its claim   *)
(* is never given back and a queued one is claimed and was not driven yet  *)
(* (ClaimInv); a resume is alone because every resume that is queued or    *)
(* running holds the claim in resuming (ResumeInv).  A finished incident   *)
(* stays finished because the resume thread works on the run that is in    *)
(* the store (HoldInv), which nothing replaces or drops because whatever   *)
(* could be loaded is there already (LoadInv).  The file is the memory     *)
(* because a run that changes sends its thread to save or is noted as left *)
(* behind, and the thread that holds the lock writes the memory, or        *)
(* another save is to come (SaveInv).                                      *)
(***************************************************************************)
EXTENDS Orchestrator, FiniteSetTheorems, TLAPS

Pc == {"idle", "drive", "adopt", "save", "replace", "resume", "release",
       "ensure", "clear", "fill", "merge", "answer"}

ThreadState ==
  [pc : Pc, id : Incident \cup {NoRun}, op : Ops \cup {NoRun}, run : Run \cup {NoRun},
   img : File \cup {NoFile}, staged : Store \cup {NoFile}]

\* A thread that goes on to load has read the file, one that drives has an
\* incident, one that resumes has one and its run.
ThreadInv ==
  /\ th \in [Thread -> ThreadState]
  /\ \A t \in Thread :
       /\ th[t].pc \in {"clear", "fill", "merge"} => th[t].staged \in Store
       /\ th[t].pc = "drive" => th[t].id \in Incident
       /\ th[t].pc = "resume" => th[t].run \in Run /\ th[t].id \in Incident

\* Queued incidents are claimed, queued once and not yet driven; what was driven
\* is claimed, and was driven once.
ClaimInv ==
  /\ \A i \in Incident : i \notin claimed => walks[i] = 0
  /\ \A n \in DOMAIN queue : walks[queue[n]] = 0
  /\ \A m, n \in DOMAIN queue : queue[m] = queue[n] => m = n
  /\ \A i \in Incident : walks[i] \in {0, 1}

\* Every resume that is queued or running holds its incident's claim.
ResumeInv ==
  /\ \A n \in DOMAIN resumes : resumes[n] \in resuming
  /\ \A m, n \in DOMAIN resumes : resumes[m] = resumes[n] => m = n
  /\ \A n \in DOMAIN resumes : resumes[n] # th["resumer"].id
  /\ th["resumer"].id \in resuming \cup {NoRun}

StoreInv ==
  /\ mem \in Store /\ disk \in File \cup {NoFile}
  /\ behind \subseteq Incident /\ boots \in 0..MaxBoots /\ events \in 0..MaxEvents

OrchInv ==
  /\ claimed \subseteq Incident /\ resuming \subseteq Incident /\ pending \subseteq Incident
  /\ queue \in Seq(claimed) /\ resumes \in Seq(Incident)
  /\ enabled \in BOOLEAN /\ overwritten \in BOOLEAN
  /\ seeds \in 0..Len(Generated) /\ walks \in [Incident -> Nat]

IInv == ThreadInv /\ StoreInv /\ OrchInv /\ ClaimInv /\ ResumeInv

-----------------------------------------------------------------------------
(* Sequences: what joins at the end and leaves at the front.               *)

LEMMA AppendFacts ==
  ASSUME NEW S, NEW q \in Seq(S), NEW x \in S
  PROVE  /\ Append(q, x) \in Seq(S) /\ DOMAIN Append(q, x) = 1..(Len(q) + 1)
         /\ \A n \in DOMAIN q : Append(q, x)[n] = q[n]
         /\ Append(q, x)[Len(q) + 1] = x
         /\ DOMAIN q = 1..Len(q) /\ Len(q) \in Nat
OBVIOUS

LEMMA TailFacts ==
  ASSUME NEW S, NEW q \in Seq(S), q # << >>
  PROVE  /\ Tail(q) \in Seq(S) /\ Head(q) = q[1] /\ 1 \in DOMAIN q /\ q[1] \in S
         /\ \A n \in DOMAIN Tail(q) : n + 1 \in DOMAIN q /\ Tail(q)[n] = q[n + 1] /\ n + 1 # 1
         /\ DOMAIN Tail(q) \subseteq Nat
OBVIOUS

-----------------------------------------------------------------------------
(* Types.                                                                  *)

\* What a thread's steps write into its own record.
LEMMA ThreadWrites ==
  ASSUME ThreadInv, NEW t \in Thread
  PROVE  /\ th[t] \in ThreadState
         /\ \A pc \in Pc \ {"clear", "fill", "merge", "drive", "resume"} : Goto(t, pc) => ThreadInv'
         /\ End(t) => ThreadInv'
<1>1. th[t] \in ThreadState
  BY DEF ThreadInv
<1>2. ASSUME NEW pc \in Pc \ {"clear", "fill", "merge", "drive", "resume"}, Goto(t, pc)
      PROVE  ThreadInv'
  <2> DEFINE r == [th[t] EXCEPT !.pc = pc]
  <2>1. r \in ThreadState /\ r.pc = pc
    BY <1>1 DEF ThreadState, Pc
  <2>2. th' = [th EXCEPT ![t] = r]
    BY <1>2 DEF Goto
  <2> HIDE DEF r
  <2> QED BY <2>1, <2>2 DEF ThreadInv
<1>3. ASSUME End(t) PROVE ThreadInv'
  <2>1. IdleThread \in ThreadState /\ IdleThread.pc = "idle"
    BY DEF IdleThread, ThreadState, Pc
  <2> QED BY <1>3, <2>1 DEF End, ThreadInv
<1> QED BY <1>1, <1>2, <1>3

LEMMA StoreTypes ==
  /\ EmptyStore \in Store
  /\ \A m \in Store : [i \in Incident |-> Stored(m[i])] \in File
  /\ \A f \in File : [i \in Incident |-> Restored(f[i])] \in Store
<1>1. EmptyStore \in Store
  BY DEF EmptyStore, Store
<1>2. ASSUME NEW r \in Run PROVE Stored(r) \in FileRun \cup {NoRun}
  BY DEF Run, FileRun, Stored
<1>3. ASSUME NEW r \in FileRun PROVE Restored(r) \in Run \cup {NoRun}
  BY DEF Run, FileRun, Restored
<1>4. Stored(NoRun) = NoRun /\ Restored(NoRun) = NoRun
  BY DEF Stored, Restored
<1>5. ASSUME NEW m \in Store PROVE [i \in Incident |-> Stored(m[i])] \in File
  BY <1>2, <1>4 DEF Store, File
<1>6. ASSUME NEW f \in File PROVE [i \in Incident |-> Restored(f[i])] \in Store
  BY <1>3, <1>4 DEF Store, File
<1> QED BY <1>1, <1>5, <1>6

LEMMA TypeFromInv == IInv => TypeOK
<1>1. ASSUME ThreadInv, NEW t \in Thread
      PROVE  /\ th[t].pc \in {"idle", "drive", "adopt", "save", "replace", "resume",
                               "release", "ensure", "clear", "fill", "merge", "answer"}
             /\ th[t].id \in Incident \cup {NoRun} /\ th[t].op \in Ops \cup {NoRun}
             /\ th[t].run \in Run \cup {NoRun} /\ th[t].img \in File \cup {NoFile}
             /\ th[t].staged \in Store \cup {NoFile}
  <2>1. th[t] \in ThreadState
    BY <1>1 DEF ThreadInv
  <2> QED BY <2>1 DEF ThreadState, Pc
<1> QED BY <1>1 DEF IInv, StoreInv, OrchInv, TypeOK

-----------------------------------------------------------------------------
(* The store's steps, which the orchestrator's own state does not see.     *)

LEMMA SaveSteps ==
  ASSUME IInv, NEW t \in Thread, SaveStep(t)
  PROVE  ThreadInv' /\ StoreInv' /\ th'["resumer"].id = th["resumer"].id
<1>1. ThreadInv /\ StoreInv /\ th[t] \in ThreadState /\ th["resumer"] \in ThreadState /\ "resumer" \in Thread
  BY DEF IInv, ThreadInv, Thread
<1>2. CASE Snapshot(t)
  <2> DEFINE img == [i \in Incident |-> Stored(mem[i])]
             r == [th[t] EXCEPT !.pc = "replace", !.img = img]
  <2>1. img \in File
    BY <1>1, StoreTypes DEF StoreInv
  <2> HIDE DEF img
  <2>2. r \in ThreadState /\ r.pc = "replace" /\ r.id = th[t].id
    BY <1>1, <2>1 DEF ThreadState, Pc
  <2>3. th' = [th EXCEPT ![t] = r]
    BY <1>1, <1>2 DEF Snapshot, ThreadInv, img
  <2> HIDE DEF r
  <2>4. ThreadInv' /\ th'["resumer"].id = th["resumer"].id
    BY <1>1, <2>2, <2>3 DEF ThreadInv
  <2>5. behind' \subseteq Incident
    BY <1>2 DEF Snapshot
  <2> QED BY <1>1, <1>2, <2>4, <2>5 DEF Snapshot, StoreInv
<1>3. ASSUME Saved(t) PROVE ThreadInv' /\ th'["resumer"].id = th["resumer"].id
  <2> DEFINE r == [th[t] EXCEPT !.pc = "release", !.img = NoFile]
  <2>1. r \in ThreadState /\ r.pc = "release" /\ r.id = th[t].id
    BY <1>1 DEF ThreadState, Pc
  <2>2. IdleThread \in ThreadState /\ IdleThread.pc = "idle"
    BY DEF IdleThread, ThreadState, Pc
  <2>3. th' = [th EXCEPT ![t] = IF t = "resumer" THEN r ELSE IdleThread]
    BY <1>1, <1>3 DEF Saved, ThreadInv
  <2> HIDE DEF r
  <2> QED BY <1>1, <2>1, <2>2, <2>3 DEF ThreadInv
<1>4. CASE Replace(t)
  <2>1. th[t].img \in File \cup {NoFile}
    BY <1>1 DEF ThreadState
  <2> QED BY <1>1, <1>3, <1>4, <2>1 DEF Replace, StoreInv
<1>5. CASE ReplaceFails(t)
  <2>1. events' \in 0..MaxEvents /\ UNCHANGED <<mem, disk, boots>>
    BY <1>1, <1>5, MaxEventsAssumption DEF ReplaceFails, Event, StoreInv
  <2>2. behind' \subseteq Incident
    BY <1>1, <1>5 DEF ReplaceFails, StoreInv
  <2> QED BY <1>1, <1>3, <1>5, <2>1, <2>2 DEF ReplaceFails, StoreInv
<1> QED BY <1>2, <1>4, <1>5 DEF SaveStep

\* An HTTP thread is not the resume thread.
LEMMA HttpIsAnother ==
  ASSUME NEW t \in Http
  PROVE  t \in Thread /\ t # "resumer" /\ "resumer" \in Thread
BY HttpAssumption DEF Thread

LEMMA HttpSteps ==
  ASSUME IInv, NEW t \in Http, HttpStep(t)
  PROVE  ThreadInv' /\ StoreInv' /\ th'["resumer"] = th["resumer"]
<1>1. /\ ThreadInv /\ StoreInv /\ th[t] \in ThreadState /\ t \in Thread /\ t # "resumer"
      /\ th \in [Thread -> ThreadState]
  BY HttpIsAnother DEF IInv, ThreadInv
<1>2. ASSUME NEW r, th' = [th EXCEPT ![t] = r] PROVE th'["resumer"] = th["resumer"]
  BY <1>1, <1>2
<1>3. \A pc : Goto(t, pc) => th'["resumer"] = th["resumer"]
  BY <1>2 DEF Goto
<1>4. End(t) => th'["resumer"] = th["resumer"]
  BY <1>2 DEF End
<1>5. ASSUME NEW pc \in {"clear", "merge"}, disk # NoFile,
             th' = [th EXCEPT ![t].pc = pc, ![t].staged = ReadStore]
      PROVE  ThreadInv' /\ th'["resumer"] = th["resumer"]
  <2>1. ReadStore \in Store
    BY <1>1, <1>5, StoreTypes DEF ReadStore, StoreInv
  <2> DEFINE r == [th[t] EXCEPT !.pc = pc, !.staged = ReadStore]
  <2>2. r \in ThreadState /\ r.staged \in Store /\ r.pc = pc
    BY <1>1, <2>1 DEF ThreadState, Pc
  <2>3. th' = [th EXCEPT ![t] = r]
    BY <1>1, <1>5
  <2> HIDE DEF r
  <2> QED BY <1>1, <1>2, <2>2, <2>3 DEF ThreadInv
<1>6. CASE EnsureLoaded(t)
  <2>1. UNCHANGED <<mem, disk, behind, boots, events>>
    BY <1>6 DEF EnsureLoaded
  <2>2. \/ Goto(t, "answer")
        \/ disk # NoFile /\ \E pc \in {"clear", "merge"} :
              th' = [th EXCEPT ![t].pc = pc, ![t].staged = ReadStore]
    BY <1>6 DEF EnsureLoaded
  <2>3. ThreadInv' /\ th'["resumer"] = th["resumer"]
    BY <1>1, <1>3, <1>5, <2>2, ThreadWrites DEF Pc
  <2> QED BY <1>1, <2>1, <2>3 DEF StoreInv
<1>7. CASE Clear(t)
  <2>1. th[t].staged \in Store
    BY <1>1, <1>7 DEF Clear, At, ThreadInv
  <2> DEFINE r == [th[t] EXCEPT !.pc = "fill"]
  <2>2. r \in ThreadState /\ r.staged \in Store /\ r.pc = "fill"
    BY <1>1, <2>1 DEF ThreadState, Pc
  <2>3. th' = [th EXCEPT ![t] = r]
    BY <1>7 DEF Clear, Goto
  <2> HIDE DEF r
  <2> QED BY <1>1, <1>2, <1>7, <2>2, <2>3, StoreTypes DEF Clear, ThreadInv, StoreInv
<1>8. ASSUME th' = [th EXCEPT ![t].pc = "answer", ![t].staged = NoFile]
      PROVE  ThreadInv' /\ th'["resumer"] = th["resumer"]
  <2> DEFINE r == [th[t] EXCEPT !.pc = "answer", !.staged = NoFile]
  <2>1. r \in ThreadState /\ r.pc = "answer"
    BY <1>1 DEF ThreadState, Pc
  <2>2. th' = [th EXCEPT ![t] = r]
    BY <1>1, <1>8
  <2> HIDE DEF r
  <2> QED BY <1>1, <1>2, <2>1, <2>2 DEF ThreadInv
<1>9. CASE Fill(t) \/ Merge(t)
  <2>1. th[t].staged \in Store
    BY <1>1, <1>9 DEF Fill, Merge, At, ThreadInv
  <2>2. mem' \in Store
    BY <1>1, <1>9, <2>1 DEF Fill, Merge, StoreInv, Store
  <2> QED BY <1>1, <1>8, <1>9, <2>2 DEF Fill, Merge, StoreInv
<1>10. CASE CreateRun(t)
  <2>1. [walk |-> 0, stage |-> "ACTIVE", results |-> FALSE] \in Run
    BY MaxBootsAssumption DEF Run, Stage
  <2>2. mem' \in Store
    BY <1>1, <1>10, <2>1 DEF CreateRun, StoreInv, Store
  <2>3. ThreadInv' /\ th'["resumer"] = th["resumer"]
    BY <1>1, <1>3, <1>4, <1>10, ThreadWrites DEF CreateRun, Pc
  <2> QED BY <1>1, <1>10, <2>2, <2>3 DEF CreateRun, StoreInv
<1>11. CASE Answer(t)
  BY <1>1, <1>4, <1>11, ThreadWrites DEF Answer, StoreInv
<1>12. CASE AdvanceRun(t)
  <2>1. mem' \in Store
    <3> DEFINE i == th[t].id
    <3>1. mem[i] # NoRun /\ i \in Incident \cup {NoRun}
      BY <1>1, <1>12 DEF AdvanceRun, ThreadState
    <3>2. ASSUME NEW s \in Forward(mem[i].stage), mem' = [mem EXCEPT ![i].stage = s]
          PROVE  mem' \in Store
      <4>1. s \in Stage
        BY <3>2 DEF Forward
      <4>2. CASE i \in Incident
        <5>1. mem[i] \in Run
          BY <1>1, <3>1, <4>2 DEF StoreInv, Store
        <5>2. [mem[i] EXCEPT !.stage = s] \in Run
          BY <4>1, <5>1 DEF Run
        <5> QED BY <1>1, <3>2, <5>2 DEF StoreInv, Store
      <4>3. CASE i \notin Incident
        BY <1>1, <3>2, <4>3 DEF StoreInv, Store
      <4> QED BY <4>2, <4>3
    <3> QED BY <1>1, <1>12, <3>2 DEF AdvanceRun, StoreInv
  <2>2. ThreadInv' /\ th'["resumer"] = th["resumer"]
    BY <1>1, <1>3, <1>4, <1>12, ThreadWrites DEF AdvanceRun, Pc
  <2> QED BY <1>1, <1>12, <2>1, <2>2 DEF AdvanceRun, StoreInv
<1> QED BY <1>6, <1>7, <1>9, <1>10, <1>11, <1>12 DEF HttpStep

LEMMA HttpCalls ==
  ASSUME IInv, NEW t \in Http, NEW op \in Ops, NEW i \in Incident, HttpCall(t, op, i)
  PROVE  ThreadInv' /\ StoreInv' /\ th'["resumer"] = th["resumer"]
<1>1. /\ ThreadInv /\ StoreInv /\ th[t] \in ThreadState /\ t \in Thread /\ t # "resumer"
      /\ th \in [Thread -> ThreadState]
  BY HttpIsAnother DEF IInv, ThreadInv
<1> DEFINE pc == IF op = "advance" /\ mem[i] # NoRun THEN "answer" ELSE "ensure"
           r == [th[t] EXCEPT !.id = i, !.op = op, !.pc = pc]
<1>2. r \in ThreadState /\ r.pc \in {"answer", "ensure"}
  BY <1>1 DEF ThreadState, Pc
<1>3. th' = [th EXCEPT ![t] = r]
  BY <1>1 DEF HttpCall
<1>4. UNCHANGED <<mem, disk, behind, boots>> /\ events' \in 0..MaxEvents
  BY <1>1, MaxEventsAssumption DEF HttpCall, Event, StoreInv
<1> HIDE DEF r
<1> QED BY <1>1, <1>2, <1>3, <1>4 DEF ThreadInv, StoreInv

-----------------------------------------------------------------------------
(* Submission.                                                             *)

\* An accepted incident is claimed, queued at the end, and nothing else.
LEMMA AcceptKeeps ==
  ASSUME IInv, NEW i \in Incident, Accept(i), UNCHANGED walks
  PROVE  /\ claimed' \subseteq Incident /\ queue' \in Seq(claimed')
         /\ ClaimInv'
<1>1. /\ claimed \subseteq Incident /\ queue \in Seq(claimed) /\ ClaimInv
      /\ walks \in [Incident -> Nat]
  BY DEF IInv, OrchInv
<1>2. i \notin claimed /\ claimed' = claimed \cup {i} /\ queue' = Append(queue, i)
  BY DEF Accept
<1>3. queue \in Seq(claimed') /\ i \in claimed' /\ claimed' \subseteq Incident
  BY <1>1, <1>2
<1>4. /\ queue' \in Seq(claimed') /\ DOMAIN queue' = 1..(Len(queue) + 1)
      /\ \A n \in DOMAIN queue : queue'[n] = queue[n]
      /\ queue'[Len(queue) + 1] = i
      /\ DOMAIN queue = 1..Len(queue) /\ Len(queue) \in Nat
  BY <1>2, <1>3, AppendFacts
<1>5. \A n \in DOMAIN queue' : n \in DOMAIN queue \/ n = Len(queue) + 1
  BY <1>4
<1>6. \A n \in DOMAIN queue : queue[n] \in claimed /\ queue[n] # i
  BY <1>1, <1>2
<1>7. walks[i] = 0
  BY <1>1, <1>2 DEF ClaimInv
<1>8. \A n \in DOMAIN queue' : walks[queue'[n]] = 0
  BY <1>1, <1>4, <1>5, <1>7 DEF ClaimInv
<1>9. \A m, n \in DOMAIN queue' : queue'[m] = queue'[n] => m = n
  BY <1>1, <1>4, <1>5, <1>6 DEF ClaimInv
<1>10. ClaimInv'
  BY <1>1, <1>2, <1>8, <1>9 DEF ClaimInv
<1> QED BY <1>3, <1>4, <1>10

LEMMA SubmitSteps ==
  ASSUME IInv, \/ \E i \in Incident : Ingest(i) \/ Webhook(i)
               \/ GenerateOne
  PROVE  IInv'
<1>1. /\ UNCHANGED <<storeVars, resuming, resumes, enabled, pending, walks, overwritten>>
      /\ seeds' \in 0..Len(Generated)
      /\ \/ \E i \in Incident : Accept(i)
         \/ UNCHANGED <<claimed, queue>>
  <2>1. CASE \E i \in Incident : Ingest(i) \/ Webhook(i)
    BY <2>1 DEF Ingest, Webhook, IInv, OrchInv
  <2>2. CASE GenerateOne
    <3>1. seeds \in Nat /\ seeds + 1 \in 1..Len(Generated) /\ seeds' = seeds + 1
      BY <2>2, GeneratedAssumption DEF GenerateOne, IInv, OrchInv
    <3>2. Generated[seeds + 1] \in Incident
      BY <3>1, GeneratedAssumption
    <3>3. seeds' \in 0..Len(Generated)
      BY <3>1, GeneratedAssumption
    <3> QED BY <2>2, <3>2, <3>3 DEF GenerateOne
  <2> QED BY <2>1, <2>2
<1>2. /\ claimed' \subseteq Incident /\ queue' \in Seq(claimed')
      /\ ClaimInv'
  <2>1. CASE \E i \in Incident : Accept(i)
    BY <1>1, <2>1, AcceptKeeps
  <2>2. CASE UNCHANGED <<claimed, queue>>
    BY <1>1, <2>2 DEF IInv, OrchInv, ClaimInv
  <2> QED BY <1>1, <2>1, <2>2
<1>3. OrchInv'
  BY <1>1, <1>2 DEF IInv, OrchInv
<1>4. ThreadInv' /\ StoreInv' /\ ResumeInv'
  BY <1>1 DEF IInv, storeVars, ThreadInv, StoreInv, ResumeInv
<1> QED BY <1>2, <1>3, <1>4 DEF IInv

LEMMA StopStep ==
  ASSUME IInv, Stop
  PROVE  IInv'
<1>1. events' \in 0..MaxEvents /\ UNCHANGED <<mem, disk, th, behind, boots>>
  BY MaxEventsAssumption DEF Stop, Event, IInv, StoreInv
<1>2. ThreadInv' /\ StoreInv'
  BY <1>1 DEF IInv, ThreadInv, StoreInv
<1>3. enabled' \in BOOLEAN
  BY DEF Stop
<1>4. UNCHANGED <<claimed, queue, resuming, resumes, seeds, pending, walks, overwritten>>
  BY DEF Stop
<1>5. OrchInv'
  BY <1>3, <1>4 DEF IInv, OrchInv
<1>6. ClaimInv' /\ ResumeInv'
  BY <1>1, <1>4 DEF IInv, ClaimInv, ResumeInv
<1> QED BY <1>2, <1>5, <1>6 DEF IInv

\* Nothing of the old life is left but the files.
LEMMA RestartStep ==
  ASSUME IInv, Restart
  PROVE  IInv'
<1>1. IdleThread \in ThreadState /\ IdleThread.pc = "idle" /\ IdleThread.id = NoRun
  BY DEF IdleThread, ThreadState, Pc
<1>2. "resumer" \in Thread
  BY DEF Thread
<1>3. ThreadInv' /\ th'["resumer"].id = NoRun
  BY <1>1, <1>2 DEF Restart, ThreadInv
<1>4. StoreInv'
  <2>1. boots' \in 0..MaxBoots /\ events' \in 0..MaxEvents
    BY MaxBootsAssumption, MaxEventsAssumption DEF Restart, Event, IInv, StoreInv
  <2>2. behind' \subseteq Incident
    BY DEF Restart
  <2>3. mem' \in Store /\ disk' \in File \cup {NoFile}
    BY StoreTypes DEF Restart, IInv, StoreInv
  <2> QED BY <2>1, <2>2, <2>3 DEF StoreInv
<1>5. OrchInv'
  <2>1. enabled' \in BOOLEAN /\ overwritten' \in BOOLEAN
    BY DEF Restart
  <2>2. seeds' \in 0..Len(Generated) /\ queue' \in Seq(claimed') /\ resumes' \in Seq(Incident)
    BY GeneratedAssumption DEF Restart
  <2>3. /\ claimed' \subseteq Incident /\ resuming' \subseteq Incident /\ pending' \subseteq Incident
        /\ walks' \in [Incident -> Nat]
    BY DEF Restart, IInv, OrchInv
  <2> QED BY <2>1, <2>2, <2>3 DEF OrchInv
<1>6. ClaimInv' /\ ResumeInv'
  BY <1>3 DEF Restart, ClaimInv, ResumeInv
<1> QED BY <1>3, <1>4, <1>5, <1>6 DEF IInv

-----------------------------------------------------------------------------
(* The worker.                                                             *)

LEMMA WorkerIsAnother == "worker" \in Thread /\ "resumer" \in Thread /\ "worker" # "resumer"
BY DEF Thread

\* The worker writes its own record: the resume thread's stays.
LEMMA WorkerWrites ==
  ASSUME IInv, NEW r \in ThreadState, r.pc \notin {"clear", "fill", "merge", "resume"},
         r.pc = "drive" => r.id \in Incident,
         th' = [th EXCEPT !["worker"] = r]
  PROVE  ThreadInv' /\ th'["resumer"] = th["resumer"]
BY WorkerIsAnother DEF IInv, ThreadInv

\* The first of the queue is driven, once, and stays claimed.
LEMMA TakeJobStep ==
  ASSUME IInv, TakeJob
  PROVE  IInv'
<1>1. /\ ThreadInv /\ OrchInv /\ ClaimInv /\ th["worker"] \in ThreadState
      /\ th \in [Thread -> ThreadState]
  BY WorkerIsAnother DEF IInv, ThreadInv
<1> DEFINE i == Head(queue)
           r == [th["worker"] EXCEPT !.pc = "drive", !.id = i]
<1>2. /\ queue # << >> /\ queue' = Tail(queue) /\ walks' = [walks EXCEPT ![i] = @ + 1]
      /\ th' = [th EXCEPT !["worker"].pc = "drive", !["worker"].id = i]
      /\ UNCHANGED <<mem, disk, behind, boots, events, claimed, resuming, resumes,
                     enabled, seeds, pending, overwritten>>
  BY DEF TakeJob
<1>3. queue \in Seq(claimed) /\ claimed \subseteq Incident /\ walks \in [Incident -> Nat]
  BY <1>1 DEF OrchInv
<1>4. /\ queue' \in Seq(claimed) /\ i = queue[1] /\ 1 \in DOMAIN queue /\ i \in claimed
      /\ \A n \in DOMAIN queue' : n + 1 \in DOMAIN queue /\ queue'[n] = queue[n + 1] /\ n + 1 # 1
      /\ DOMAIN queue' \subseteq Nat
  BY <1>2, <1>3, TailFacts
<1>5. r \in ThreadState /\ r.pc = "drive" /\ r.id \in Incident
  BY <1>1, <1>3, <1>4 DEF ThreadState, Pc
<1>6. th' = [th EXCEPT !["worker"] = r]
  BY <1>1, <1>2
<1> HIDE DEF r
<1>7. ThreadInv' /\ th'["resumer"] = th["resumer"]
  BY <1>5, <1>6, WorkerWrites
<1>8. walks[i] = 0 /\ i \in Incident
  BY <1>1, <1>3, <1>4 DEF ClaimInv
<1> HIDE DEF i
<1>9. walks' \in [Incident -> Nat] /\ walks'[i] = 1
      /\ \A j \in Incident \ {i} : walks'[j] = walks[j]
  BY <1>2, <1>3, <1>8
<1>10. \A n \in DOMAIN queue' : queue'[n] # i /\ queue'[n] \in Incident /\ walks[queue'[n]] = 0
  BY <1>1, <1>3, <1>4 DEF ClaimInv
<1>11. \A m, n \in DOMAIN queue' : queue'[m] = queue'[n] => m = n
  BY <1>1, <1>4 DEF ClaimInv
<1>12. ClaimInv'
  BY <1>1, <1>2, <1>4, <1>8, <1>9, <1>10, <1>11 DEF ClaimInv
<1>13. OrchInv'
  BY <1>1, <1>2, <1>4, <1>9 DEF OrchInv
<1> QED BY <1>2, <1>7, <1>12, <1>13 DEF IInv, StoreInv, ResumeInv

LEMMA DriveStep ==
  ASSUME IInv, Drive
  PROVE  IInv'
<1>1. /\ ThreadInv /\ OrchInv /\ StoreInv /\ th["worker"] \in ThreadState
      /\ th \in [Thread -> ThreadState] /\ th["worker"].id \in Incident
  BY WorkerIsAnother DEF IInv, ThreadInv, Drive, At
<1>2. PICK s \in {"AWAITING_APPROVAL", "TERMINAL", "ACTIVE"} :
        /\ th' = [th EXCEPT !["worker"].pc = "adopt",
                            !["worker"].run = [walk |-> boots + 1, stage |-> s,
                                               results |-> s = "ACTIVE"]]
        /\ pending' = IF s = "AWAITING_APPROVAL" THEN pending \cup {th["worker"].id} ELSE pending
  BY DEF Drive
<1>3. UNCHANGED <<mem, disk, behind, boots, events, claimed, queue, resuming,
                  resumes, enabled, seeds, walks, overwritten>>
  BY DEF Drive
<1>4. [walk |-> boots + 1, stage |-> s, results |-> s = "ACTIVE"] \in Run
  BY <1>1, MaxBootsAssumption DEF StoreInv, Run, Stage
<1> DEFINE r == [th["worker"] EXCEPT !.pc = "adopt",
                   !.run = [walk |-> boots + 1, stage |-> s, results |-> s = "ACTIVE"]]
<1>5. r \in ThreadState /\ r.pc = "adopt"
  BY <1>1, <1>4 DEF ThreadState, Pc
<1>6. th' = [th EXCEPT !["worker"] = r]
  BY <1>1, <1>2
<1> HIDE DEF r
<1>7. ThreadInv' /\ th'["resumer"] = th["resumer"]
  BY <1>5, <1>6, WorkerWrites
<1>8. pending' \subseteq Incident
  BY <1>1, <1>2 DEF OrchInv
<1>9. StoreInv' /\ OrchInv'
  BY <1>1, <1>3, <1>8 DEF StoreInv, OrchInv
<1>10. ClaimInv' /\ ResumeInv'
  BY <1>3, <1>7 DEF IInv, ClaimInv, ResumeInv
<1> QED BY <1>7, <1>9, <1>10 DEF IInv

LEMMA DriveFailsStep ==
  ASSUME IInv, DriveFails
  PROVE  IInv'
<1>1. IdleThread \in ThreadState /\ IdleThread.pc = "idle"
  BY DEF IdleThread, ThreadState, Pc
<1>2. th' = [th EXCEPT !["worker"] = IdleThread]
  BY DEF DriveFails, End
<1>3. ThreadInv' /\ th'["resumer"] = th["resumer"]
  BY <1>1, <1>2, WorkerWrites
<1>4. UNCHANGED <<mem, disk, behind, boots, events, orchVars>>
  BY DEF DriveFails
<1> QED BY <1>3, <1>4 DEF orchVars, IInv, StoreInv, OrchInv, ClaimInv, ResumeInv

LEMMA AdoptStep ==
  ASSUME IInv, Adopt
  PROVE  IInv'
<1>1. /\ ThreadInv /\ OrchInv /\ StoreInv /\ th["worker"] \in ThreadState
      /\ th \in [Thread -> ThreadState]
  BY WorkerIsAnother DEF IInv, ThreadInv
<1> DEFINE r == [th["worker"] EXCEPT !.pc = "save", !.run = NoRun]
<1>2. r \in ThreadState /\ r.pc = "save"
  BY <1>1 DEF ThreadState, Pc
<1>3. th' = [th EXCEPT !["worker"] = r]
  BY <1>1 DEF Adopt
<1> HIDE DEF r
<1>4. ThreadInv' /\ th'["resumer"] = th["resumer"]
  BY <1>2, <1>3, WorkerWrites
<1>5. th["worker"].run \in Run \cup {NoRun}
  BY <1>1 DEF ThreadState
<1>6. mem' \in Store
  BY <1>1, <1>5 DEF Adopt, StoreInv, Store
<1>7. UNCHANGED <<disk, behind, boots, events>>
  BY DEF Adopt
<1>8. UNCHANGED <<claimed, queue, resuming, resumes, enabled, seeds, pending, walks>>
  BY DEF Adopt
<1>9. overwritten' \in BOOLEAN
  BY DEF Adopt
<1>10. StoreInv' /\ OrchInv'
  BY <1>1, <1>6, <1>7, <1>8, <1>9 DEF StoreInv, OrchInv
<1> QED BY <1>4, <1>8, <1>10 DEF IInv, ClaimInv, ResumeInv

-----------------------------------------------------------------------------
(* Approvals and the resume thread.                                        *)

LEMMA RequestApprovalStep ==
  ASSUME IInv, NEW i \in Incident, RequestApproval(i)
  PROVE  IInv'
<1>1. events' \in 0..MaxEvents /\ UNCHANGED <<mem, disk, th, behind, boots>>
  BY MaxEventsAssumption DEF RequestApproval, Event, IInv, StoreInv
<1>2. ThreadInv' /\ StoreInv'
  BY <1>1 DEF IInv, ThreadInv, StoreInv
<1>3. pending' \subseteq Incident
  BY DEF RequestApproval, IInv, OrchInv
<1>4. UNCHANGED <<claimed, queue, resuming, resumes, enabled, seeds, walks, overwritten>>
  BY DEF RequestApproval
<1> QED BY <1>1, <1>2, <1>3, <1>4 DEF IInv, OrchInv, ClaimInv, ResumeInv

\* A resume is queued with its claim, or not at all.
LEMMA ApproveStep ==
  ASSUME IInv, NEW i \in Incident, Approve(i)
  PROVE  IInv'
<1>1. UNCHANGED <<storeVars, claimed, queue, enabled, seeds, walks, overwritten>>
      /\ pending' \subseteq Incident
  BY DEF Approve, IInv, OrchInv
<1>2. ThreadInv' /\ StoreInv' /\ ClaimInv'
  BY <1>1 DEF storeVars, IInv, ThreadInv, StoreInv, ClaimInv
<1>3. /\ resuming \subseteq Incident /\ resumes \in Seq(Incident) /\ ResumeInv
  BY DEF IInv, OrchInv
<1>4. /\ resuming' \subseteq Incident /\ resumes' \in Seq(Incident)
      /\ ResumeInv'
  <2>1. CASE i \in resuming
    BY <1>1, <1>3, <2>1 DEF Approve, ResumeInv, storeVars
  <2>2. CASE i \notin resuming
    <3>1. resuming' = resuming \cup {i} /\ resumes' = Append(resumes, i) /\ th' = th
      BY <1>1, <2>2 DEF Approve, storeVars
    <3>2. /\ resumes' \in Seq(Incident) /\ DOMAIN resumes' = 1..(Len(resumes) + 1)
          /\ \A n \in DOMAIN resumes : resumes'[n] = resumes[n]
          /\ resumes'[Len(resumes) + 1] = i
          /\ DOMAIN resumes = 1..Len(resumes) /\ Len(resumes) \in Nat
      BY <1>3, <3>1, AppendFacts
    <3>3. \A n \in DOMAIN resumes' : n \in DOMAIN resumes \/ n = Len(resumes) + 1
      BY <3>2
    <3>4. \A n \in DOMAIN resumes : resumes[n] # i
      BY <1>3, <2>2 DEF ResumeInv
    <3>5. th["resumer"].id # i
      BY <1>3, <2>2, NoRunAssumption DEF ResumeInv
    <3>6. \A m, n \in DOMAIN resumes' : resumes'[m] = resumes'[n] => m = n
      BY <1>3, <3>2, <3>3, <3>4 DEF ResumeInv
    <3>7. \A n \in DOMAIN resumes' : resumes'[n] \in resuming' /\ resumes'[n] # th["resumer"].id
      BY <1>3, <3>1, <3>2, <3>3, <3>5 DEF ResumeInv
    <3>8. th["resumer"].id \in resuming' \cup {NoRun}
      BY <1>3, <3>1 DEF ResumeInv
    <3>9. ResumeInv'
      BY <3>1, <3>6, <3>7, <3>8 DEF ResumeInv
    <3> QED BY <1>3, <3>1, <3>2, <3>9
  <2> QED BY <2>1, <2>2
<1>5. OrchInv'
  BY <1>1, <1>4 DEF IInv, OrchInv
<1> QED BY <1>2, <1>4, <1>5 DEF IInv

\* The resume thread writes its own record, and may drop or take an incident.
LEMMA ResumerWrites ==
  ASSUME IInv, NEW r \in ThreadState, r.pc \notin {"clear", "fill", "merge", "drive"},
         r.pc = "resume" => r.run \in Run /\ r.id \in Incident,
         th' = [th EXCEPT !["resumer"] = r]
  PROVE  ThreadInv' /\ th'["resumer"] = r
BY WorkerIsAnother DEF IInv, ThreadInv

\* The first resume leaves the queue; the thread has it, or its claim is left.
LEMMA TakeResumeStep ==
  ASSUME IInv, TakeResume
  PROVE  IInv'
<1>1. /\ ThreadInv /\ OrchInv /\ StoreInv /\ ResumeInv /\ th["resumer"] \in ThreadState
      /\ th \in [Thread -> ThreadState]
  BY WorkerIsAnother DEF IInv, ThreadInv
<1> DEFINE i == Head(resumes)
           r == [th["resumer"] EXCEPT !.pc = "resume", !.id = i, !.run = mem[i]]
<1>2. /\ resumes # << >> /\ resumes' = Tail(resumes) /\ resumes \in Seq(Incident)
      /\ UNCHANGED <<mem, disk, behind, boots, events, claimed, queue, resuming,
                     enabled, seeds, pending, walks, overwritten>>
  BY <1>1 DEF TakeResume, OrchInv
<1>3. /\ resumes' \in Seq(Incident) /\ i = resumes[1] /\ 1 \in DOMAIN resumes /\ i \in Incident
      /\ \A n \in DOMAIN resumes' : n + 1 \in DOMAIN resumes /\ resumes'[n] = resumes[n + 1] /\ n + 1 # 1
      /\ DOMAIN resumes' \subseteq Nat
  BY <1>2, TailFacts
<1>4. /\ \A n \in DOMAIN resumes' : /\ resumes'[n] \in resuming /\ resumes'[n] # i
                                    /\ resumes'[n] # th["resumer"].id
      /\ i \in resuming
  BY <1>1, <1>3 DEF ResumeInv
<1>5. \A m, n \in DOMAIN resumes' : resumes'[m] = resumes'[n] => m = n
  BY <1>1, <1>3 DEF ResumeInv
<1>6. ThreadInv' /\ (th' = th \/ th'["resumer"].id = i)
  <2>1. CASE i \in claimed /\ mem[i] # NoRun
    <3>1. mem[i] \in Run
      BY <1>1, <1>3, <2>1 DEF StoreInv, Store
    <3>2. r \in ThreadState /\ r.pc = "resume" /\ r.run \in Run /\ r.id = i /\ r.id \in Incident
      BY <1>1, <1>3, <3>1 DEF ThreadState, Pc
    <3>3. th' = [th EXCEPT !["resumer"] = r]
      BY <1>1, <2>1 DEF TakeResume
    <3> HIDE DEF r
    <3> QED BY <3>2, <3>3, ResumerWrites
  <2>2. CASE ~(i \in claimed /\ mem[i] # NoRun)
    <3>1. th' = th
      BY <2>2 DEF TakeResume
    <3> QED BY <1>1, <3>1 DEF ThreadInv
  <2> QED BY <2>1, <2>2
<1> HIDE DEF i
<1>7. ResumeInv'
  BY <1>1, <1>2, <1>4, <1>5, <1>6 DEF ResumeInv
<1>8. OrchInv' /\ StoreInv' /\ ClaimInv'
  BY <1>1, <1>2, <1>3 DEF IInv, OrchInv, StoreInv, ClaimInv
<1> QED BY <1>6, <1>7, <1>8 DEF IInv

LEMMA ResumeStep ==
  ASSUME IInv, Resume
  PROVE  IInv'
<1>1. /\ ThreadInv /\ StoreInv /\ th["resumer"] \in ThreadState
      /\ th \in [Thread -> ThreadState] /\ th["resumer"].run \in Run
  BY WorkerIsAnother DEF IInv, ThreadInv, Resume, At
<1> DEFINE i == th["resumer"].id
           held == th["resumer"].run
           now == IF mem[i] # NoRun /\ mem[i].walk = held.walk THEN mem[i] ELSE held
           r == [th["resumer"] EXCEPT !.pc = "save", !.run = NoRun]
<1>2. r \in ThreadState /\ r.pc = "save" /\ r.id = i
  BY <1>1 DEF ThreadState, Pc
<1>3. th' = [th EXCEPT !["resumer"] = r]
  BY <1>1 DEF Resume
<1> HIDE DEF r
<1>4. ThreadInv' /\ th'["resumer"].id = th["resumer"].id
  BY <1>2, <1>3, ResumerWrites
<1>5. PICK s \in {"ACTIVE", "TERMINAL"} :
        mem' = [mem EXCEPT ![i] = [now EXCEPT !.stage = s, !.results = TRUE]]
  BY DEF Resume
<1>6. mem' \in Store
  <2>1. CASE i \in Incident
    <3>1. now \in Run
      BY <1>1, <2>1 DEF StoreInv, Store
    <3> HIDE DEF now
    <3>2. [now EXCEPT !.stage = s, !.results = TRUE] \in Run
      BY <3>1 DEF Run, Stage
    <3> QED BY <1>1, <1>5, <3>2 DEF StoreInv, Store
  <2>2. CASE i \notin Incident
    <3> HIDE DEF now
    <3> QED BY <1>1, <1>5, <2>2 DEF StoreInv, Store
  <2> QED BY <2>1, <2>2
<1>7. UNCHANGED <<disk, behind, boots, events, orchVars>>
  BY DEF Resume
<1>8. StoreInv'
  BY <1>1, <1>6, <1>7 DEF StoreInv
<1> QED BY <1>4, <1>7, <1>8 DEF IInv, orchVars, OrchInv, ClaimInv, ResumeInv

\* v is what the resume that raised has made of the waiting run of the store.
Moved(v) ==
  LET i == th["resumer"].id IN
  /\ i \in Incident /\ mem[i] \in Run /\ mem[i] # NoRun
  /\ mem[i].stage = "AWAITING_APPROVAL"
  /\ v.walk = mem[i].walk /\ v.stage = "ACTIVE"
  /\ mem' = [mem EXCEPT ![i] = v]

LEMMA MovedRun ==
  ASSUME IInv, ResumeFails, ~UNCHANGED <<mem, behind, events>>
  PROVE  \E v \in Run : Moved(v)
<1> DEFINE i == th["resumer"].id
<1>1. mem \in Store /\ th["resumer"] \in ThreadState
  BY WorkerIsAnother DEF IInv, ThreadInv, StoreInv
<1>2. PICK verified \in {mem[i].results, TRUE} :
        /\ mem[i] # NoRun /\ mem[i].stage = "AWAITING_APPROVAL"
        /\ mem' = [mem EXCEPT ![i].stage = "ACTIVE", ![i].results = verified]
  BY DEF ResumeFails
<1>3. i \in Incident
  BY WorkerIsAnother DEF ResumeFails, At, IInv, ThreadInv
<1>4. mem[i] \in Run
  BY <1>1, <1>2, <1>3 DEF Store
<1> DEFINE v == [mem[i] EXCEPT !.stage = "ACTIVE", !.results = verified]
<1>5. v \in Run /\ v.walk = mem[i].walk /\ v.stage = "ACTIVE"
  BY <1>2, <1>4 DEF Run, Stage
<1>6. mem' = [mem EXCEPT ![i] = v]
  BY <1>1, <1>2, <1>3, <1>4 DEF Store, Run
<1> HIDE DEF v
<1> QED BY <1>2, <1>3, <1>4, <1>5, <1>6 DEF Moved

LEMMA ResumeFailsStep ==
  ASSUME IInv, ResumeFails
  PROVE  IInv'
<1>1. th["resumer"] \in ThreadState /\ th \in [Thread -> ThreadState]
  BY WorkerIsAnother DEF IInv, ThreadInv
<1> DEFINE r == [th["resumer"] EXCEPT !.pc = "release", !.run = NoRun]
<1>2. r \in ThreadState /\ r.pc = "release" /\ r.id = th["resumer"].id
  BY <1>1 DEF ThreadState, Pc
<1>3. th' = [th EXCEPT !["resumer"] = r]
  BY <1>1 DEF ResumeFails
<1> HIDE DEF r
<1>4. ThreadInv' /\ th'["resumer"].id = th["resumer"].id
  BY <1>2, <1>3, ResumerWrites
<1>5. UNCHANGED <<disk, boots, orchVars>>
  BY DEF ResumeFails
<1>6. mem' \in Store /\ behind' \subseteq Incident /\ events' \in 0..MaxEvents
  <2>1. CASE UNCHANGED <<mem, behind, events>>
    BY <2>1 DEF IInv, StoreInv
  <2>2. CASE ~UNCHANGED <<mem, behind, events>>
    <3>1. PICK v \in Run : Moved(v)
      BY <2>2, MovedRun
    <3>2. Event /\ behind' = behind \cup {th["resumer"].id}
      BY <2>2 DEF ResumeFails
    <3>3. events' \in 0..MaxEvents
      BY <3>2, MaxEventsAssumption DEF Event, IInv, StoreInv
    <3> QED BY <3>1, <3>2, <3>3 DEF Moved, IInv, StoreInv, Store
  <2> QED BY <2>1, <2>2
<1>7. StoreInv'
  BY <1>5, <1>6 DEF IInv, StoreInv
<1> QED BY <1>4, <1>5, <1>7 DEF IInv, orchVars, OrchInv, ClaimInv, ResumeInv

\* The claim that goes is of no queued resume.
LEMMA ReleaseStep ==
  ASSUME IInv, Release
  PROVE  IInv'
<1>1. IdleThread \in ThreadState /\ IdleThread.pc = "idle" /\ IdleThread.id = NoRun
  BY DEF IdleThread, ThreadState, Pc
<1>2. th' = [th EXCEPT !["resumer"] = IdleThread] /\ resuming' = resuming \ {th["resumer"].id}
  BY DEF Release, End
<1>3. ThreadInv' /\ th'["resumer"].id = NoRun
  BY <1>1, <1>2, ResumerWrites
<1>4. UNCHANGED <<mem, disk, behind, boots, events, claimed, queue, resumes,
                  enabled, seeds, pending, walks, overwritten>>
  BY DEF Release
<1>5. resumes \in Seq(Incident) /\ ResumeInv
  BY DEF IInv, OrchInv
<1>6. \A n \in DOMAIN resumes : resumes[n] \in resuming' /\ resumes[n] # NoRun
  BY <1>2, <1>5, NoRunAssumption DEF ResumeInv
<1>7. ResumeInv'
  BY <1>3, <1>4, <1>5, <1>6 DEF ResumeInv
<1> QED BY <1>2, <1>3, <1>4, <1>7 DEF IInv, StoreInv, OrchInv, ClaimInv

-----------------------------------------------------------------------------
(* The invariant.                                                          *)

LEMMA InitInv == Init => IInv
<1> SUFFICES ASSUME Init PROVE IInv
  OBVIOUS
<1>1. IdleThread \in ThreadState /\ IdleThread.pc = "idle" /\ IdleThread.id = NoRun
  BY DEF IdleThread, ThreadState, Pc
<1>2. ThreadInv /\ th["resumer"].id = NoRun
  BY <1>1, WorkerIsAnother DEF Init, InitStore, ThreadInv
<1>3. StoreInv
  <2>1. behind \subseteq Incident
    BY DEF Init, InitStore
  <2> QED BY <2>1, StoreTypes, MaxBootsAssumption, MaxEventsAssumption DEF Init, InitStore, StoreInv
<1>4. OrchInv
  <2>1. enabled \in BOOLEAN /\ overwritten \in BOOLEAN
    BY DEF Init, InitOrchestrator
  <2>2. seeds \in 0..Len(Generated) /\ queue \in Seq(claimed) /\ resumes \in Seq(Incident)
    BY GeneratedAssumption DEF Init, InitOrchestrator
  <2>3. /\ claimed \subseteq Incident /\ resuming \subseteq Incident /\ pending \subseteq Incident
        /\ walks \in [Incident -> Nat]
    BY DEF Init, InitOrchestrator
  <2> QED BY <2>1, <2>2, <2>3 DEF OrchInv
<1>5. ClaimInv /\ ResumeInv
  BY <1>2 DEF Init, InitOrchestrator, ClaimInv, ResumeInv
<1> QED BY <1>2, <1>3, <1>4, <1>5 DEF IInv

\* The store's steps leave the orchestrator's own state alone.
LEMMA StoreSteps ==
  ASSUME IInv, UNCHANGED orchVars,
         \/ \E t \in Http, op \in Ops, i \in Incident : HttpCall(t, op, i)
         \/ \E t \in Http : HttpStep(t)
         \/ \E t \in Thread : SaveStep(t)
  PROVE  IInv'
<1>1. ThreadInv' /\ StoreInv' /\ th'["resumer"].id = th["resumer"].id
  <2>1. CASE \E t \in Http, op \in Ops, i \in Incident : HttpCall(t, op, i)
    BY <2>1, HttpCalls
  <2>2. CASE \E t \in Http : HttpStep(t)
    BY <2>2, HttpSteps
  <2>3. CASE \E t \in Thread : SaveStep(t)
    BY <2>3, SaveSteps
  <2> QED BY <2>1, <2>2, <2>3
<1> QED BY <1>1 DEF IInv, orchVars, OrchInv, ClaimInv, ResumeInv

LEMMA NextInv == IInv /\ [Next]_vars => IInv'
<1> SUFFICES ASSUME IInv, [Next]_vars PROVE IInv'
  OBVIOUS
<1>1. CASE (\E i \in Incident : Ingest(i) \/ Webhook(i)) \/ GenerateOne
  BY <1>1, SubmitSteps
<1>2. CASE \E i \in Incident : RequestApproval(i)
  BY <1>2, RequestApprovalStep
<1>3. CASE \E i \in Incident : Approve(i)
  BY <1>3, ApproveStep
<1>4. CASE Stop
  BY <1>4, StopStep
<1>5. CASE Restart
  BY <1>5, RestartStep
<1>6. CASE Worker
  BY <1>6, TakeJobStep, DriveStep, DriveFailsStep, AdoptStep DEF Worker
<1>7. CASE Resumer
  BY <1>7, TakeResumeStep, ResumeStep, ResumeFailsStep, ReleaseStep DEF Resumer
<1>8. CASE /\ UNCHANGED orchVars
           /\ \/ \E t \in Http, op \in Ops, i \in Incident : HttpCall(t, op, i)
              \/ \E t \in Http : HttpStep(t)
              \/ \E t \in Thread : SaveStep(t)
  BY <1>8, StoreSteps
<1>9. CASE UNCHANGED vars
  BY <1>9 DEF vars, storeVars, orchVars, IInv, ThreadInv, StoreInv, OrchInv, ClaimInv, ResumeInv
<1> QED BY <1>1, <1>2, <1>3, <1>4, <1>5, <1>6, <1>7, <1>8, <1>9 DEF Next

LEMMA Invariance == Spec => []IInv
BY InitInv, NextInv, PTL DEF Spec

-----------------------------------------------------------------------------
(* Theorems.                                                               *)

\* Every variable keeps its type, the threads' records included.
THEOREM TypeCorrect == Spec => []TypeOK
BY Invariance, TypeFromInv, PTL

\* In one life of the process no incident is driven twice, or driven and queued
\* to be driven again, whoever submits it and whatever becomes of its run.
THEOREM DrivenOnceHolds == Spec => []DrivenOnce
<1>1. ASSUME IInv PROVE DrivenOnce
  <2> SUFFICES ASSUME NEW i \in Incident
               PROVE  walks[i] + (IF InQueue(i) THEN 1 ELSE 0) <= 1
    BY DEF DrivenOnce
  <2>1. walks[i] \in {0, 1}
    BY <1>1 DEF IInv, ClaimInv
  <2>2. InQueue(i) => walks[i] = 0
    BY <1>1 DEF IInv, ClaimInv, InQueue
  <2> QED BY <2>1, <2>2
<1> QED BY <1>1, Invariance, PTL

\* Of one incident at most one resume is queued or running, however many
\* approvals of its proposal are granted.
THEOREM SingleResumeHolds == Spec => []SingleResume
<1>1. ASSUME IInv PROVE SingleResume
  <2> SUFFICES ASSUME NEW i \in Incident
               PROVE  Cardinality(Waiting(i)) + (IF th["resumer"].id = i THEN 1 ELSE 0) <= 1
    BY DEF SingleResume
  <2>1. CASE Waiting(i) = {}
    <3>1. Cardinality(Waiting(i)) = 0
      BY <2>1, FS_EmptySet
    <3> QED BY <3>1
  <2>2. CASE Waiting(i) # {}
    <3>1. PICK n \in DOMAIN resumes : resumes[n] = i
      BY <2>2 DEF Waiting
    <3>2. Waiting(i) = {n} /\ th["resumer"].id # i
      BY <1>1, <3>1 DEF Waiting, IInv, ResumeInv
    <3>3. Cardinality(Waiting(i)) = 1
      BY <3>2, FS_Singleton
    <3> QED BY <3>2, <3>3
  <2> QED BY <2>1, <2>2
<1> QED BY <1>1, Invariance, PTL

-----------------------------------------------------------------------------
(* The first life of the process: what is in flight, and what is in the    *)
(* file.  After a restart the file may be older than the memory's runs,    *)
(* or newer, and nothing of this holds.                                    *)

\* Every run of the image is a run of the memory.
Within(image) == \A i \in Incident : image[i] # NoRun => mem[i] # NoRun

\* What a copy of the memory would be now.
Image == [i \in Incident |-> Stored(mem[i])]

Handling == {"drive", "adopt", "resume", "ensure", "merge", "answer"}

\* What a thread has in hand.
HandInv ==
  /\ IsFiniteSet(claimed)
  /\ th["worker"].pc \in {"drive", "adopt"} => th["worker"].id \in claimed
  /\ th["worker"].pc = "adopt" => th["worker"].run \in Run
  /\ \A t \in Thread : th[t].pc \in Handling => th[t].id \in Incident

\* Nothing is in the file, or on its way into the memory, that the memory does
\* not have, so the memory is never emptied.
LoadInv ==
  /\ \A t \in Thread : th[t].pc \notin {"clear", "fill"}
  /\ mem = EmptyStore => disk = NoFile /\ \A t \in Thread : th[t].pc \notin {"save", "replace"}
  /\ disk # NoFile => Within(disk)
  /\ \A t \in Thread : th[t].pc = "merge" => Within(th[t].staged)
  /\ \A t \in Thread : th[t].pc = "replace" => th[t].img \in File /\ Within(th[t].img)

\* The image is the memory, but for what is left behind.
Covers(image) == \A i \in Incident \ behind : image[i] = Stored(mem[i])

\* Unless a save is still to begin, the one that is under way writes the memory,
\* and if there is none the file is the memory.
SaveInv ==
  /\ \A t, u \in Thread : At(t, "replace") /\ At(u, "replace") => t = u
  /\ (\A t \in Thread : ~At(t, "save")) =>
       /\ \A t \in Thread : At(t, "replace") => Covers(th[t].img)
       /\ (\A t \in Thread : ~At(t, "replace")) =>
            \A i \in Incident \ behind : OnDisk(i) = Stored(mem[i])

\* The resume thread works on the run that is in the store.
HoldInv ==
  LET r == th["resumer"]
  IN  r.pc = "resume" => mem[r.id] # NoRun /\ mem[r.id].walk = r.run.walk

FlightInv == ~overwritten => HoldInv /\ Cardinality(Live) <= MaxIncidents

FirstInv == HandInv /\ LoadInv /\ SaveInv /\ FlightInv

FirstLife == boots = 0 => FirstInv

\* i counts as in flight, if it is claimed.
Alive(i) == IF mem[i] = NoRun THEN TRUE ELSE mem[i].stage # "TERMINAL"

\* A run is not the absence of one.
LEMMA RunIsSome == \A v \in Run : v # NoRun
BY AbsentAssumption

LEMMA LiveIsAlive == Live = {i \in claimed : Alive(i)}
BY DEF Live, Alive

LEMMA LiveIsAliveNext == (Live = {i \in claimed : Alive(i)})'
BY LiveIsAlive, PTL

\* If nobody is claimed and nothing comes back to life, no more are in flight.
LEMMA FewerInFlight ==
  ASSUME HandInv, UNCHANGED claimed, \A i \in claimed : Alive(i)' => Alive(i),
         Cardinality(Live) <= MaxIncidents
  PROVE  Cardinality(Live') <= MaxIncidents
<1>1. Live' \subseteq Live /\ Live \subseteq claimed /\ IsFiniteSet(claimed)
  BY LiveIsAlive, LiveIsAliveNext DEF HandInv
<1>2. IsFiniteSet(Live)
  BY <1>1, FS_Subset
<1>3. Cardinality(Live') <= Cardinality(Live)
  BY <1>1, <1>2, FS_Subset
<1>4. Cardinality(Live') \in Nat /\ Cardinality(Live) \in Nat
  BY <1>1, <1>2, FS_Subset, FS_CardinalityType
<1> QED BY <1>3, <1>4, MaxIncidentsAssumption

\* A thread's step that leaves the store alone.
LEMMA QuietFirst ==
  ASSUME IInv, FirstInv, NEW t \in Thread, NEW r,
         th' = [th EXCEPT ![t] = r],
         UNCHANGED <<mem, disk, behind, claimed, overwritten>>,
         th[t].pc \notin {"save", "replace"}, r.pc \notin {"save", "replace", "clear", "fill"},
         r.pc = "merge" => Within(r.staged),
         r.pc \in Handling => r.id \in Incident,
         t = "worker" => /\ r.pc \in {"drive", "adopt"} => r.id \in claimed
                         /\ r.pc = "adopt" => r.run \in Run,
         t = "resumer" /\ r.pc = "resume" => mem[r.id] # NoRun /\ mem[r.id].walk = r.run.walk
  PROVE  FirstInv'
<1>1. /\ th'[t] = r /\ \A u \in Thread : u # t => th'[u] = th[u]
      /\ "worker" \in Thread /\ "resumer" \in Thread
  BY WorkerIsAnother DEF IInv, ThreadInv
<1>2. HandInv'
  BY <1>1 DEF FirstInv, HandInv
<1>3. LoadInv'
  BY <1>1 DEF FirstInv, LoadInv, Within
<1>4. SaveInv'
  BY <1>1 DEF FirstInv, SaveInv, At, Covers, OnDisk
<1>5. FlightInv'
  <2> SUFFICES ASSUME ~overwritten' PROVE HoldInv' /\ Cardinality(Live') <= MaxIncidents
    BY DEF FlightInv
  <2>1. HoldInv'
    BY <1>1 DEF FirstInv, FlightInv, HoldInv
  <2>2. \A i \in claimed : Alive(i)' => Alive(i)
    BY DEF Alive
  <2> QED BY <2>1, <2>2, FewerInFlight DEF FirstInv, FlightInv
<1> QED BY <1>2, <1>3, <1>4, <1>5 DEF FirstInv

\* A thread changes one run and goes to save.
LEMMA ChangeFirst ==
  ASSUME IInv, FirstInv, NEW t \in Thread, NEW r, NEW i \in Incident, NEW v \in Run,
         th' = [th EXCEPT ![t] = r], r.pc = "save",
         mem' = [mem EXCEPT ![i] = v],
         UNCHANGED <<disk, behind, claimed>>,
         th[t].pc \notin {"save", "replace"},
         ~overwritten' => /\ ~overwritten /\ (i \in claimed => Alive(i))
                          /\ t # "resumer" /\ mem[i] # NoRun => v.walk = mem[i].walk
  PROVE  FirstInv'
<1>1. /\ th'[t] = r /\ \A u \in Thread : u # t => th'[u] = th[u]
      /\ "worker" \in Thread /\ "resumer" \in Thread /\ mem \in Store
  BY WorkerIsAnother DEF IInv, ThreadInv, StoreInv
<1>2. v # NoRun
  BY RunIsSome
<1>3. mem'[i] = v /\ \A j \in Incident : j # i => mem'[j] = mem[j]
  BY <1>1 DEF Store
<1>4. mem' # EmptyStore /\ \A j \in Incident : mem[j] # NoRun => mem'[j] # NoRun
  BY <1>2, <1>3 DEF EmptyStore
<1>5. HandInv'
  BY <1>1 DEF FirstInv, HandInv, Handling
<1>6. LoadInv'
  BY <1>1, <1>4 DEF FirstInv, LoadInv, Within
<1>7. SaveInv'
  BY <1>1 DEF FirstInv, SaveInv, At
<1>8. FlightInv'
  <2> SUFFICES ASSUME ~overwritten' PROVE HoldInv' /\ Cardinality(Live') <= MaxIncidents
    BY DEF FlightInv
  <2>1. HoldInv'
    <3>1. CASE t = "resumer"
      BY <1>1, <3>1 DEF HoldInv
    <3>2. CASE t # "resumer"
      <4> SUFFICES ASSUME th["resumer"].pc = "resume"
                   PROVE  LET s == th["resumer"] IN mem'[s.id] # NoRun /\ mem'[s.id].walk = s.run.walk
        BY <1>1, <3>2 DEF HoldInv
      <4> DEFINE s == th["resumer"]
      <4>1. s.id \in Incident /\ mem[s.id] # NoRun /\ mem[s.id].walk = s.run.walk
        BY <1>1 DEF FirstInv, HandInv, Handling, FlightInv, HoldInv
      <4> QED BY <1>2, <1>3, <3>2, <4>1
    <3> QED BY <3>1, <3>2
  <2>2. \A j \in claimed : Alive(j)' => Alive(j)
    BY <1>3 DEF Alive, IInv, OrchInv
  <2> QED BY <2>1, <2>2, FewerInFlight DEF FirstInv, FlightInv
<1> QED BY <1>5, <1>6, <1>7, <1>8 DEF FirstInv

\* Threads, store and claims stay as they are.
LEMMA SameFirst ==
  ASSUME FirstInv, UNCHANGED <<mem, disk, th, behind, claimed, overwritten>>
  PROVE  FirstInv'
<1>1. HandInv' /\ LoadInv' /\ SaveInv'
  BY DEF FirstInv, HandInv, LoadInv, SaveInv, Within, At, Covers, OnDisk
<1>2. FlightInv'
  BY DEF FirstInv, FlightInv, HoldInv, Live
<1> QED BY <1>1, <1>2 DEF FirstInv

-----------------------------------------------------------------------------
(* Saving.                                                                 *)

\* The memory is copied under the lock, so this save is the only one.
LEMMA SnapshotFirst ==
  ASSUME IInv, FirstInv, NEW t \in Thread, Snapshot(t), UNCHANGED orchVars
  PROVE  FirstInv'
<1>1. /\ th \in [Thread -> ThreadState] /\ mem \in Store /\ th[t] \in ThreadState
      /\ "worker" \in Thread /\ "resumer" \in Thread
      /\ UNCHANGED <<claimed, overwritten>>
  BY WorkerIsAnother DEF IInv, ThreadInv, StoreInv, orchVars
<1> DEFINE r == [th[t] EXCEPT !.pc = "replace", !.img = Image]
<1>2. th' = [th EXCEPT ![t] = r] /\ th[t].pc = "save" /\ UNCHANGED <<mem, disk>>
  BY <1>1 DEF Snapshot, At, Image
<1>3. r.pc = "replace" /\ r.img = Image
  BY <1>1 DEF ThreadState
<1> HIDE DEF r
<1>4. /\ th'[t] = r /\ \A u \in Thread : u # t => th'[u] = th[u]
      /\ Image' = Image
  BY <1>1, <1>2 DEF Image
<1>5. \A u \in Thread : ~At(u, "replace")
  BY DEF Snapshot, LockFree
<1>6. Image \in File /\ Within(Image)
  <2>1. Image \in File
    BY <1>1, StoreTypes DEF Image
  <2> QED BY <2>1 DEF Image, Within, Stored
<1>7. HandInv'
  BY <1>1, <1>3, <1>4 DEF FirstInv, HandInv, Handling
<1>8. LoadInv'
  BY <1>2, <1>3, <1>4, <1>6 DEF FirstInv, LoadInv, Within
<1>9. SaveInv'
  <2>1. \A u \in Thread : At(u, "replace")' => u = t
    BY <1>4, <1>5 DEF At
  <2>2. At(t, "replace")' /\ th'[t].img = Image'
    BY <1>3, <1>4 DEF At
  <2>3. Covers(th[t].img)'
    BY <2>2 DEF Covers, Image
  <2> QED BY <2>1, <2>2, <2>3 DEF SaveInv
<1>10. FlightInv'
  <2>1. HoldInv' <=> HoldInv
    BY <1>1, <1>2, <1>3, <1>4 DEF HoldInv
  <2>2. Live' = Live
    BY <1>1, <1>2 DEF Live
  <2> QED BY <1>1, <2>1, <2>2 DEF FirstInv, FlightInv
<1> QED BY <1>7, <1>8, <1>9, <1>10 DEF FirstInv

\* The save is over: the file is what the memory was, which it still is unless
\* another save is to begin, or the file is behind.
LEMMA ReplaceFirst ==
  ASSUME IInv, FirstInv, NEW t \in Thread, Replace(t) \/ ReplaceFails(t), UNCHANGED orchVars
  PROVE  FirstInv'
<1>1. /\ th \in [Thread -> ThreadState] /\ th[t] \in ThreadState
      /\ "worker" \in Thread /\ "resumer" \in Thread
      /\ UNCHANGED <<claimed, overwritten, mem>>
      /\ th[t].pc = "replace" /\ Saved(t)
      /\ \/ disk' = disk /\ behind' = behind \cup {i \in Incident : OnDisk(i) # th[t].img[i]}
         \/ disk' = th[t].img /\ behind' = behind
  BY WorkerIsAnother DEF IInv, ThreadInv, orchVars, Replace, ReplaceFails, At
<1>2. PICK r : th' = [th EXCEPT ![t] = r] /\ r.pc \in {"idle", "release"}
  <2>1. [th[t] EXCEPT !.pc = "release", !.img = NoFile].pc = "release" /\ IdleThread.pc = "idle"
    BY <1>1 DEF ThreadState, IdleThread
  <2>2. th' = [th EXCEPT ![t] = IF t = "resumer" THEN [th[t] EXCEPT !.pc = "release", !.img = NoFile]
                                ELSE IdleThread]
    BY <1>1 DEF Saved
  <2> QED BY <2>1, <2>2
<1>3. th'[t] = r /\ (\A u \in Thread : u # t => th'[u] = th[u]) /\ Image' = Image
  BY <1>1, <1>2 DEF Image
<1>4. HandInv'
  BY <1>1, <1>2, <1>3 DEF FirstInv, HandInv, Handling
<1>5. th[t].img \in File /\ Within(th[t].img) /\ mem # EmptyStore
  BY <1>1 DEF FirstInv, LoadInv
<1>6. LoadInv'
  BY <1>1, <1>2, <1>3, <1>5 DEF FirstInv, LoadInv, Within
<1>7. SaveInv'
  <2>1. \A u \in Thread : ~At(u, "replace")'
    BY <1>1, <1>2, <1>3 DEF FirstInv, SaveInv, At
  <2>2. ASSUME (\A u \in Thread : ~At(u, "save"))', NEW i \in Incident \ behind'
        PROVE  OnDisk(i)' = Stored(mem[i])
    <3>1. \A u \in Thread : u # t => ~At(u, "save")
      BY <1>3, <2>2 DEF At
    <3>2. ~At(t, "save") /\ At(t, "replace") /\ t \in Thread
      BY <1>1 DEF At
    <3>3. Covers(th[t].img)
      BY <3>1, <3>2 DEF FirstInv, SaveInv
    <3>4. i \in Incident \ behind /\ th[t].img[i] = Stored(mem[i])
      BY <1>1, <2>2, <3>3 DEF Covers
    <3>5. CASE disk' = disk /\ behind' = behind \cup {j \in Incident : OnDisk(j) # th[t].img[j]}
      BY <2>2, <3>4, <3>5 DEF OnDisk
    <3>6. CASE disk' = th[t].img
      BY <1>5, <3>4, <3>6, AbsentAssumption DEF OnDisk
    <3> QED BY <1>1, <3>5, <3>6
  <2> QED BY <1>1, <2>1, <2>2 DEF SaveInv
<1>8. FlightInv'
  <2>1. HoldInv' <=> HoldInv
    BY <1>1, <1>2, <1>3 DEF HoldInv
  <2>2. Live' = Live
    BY <1>1 DEF Live
  <2> QED BY <1>1, <2>1, <2>2 DEF FirstInv, FlightInv
<1> QED BY <1>4, <1>6, <1>7, <1>8 DEF FirstInv

-----------------------------------------------------------------------------
(* The handlers.                                                           *)

\* Nothing is loaded that is not in memory: a merge changes nothing.
LEMMA MergeFirst ==
  ASSUME IInv, FirstInv, NEW t \in Http, Merge(t)
  PROVE  UNCHANGED mem
<1>1. Within(th[t].staged) /\ mem \in Store
  BY HttpIsAnother DEF Merge, At, FirstInv, LoadInv, IInv, StoreInv
<1>2. \A i \in Incident : (IF mem[i] = NoRun THEN th[t].staged[i] ELSE mem[i]) = mem[i]
  BY <1>1 DEF Within
<1> QED BY <1>1, <1>2 DEF Merge, Store

LEMMA HttpFirst ==
  ASSUME IInv, FirstInv, NEW t \in Http, HttpStep(t), UNCHANGED orchVars
  PROVE  FirstInv'
<1>1. /\ th \in [Thread -> ThreadState] /\ th[t] \in ThreadState /\ t \in Thread
      /\ t # "worker" /\ t # "resumer" /\ mem \in Store
      /\ UNCHANGED <<claimed, overwritten>>
  BY HttpIsAnother, HttpAssumption DEF IInv, ThreadInv, StoreInv, orchVars
<1>2. ASSUME NEW pc \in {"answer", "idle"}, Goto(t, pc), th[t].pc \in Handling,
             UNCHANGED <<mem, disk, behind>>
      PROVE  FirstInv'
  <2> DEFINE r == [th[t] EXCEPT !.pc = pc]
  <2>1. r.pc = pc /\ r.id = th[t].id /\ th' = [th EXCEPT ![t] = r] /\ r.id \in Incident
    BY <1>1, <1>2 DEF ThreadState, Goto, FirstInv, HandInv
  <2>2. th[t].pc \notin {"save", "replace"}
    BY <1>2 DEF Handling
  <2> HIDE DEF r
  <2> QED BY <1>1, <1>2, <2>1, <2>2, QuietFirst
<1>3. ASSUME End(t), th[t].pc \in Handling, UNCHANGED <<mem, disk, behind>>
      PROVE  FirstInv'
  <2>1. IdleThread.pc = "idle" /\ th' = [th EXCEPT ![t] = IdleThread]
    BY <1>3 DEF IdleThread, End
  <2>2. th[t].pc \notin {"save", "replace"}
    BY <1>3 DEF Handling
  <2> QED BY <1>1, <1>3, <2>1, <2>2, QuietFirst DEF Handling
<1>4. CASE EnsureLoaded(t)
  <2>1. th[t].pc = "ensure" /\ UNCHANGED <<mem, disk, behind>> /\ th[t].id \in Incident
    BY <1>1, <1>4 DEF EnsureLoaded, At, FirstInv, HandInv, Handling
  <2>2. CASE Goto(t, "answer")
    BY <1>2, <2>1, <2>2 DEF Handling
  <2>3. CASE ~Goto(t, "answer")
    <3>1. disk # NoFile /\ th' = [th EXCEPT ![t].pc = "merge", ![t].staged = ReadStore]
      BY <1>4, <2>3 DEF EnsureLoaded, FirstInv, LoadInv
    <3> DEFINE r == [th[t] EXCEPT !.pc = "merge", !.staged = ReadStore]
    <3>2. r.pc = "merge" /\ r.id = th[t].id /\ r.staged = ReadStore /\ th' = [th EXCEPT ![t] = r]
      BY <1>1, <3>1 DEF ThreadState
    <3> HIDE DEF r
    <3>3. Within(disk)
      BY <3>1 DEF FirstInv, LoadInv
    <3>4. Within(ReadStore)
      BY <3>3 DEF Within, ReadStore, Restored
    <3> QED BY <1>1, <2>1, <3>2, <3>4, QuietFirst
  <2> QED BY <2>2, <2>3
<1>5. CASE Clear(t) \/ Fill(t)
  BY <1>1, <1>5 DEF Clear, Fill, At, FirstInv, LoadInv
<1>6. CASE Merge(t)
  <2>1. UNCHANGED <<mem, disk, behind>> /\ th[t].pc = "merge"
    BY <1>6, MergeFirst DEF Merge, At
  <2> DEFINE r == [th[t] EXCEPT !.pc = "answer", !.staged = NoFile]
  <2>2. r.pc = "answer" /\ r.id = th[t].id /\ th' = [th EXCEPT ![t] = r] /\ r.id \in Incident
    BY <1>1, <1>6, <2>1 DEF Merge, ThreadState, FirstInv, HandInv, Handling
  <2> HIDE DEF r
  <2> QED BY <1>1, <2>1, <2>2, QuietFirst
<1>7. ASSUME At(t, "answer") PROVE th[t].pc \in Handling /\ th[t].id \in Incident
  BY <1>1, <1>7 DEF At, Handling, FirstInv, HandInv
<1>8. ASSUME At(t, "answer"), Goto(t, "save"), NEW v \in Run,
             mem' = [mem EXCEPT ![th[t].id] = v], UNCHANGED <<disk, behind>>,
             Alive(th[t].id), mem[th[t].id] # NoRun => v.walk = mem[th[t].id].walk
      PROVE  FirstInv'
  <2> DEFINE r == [th[t] EXCEPT !.pc = "save"]
  <2>1. r.pc = "save" /\ th' = [th EXCEPT ![t] = r] /\ th[t].pc = "answer"
    BY <1>1, <1>8 DEF ThreadState, Goto, At
  <2> HIDE DEF r
  <2> QED BY <1>1, <1>7, <1>8, <2>1, ChangeFirst
<1>9. CASE CreateRun(t)
  <2> DEFINE v == [walk |-> 0, stage |-> "ACTIVE", results |-> FALSE]
  <2>1. CASE mem[th[t].id] # NoRun
    BY <1>3, <1>7, <1>9, <2>1 DEF CreateRun
  <2>2. CASE mem[th[t].id] = NoRun
    <3>1. v \in Run
      BY MaxBootsAssumption DEF Run, Stage
    <3>2. mem' = [mem EXCEPT ![th[t].id] = v] /\ Goto(t, "save")
      BY <1>9, <2>2 DEF CreateRun
    <3> HIDE DEF v
    <3> QED BY <1>8, <1>9, <2>2, <3>1, <3>2 DEF CreateRun, Alive
  <2> QED BY <2>1, <2>2
<1>10. CASE Answer(t)
  BY <1>3, <1>7, <1>10 DEF Answer
<1>11. CASE AdvanceRun(t)
  <2> DEFINE i == th[t].id
  <2>1. CASE End(t) /\ UNCHANGED mem
    BY <1>3, <1>7, <1>11, <2>1 DEF AdvanceRun
  <2>2. ASSUME NEW s \in Forward(mem[i].stage), mem' = [mem EXCEPT ![i].stage = s], Goto(t, "save")
        PROVE  FirstInv'
    <3>1. mem[i] \in Run /\ i \in Incident
      BY <1>1, <1>7, <1>11 DEF AdvanceRun, Store
    <3>2. s \in Stage /\ mem[i].stage # "TERMINAL"
      BY <2>2 DEF Forward
    <3> DEFINE v == [mem[i] EXCEPT !.stage = s]
    <3>3. v \in Run /\ v.walk = mem[i].walk /\ mem' = [mem EXCEPT ![i] = v]
      BY <2>2, <3>1, <3>2 DEF Run
    <3> HIDE DEF v
    <3> QED BY <1>8, <1>11, <2>2, <3>2, <3>3 DEF AdvanceRun, Alive
  <2> QED BY <1>11, <2>1, <2>2 DEF AdvanceRun
<1> QED BY <1>4, <1>5, <1>6, <1>9, <1>10, <1>11 DEF HttpStep

LEMMA CallFirst ==
  ASSUME IInv, FirstInv, NEW t \in Http, NEW op \in Ops, NEW i \in Incident,
         HttpCall(t, op, i), UNCHANGED orchVars
  PROVE  FirstInv'
<1>1. /\ th \in [Thread -> ThreadState] /\ th[t] \in ThreadState /\ t \in Thread
      /\ t # "worker" /\ t # "resumer"
      /\ UNCHANGED <<claimed, overwritten, mem, disk, behind>> /\ th[t].pc = "idle"
  BY HttpIsAnother, HttpAssumption DEF IInv, ThreadInv, orchVars, HttpCall, At
<1> DEFINE pc == IF op = "advance" /\ mem[i] # NoRun THEN "answer" ELSE "ensure"
           r == [th[t] EXCEPT !.id = i, !.op = op, !.pc = pc]
<1>2. r.pc \in {"answer", "ensure"} /\ r.id = i
  BY <1>1 DEF ThreadState
<1>3. th' = [th EXCEPT ![t] = r]
  BY <1>1 DEF HttpCall
<1> HIDE DEF r
<1> QED BY <1>1, <1>2, <1>3, QuietFirst

-----------------------------------------------------------------------------
(* The orchestrator.                                                       *)

\* What is accepted was not in flight, and there was room for it.
LEMMA AcceptFirst ==
  ASSUME IInv, FirstInv, NEW i \in Incident, Accept(i), UNCHANGED <<storeVars, overwritten>>
  PROVE  FirstInv'
<1>1. /\ i \notin claimed /\ ~AtCapacity /\ claimed' = claimed \cup {i}
      /\ UNCHANGED <<mem, disk, th, behind, overwritten>>
  BY DEF Accept, storeVars
<1>2. IsFiniteSet(claimed) /\ IsFiniteSet(claimed')
  BY <1>1, FS_AddElement DEF FirstInv, HandInv
<1>3. HandInv'
  BY <1>1, <1>2 DEF FirstInv, HandInv
<1>4. LoadInv' /\ SaveInv'
  BY <1>1 DEF FirstInv, LoadInv, SaveInv, Within, At, Covers, OnDisk
<1>5. Cardinality(Live') <= MaxIncidents
  <2>1. Live \subseteq claimed /\ Live' \subseteq Live \cup {i}
    BY <1>1, LiveIsAlive, LiveIsAliveNext DEF Alive
  <2>2. IsFiniteSet(Live) /\ i \notin Live
    BY <1>1, <1>2, <2>1, FS_Subset
  <2>3. Cardinality(Live \cup {i}) = Cardinality(Live) + 1 /\ IsFiniteSet(Live \cup {i})
    BY <2>2, FS_AddElement
  <2>4. Cardinality(Live') <= Cardinality(Live \cup {i})
    BY <2>1, <2>3, FS_Subset
  <2>5. Cardinality(Live) \in Nat /\ Cardinality(Live') \in Nat
    BY <2>1, <2>2, <2>3, FS_Subset, FS_CardinalityType
  <2>6. Cardinality(Live) < MaxIncidents
    BY <1>1, <2>5, MaxIncidentsAssumption DEF AtCapacity
  <2> QED BY <2>3, <2>4, <2>5, <2>6, MaxIncidentsAssumption
<1>6. FlightInv'
  BY <1>1, <1>5 DEF FirstInv, FlightInv, HoldInv
<1> QED BY <1>3, <1>4, <1>6 DEF FirstInv

LEMMA SubmitFirst ==
  ASSUME IInv, FirstInv, \/ \E i \in Incident : Ingest(i) \/ Webhook(i)
                         \/ GenerateOne
  PROVE  FirstInv'
<1>1. CASE \E i \in Incident : Ingest(i) \/ Webhook(i)
  BY <1>1, AcceptFirst DEF Ingest, Webhook
<1>2. CASE GenerateOne
  <2>1. seeds \in Nat /\ seeds + 1 \in 1..Len(Generated)
    BY <1>2, GeneratedAssumption DEF GenerateOne, IInv, OrchInv
  <2>2. Generated[seeds + 1] \in Incident
    BY <2>1, GeneratedAssumption
  <2>3. UNCHANGED <<storeVars, overwritten>>
    BY <1>2 DEF GenerateOne
  <2>4. CASE Accept(Generated[seeds + 1])
    BY <2>2, <2>3, <2>4, AcceptFirst
  <2>5. CASE UNCHANGED claimed
    BY <2>3, <2>5, SameFirst DEF storeVars
  <2> QED BY <1>2, <2>4, <2>5 DEF GenerateOne
<1> QED BY <1>1, <1>2

\* Steps that neither the threads nor the store see.
LEMMA AsideFirst ==
  ASSUME IInv, FirstInv, Stop \/ \E i \in Incident : RequestApproval(i) \/ Approve(i)
  PROVE  FirstInv'
BY SameFirst DEF Stop, RequestApproval, Approve, storeVars

LEMMA TakeJobFirst == ASSUME IInv, FirstInv, TakeJob PROVE FirstInv'
<1>1. /\ th \in [Thread -> ThreadState] /\ th["worker"] \in ThreadState
      /\ "worker" \in Thread /\ claimed \subseteq Incident
      /\ UNCHANGED <<claimed, overwritten, mem, disk, behind>> /\ th["worker"].pc = "idle"
  BY WorkerIsAnother DEF IInv, ThreadInv, OrchInv, TakeJob, At
<1>2. Head(queue) \in claimed
  BY TailFacts DEF TakeJob, IInv, OrchInv
<1> DEFINE r == [th["worker"] EXCEPT !.pc = "drive", !.id = Head(queue)]
<1>3. r.pc = "drive" /\ r.id = Head(queue) /\ th' = [th EXCEPT !["worker"] = r]
  BY <1>1 DEF ThreadState, TakeJob
<1> HIDE DEF r
<1> QED BY <1>1, <1>2, <1>3, QuietFirst

LEMMA DriveFirst == ASSUME IInv, FirstInv, Drive \/ DriveFails PROVE FirstInv'
<1>1. /\ th \in [Thread -> ThreadState] /\ th["worker"] \in ThreadState
      /\ "worker" \in Thread /\ th["worker"].pc = "drive"
      /\ th["worker"].id \in claimed /\ th["worker"].id \in Incident
      /\ UNCHANGED <<claimed, overwritten, mem, disk, behind>> /\ boots \in 0..MaxBoots
  BY WorkerIsAnother DEF IInv, ThreadInv, OrchInv, Drive, DriveFails, At, FirstInv, HandInv,
     StoreInv, orchVars
<1>2. CASE Drive
  <2>1. PICK s \in {"AWAITING_APPROVAL", "TERMINAL", "ACTIVE"} :
          th' = [th EXCEPT !["worker"].pc = "adopt",
                           !["worker"].run = [walk |-> boots + 1, stage |-> s,
                                              results |-> s = "ACTIVE"]]
    BY <1>2 DEF Drive
  <2> DEFINE v == [walk |-> boots + 1, stage |-> s, results |-> s = "ACTIVE"]
             r == [th["worker"] EXCEPT !.pc = "adopt", !.run = v]
  <2>2. v \in Run
    BY <1>1, MaxBootsAssumption DEF Run, Stage
  <2>3. r.pc = "adopt" /\ r.id = th["worker"].id /\ r.run = v /\ th' = [th EXCEPT !["worker"] = r]
    BY <1>1, <2>1 DEF ThreadState
  <2> HIDE DEF v, r
  <2> QED BY <1>1, <2>2, <2>3, QuietFirst
<1>3. CASE DriveFails
  <2>1. IdleThread.pc = "idle" /\ th' = [th EXCEPT !["worker"] = IdleThread]
    BY <1>3 DEF IdleThread, DriveFails, End
  <2> QED BY <1>1, <2>1, QuietFirst DEF Handling
<1> QED BY <1>2, <1>3

\* An adoption over another run is remembered.
LEMMA AdoptFirst == ASSUME IInv, FirstInv, Adopt PROVE FirstInv'
<1>1. /\ th \in [Thread -> ThreadState] /\ th["worker"] \in ThreadState
      /\ "worker" \in Thread /\ "worker" # "resumer" /\ th["worker"].pc = "adopt"
      /\ th["worker"].id \in Incident /\ th["worker"].run \in Run
      /\ UNCHANGED <<claimed, disk, behind>>
  BY WorkerIsAnother DEF IInv, ThreadInv, Adopt, At, FirstInv, HandInv, Handling
<1> DEFINE r == [th["worker"] EXCEPT !.pc = "save", !.run = NoRun]
           i == th["worker"].id
<1>2. /\ r.pc = "save" /\ th' = [th EXCEPT !["worker"] = r]
      /\ mem' = [mem EXCEPT ![i] = th["worker"].run]
      /\ overwritten' = (overwritten \/ mem[i] # NoRun)
  BY <1>1 DEF ThreadState, Adopt
<1> HIDE DEF r
<1>3. ~overwritten' => ~overwritten /\ mem[i] = NoRun /\ Alive(i)
  BY <1>2 DEF Alive
<1> QED BY <1>1, <1>2, <1>3, ChangeFirst

LEMMA TakeResumeFirst == ASSUME IInv, FirstInv, TakeResume PROVE FirstInv'
<1>1. /\ th \in [Thread -> ThreadState] /\ th["resumer"] \in ThreadState
      /\ "resumer" \in Thread /\ "worker" # "resumer" /\ th["resumer"].pc = "idle"
      /\ UNCHANGED <<claimed, overwritten, mem, disk, behind>>
  BY WorkerIsAnother DEF IInv, ThreadInv, TakeResume, At
<1> DEFINE i == Head(resumes)
           r == [th["resumer"] EXCEPT !.pc = "resume", !.id = i, !.run = mem[i]]
<1>2. i \in Incident
  BY TailFacts DEF TakeResume, IInv, OrchInv
<1>3. CASE i \in claimed /\ mem[i] # NoRun
  <2>1. r.pc = "resume" /\ r.id = i /\ r.run = mem[i] /\ th' = [th EXCEPT !["resumer"] = r]
    BY <1>1, <1>3 DEF ThreadState, TakeResume
  <2> HIDE DEF r, i
  <2> QED BY <1>1, <1>2, <1>3, <2>1, QuietFirst
<1>4. CASE ~(i \in claimed /\ mem[i] # NoRun)
  BY <1>1, <1>4, SameFirst DEF TakeResume
<1> QED BY <1>3, <1>4

\* The run that is resumed is the one in the store, and it waits.
LEMMA ResumeFirst == ASSUME IInv, FirstInv, Resume PROVE FirstInv'
<1>1. /\ th \in [Thread -> ThreadState] /\ th["resumer"] \in ThreadState
      /\ "resumer" \in Thread /\ th["resumer"].pc = "resume"
      /\ th["resumer"].run \in Run /\ th["resumer"].id \in Incident /\ mem \in Store
      /\ UNCHANGED <<claimed, overwritten, disk, behind>>
  BY WorkerIsAnother DEF IInv, ThreadInv, StoreInv, Resume, At, FirstInv, HandInv, Handling, orchVars
<1> DEFINE i == th["resumer"].id
           held == th["resumer"].run
           now == IF mem[i] # NoRun /\ mem[i].walk = held.walk THEN mem[i] ELSE held
           r == [th["resumer"] EXCEPT !.pc = "save", !.run = NoRun]
<1>2. r.pc = "save" /\ th' = [th EXCEPT !["resumer"] = r]
  BY <1>1 DEF ThreadState, Resume
<1> HIDE DEF r
<1>3. now \in Run /\ now.stage = "AWAITING_APPROVAL"
  BY <1>1 DEF Store, Resume
<1>4. ~overwritten => now = mem[i] /\ Alive(i)
  BY <1>1, <1>3 DEF FirstInv, FlightInv, HoldInv, Alive
<1>5. PICK s \in {"ACTIVE", "TERMINAL"} :
        mem' = [mem EXCEPT ![i] = [now EXCEPT !.stage = s, !.results = TRUE]]
  BY DEF Resume
<1> HIDE DEF now
<1>6. [now EXCEPT !.stage = s, !.results = TRUE] \in Run
  BY <1>3 DEF Run, Stage
<1> QED BY <1>1, <1>2, <1>4, <1>5, <1>6, ChangeFirst

\* A resume that raises after it has moved the run leaves it behind.
LEMMA MovedFirst ==
  ASSUME IInv, FirstInv, NEW v \in Run, Moved(v), ResumeFails,
         behind' = behind \cup {th["resumer"].id}
  PROVE  FirstInv'
<1> DEFINE i == th["resumer"].id
           r == [th["resumer"] EXCEPT !.pc = "release", !.run = NoRun]
<1>1. /\ th \in [Thread -> ThreadState] /\ th["resumer"] \in ThreadState /\ mem \in Store
      /\ "worker" \in Thread /\ "resumer" \in Thread /\ "resumer" # "worker"
      /\ th["resumer"].pc = "resume" /\ UNCHANGED <<disk, claimed, overwritten>>
  BY WorkerIsAnother DEF IInv, ThreadInv, StoreInv, ResumeFails, At, orchVars
<1>2. r.pc = "release" /\ th' = [th EXCEPT !["resumer"] = r]
  BY <1>1 DEF ThreadState, ResumeFails
<1> HIDE DEF r
<1>3. th'["resumer"] = r /\ \A u \in Thread : u # "resumer" => th'[u] = th[u]
  BY <1>1, <1>2
<1>4. /\ i \in Incident /\ mem[i] # NoRun /\ mem'[i] = v /\ v # NoRun
      /\ \A j \in Incident : j # i => mem'[j] = mem[j]
  BY <1>1, RunIsSome DEF Moved, Store
<1>5. mem' # EmptyStore /\ \A j \in Incident : mem[j] # NoRun => mem'[j] # NoRun
  BY <1>4 DEF EmptyStore
<1>6. HandInv'
  BY <1>1, <1>2, <1>3 DEF FirstInv, HandInv, Handling
<1>7. LoadInv'
  BY <1>1, <1>2, <1>3, <1>5 DEF FirstInv, LoadInv, Within
<1>8. SaveInv'
  <2>1. \A u \in Thread : /\ At(u, "save")' <=> At(u, "save")
                          /\ At(u, "replace")' <=> At(u, "replace")
                          /\ At(u, "replace") => th'[u] = th[u]
    BY <1>1, <1>2, <1>3 DEF At
  <2>2. \A image : Covers(image) => Covers(image)'
    BY <1>4 DEF Covers
  <2>3. (\A j \in Incident \ behind : OnDisk(j) = Stored(mem[j]))
          => \A j \in Incident \ behind' : OnDisk(j)' = Stored(mem'[j])
    BY <1>1, <1>4 DEF OnDisk
  <2>4. ASSUME NEW u \in Thread, At(u, "replace")', Covers(th[u].img)
        PROVE  Covers(th[u].img)'
    <3>1. th'[u].img = th[u].img
      BY <2>1, <2>4
    <3> QED BY <1>4, <2>4, <3>1 DEF Covers
  <2> QED BY <2>1, <2>3, <2>4 DEF FirstInv, SaveInv
<1>9. FlightInv'
  <2> SUFFICES ASSUME ~overwritten' PROVE HoldInv' /\ Cardinality(Live') <= MaxIncidents
    BY DEF FlightInv
  <2>1. HoldInv'
    BY <1>2, <1>3 DEF HoldInv
  <2>2. Alive(i) /\ \A j \in claimed : Alive(j)' => Alive(j)
    BY <1>4 DEF Alive, Moved, IInv, OrchInv
  <2> QED BY <1>1, <2>1, <2>2, FewerInFlight DEF FirstInv, FlightInv
<1> QED BY <1>6, <1>7, <1>8, <1>9 DEF FirstInv

LEMMA ResumerFirst == ASSUME IInv, FirstInv, ResumeFails \/ Release PROVE FirstInv'
<1>1. /\ th \in [Thread -> ThreadState] /\ th["resumer"] \in ThreadState
      /\ "resumer" \in Thread /\ "resumer" # "worker" /\ th["resumer"].pc \in {"resume", "release"}
      /\ UNCHANGED <<claimed, overwritten, disk>>
  BY WorkerIsAnother DEF IInv, ThreadInv, ResumeFails, Release, At, orchVars
<1>2. CASE UNCHANGED <<mem, behind>>
  <2>1. PICK r : th' = [th EXCEPT !["resumer"] = r] /\ r.pc \in {"release", "idle"}
    <3>1. [th["resumer"] EXCEPT !.pc = "release", !.run = NoRun].pc = "release" /\ IdleThread.pc = "idle"
      BY <1>1 DEF ThreadState, IdleThread
    <3> QED BY <1>1, <3>1 DEF ResumeFails, Release, End
  <2> QED BY <1>1, <1>2, <2>1, QuietFirst DEF Handling
<1>3. CASE ~UNCHANGED <<mem, behind>>
  <2>1. ResumeFails /\ ~UNCHANGED <<mem, behind, events>>
    BY <1>3 DEF Release
  <2>2. PICK v \in Run : Moved(v)
    BY <2>1, MovedRun
  <2>3. behind' = behind \cup {th["resumer"].id}
    BY <2>1 DEF ResumeFails
  <2> QED BY <2>1, <2>2, <2>3, MovedFirst
<1> QED BY <1>2, <1>3

-----------------------------------------------------------------------------

LEMMA InitFirst == Init => FirstLife
<1> SUFFICES ASSUME Init PROVE FirstInv
  BY DEF FirstLife
<1>1. /\ mem = EmptyStore /\ disk = NoFile /\ claimed = {}
      /\ \A t \in Thread : th[t].pc = "idle"
      /\ "worker" \in Thread /\ "resumer" \in Thread
  BY WorkerIsAnother DEF Init, InitStore, InitOrchestrator, IdleThread
<1>2. HandInv
  BY <1>1, FS_EmptySet DEF HandInv, Handling
<1>3. LoadInv /\ SaveInv
  <2>1. \A i \in Incident : OnDisk(i) = NoRun /\ Stored(mem[i]) = NoRun
    BY <1>1 DEF OnDisk, Stored, EmptyStore
  <2> QED BY <1>1, <2>1 DEF LoadInv, SaveInv, At
<1>4. Live = {}
  BY <1>1 DEF Live
<1>5. FlightInv
  BY <1>1, <1>4, FS_EmptySet, MaxIncidentsAssumption DEF FlightInv, HoldInv
<1> QED BY <1>2, <1>3, <1>5 DEF FirstInv

\* A restart ends the first life; every other step stays in it.
LEMMA NextFirst == IInv /\ FirstLife /\ [Next]_vars => FirstLife'
<1> SUFFICES ASSUME IInv, FirstLife, [Next]_vars, boots' = 0 PROVE FirstInv'
  BY DEF FirstLife
<1>1. CASE Restart
  BY <1>1 DEF Restart, IInv, StoreInv
<1>2. CASE ~Restart
  <2>1. boots' = boots
    <3>1. CASE UNCHANGED boots
      BY <3>1
    <3>2. CASE Next /\ boots' # boots
      BY <1>2, <3>2 DEF Next, Ingest, Webhook, RequestApproval, Approve, GenerateOne, Stop, Worker,
         TakeJob, Drive, DriveFails, Adopt, Resumer, TakeResume, Resume, ResumeFails, Release,
         HttpCall, HttpStep, EnsureLoaded, Clear, Fill, Merge, CreateRun, Answer, AdvanceRun,
         SaveStep, Snapshot, Replace, ReplaceFails, storeVars
    <3> QED BY <3>1, <3>2 DEF vars, storeVars
  <2>2. FirstInv
    BY <2>1 DEF FirstLife
  <2>3. CASE (\E i \in Incident : Ingest(i) \/ Webhook(i)) \/ GenerateOne
    BY <2>2, <2>3, SubmitFirst
  <2>4. CASE Stop \/ \E i \in Incident : RequestApproval(i) \/ Approve(i)
    BY <2>2, <2>4, AsideFirst
  <2>5. CASE Worker
    BY <2>2, <2>5, TakeJobFirst, DriveFirst, AdoptFirst DEF Worker
  <2>6. CASE Resumer
    BY <2>2, <2>6, TakeResumeFirst, ResumeFirst, ResumerFirst DEF Resumer
  <2>7. CASE \E t \in Http, op \in Ops, i \in Incident : HttpCall(t, op, i) /\ UNCHANGED orchVars
    BY <2>2, <2>7, CallFirst
  <2>8. CASE \E t \in Http : HttpStep(t) /\ UNCHANGED orchVars
    BY <2>2, <2>8, HttpFirst
  <2>9. CASE \E t \in Thread : SaveStep(t) /\ UNCHANGED orchVars
    BY <2>2, <2>9, SnapshotFirst, ReplaceFirst DEF SaveStep
  <2>10. CASE UNCHANGED vars
    BY <2>2, <2>10, SameFirst DEF vars, storeVars, orchVars
  <2> QED BY <1>2, <2>3, <2>4, <2>5, <2>6, <2>7, <2>8, <2>9, <2>10 DEF Next
<1> QED BY <1>1, <1>2

LEMMA FirstInvariance == Spec => []FirstLife
<1>1. IInv /\ FirstLife /\ [Next]_vars => (IInv /\ FirstLife)'
  BY NextInv, NextFirst
<1> QED BY <1>1, InitInv, InitFirst, PTL DEF Spec

\* In the first life of the process, unless an adoption replaced a run that was
\* opened by hand, no more incidents are in flight than there is room for,
\* whoever submits, drives, resumes, loads and saves.
THEOREM InFlightBoundedHolds == Spec => []InFlightBounded
<1>1. FirstLife => InFlightBounded
  BY DEF FirstLife, FirstInv, FlightInv, InFlightBounded
<1> QED BY <1>1, FirstInvariance, PTL

\* In the first life of the process, whenever no save is to begin or under way,
\* the file has of every incident what the memory has, but for the runs that a
\* failed write or a resume that raised has left behind.
THEOREM DiskFollowsMemoryHolds == Spec => []DiskFollowsMemory
<1>1. FirstLife => DiskFollowsMemory
  BY DEF FirstLife, FirstInv, SaveInv, DiskFollowsMemory
<1> QED BY <1>1, FirstInvariance, PTL

=============================================================================
