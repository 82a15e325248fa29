----------------------------- MODULE AuditStream -----------------------------
(***************************************************************************)
(* The audit trail of one incident and its live stream: services/audit.py  *)
(* (emit, verify, save, load), routers/audit.py (CHAINS, persist_chain),   *)
(* services/eventbus.py and routers/stream.py.                             *)
(*                                                                         *)
(* Emitters are the threads that append to the chain: the orchestrator's   *)
(* and those of the HTTP handlers.  No lock covers the chain, so looking   *)
(* it up, reading its last link, appending, publishing and saving are      *)
(* steps of their own.  The reader is one browser on GET /stream, whose    *)
(* generator runs on the event loop.                                       *)
(*                                                                         *)
(* The hash of an event is its emission number: two events have the same   *)
(* hash only if they are the same.  Of the content only the index of the   *)
(* FSM record it carries is kept (0: any other event).  The incident is    *)
(* known and its id fit for a file name.                                   *)
(***************************************************************************)
EXTENDS Naturals, Sequences, FiniteSets

CONSTANTS
  Emitter,
  NoFile,       \* the chain has no file
  NoEvent,
  QueueSize,    \* eventbus.DEFAULT_QUEUE_SIZE
  MaxEmits,     \* bound: emissions
  MaxRecords,   \* bound: transitions of the run
  MaxBoots,     \* bound: restarts
  MaxConnects   \* bound: connections of the reader

ASSUME QueueSizeAssumption == QueueSize \in Nat \ {0}
ASSUME BoundsAssumption ==
  MaxEmits \in Nat /\ MaxRecords \in Nat /\ MaxBoots \in Nat /\ MaxConnects \in Nat

VARIABLES
  object,       \* the AuditChain objects of this life of the process
  current,      \* CHAINS[incident]: which one, 0 if none
  file,         \* audit-<incident>.jsonl
  em,           \* what each emitter is doing
  emits,        \* emissions so far, which numbers the events
  history,      \* length of run.history
  conn,         \* the reader's connection
  callbacks,    \* call_soon_threadsafe: events on their way into the queue
  queue,        \* Subscription.queue
  dropped,      \* Subscription.dropped > 0, for what the reader holds
  lastSeq,      \* last_seq of the generator
  received,     \* what the browser has, its last event being its cursor
  boots, connects,
  overlapped    \* ghost: two emitters have been at work at once

chainVars == <<object, current, file, em, emits, history>>
streamVars == <<conn, callbacks, queue, dropped, lastSeq, received, connects>>
vars == <<chainVars, streamVars, boots, overlapped>>

-----------------------------------------------------------------------------

Log == INSTANCE AuditLog WITH
  EventId <- 1..MaxEmits,
  durable <- IF file = NoFile THEN 0 ELSE Len(file),
  log <- IF current # 0 THEN [k \in DOMAIN object[current] |-> object[current][k].link]
         ELSE IF file = NoFile THEN << >>
         ELSE [k \in DOMAIN file |-> file[k].link]

Event == [link : Log!Event, record : 0..MaxRecords]

ASSUME NoFileAssumption == NoFile \notin Seq(Event)

Links(c) == [k \in DOMAIN c |-> c[k].link]

IdleEmitter == [pc |-> "idle", chain |-> 0, todo |-> << >>, event |-> NoEvent, lines |-> NoFile]

Init ==
  /\ object = << >> /\ current = 0 /\ file = NoFile
  /\ em = [e \in Emitter |-> IdleEmitter]
  /\ emits = 0 /\ history = 0
  /\ conn = "off" /\ callbacks = << >> /\ queue = << >>
  /\ dropped = FALSE /\ lastSeq = 0 /\ received = << >>
  /\ boots = 0 /\ connects = 0 /\ overlapped = FALSE

At(e, pc) == em[e].pc = pc

\* Bug: the chain of a known incident starts empty after a restart.
LoadedEmpty == << >>

\* AuditChain.load(), or a new chain where there is no file.
Loaded == IF file = NoFile THEN << >> ELSE file

\* load() raises on a file that does not verify: no chain rather than a wrong
\* or an empty one.
Loadable == Log!Verifies(Links(Loaded))

-----------------------------------------------------------------------------
(* Emitters.                                                               *)

\* An emitter begins: from now on it is at work until its save is over.
Begin(e, todo) ==
  /\ At(e, "idle") /\ emits < MaxEmits
  /\ em' = [em EXCEPT ![e].pc = "lookup", ![e].todo = todo]
  /\ overlapped' = (overlapped \/ \E f \in Emitter : ~At(f, "idle"))

\* An event of its own: approval, policy, execution, verification, RCA, ...
StartEvent(e) ==
  /\ Begin(e, <<0>>)
  /\ UNCHANGED <<object, current, file, emits, history, streamVars, boots>>

\* The run moved; record_fsm(chain, audit_records(run)) emits its whole
\* history.
StartRecord(e) ==
  /\ history < MaxRecords
  /\ history' = history + 1
  /\ Begin(e, [k \in 1..(history + 1) |-> k])
  /\ UNCHANGED <<object, current, file, emits, streamVars, boots>>

\* get_or_create_chain() finds the chain ...
Lookup(e) ==
  /\ At(e, "lookup")
  /\ IF current # 0
     THEN em' = [em EXCEPT ![e].pc = "link", ![e].chain = current]
     ELSE em' = [em EXCEPT ![e].pc = "create"]
  /\ UNCHANGED <<object, current, file, emits, history, streamVars, boots, overlapped>>

\* ... or, whatever another thread put there meanwhile, makes it.
Create(e) ==
  /\ At(e, "create")
  /\ IF Loadable
     THEN /\ object' = Append(object, Loaded)
          /\ current' = Len(object) + 1
          /\ em' = [em EXCEPT ![e].pc = "link", ![e].chain = Len(object) + 1]
     ELSE em' = [em EXCEPT ![e] = IdleEmitter] /\ UNCHANGED <<object, current>>
  /\ UNCHANGED <<file, emits, history, streamVars, boots, overlapped>>

\* Bug: the link is to the last persisted event.
LinkToPersisted(e) ==
  LET c == object[em[e].chain] IN
  /\ At(e, "link") /\ emits < MaxEmits
  /\ emits' = emits + 1
  /\ em' = [em EXCEPT ![e].pc = "append",
              ![e].event = [link |-> [id |-> emits + 1, seq |-> Len(c) + 1,
                                      prev |-> Log!LastId(Links(Loaded))],
                            record |-> Head(em[e].todo)]]
  /\ UNCHANGED <<object, current, file, history, streamVars, boots, overlapped>>

\* emit(): the link and the number come from the last event ...
Link(e) ==
  LET c == object[em[e].chain] IN
  /\ At(e, "link") /\ emits < MaxEmits
  /\ emits' = emits + 1
  /\ em' = [em EXCEPT ![e].pc = "append",
              ![e].event = [link |-> [id |-> emits + 1, seq |-> Len(c) + 1,
                                      prev |-> Log!LastId(Links(c))],
                            record |-> Head(em[e].todo)]]
  /\ UNCHANGED <<object, current, file, history, streamVars, boots, overlapped>>

\* ... and the event is appended later.
AppendEvent(e) ==
  /\ At(e, "append")
  /\ object' = [object EXCEPT ![em[e].chain] = Append(@, em[e].event)]
  /\ em' = [em EXCEPT ![e].pc = "publish", ![e].todo = Tail(@)]
  /\ UNCHANGED <<current, file, emits, history, streamVars, boots, overlapped>>

\* publish() hands it to the loop of the reader, if there is one; then the
\* next event, or persist_chain().
Publish(e) ==
  /\ At(e, "publish")
  /\ callbacks' = IF conn = "off" THEN callbacks ELSE Append(callbacks, em[e].event)
  /\ em' = [em EXCEPT ![e].pc = IF em[e].todo # << >> /\ emits < MaxEmits THEN "link" ELSE "save",
                      ![e].event = NoEvent]
  /\ UNCHANGED <<object, current, file, emits, history, conn, queue, dropped,
                 lastSeq, received, connects, boots, overlapped>>

\* save(): the lines are collected ...
CollectLines(e) ==
  /\ At(e, "save")
  /\ em' = [em EXCEPT ![e].pc = "replace", ![e].lines = object[em[e].chain]]
  /\ UNCHANGED <<object, current, file, emits, history, streamVars, boots, overlapped>>

\* ... and the file replaced, unless the disk refuses.
ReplaceFile(e) ==
  /\ At(e, "replace")
  /\ file' \in {file, em[e].lines}
  /\ em' = [em EXCEPT ![e] = IdleEmitter]
  /\ UNCHANGED <<object, current, emits, history, streamVars, boots, overlapped>>

-----------------------------------------------------------------------------
(* The reader.                                                             *)

\* The generator starts: subscribe first.
Subscribe ==
  /\ conn = "off" /\ connects < MaxConnects
  /\ connects' = connects + 1
  /\ conn' = "subscribed"
  /\ UNCHANGED <<chainVars, callbacks, queue, dropped, lastSeq, received, boots, overlapped>>

Cursor == IF received = << >> THEN 0 ELSE received[Len(received)].link.id

\* Where the cursor is in the chain: the first event with that id.
Position(c, cursor) ==
  CHOOSE n \in DOMAIN c : c[n].link.id = cursor /\ \A k \in 1..(n - 1) : c[k].link.id # cursor

\* Bug: the event after the cursor is skipped with it.
AfterSkipping(c, cursor) == SubSeq(c, Position(c, cursor) + 2, Len(c))

\* filter_after(): what follows the cursor.
After(c, cursor) == SubSeq(c, Position(c, cursor) + 1, Len(c))

Known(c, cursor) == cursor = 0 \/ \E k \in DOMAIN c : c[k].link.id = cursor

\* list_stream_items() and the replayed frames.  Nothing is awaited since
\* subscribe(), so no callback has run.
Backlog ==
  LET c == IF current # 0 THEN object[current] ELSE Loaded
      items == IF Cursor = 0 THEN c ELSE After(c, Cursor)
  IN
  /\ conn = "subscribed"
  /\ current # 0 \/ Loadable
  /\ Known(c, Cursor)
  /\ IF current # 0 THEN UNCHANGED <<object, current>>
     ELSE object' = Append(object, c) /\ current' = Len(object) + 1
  /\ conn' = "live"
  /\ received' = received \o items
  /\ lastSeq' = IF items = << >> THEN 0 ELSE items[Len(items)].link.seq
  /\ UNCHANGED <<file, em, emits, history, callbacks, queue, dropped, connects, boots, overlapped>>

Unsubscribed ==
  /\ conn' = "off" /\ callbacks' = << >> /\ queue' = << >> /\ lastSeq' = 0

\* StreamCursorUnknown: 400, and the browser starts over without a cursor.
BacklogRefused ==
  LET c == IF current # 0 THEN object[current] ELSE Loaded IN
  /\ conn = "subscribed"
  /\ current # 0 \/ Loadable
  /\ ~Known(c, Cursor)
  /\ IF current # 0 THEN UNCHANGED <<object, current>>
     ELSE object' = Append(object, c) /\ current' = Len(object) + 1
  /\ Unsubscribed
  /\ received' = << >> /\ dropped' = FALSE
  /\ UNCHANGED <<file, em, emits, history, connects, boots, overlapped>>

\* Bug: the queue has no bound.
PutUnbounded ==
  /\ conn = "live" /\ callbacks # << >>
  /\ callbacks' = Tail(callbacks)
  /\ queue' = Append(queue, Head(callbacks))
  /\ UNCHANGED <<chainVars, conn, dropped, lastSeq, received, connects, boots, overlapped>>

\* Bug: a full queue refuses the newest event.
PutRefusing ==
  /\ conn = "live" /\ callbacks # << >>
  /\ callbacks' = Tail(callbacks)
  /\ queue' = IF Len(queue) < QueueSize THEN Append(queue, Head(callbacks)) ELSE queue
  /\ UNCHANGED <<chainVars, conn, dropped, lastSeq, received, connects, boots, overlapped>>

\* Subscription._put: a full queue loses its oldest event.
Put ==
  /\ conn = "live" /\ callbacks # << >>
  /\ callbacks' = Tail(callbacks)
  /\ IF Len(queue) < QueueSize
     THEN queue' = Append(queue, Head(callbacks)) /\ UNCHANGED dropped
     ELSE queue' = Append(Tail(queue), Head(callbacks)) /\ dropped' = TRUE
  /\ UNCHANGED <<chainVars, conn, lastSeq, received, connects, boots, overlapped>>

\* The generator takes an event and filters what it has sent before.
Deliver ==
  LET ev == Head(queue) IN
  /\ conn = "live" /\ queue # << >>
  /\ queue' = Tail(queue)
  /\ IF ev.link.seq <= lastSeq
     THEN UNCHANGED <<lastSeq, received>>
     ELSE lastSeq' = ev.link.seq /\ received' = Append(received, ev)
  /\ UNCHANGED <<chainVars, conn, callbacks, dropped, connects, boots, overlapped>>

\* The client goes away, or MAX_CONNECTION_SECONDS are over.
Disconnect ==
  /\ conn = "live"
  /\ Unsubscribed
  /\ UNCHANGED <<chainVars, dropped, received, connects, boots, overlapped>>

\* The process starts again with what is on disk; the connection breaks.
Restart ==
  /\ boots < MaxBoots
  /\ boots' = boots + 1
  /\ object' = << >> /\ current' = 0
  /\ em' = [e \in Emitter |-> IdleEmitter]
  /\ Unsubscribed
  /\ UNCHANGED <<file, emits, history, dropped, received, connects, overlapped>>

-----------------------------------------------------------------------------

EmitStep(e) ==
  \/ Lookup(e) \/ Create(e) \/ Link(e) \/ AppendEvent(e) \/ Publish(e)
  \/ CollectLines(e) \/ ReplaceFile(e)

StreamStep == Backlog \/ BacklogRefused \/ Put \/ Deliver

Next ==
  \/ \E e \in Emitter : StartEvent(e) \/ StartRecord(e) \/ EmitStep(e)
  \/ Subscribe \/ StreamStep \/ Disconnect
  \/ Restart

Spec == Init /\ [][Next]_vars

\* An emitter finishes what it began and the event loop runs.
LiveSpec ==
  Spec /\ (\A e \in Emitter : WF_vars(EmitStep(e))) /\ WF_vars(StreamStep)

-----------------------------------------------------------------------------
(* Properties.                                                             *)

Served == IF current # 0 THEN object[current] ELSE Loaded

TypeOK ==
  /\ object \in Seq(Seq(Event)) /\ current \in 0..Len(object)
  /\ file \in Seq(Event) \cup {NoFile}
  /\ \A e \in Emitter :
       /\ em[e].pc \in {"idle", "lookup", "create", "link", "append", "publish", "save", "replace"}
       /\ em[e].chain \in 0..Len(object)
       /\ em[e].event \in Event \cup {NoEvent}
       /\ em[e].lines \in Seq(Event) \cup {NoFile}
  /\ emits \in 0..MaxEmits /\ history \in 0..MaxRecords
  /\ conn \in {"off", "subscribed", "live"}
  /\ callbacks \in Seq(Event) /\ queue \in Seq(Event) /\ Len(queue) <= QueueSize
  /\ received \in Seq(Event) /\ lastSeq \in Nat /\ overlapped \in BOOLEAN

\* The chain that is served, and the file whenever it could be loaded, verify:
\* "every link + order", across crashes at any point, as long as no two emitters
\* were ever at work at once: no lock keeps two from taking the same number.
ChainVerifies ==
  ~overlapped => Log!Verifies(Links(Served)) /\ Log!Verifies(Links(Loaded))

\* The chain is a log: it grows at its end, and a restart loses no more than
\* what was not yet persisted; again until two emitters overlap.
ImplementsLog ==
  Log!Init /\ [][~overlapped' => [Log!Next]_(Log!vars)]_vars

\* http_stream: the reader "resumes with no gap": while it is connected and its
\* queue did not overflow, it holds the chain from the first event on, each
\* event once but for the last one of an earlier connection; until two emitters
\* overlap, since the later number may be published first.
NoGap ==
  conn = "live" /\ ~dropped /\ ~overlapped =>
    \A k \in DOMAIN received :
      /\ received[k] \in {Served[n] : n \in DOMAIN Served}
      /\ received[k].link.seq \in
           IF k = 1 THEN {1}
           ELSE {received[k - 1].link.seq, received[k - 1].link.seq + 1}

\* An event of the chain reaches a connected reader, unless it leaves, the
\* process dies, the queue overflows or two emitters overlap.
Holds(n) == \E k \in DOMAIN received : received[k].link.id = n
InChain(n) == \E k \in DOMAIN Served : Served[k].link.id = n
EventsArrive ==
  \A n \in 1..MaxEmits :
    (conn = "live" /\ InChain(n)) ~> (Holds(n) \/ conn # "live" \/ dropped \/ overlapped)

\* eventbus.py on a queue that overflowed: "any gap is detectable ... the
\* client's cursor simply will not match and it re-replays".
GapIsReplayed ==
  conn = "live" /\ callbacks = << >> /\ queue = << >>
    => \A k \in DOMAIN Served :
         (\E n \in DOMAIN received : received[n].link.seq > Served[k].link.seq)
           => Holds(Served[k].link.id)

\* http_stream: "resumes with no gap and no duplicate".
NoDuplicate ==
  \A k, n \in DOMAIN received : received[k].link.id = received[n].link.id => k = n

\* _process_sync: "The pipeline records the FSM into the chain on every path,
\* so nothing is recorded twice here."
RecordedOnce ==
  \A k, n \in DOMAIN Served :
    Served[k].record = Served[n].record /\ Served[k].record # 0 => k = n

=============================================================================
