-------------------------- MODULE AuditStreamProofs --------------------------
(***************************************************************************)
(* Theorems about AuditStream: for every set of emitters, queue, reader,   *)
(* number of events, records and crashes.  TypeCorrect is of all           *)
(* behaviours; the others say what holds until two emitters are at work at *)
(* once, which no lock prevents: ChainInv and StreamInv are invariants up  *)
(* to then.                                                                *)
(*                                                                         *)
(* ChainInv relates the three places a chain is in: what is served, the    *)
(* file, and what the emitter holds.  The file is a prefix of what is      *)
(* served; an event that is linked but not yet appended fits the end of    *)
(* the chain and is newer than everything in it; lines that are collected  *)
(* but not yet written are the chain.  ChainVerifies is not inductive      *)
(* without the second, and a restart, which serves the file, is a loss of  *)
(* the tail only because of the first.                                     *)
(*                                                                         *)
(* StreamInv adds the reader: the queue, the callbacks and the event in    *)
(* the emitter's hand are, in this order, the end of the chain, and what   *)
(* the browser has is the beginning of the chain up to it.  Off line the   *)
(* second is only known of a chain that still holds the cursor, served or  *)
(* in the file, since a restart brings back the file and what was lost is  *)
(* followed by other events of the same number.                            *)
(***************************************************************************)
EXTENDS AuditStream, SequenceTheorems, WellFoundedInduction, TLAPS

\* No two emitters are at work.
Alone == \A e, f \in Emitter : em[e].pc # "idle" /\ em[f].pc # "idle" => e = f

\* No other emitter is at work.
Only(e) == \A f \in Emitter : f # e => em[f].pc = "idle"

\* Numbered and linked in order, by emissions up to the given one.
Good(c, top) ==
  /\ c \in Seq(Event)
  /\ \A k \in 1..Len(c) :
       /\ c[k].link.seq = k
       /\ c[k].link.prev = IF k = 1 THEN 0 ELSE c[k - 1].link.id
       /\ c[k].link.id <= top

\* The event fits the end of the chain.
Fits(ev, c) ==
  /\ ev.link.seq = Len(c) + 1
  /\ ev.link.prev = IF Len(c) = 0 THEN 0 ELSE c[Len(c)].link.id

Extends(c, d) == Len(d) <= Len(c) /\ \A k \in 1..Len(d) : c[k] = d[k]

\* What an emitter holds is of the chain that is served.
Holding(m) ==
  /\ DOMAIN m = {"pc", "chain", "todo", "event", "lines"}
  /\ m.pc \in {"idle", "lookup", "create", "link", "append", "publish", "save", "replace"}
  /\ m.pc \in {"link", "append", "publish", "save", "replace"} =>
       current # 0 /\ m.chain = current
  /\ m.pc \in {"lookup", "create", "link", "append", "publish"} => m.todo \in Seq(0..MaxRecords)
  /\ m.pc \in {"lookup", "create", "link", "append"} => m.todo # << >>
  /\ m.pc = "create" /\ current # 0 => object[current] = Loaded
  /\ m.pc = "append" =>
       /\ m.event \in Event /\ m.event.link.id = emits
       /\ Fits(m.event, object[current]) /\ Good(object[current], emits - 1)
  /\ m.pc = "replace" => m.lines = object[current]

ChainInv ==
  /\ emits \in 0..MaxEmits /\ history \in 0..MaxRecords
  /\ \E S : object \in Seq(S)
  /\ \A i \in 1..Len(object) : Good(object[i], emits)
  /\ current \in 0..Len(object)
  /\ Good(Loaded, emits)
  /\ current # 0 => Extends(object[current], Loaded)
  /\ DOMAIN em = Emitter /\ \A e \in Emitter : Holding(em[e])
  /\ Alone

-----------------------------------------------------------------------------
(* Chains.                                                                 *)

LEMMA GoodVerifies ==
  ASSUME NEW c, NEW top, Good(c, top)
  PROVE  Log!Verifies(Links(c))
<1>1. DOMAIN c = 1..Len(c) /\ Len(c) \in Nat
  BY DEF Good
<1>2. DOMAIN Links(c) = 1..Len(c) /\ \A k \in 1..Len(c) : Links(c)[k] = c[k].link
  BY <1>1 DEF Links
<1>3. ASSUME NEW k \in 1..Len(c), k # 1 PROVE Links(c)[k - 1].id = c[k - 1].link.id
  <2>1. k - 1 \in 1..Len(c)
    BY <1>1, <1>3
  <2> QED BY <1>2, <2>1
<1> QED BY <1>1, <1>2, <1>3 DEF Log!Verifies, Log!Genesis, Good

LEMMA LastLink ==
  ASSUME NEW c \in Seq(Event)
  PROVE  Log!LastId(Links(c)) = IF Len(c) = 0 THEN 0 ELSE c[Len(c)].link.id
<1>1. DOMAIN c = 1..Len(c) /\ Len(c) \in Nat
  OBVIOUS
<1>2. DOMAIN Links(c) = 1..Len(c) /\ \A k \in 1..Len(c) : Links(c)[k] = c[k].link
  BY <1>1 DEF Links
<1>3. Len(Links(c)) = Len(c)
  BY <1>1, <1>2 DEF Links
<1>4. CASE Len(c) = 0
  <2>1. Links(c) = << >>
    BY <1>1, <1>4 DEF Links
  <2> QED BY <1>4, <2>1 DEF Log!LastId, Log!Genesis
<1>5. CASE Len(c) # 0
  <2>1. Len(c) \in 1..Len(c)
    BY <1>1, <1>5
  <2>2. Links(c) # << >>
    BY <1>3, <1>5
  <2> QED BY <1>2, <1>3, <1>5, <2>1, <2>2 DEF Log!LastId
<1> QED BY <1>4, <1>5

LEMMA GoodMore ==
  ASSUME NEW c, NEW n \in Nat, NEW m \in Nat, n <= m, Good(c, n)
  PROVE  Good(c, m)
<1>1. \A k \in 1..Len(c) : c[k] \in Event
  BY DEF Good
<1>2. \A k \in 1..Len(c) : c[k].link.id \in 1..MaxEmits
  BY <1>1 DEF Event, Log!Event
<1> QED BY <1>2, BoundsAssumption DEF Good

LEMMA GoodAppend ==
  ASSUME NEW c, NEW n \in Nat, n > 0, Good(c, n - 1), NEW ev \in Event,
         Fits(ev, c), ev.link.id = n
  PROVE  Good(Append(c, ev), n) /\ Extends(Append(c, ev), c)
<1> DEFINE d == Append(c, ev)
<1>1. c \in Seq(Event) /\ Len(c) \in Nat
  BY DEF Good
<1>2. /\ d \in Seq(Event) /\ Len(d) = Len(c) + 1 /\ d[Len(c) + 1] = ev
      /\ \A k \in 1..Len(c) : d[k] = c[k]
  BY <1>1
<1> HIDE DEF d
<1>3. Good(c, n)
  BY GoodMore
<1>4. ASSUME NEW k \in 1..Len(d)
      PROVE  /\ d[k].link.seq = k
             /\ d[k].link.prev = IF k = 1 THEN 0 ELSE d[k - 1].link.id
             /\ d[k].link.id <= n
  <2>1. CASE k \in 1..Len(c)
    <3>1. k # 1 => d[k - 1] = c[k - 1]
      BY <1>1, <1>2, <2>1
    <3> QED BY <1>2, <1>3, <2>1, <3>1 DEF Good
  <2>2. CASE k = Len(c) + 1
    <3>1. k # 1 => d[k - 1] = c[Len(c)]
      BY <1>1, <1>2, <2>2
    <3>2. k = 1 <=> Len(c) = 0
      BY <1>1, <2>2
    <3> QED BY <1>2, <2>2, <3>1, <3>2 DEF Fits
  <2> QED BY <1>1, <1>2, <2>1, <2>2
<1> QED BY <1>1, <1>2, <1>4 DEF Good, Extends, d

LEMMA EmptyIsGood == ASSUME NEW n \in Nat PROVE Good(<< >>, n)
BY DEF Good

-----------------------------------------------------------------------------
(* The steps.                                                              *)

LEMMA InitChain == Init => ChainInv
<1> SUFFICES ASSUME Init PROVE ChainInv
  OBVIOUS
<1>1. /\ object = << >> /\ current = 0 /\ file = NoFile /\ emits = 0 /\ history = 0
      /\ em = [e \in Emitter |-> IdleEmitter]
  BY DEF Init
<1>2. object \in Seq({}) /\ Len(object) = 0
  BY <1>1
<1>3. Good(Loaded, emits)
  BY <1>1, EmptyIsGood DEF Loaded
<1>4. \A e \in Emitter : Holding(em[e])
  BY <1>1 DEF Holding, IdleEmitter
<1>5. Alone
  BY <1>1 DEF Alone, IdleEmitter
<1> QED BY <1>1, <1>2, <1>3, <1>4, <1>5, BoundsAssumption DEF ChainInv

\* Nothing of the chain moves.
LEMMA SameChain == ASSUME ChainInv, UNCHANGED chainVars PROVE ChainInv'
<1>1. \A c, n : Good(c, n)' <=> Good(c, n)
  BY DEF Good
<1>2. Loaded' = Loaded
  BY DEF chainVars, Loaded
<1>3. \A m : Holding(m)' <=> Holding(m)
  BY <1>1, <1>2 DEF Holding, chainVars, Fits
<1> QED BY <1>1, <1>2, <1>3 DEF ChainInv, Alone, chainVars, Extends

\* The only emitter at work moves; the others stay idle.
LEMMA OthersIdle ==
  ASSUME ChainInv, NEW e \in Emitter, Only(e), NEW m, em' = [em EXCEPT ![e] = m]
  PROVE  /\ DOMAIN em' = Emitter /\ em'[e] = m
         /\ \A f \in Emitter : f # e => em'[f] = em[f] /\ em'[f].pc = "idle" /\ em[f].pc = "idle"
         /\ \A f \in Emitter : f # e => Holding(em[f])'
         /\ Alone'
<1>1. DOMAIN em' = Emitter /\ em'[e] = m /\ \A f \in Emitter : f # e => em'[f] = em[f]
  BY DEF ChainInv
<1>2. \A f \in Emitter : f # e => em'[f].pc = "idle" /\ em[f].pc = "idle"
  BY <1>1 DEF Only
<1>3. ASSUME NEW f \in Emitter, f # e PROVE Holding(em[f])'
  <2>1. DOMAIN em'[f] = {"pc", "chain", "todo", "event", "lines"} /\ em'[f].pc = "idle"
    BY <1>1, <1>2, <1>3 DEF ChainInv, Holding
  <2> QED BY <2>1 DEF Holding
<1>4. Alone'
  BY <1>2 DEF Alone
<1> QED BY <1>1, <1>2, <1>3, <1>4

\* An emitter at work is the only one.
LEMMA WorkingAlone ==
  ASSUME ChainInv, NEW e \in Emitter, em[e].pc # "idle"
  PROVE  Only(e)
BY DEF ChainInv, Alone, Only

\* So is one that begins without overlapping another.
LEMMA BeginsAlone ==
  ASSUME NEW e \in Emitter, NEW todo, Begin(e, todo), ~overlapped'
  PROVE  Only(e)
BY DEF Begin, At, Only

\* The emitter goes on; what is served and the file stay.
LEMMA EmitterMoves ==
  ASSUME ChainInv, NEW e \in Emitter, Only(e),
         UNCHANGED <<object, current, file, emits>>, history' \in 0..MaxRecords,
         NEW m, em' = [em EXCEPT ![e] = m], Holding(m)
  PROVE  ChainInv'
<1>1. /\ DOMAIN em' = Emitter /\ em'[e] = m /\ Alone'
      /\ \A f \in Emitter : f # e => Holding(em[f])'
  BY OthersIdle
<1>2. \A c, n : Good(c, n)' <=> Good(c, n)
  BY DEF Good
<1>3. Loaded' = Loaded
  BY DEF Loaded
<1>4. Holding(m)'
  BY <1>2, <1>3 DEF Holding, Fits
<1>5. \A f \in Emitter : Holding(em[f])'
  BY <1>1, <1>4
<1> QED BY <1>1, <1>2, <1>3, <1>5 DEF ChainInv, Extends

LEMMA StartChain ==
  ASSUME ChainInv, NEW e \in Emitter, StartEvent(e) \/ StartRecord(e), ~overlapped'
  PROVE  ChainInv'
<1>0. Only(e)
  BY BeginsAlone DEF StartEvent, StartRecord
<1>1. CASE StartEvent(e)
  <2> DEFINE m == [em[e] EXCEPT !.pc = "lookup", !.todo = <<0>>]
  <2>1. em' = [em EXCEPT ![e] = m] /\ UNCHANGED <<object, current, file, emits, history>>
    BY <1>1 DEF StartEvent, Begin
  <2>2. /\ DOMAIN m = {"pc", "chain", "todo", "event", "lines"}
        /\ m.pc = "lookup" /\ m.todo = <<0>>
    BY DEF ChainInv, Holding
  <2>3. <<0>> \in Seq(0..MaxRecords) /\ <<0>> # << >>
    BY BoundsAssumption
  <2> HIDE DEF m
  <2>4. Holding(m)
    BY <2>2, <2>3 DEF Holding
  <2>5. history' \in 0..MaxRecords
    BY <2>1 DEF ChainInv
  <2> QED BY <1>0, <2>1, <2>4, <2>5, EmitterMoves
<1>2. CASE StartRecord(e)
  <2> DEFINE todo == [k \in 1..(history + 1) |-> k]
             m == [em[e] EXCEPT !.pc = "lookup", !.todo = todo]
  <2>1. em' = [em EXCEPT ![e] = m] /\ UNCHANGED <<object, current, file, emits>>
    BY <1>2 DEF StartRecord, Begin
  <2>2. history' \in 0..MaxRecords /\ history + 1 \in 1..MaxRecords
    BY <1>2, BoundsAssumption DEF StartRecord, ChainInv
  <2>3. todo \in Seq(0..MaxRecords) /\ Len(todo) = history + 1
    <3>1. todo \in [1..(history + 1) -> 0..MaxRecords] /\ history + 1 \in Nat
      BY <2>2, BoundsAssumption
    <3> HIDE DEF todo
    <3>2. Seq(0..MaxRecords) = UNION {[1..n -> 0..MaxRecords] : n \in Nat}
      BY SeqDef
    <3>3. todo \in Seq(0..MaxRecords)
      BY <3>1, <3>2
    <3>4. DOMAIN todo = 1..(history + 1) /\ DOMAIN todo = 1..Len(todo) /\ Len(todo) \in Nat
      BY <3>1, <3>3
    <3> QED BY <3>1, <3>3, <3>4
  <2> HIDE DEF todo
  <2>4. todo # << >>
    BY <2>2, <2>3
  <2>5. /\ DOMAIN m = {"pc", "chain", "todo", "event", "lines"}
        /\ m.pc = "lookup" /\ m.todo = todo
    BY DEF ChainInv, Holding
  <2> HIDE DEF m
  <2>6. Holding(m)
    BY <2>3, <2>4, <2>5 DEF Holding
  <2> QED BY <1>0, <2>1, <2>2, <2>6, EmitterMoves
<1> QED BY <1>1, <1>2

LEMMA LookupChain ==
  ASSUME ChainInv, NEW e \in Emitter, Lookup(e)
  PROVE  ChainInv'
<1>0. Only(e)
  BY WorkingAlone DEF At, Lookup
<1>1. Holding(em[e]) /\ em[e].pc = "lookup" /\ history' \in 0..MaxRecords
  BY DEF ChainInv, Lookup, At
<1>2. CASE current # 0
  <2> DEFINE m == [em[e] EXCEPT !.pc = "link", !.chain = current]
  <2>1. em' = [em EXCEPT ![e] = m] /\ UNCHANGED <<object, current, file, emits>>
    BY <1>2 DEF Lookup
  <2>2. /\ DOMAIN m = {"pc", "chain", "todo", "event", "lines"}
        /\ m.pc = "link" /\ m.chain = current /\ m.todo = em[e].todo
    BY <1>1 DEF Holding
  <2> HIDE DEF m
  <2>3. Holding(m)
    BY <1>1, <1>2, <2>2 DEF Holding
  <2> QED BY <1>0, <1>1, <2>1, <2>3, EmitterMoves
<1>3. CASE current = 0
  <2> DEFINE m == [em[e] EXCEPT !.pc = "create"]
  <2>1. em' = [em EXCEPT ![e] = m] /\ UNCHANGED <<object, current, file, emits>>
    BY <1>3 DEF Lookup
  <2>2. /\ DOMAIN m = {"pc", "chain", "todo", "event", "lines"}
        /\ m.pc = "create" /\ m.todo = em[e].todo
    BY <1>1 DEF Holding
  <2> HIDE DEF m
  <2>3. Holding(m)
    BY <1>1, <1>3, <2>2 DEF Holding
  <2> QED BY <1>0, <1>1, <2>1, <2>3, EmitterMoves
<1> QED BY <1>2, <1>3

\* A thread opens the chain: what is served is the file.
LEMMA OpenChain ==
  ASSUME ChainInv, object' = Append(object, Loaded), current' = Len(object) + 1,
         UNCHANGED <<file, emits, history>>
  PROVE  /\ \E S : object' \in Seq(S)
         /\ \A i \in 1..Len(object') : Good(object'[i], emits)
         /\ current' \in 1..Len(object') /\ object'[current'] = Loaded
         /\ Loaded' = Loaded /\ Extends(object'[current'], Loaded)
<1>1. PICK S : object \in Seq(S)
  BY DEF ChainInv
<1>2. object \in Seq(S \cup {Loaded})
  BY <1>1
<1>3. /\ object' \in Seq(S \cup {Loaded}) /\ Len(object) \in Nat
      /\ Len(object') = Len(object) + 1 /\ object'[Len(object) + 1] = Loaded
      /\ \A i \in 1..Len(object) : object'[i] = object[i]
  BY <1>2
<1>4. \A i \in 1..Len(object') : Good(object'[i], emits)
  <2> SUFFICES ASSUME NEW i \in 1..Len(object') PROVE Good(object'[i], emits)
    OBVIOUS
  <2>1. CASE i \in 1..Len(object)
    BY <1>3, <2>1 DEF ChainInv
  <2>2. CASE i = Len(object) + 1
    BY <1>3, <2>2 DEF ChainInv
  <2> QED BY <1>3, <2>1, <2>2
<1>5. Loaded' = Loaded
  BY DEF Loaded
<1>6. Len(Loaded) \in Nat
  BY DEF ChainInv, Good
<1> QED BY <1>3, <1>4, <1>5, <1>6 DEF Extends

LEMMA CreateChain ==
  ASSUME ChainInv, NEW e \in Emitter, Create(e)
  PROVE  ChainInv'
<1>0. Only(e)
  BY WorkingAlone DEF At, Create
<1>1. Holding(em[e]) /\ em[e].pc = "create" /\ history' \in 0..MaxRecords
  BY DEF ChainInv, Create, At
<1>2. CASE Loadable
  <2> DEFINE m == [em[e] EXCEPT !.pc = "link", !.chain = Len(object) + 1]
  <2>1. /\ object' = Append(object, Loaded) /\ current' = Len(object) + 1
        /\ UNCHANGED <<file, emits, history>> /\ em' = [em EXCEPT ![e] = m]
    BY <1>2 DEF Create
  <2>2. /\ DOMAIN em'[e] = {"pc", "chain", "todo", "event", "lines"}
        /\ em'[e].pc = "link" /\ em'[e].chain = current' /\ em'[e].todo = em[e].todo
    BY <1>1, <2>1 DEF ChainInv, Holding
  <2>8. /\ DOMAIN em' = Emitter /\ Alone'
        /\ \A f \in Emitter : f # e => Holding(em[f])'
    BY <1>0, <2>1, OthersIdle
  <2> HIDE DEF m
  <2>3. /\ \E S : object' \in Seq(S)
        /\ \A i \in 1..Len(object') : Good(object'[i], emits)
        /\ current' \in 1..Len(object') /\ object'[current'] = Loaded
        /\ Loaded' = Loaded /\ Extends(object'[current'], Loaded)
    BY <2>1, OpenChain
  <2>4. Holding(em[e])'
    BY <1>1, <2>2, <2>3 DEF Holding
  <2>5. \A f \in Emitter : Holding(em[f])'
    BY <2>4, <2>8
  <2>6. \A c, n : Good(c, n)' <=> Good(c, n)
    BY DEF Good
  <2>7. current' \in 0..Len(object') /\ emits' = emits /\ emits' \in 0..MaxEmits
    BY <2>1, <2>3 DEF ChainInv
  <2> QED BY <1>1, <2>1, <2>8, <2>3, <2>5, <2>6, <2>7 DEF ChainInv, Extends
<1>3. CASE ~Loadable
  <2>1. em' = [em EXCEPT ![e] = IdleEmitter] /\ UNCHANGED <<object, current, file, emits>>
    BY <1>3 DEF Create
  <2>2. Holding(IdleEmitter)
    BY DEF Holding, IdleEmitter
  <2> QED BY <1>0, <1>1, <2>1, <2>2, EmitterMoves
<1> QED BY <1>2, <1>3

LEMMA ReaderOpensChain ==
  ASSUME ChainInv, current = 0, object' = Append(object, Loaded),
         current' = Len(object) + 1, UNCHANGED <<file, em, emits, history>>
  PROVE  ChainInv'
<1>1. /\ \E S : object' \in Seq(S)
      /\ \A i \in 1..Len(object') : Good(object'[i], emits)
      /\ current' \in 1..Len(object') /\ object'[current'] = Loaded
      /\ Loaded' = Loaded /\ Extends(object'[current'], Loaded)
  BY OpenChain
<1>2. \A c, n : Good(c, n)' <=> Good(c, n)
  BY DEF Good
<1>3. ASSUME NEW e \in Emitter PROVE Holding(em[e])'
  BY <1>1 DEF ChainInv, Holding
<1>4. current' \in 0..Len(object')
  BY <1>1
<1>5. Alone'
  BY DEF ChainInv, Alone
<1> QED BY <1>1, <1>2, <1>3, <1>4, <1>5 DEF ChainInv, Extends

LEMMA LinkChain ==
  ASSUME ChainInv, NEW e \in Emitter, Link(e)
  PROVE  ChainInv'
<1>0. Only(e)
  BY WorkingAlone DEF At, Link
<1> DEFINE c == object[current]
           prev == Log!LastId(Links(c))
           ev == [link |-> [id |-> emits + 1, seq |-> Len(c) + 1, prev |-> prev],
                  record |-> Head(em[e].todo)]
           m == [em[e] EXCEPT !.pc = "append", !.event = ev]
<1>1. /\ Holding(em[e]) /\ em[e].pc = "link" /\ em[e].chain = current /\ current # 0
      /\ em[e].todo \in Seq(0..MaxRecords) /\ em[e].todo # << >>
  BY DEF ChainInv, Link, At, Holding
<1>2. /\ emits < MaxEmits /\ emits' = emits + 1 /\ em' = [em EXCEPT ![e] = m]
      /\ UNCHANGED <<object, current, file, history>>
  BY <1>1 DEF Link
<1>3. Good(c, emits) /\ c \in Seq(Event) /\ Len(c) \in Nat
  BY <1>1 DEF ChainInv, Good
<1>4. prev = IF Len(c) = 0 THEN 0 ELSE c[Len(c)].link.id
  BY <1>3, LastLink
<1>5. prev \in 1..MaxEmits \cup {0}
  <2>1. CASE Len(c) = 0
    BY <1>4, <2>1
  <2>2. CASE Len(c) # 0
    <3>1. c[Len(c)] \in Event
      BY <1>3, <2>2
    <3> QED BY <1>4, <2>2, <3>1 DEF Event, Log!Event
  <2> QED BY <2>1, <2>2
<1> HIDE DEF c, prev
<1>6. Head(em[e].todo) \in 0..MaxRecords
  BY <1>1, HeadTailProperties
<1>7. emits + 1 \in 1..MaxEmits /\ emits \in Nat
  BY <1>2, BoundsAssumption DEF ChainInv
<1>8. ev \in Event
  BY <1>3, <1>5, <1>6, <1>7 DEF Event, Log!Event, Log!Genesis
<1>9. Fits(ev, c) /\ ev.link.id = emits + 1
  BY <1>4 DEF Fits
<1> HIDE DEF ev
<1>10. /\ DOMAIN em' = Emitter
       /\ DOMAIN em'[e] = {"pc", "chain", "todo", "event", "lines"}
       /\ em'[e].pc = "append" /\ em'[e].chain = current
       /\ em'[e].todo = em[e].todo /\ em'[e].event = ev
  BY <1>1, <1>2 DEF ChainInv, Holding
<1> HIDE DEF m
<1>19. Alone' /\ \A f \in Emitter : f # e => Holding(em[f])'
  BY <1>0, <1>2, OthersIdle
<1>11. Good(c, emits' - 1)
  <2>1. emits' - 1 = emits
    BY <1>2, <1>7
  <2> QED BY <1>3, <2>1
<1>12. Fits(em'[e].event, object'[current']) /\ Good(object'[current'], emits' - 1)
  BY <1>2, <1>9, <1>10, <1>11 DEF c
<1>13. Holding(em[e])'
  BY <1>1, <1>2, <1>8, <1>9, <1>10, <1>12 DEF Holding
<1>14. \A d : Good(d, emits) => Good(d, emits')
  BY <1>2, <1>7, GoodMore
<1>15. emits' \in 0..MaxEmits
  BY <1>2, <1>7
<1>16. Loaded' = Loaded
  BY <1>2 DEF Loaded
<1>17. \A f \in Emitter : Holding(em[f])'
  BY <1>13, <1>19
<1>18. Good(Loaded', emits') /\ \A i \in 1..Len(object') : Good(object'[i], emits')
  BY <1>2, <1>14, <1>16 DEF ChainInv
<1> QED BY <1>2, <1>10, <1>15, <1>16, <1>17, <1>18, <1>19 DEF ChainInv, Extends

\* The event fits, so the chain stays good and grows at its end.
LEMMA AppendedChain ==
  ASSUME ChainInv, NEW e \in Emitter, AppendEvent(e)
  PROVE  /\ current \in 1..Len(object)
         /\ em[e].event \in Event /\ em[e].event.link.id = emits /\ emits \in Nat /\ emits > 0
         /\ Fits(em[e].event, object[current]) /\ Good(object[current], emits - 1)
         /\ Len(object') = Len(object) /\ (\E S : object' \in Seq(S))
         /\ object'[current] = Append(object[current], em[e].event)
         /\ \A i \in 1..Len(object) : i # current => object'[i] = object[i]
         /\ Good(object'[current], emits) /\ Extends(object'[current], object[current])
<1> DEFINE ev == em[e].event
           grown == Append(object[current], ev)
<1>1. Holding(em[e]) /\ em[e].pc = "append"
  BY DEF ChainInv, AppendEvent, At
<1>2. /\ current \in 1..Len(object) /\ em[e].chain = current
      /\ ev \in Event /\ ev.link.id = emits
      /\ Fits(ev, object[current]) /\ Good(object[current], emits - 1)
  BY <1>1 DEF Holding, ChainInv
<1>3. ev.link.id \in 1..MaxEmits
  BY <1>2 DEF Event, Log!Event
<1>4. emits \in Nat /\ emits > 0
  BY <1>2, <1>3, BoundsAssumption DEF ChainInv
<1>5. Good(grown, emits) /\ Extends(grown, object[current])
  BY <1>2, <1>4, GoodAppend
<1>6. PICK S : object \in Seq(S)
  BY DEF ChainInv
<1>7. object' = [object EXCEPT ![current] = grown]
  BY <1>2 DEF AppendEvent
<1> HIDE DEF ev, grown
<1>8. object \in Seq(S \cup {grown})
  BY <1>6
<1>9. /\ object' \in Seq(S \cup {grown}) /\ Len(object') = Len(object)
      /\ object'[current] = grown
      /\ \A i \in 1..Len(object) : i # current => object'[i] = object[i]
  BY <1>2, <1>7, <1>8
<1> QED BY <1>2, <1>4, <1>5, <1>9 DEF ev, grown

LEMMA AppendChain ==
  ASSUME ChainInv, NEW e \in Emitter, AppendEvent(e)
  PROVE  ChainInv'
<1>0. Only(e)
  BY WorkingAlone DEF At, AppendEvent
<1>1. Holding(em[e]) /\ em[e].pc = "append" /\ em[e].todo \in Seq(0..MaxRecords)
      /\ em[e].todo # << >> /\ em[e].chain = current /\ current # 0
  BY DEF ChainInv, AppendEvent, At, Holding
<1>2. UNCHANGED <<current, file, emits, history>>
  BY DEF AppendEvent
<1>3. Tail(em[e].todo) \in Seq(0..MaxRecords)
  BY <1>1, HeadTailProperties
<1>4. /\ DOMAIN em' = Emitter
      /\ DOMAIN em'[e] = {"pc", "chain", "todo", "event", "lines"}
      /\ em'[e].pc = "publish" /\ em'[e].chain = current /\ em'[e].todo = Tail(em[e].todo)
  BY <1>1 DEF ChainInv, Holding, AppendEvent
<1>14. Alone' /\ \A f \in Emitter : f # e => Holding(em[f])'
  BY <1>0, OthersIdle DEF AppendEvent
<1>5. Holding(em[e])'
  BY <1>1, <1>2, <1>3, <1>4 DEF Holding
<1>6. \A f \in Emitter : Holding(em[f])'
  BY <1>5, <1>14
<1>7. Loaded' = Loaded
  BY <1>2 DEF Loaded
<1>8. /\ current \in 1..Len(object) /\ Len(object') = Len(object)
      /\ \E S : object' \in Seq(S)
      /\ \A i \in 1..Len(object) : i # current => object'[i] = object[i]
      /\ Good(object'[current], emits) /\ Extends(object'[current], object[current])
  BY AppendedChain
<1>9. \A i \in 1..Len(object') : Good(object'[i], emits)
  BY <1>8 DEF ChainInv
<1>10. Extends(object'[current], Loaded)
  <2>1. Extends(object[current], Loaded)
    BY <1>1 DEF ChainInv
  <2>2. /\ Len(Loaded) \in Nat /\ Len(object[current]) \in Nat
        /\ Len(object'[current]) \in Nat
    BY <1>8 DEF ChainInv, Good
  <2> QED BY <1>8, <2>1, <2>2 DEF Extends
<1>11. /\ emits' \in 0..MaxEmits /\ history' \in 0..MaxRecords /\ current' \in 0..Len(object')
       /\ Good(Loaded', emits')
  BY <1>2, <1>7, <1>8 DEF ChainInv
<1>12. Extends(object'[current'], Loaded')
  BY <1>2, <1>7, <1>10
<1>13. \A i \in 1..Len(object') : Good(object'[i], emits')
  BY <1>2, <1>9
<1> QED BY <1>4, <1>6, <1>8, <1>11, <1>12, <1>13, <1>14 DEF ChainInv, Extends

LEMMA PublishChain ==
  ASSUME ChainInv, NEW e \in Emitter, Publish(e) \/ CollectLines(e)
  PROVE  ChainInv'
<1>0. Only(e)
  BY WorkingAlone DEF At, Publish, CollectLines
<1>1. UNCHANGED <<object, current, file, emits, history>> /\ history' \in 0..MaxRecords
  BY DEF Publish, CollectLines, ChainInv
<1>2. CASE Publish(e)
  <2> DEFINE next == IF em[e].todo # << >> /\ emits < MaxEmits THEN "link" ELSE "save"
             m == [em[e] EXCEPT !.pc = next, !.event = NoEvent]
  <2>1. em' = [em EXCEPT ![e] = m] /\ Holding(em[e]) /\ em[e].pc = "publish"
    BY <1>2 DEF Publish, ChainInv, At
  <2>2. /\ DOMAIN m = {"pc", "chain", "todo", "event", "lines"}
        /\ m.pc \in {"link", "save"} /\ m.chain = em[e].chain /\ m.todo = em[e].todo
        /\ m.pc = "link" => em[e].todo # << >>
    BY <2>1 DEF Holding
  <2> HIDE DEF next, m
  <2>3. Holding(m)
    BY <2>1, <2>2 DEF Holding
  <2> QED BY <1>0, <1>1, <2>1, <2>3, EmitterMoves
<1>3. CASE CollectLines(e)
  <2> DEFINE m == [em[e] EXCEPT !.pc = "replace", !.lines = object[em[e].chain]]
  <2>1. em' = [em EXCEPT ![e] = m] /\ Holding(em[e]) /\ em[e].pc = "save"
    BY <1>3 DEF CollectLines, ChainInv, At
  <2>2. /\ DOMAIN m = {"pc", "chain", "todo", "event", "lines"}
        /\ m.pc = "replace" /\ m.chain = em[e].chain /\ m.lines = object[em[e].chain]
    BY <2>1 DEF Holding
  <2> HIDE DEF m
  <2>3. Holding(m)
    BY <2>1, <2>2 DEF Holding
  <2> QED BY <1>0, <1>1, <2>1, <2>3, EmitterMoves
<1> QED BY <1>2, <1>3

\* The file becomes what is served, or stays.
LEMMA ReplacedFile ==
  ASSUME ChainInv, NEW e \in Emitter, ReplaceFile(e)
  PROVE  /\ current \in 1..Len(object)
         /\ file' = file \/ (file' = object[current] /\ file' # NoFile)
         /\ Loaded' = Loaded \/ Loaded' = object[current]
<1>1. em[e].pc = "replace" /\ Holding(em[e])
  BY DEF ChainInv, ReplaceFile, At
<1>2. current \in 1..Len(object) /\ em[e].lines = object[current]
  BY <1>1 DEF Holding, ChainInv
<1>3. object[current] \in Seq(Event)
  BY <1>2 DEF ChainInv, Good
<1>4. object[current] # NoFile
  BY <1>3, NoFileAssumption
<1> QED BY <1>2, <1>4 DEF ReplaceFile, Loaded

LEMMA ReplaceChain ==
  ASSUME ChainInv, NEW e \in Emitter, ReplaceFile(e)
  PROVE  ChainInv'
<1>0. Only(e)
  BY WorkingAlone DEF At, ReplaceFile
<1>1. UNCHANGED <<object, current, emits, history>> /\ em' = [em EXCEPT ![e] = IdleEmitter]
  BY DEF ReplaceFile
<1>2. /\ current \in 1..Len(object)
      /\ Loaded' = Loaded \/ Loaded' = object[current]
  BY ReplacedFile
<1>3. /\ DOMAIN em' = Emitter /\ em'[e] = IdleEmitter /\ Alone'
      /\ \A f \in Emitter : f # e => Holding(em[f])'
  BY <1>0, <1>1, OthersIdle
<1>7. Holding(em[e])'
  BY <1>3 DEF Holding, IdleEmitter
<1>4. \A f \in Emitter : Holding(em[f])'
  BY <1>3, <1>7
<1>5. Good(Loaded', emits') /\ Extends(object'[current'], Loaded')
  <2>1. Len(object[current]) \in Nat
    BY <1>2 DEF ChainInv, Good
  <2> QED BY <1>1, <1>2, <2>1 DEF ChainInv, Extends
<1>6. \A i \in 1..Len(object') : Good(object'[i], emits')
  BY <1>1 DEF ChainInv
<1> QED BY <1>1, <1>3, <1>4, <1>5, <1>6 DEF ChainInv, Extends

LEMMA RestartChain == ASSUME ChainInv, Restart PROVE ChainInv'
<1>1. /\ object' = << >> /\ current' = 0 /\ em' = [e \in Emitter |-> IdleEmitter]
      /\ UNCHANGED <<file, emits, history>>
  BY DEF Restart
<1>2. object' \in Seq({}) /\ Len(object') = 0
  BY <1>1
<1>3. Loaded' = Loaded
  BY <1>1 DEF Loaded
<1>4. \A f \in Emitter : Holding(em[f])'
  BY <1>1 DEF Holding, IdleEmitter
<1>5. Good(Loaded', emits') /\ \A i \in 1..Len(object') : Good(object'[i], emits')
  BY <1>1, <1>2, <1>3 DEF ChainInv
<1>6. Alone'
  BY <1>1 DEF Alone, IdleEmitter
<1> QED BY <1>1, <1>2, <1>4, <1>5, <1>6 DEF ChainInv

\* What a step of the reader does to the chain.
LEMMA ReaderSteps ==
  ASSUME Subscribe \/ StreamStep \/ Disconnect
  PROVE  \/ UNCHANGED chainVars
         \/ /\ current = 0 /\ object' = Append(object, Loaded)
            /\ current' = Len(object) + 1 /\ UNCHANGED <<file, em, emits, history>>
<1>1. CASE Subscribe \/ Put \/ Deliver \/ Disconnect
  BY <1>1 DEF Subscribe, Put, Deliver, Disconnect
<1>2. CASE Backlog
  BY <1>2 DEF Backlog, chainVars
<1>3. CASE BacklogRefused
  BY <1>3 DEF BacklogRefused, chainVars
<1> QED BY <1>1, <1>2, <1>3 DEF StreamStep

LEMMA NextChain == ChainInv /\ [Next]_vars /\ ~overlapped' => ChainInv'
<1> SUFFICES ASSUME ChainInv, [Next]_vars, ~overlapped' PROVE ChainInv'
  OBVIOUS
<1>1. CASE \E e \in Emitter : StartEvent(e) \/ StartRecord(e) \/ EmitStep(e)
  BY <1>1, StartChain, LookupChain, CreateChain, LinkChain, AppendChain, PublishChain,
     ReplaceChain DEF EmitStep
<1>2. CASE Subscribe \/ StreamStep \/ Disconnect
  BY <1>2, ReaderSteps, SameChain, ReaderOpensChain
<1>3. CASE Restart
  BY <1>3, RestartChain
<1>4. CASE UNCHANGED vars
  BY <1>4, SameChain DEF vars
<1> QED BY <1>1, <1>2, <1>3, <1>4 DEF Next

\* Once two emitters have overlapped, they have.
LEMMA StaysOverlapped == overlapped /\ [Next]_vars => overlapped'
<1> SUFFICES ASSUME overlapped, [Next]_vars PROVE overlapped'
  OBVIOUS
<1>1. ASSUME NEW e \in Emitter, StartEvent(e) \/ StartRecord(e) PROVE overlapped'
  BY <1>1 DEF StartEvent, StartRecord, Begin
<1>2. ASSUME NEW e \in Emitter, EmitStep(e) PROVE overlapped'
  BY <1>2 DEF EmitStep, Lookup, Create, Link, AppendEvent, Publish, CollectLines, ReplaceFile
<1>3. CASE Subscribe \/ StreamStep \/ Disconnect \/ Restart
  BY <1>3 DEF Subscribe, StreamStep, Backlog, BacklogRefused, Put, Deliver, Disconnect, Restart
<1>4. CASE UNCHANGED vars
  BY <1>4 DEF vars
<1> QED BY <1>1, <1>2, <1>3, <1>4 DEF Next

\* Until two emitters overlap, the chain is as ChainInv says.
LEMMA ChainHolds == Spec => [](~overlapped => ChainInv)
<1> DEFINE Inv == ~overlapped => ChainInv
<1>1. Init => Inv
  BY InitChain
<1>2. Inv /\ [Next]_vars => Inv'
  BY NextChain, StaysOverlapped
<1> QED BY <1>1, <1>2, PTL DEF Spec

\* Until two emitters are at work at once, the chain that is served and the file
\* verify, whatever the reader and any number of crashes do.
THEOREM ChainVerifiesHolds == Spec => []ChainVerifies
<1>1. (~overlapped => ChainInv) => ChainVerifies
  <2> SUFFICES ASSUME ~overlapped, ChainInv
      PROVE Log!Verifies(Links(Served)) /\ Log!Verifies(Links(Loaded))
    BY DEF ChainVerifies
  <2>1. Log!Verifies(Links(Loaded))
    BY GoodVerifies DEF ChainInv
  <2>2. Log!Verifies(Links(Served))
    <3>1. Good(Served, emits)
      BY DEF ChainInv, Served
    <3> QED BY <3>1, GoodVerifies
  <2> QED BY <2>1, <2>2
<1> QED BY <1>1, ChainHolds, PTL

-----------------------------------------------------------------------------
(* The chain is a log.                                                     *)

\* The state of the log, as AuditStream instantiates it.
TheLog ==
  IF current # 0 THEN [k \in DOMAIN object[current] |-> object[current][k].link]
  ELSE IF file = NoFile THEN << >>
  ELSE [k \in DOMAIN file |-> file[k].link]

Durable == IF file = NoFile THEN 0 ELSE Len(file)

LEMMA LogIsServed == TheLog = Links(Served) /\ Durable = Len(Loaded)
<1>1. Links(<< >>) = << >>
  BY DEF Links
<1>2. Durable = Len(Loaded)
  BY DEF Durable, Loaded
<1>3. CASE current # 0
  BY <1>2, <1>3 DEF TheLog, Served, Links
<1>4. CASE current = 0 /\ file = NoFile
  BY <1>1, <1>2, <1>4 DEF TheLog, Served, Loaded
<1>5. CASE current = 0 /\ file # NoFile
  BY <1>2, <1>5 DEF TheLog, Served, Loaded, Links
<1> QED BY <1>3, <1>4, <1>5

LEMMA LogIsServedNext == (TheLog = Links(Served) /\ Durable = Len(Loaded))'
BY LogIsServed, PTL

LEMMA LinksOf ==
  ASSUME NEW c \in Seq(Event)
  PROVE  /\ Links(c) \in Seq(Log!Event) /\ Len(Links(c)) = Len(c)
         /\ DOMAIN Links(c) = 1..Len(c) /\ Len(c) \in Nat
         /\ \A k \in 1..Len(c) : Links(c)[k] = c[k].link
<1>1. DOMAIN c = 1..Len(c) /\ Len(c) \in Nat /\ \A k \in 1..Len(c) : c[k] \in Event
  OBVIOUS
<1>2. \A k \in 1..Len(c) : c[k].link \in Log!Event
  BY <1>1 DEF Event
<1>3. /\ Links(c) \in [1..Len(c) -> Log!Event]
      /\ \A k \in 1..Len(c) : Links(c)[k] = c[k].link
  BY <1>1, <1>2 DEF Links
<1>4. Seq(Log!Event) = UNION {[1..n -> Log!Event] : n \in Nat}
  BY SeqDef
<1>5. Links(c) \in Seq(Log!Event)
  BY <1>1, <1>3, <1>4
<1>6. DOMAIN Links(c) = 1..Len(Links(c)) /\ Len(Links(c)) \in Nat
  BY <1>5
<1> QED BY <1>1, <1>3, <1>5, <1>6

\* The emitter's event extends the log.
LEMMA AppendExtends ==
  ASSUME ChainInv, NEW e \in Emitter, AppendEvent(e)
  PROVE  Log!Extend
<1> DEFINE c == object[current]
           d == object'[current]
           ev == em[e].event
<1>1. /\ current \in 1..Len(object) /\ ev \in Event /\ ev.link.id = emits /\ emits \in Nat
      /\ Fits(ev, c) /\ Good(c, emits - 1) /\ d = Append(c, ev)
      /\ Good(d, emits)
  BY AppendedChain
<1>2. UNCHANGED <<current, file>>
  BY DEF AppendEvent
<1>3. TheLog = Links(c) /\ TheLog' = Links(d) /\ Durable' = Durable
  BY <1>1, <1>2, LogIsServed, LogIsServedNext DEF Served, Loaded
<1> HIDE DEF c, d, ev
<1>4. c \in Seq(Event) /\ d \in Seq(Event)
  BY <1>1 DEF Good
<1>5. ev.link \in Log!Event
  BY <1>1 DEF Event
<1>6. Links(d) = Append(Links(c), ev.link)
  <2>1. /\ Len(d) = Len(c) + 1 /\ d[Len(c) + 1] = ev /\ Len(c) \in Nat
        /\ \A k \in 1..Len(c) : d[k] = c[k]
    BY <1>1, <1>4
  <2>2. /\ Links(c) \in Seq(Log!Event) /\ Len(Links(c)) = Len(c)
        /\ \A k \in 1..Len(c) : Links(c)[k] = c[k].link
        /\ Links(d) \in Seq(Log!Event) /\ Len(Links(d)) = Len(c) + 1
        /\ \A k \in 1..(Len(c) + 1) : Links(d)[k] = d[k].link
    BY <1>4, <2>1, LinksOf
  <2> DEFINE l == Links(c)
             m == Links(d)
             a == Append(l, ev.link)
  <2> HIDE DEF l, m
  <2>3. /\ a \in Seq(Log!Event) /\ Len(a) = Len(c) + 1 /\ a[Len(c) + 1] = ev.link
        /\ \A k \in 1..Len(c) : a[k] = l[k]
    BY <1>5, <2>1, <2>2 DEF l
  <2> HIDE DEF a
  <2>4. \A k \in 1..Len(m) : m[k] = a[k]
    <3> SUFFICES ASSUME NEW k \in 1..Len(m) PROVE m[k] = a[k]
      OBVIOUS
    <3>1. k \in 1..Len(c) \/ k = Len(c) + 1
      BY <2>1, <2>2 DEF m
    <3> QED BY <2>1, <2>2, <2>3, <3>1 DEF l, m
  <2>5. m = a
    <3>1. m \in Seq(Log!Event) /\ Len(m) = Len(a)
      BY <2>2, <2>3 DEF m
    <3> QED BY <2>3, <2>4, <3>1, SeqEqual
  <2> QED BY <2>5 DEF a, l, m
<1>7. ev.link = [id |-> emits, seq |-> Len(Links(c)) + 1, prev |-> Log!LastId(Links(c))]
  <2>1. ev.link.seq = Len(Links(c)) + 1 /\ ev.link.prev = Log!LastId(Links(c))
    BY <1>1, <1>4, LinksOf, LastLink DEF Fits
  <2> QED BY <1>1, <1>5, <2>1 DEF Log!Event
<1>8. \A k \in DOMAIN Links(c) : Links(c)[k].id # emits
  <2> SUFFICES ASSUME NEW k \in 1..Len(c) PROVE c[k].link.id # emits
    BY <1>4, LinksOf
  <2>1. c[k].link.id <= emits - 1
    BY <1>1 DEF Good
  <2>2. c[k] \in Event
    BY <1>4
  <2>3. c[k].link.id \in 1..MaxEmits
    BY <2>2 DEF Event, Log!Event
  <2> QED BY <1>1, <2>1, <2>3, BoundsAssumption
<1>9. emits \in 1..MaxEmits
  BY <1>1, <1>5 DEF Log!Event
<1>10. \E i \in 1..MaxEmits :
         /\ \A k \in DOMAIN TheLog : TheLog[k].id # i
         /\ TheLog' = Append(TheLog, [id |-> i, seq |-> Len(TheLog) + 1,
                                      prev |-> Log!LastId(TheLog)])
  BY <1>3, <1>6, <1>7, <1>8, <1>9
<1> QED BY <1>3, <1>10 DEF Log!Extend, TheLog, Durable

\* A restart serves the file, which is how the log began.
LEMMA RestartLoses ==
  ASSUME ChainInv, Restart
  PROVE  Log!LoseTail
<1>1. current' = 0 /\ UNCHANGED file
  BY DEF Restart
<1>2. TheLog' = Links(Loaded) /\ TheLog = Links(Served) /\ Durable = Len(Loaded) /\ Durable' = Durable
  <2>1. Loaded' = Loaded /\ Served' = Loaded
    BY <1>1 DEF Loaded, Served
  <2>2. Links(Served)' = Links(Loaded)
    BY <2>1 DEF Links
  <2> QED BY <1>1, <2>1, <2>2, LogIsServed, LogIsServedNext DEF Durable
<1>3. Loaded \in Seq(Event) /\ Served \in Seq(Event) /\ Extends(Served, Loaded)
  BY DEF ChainInv, Served, Good, Extends
<1> DEFINE n == Len(Loaded)
           l == Links(Loaded)
           s == Links(Served)
<1>4. /\ n \in Nat /\ Len(s) \in Nat /\ n <= Len(s)
      /\ l \in Seq(Log!Event) /\ s \in Seq(Log!Event) /\ Len(l) = n
      /\ \A k \in 1..n : l[k] = s[k]
  <2>1. \A k \in 1..n : k \in 1..Len(Served)
    BY <1>3 DEF Extends
  <2> QED BY <1>3, <2>1, LinksOf DEF Extends
<1> HIDE DEF n, l, s
<1>5. SubSeq(s, 1, n) \in Seq(Log!Event) /\ Len(SubSeq(s, 1, n)) = n
      /\ \A k \in 1..n : SubSeq(s, 1, n)[k] = s[k]
  BY <1>4
<1>6. l = SubSeq(s, 1, n)
  BY <1>4, <1>5, SeqEqual
<1>7. \E i \in Durable..Len(TheLog) : TheLog' = SubSeq(TheLog, 1, i)
  <2>1. n \in Durable..Len(TheLog)
    BY <1>2, <1>4 DEF n, s
  <2> QED BY <1>2, <1>6, <2>1 DEF l, s
<1> QED BY <1>2, <1>7 DEF Log!LoseTail, TheLog, Durable

LEMMA ReplacePersists ==
  ASSUME ChainInv, NEW e \in Emitter, ReplaceFile(e)
  PROVE  Log!Persist
<1>1. UNCHANGED <<object, current>>
  BY DEF ReplaceFile
<1>2. /\ current \in 1..Len(object)
      /\ Loaded' = Loaded \/ Loaded' = object[current]
  BY ReplacedFile
<1>3. TheLog' = TheLog /\ TheLog = Links(object[current])
  <2>1. current # 0
    BY <1>2
  <2> QED BY <1>1, <2>1 DEF TheLog, Links
<1>4. /\ object[current] \in Seq(Event) /\ Loaded \in Seq(Event)
      /\ Len(Loaded) <= Len(object[current])
  BY <1>2 DEF ChainInv, Good, Extends
<1>5. Durable' \in Durable..Len(TheLog)
  <2>1. Len(TheLog) = Len(object[current]) /\ Len(TheLog) \in Nat /\ Len(Loaded) \in Nat
    BY <1>3, <1>4, LinksOf
  <2>2. Durable = Len(Loaded) /\ Durable' = Len(Loaded')
    BY LogIsServed, LogIsServedNext
  <2> QED BY <1>2, <1>4, <2>1, <2>2
<1> QED BY <1>3, <1>5 DEF Log!Persist, TheLog, Durable

\* Opening the chain serves what was on disk: the log does not change.
LEMMA OpenStutters ==
  ASSUME ChainInv, current = 0 \/ object[current] = Loaded,
         object' = Append(object, Loaded), current' = Len(object) + 1,
         UNCHANGED <<file, emits, history>>
  PROVE  UNCHANGED <<TheLog, Durable>>
<1>1. current' # 0 /\ object'[current'] = Loaded /\ Loaded' = Loaded
  BY OpenChain
<1>2. Served = Loaded /\ Served' = Loaded
  BY <1>1 DEF Served
<1>3. Links(Served)' = Links(Served)
  BY <1>2 DEF Links
<1> QED BY <1>1, <1>3, LogIsServed, LogIsServedNext DEF Durable

LEMMA CreateStutters ==
  ASSUME ChainInv, NEW e \in Emitter, Create(e)
  PROVE  UNCHANGED <<TheLog, Durable>>
<1>1. CASE Loadable
  <2>1. current = 0 \/ object[current] = Loaded
    BY DEF ChainInv, Create, At, Holding
  <2>2. /\ object' = Append(object, Loaded) /\ current' = Len(object) + 1
        /\ UNCHANGED <<file, emits, history>>
    BY <1>1 DEF Create
  <2> QED BY <2>1, <2>2, OpenStutters
<1>2. CASE ~Loadable
  BY <1>2 DEF Create, TheLog, Durable
<1> QED BY <1>1, <1>2

\* Every step extends, persists or shortens the log, or leaves it alone.
LEMMA NextLog ==
  ASSUME ChainInv, [Next]_vars
  PROVE  Log!Next \/ UNCHANGED <<TheLog, Durable>>
<1>1. ASSUME NEW e \in Emitter,
             \/ StartEvent(e) \/ StartRecord(e) \/ Lookup(e) \/ Link(e) \/ Publish(e)
             \/ CollectLines(e)
      PROVE  UNCHANGED <<TheLog, Durable>>
  <2>1. UNCHANGED <<object, current, file>>
    BY <1>1 DEF StartEvent, StartRecord, Lookup, Link, Publish, CollectLines
  <2> QED BY <2>1 DEF TheLog, Durable
<1>2. ASSUME NEW e \in Emitter, EmitStep(e)
      PROVE  Log!Next \/ UNCHANGED <<TheLog, Durable>>
  BY <1>1, <1>2, CreateStutters, AppendExtends, ReplacePersists DEF EmitStep, Log!Next
<1>3. CASE Subscribe \/ StreamStep \/ Disconnect
  <2>1. CASE UNCHANGED chainVars
    BY <2>1 DEF chainVars, TheLog, Durable
  <2>2. CASE /\ current = 0 /\ object' = Append(object, Loaded)
             /\ current' = Len(object) + 1 /\ UNCHANGED <<file, em, emits, history>>
    BY <2>2, OpenStutters
  <2> QED BY <1>3, <2>1, <2>2, ReaderSteps
<1>4. CASE Restart
  BY <1>4, RestartLoses DEF Log!Next
<1>5. CASE UNCHANGED vars
  BY <1>5 DEF vars, chainVars, TheLog, Durable
<1> QED BY <1>1, <1>2, <1>3, <1>4, <1>5 DEF Next

\* Until two emitters are at work at once, AuditStream implements AuditLog: the
\* chain grows at its end by events that are new, and a crash loses no more than
\* the tail that was not yet in the file.
THEOREM LogHolds == Spec => ImplementsLog
<1>1. Init => Log!Init
  BY DEF Init, Log!Init
<1>2. ChainInv /\ [Next]_vars => [Log!Next]_<<TheLog, Durable>>
  BY NextLog
<1>3. (~overlapped => ChainInv) /\ [Next]_vars => (~overlapped' => [Log!Next]_(Log!vars))
  BY <1>2, StaysOverlapped DEF TheLog, Durable, Log!vars
<1>4. Spec => Log!Init
  BY <1>1 DEF Spec
<1>5. Spec => [][~overlapped' => [Log!Next]_(Log!vars)]_vars
  BY <1>3, ChainHolds, PTL DEF Spec
<1> QED BY <1>4, <1>5 DEF ImplementsLog

-----------------------------------------------------------------------------
(* The reader.  An event of the chain is on one of four places of its way: *)
(* received, in the queue, among the callbacks, or still with the emitter  *)
(* that publishes it.  Pending says that the last three hold the end of    *)
(* the chain, in its order; Reader that what was received is the rest, and *)
(* at a restart or a reconnection, as long as the cursor is in the chain,  *)
(* its beginning.                                                          *)

Increasing(c) == \A k, n \in 1..Len(c) : k < n => c[k].link.id < c[n].link.id

Publishing == \E e \in Emitter : em[e].pc = "publish"
Linked == \E e \in Emitter : em[e].pc = "append"

\* How much of the chain is no longer on its way.
Taken == Len(Served) - (IF Publishing THEN 1 ELSE 0) - Len(callbacks) - Len(queue)

Pending ==
  /\ Increasing(Served)
  /\ Len(Served) <= emits /\ (Linked => Len(Served) < emits)
  /\ \A e \in Emitter : em[e].pc = "publish" =>
       Len(Served) > 0 /\ em[e].event = Served[Len(Served)]
  /\ Taken >= 0
  /\ \A k \in 1..Len(queue) : queue[k] = Served[Taken + k]
  /\ \A k \in 1..Len(callbacks) : callbacks[k] = Served[Taken + Len(queue) + k]
  /\ conn = "off" => callbacks = << >>
  /\ conn # "live" => queue = << >> /\ lastSeq = 0

\* How far the browser has got.
Reached == IF received = << >> THEN 0 ELSE received[Len(received)].link.seq

\* What the browser has is in the chain, at its place.
Copied(c) ==
  \A k \in 1..Len(received) :
    received[k].link.seq <= Len(c) /\ received[k] = c[received[k].link.seq]

\* From the first event on, none left out.
Stepwise ==
  \A k \in 1..Len(received) :
    /\ received[k].link.seq \in
         IF k = 1 THEN {1} ELSE {received[k - 1].link.seq, received[k - 1].link.seq + 1}
    /\ received[k].link.seq <= Reached

Reader ==
  /\ Stepwise
  /\ \A k \in 1..Len(received) :
       received[k].link.id <= emits /\ (Linked => received[k].link.id < emits)
  /\ Known(Served, Cursor) => Copied(Served)
  /\ Known(Loaded, Cursor) => Copied(Loaded)
  /\ conn = "subscribed" /\ Known(Served, Cursor) => Reached <= Taken + 1
  /\ conn = "live" =>
       /\ Known(Served, Cursor)
       /\ Taken <= Reached /\ lastSeq \in {0, Reached}
       /\ lastSeq = 0 => Reached <= Taken + 1

Carried(m, objects) ==
  /\ m.chain \in 0..objects
  /\ m.event \in Event \cup {NoEvent} /\ (m.pc = "publish" => m.event \in Event)
  /\ m.lines \in Seq(Event) \cup {NoFile}

StreamTypes ==
  /\ file \in Seq(Event) \cup {NoFile}
  /\ \A e \in Emitter : Carried(em[e], Len(object))
  /\ conn \in {"off", "subscribed", "live"}
  /\ callbacks \in Seq(Event) /\ queue \in Seq(Event) /\ Len(queue) <= QueueSize
  /\ received \in Seq(Event) /\ lastSeq \in 0..MaxEmits

StreamInv == StreamTypes /\ Pending /\ (dropped \/ Reader)

-----------------------------------------------------------------------------

LEMMA ServedGood ==
  ASSUME ChainInv
  PROVE  /\ Good(Served, emits) /\ Good(Loaded, emits) /\ Extends(Served, Loaded)
         /\ Served \in Seq(Event) /\ Loaded \in Seq(Event)
         /\ Len(Served) \in Nat /\ Len(Loaded) \in Nat /\ emits \in Nat
         /\ \A k \in 1..Len(Served) : Served[k] \in Event /\ Served[k].link.seq = k
         /\ \A k \in 1..Len(Loaded) : Loaded[k] \in Event /\ Loaded[k].link.seq = k
<1>1. Good(Served, emits) /\ Good(Loaded, emits)
  BY DEF ChainInv, Served
<1>2. Len(Loaded) \in Nat /\ Len(Served) \in Nat
  BY <1>1 DEF Good
<1>3. Extends(Served, Loaded)
  BY <1>2 DEF ChainInv, Served, Extends
<1>4. emits \in Nat
  BY BoundsAssumption DEF ChainInv
<1> QED BY <1>1, <1>2, <1>3, <1>4 DEF Good

LEMMA EventFields ==
  ASSUME NEW ev \in Event
  PROVE  /\ ev.link.id \in 1..MaxEmits /\ ev.link.id \in Nat /\ ev.link.id # 0
         /\ ev.link.seq \in Nat /\ ev.link.seq # 0
BY BoundsAssumption DEF Event, Log!Event

\* Where the browser is, if it has anything.
LEMMA CursorIs ==
  ASSUME received \in Seq(Event)
  PROVE  /\ received = << >> => Cursor = 0 /\ Reached = 0 /\ Len(received) = 0
         /\ received # << >> =>
              /\ Len(received) \in 1..Len(received) /\ received[Len(received)] \in Event
              /\ Cursor = received[Len(received)].link.id /\ Cursor # 0
              /\ Reached = received[Len(received)].link.seq
         /\ Cursor \in Nat /\ Reached \in Nat /\ Len(received) \in Nat
<1>1. CASE received = << >>
  BY <1>1 DEF Cursor, Reached
<1>2. CASE received # << >>
  <2>1. Len(received) \in 1..Len(received) /\ received[Len(received)] \in Event
    BY <1>2
  <2> QED BY <1>2, <2>1, EventFields DEF Cursor, Reached
<1> QED BY <1>1, <1>2

\* A file that is read again gives the beginning of what was served.
LEMMA KnownInServed ==
  ASSUME ChainInv, received \in Seq(Event), Known(Loaded, Cursor)
  PROVE  Known(Served, Cursor)
<1>1. Len(Loaded) <= Len(Served) /\ \A k \in 1..Len(Loaded) : Served[k] = Loaded[k]
  BY ServedGood DEF Extends
<1>2. DOMAIN Served = 1..Len(Served) /\ DOMAIN Loaded = 1..Len(Loaded)
      /\ Len(Served) \in Nat /\ Len(Loaded) \in Nat
  BY ServedGood
<1> QED BY <1>1, <1>2 DEF Known


\* What a step of the emitter that the reader does not notice leaves alone.
LEMMA QuietStream ==
  ASSUME ChainInv, StreamInv, Served' = Served, Loaded' = Loaded \/ Loaded' = Served,
         emits' = emits,
         UNCHANGED streamVars, Linked' => Linked, Publishing' <=> Publishing,
         \A e \in Emitter : em'[e].pc = "publish" =>
           em[e].pc = "publish" /\ em'[e].event = em[e].event
  PROVE  Pending' /\ (dropped' \/ Reader')
<1>1. /\ UNCHANGED <<conn, callbacks, queue, dropped, lastSeq, received>>
  BY DEF streamVars
<1>2. Taken' = Taken
  BY <1>1 DEF Taken
<1>3. Increasing(Served)'
  BY DEF StreamInv, Pending, Increasing
<1>4. Pending'
  BY <1>1, <1>2, <1>3 DEF StreamInv, Pending
<1>5. Cursor' = Cursor /\ Reached' = Reached /\ (Stepwise' <=> Stepwise)
  BY <1>1 DEF Cursor, Reached, Stepwise
<1>6. /\ Known(Served, Cursor)' <=> Known(Served, Cursor)
      /\ Copied(Served)' <=> Copied(Served)
  BY <1>1, <1>5 DEF Known, Copied
<1>7. Reader /\ Known(Loaded, Cursor)' => Copied(Loaded)'
  <2>1. CASE Loaded' = Loaded
    BY <1>1, <1>5, <2>1 DEF Reader, Known, Copied
  <2>2. CASE Loaded' = Served
    BY <1>1, <1>5, <2>2 DEF Reader, Known, Copied
  <2> QED BY <2>1, <2>2
<1>8. Reader => Reader'
  BY <1>1, <1>2, <1>5, <1>6, <1>7 DEF Reader
<1> QED BY <1>1, <1>4, <1>8 DEF StreamInv

LEMMA InitStream == Init => StreamInv
<1> SUFFICES ASSUME Init PROVE StreamInv
  OBVIOUS
<1>1. /\ object = << >> /\ current = 0 /\ file = NoFile /\ emits = 0
      /\ em = [e \in Emitter |-> IdleEmitter]
      /\ conn = "off" /\ callbacks = << >> /\ queue = << >> /\ lastSeq = 0 /\ received = << >>
  BY DEF Init
<1>2. Served = << >> /\ Loaded = << >>
  BY <1>1 DEF Served, Loaded
<1>3. ~Publishing /\ ~Linked
  BY <1>1 DEF Publishing, Linked, IdleEmitter
<1>4. Taken = 0
  BY <1>1, <1>2, <1>3 DEF Taken
<1>5. StreamTypes
  <2>1. Len(object) = 0 /\ 0 \in 0..Len(object)
    BY <1>1
  <2>2. \A e \in Emitter : Carried(em[e], Len(object))
    BY <1>1, <2>1 DEF Carried, IdleEmitter
  <2> QED BY <1>1, <2>2, QueueSizeAssumption, BoundsAssumption DEF StreamTypes
<1>6. Pending
  BY <1>1, <1>2, <1>3, <1>4 DEF Pending, Increasing, Publishing
<1>7. Reader
  BY <1>1, <1>2, <1>4 DEF Reader, Stepwise, Known, Copied, Cursor
<1> QED BY <1>5, <1>6, <1>7 DEF StreamInv

LEMMA StreamImplies ==
  ASSUME ChainInv, StreamInv PROVE NoGap
<1> SUFFICES ASSUME conn = "live", ~dropped, NEW k \in DOMAIN received
    PROVE  /\ received[k] \in {Served[n] : n \in DOMAIN Served}
           /\ received[k].link.seq \in
                IF k = 1 THEN {1}
                ELSE {received[k - 1].link.seq, received[k - 1].link.seq + 1}
  BY DEF NoGap
<1>1. received \in Seq(Event) /\ k \in 1..Len(received) /\ received[k] \in Event
  BY DEF StreamInv, StreamTypes
<1>2. Copied(Served) /\ Stepwise
  BY DEF StreamInv, Reader
<1>3. received[k].link.seq \in DOMAIN Served
  BY <1>1, <1>2, ServedGood, EventFields DEF Copied
<1> QED BY <1>1, <1>2, <1>3 DEF Copied, Stepwise

\* A step of the emitter that the reader does not notice: the chain that is
\* served and the reader stay as they are.
LEMMA EmitterStream ==
  ASSUME ChainInv, StreamInv, NEW e \in Emitter, Only(e), NEW m,
         em' = [em EXCEPT ![e] = m], UNCHANGED <<emits, streamVars>>,
         Len(object') \in Nat, Len(object) <= Len(object'),
         file' \in Seq(Event) \cup {NoFile}, Served' = Served,
         Loaded' = Loaded \/ Loaded' = Served, Carried(m, Len(object')),
         m.pc \notin {"publish", "append"}, em[e].pc # "publish"
  PROVE  StreamInv'
<1>1. /\ em'[e] = m
      /\ \A f \in Emitter : f # e => em'[f] = em[f] /\ em'[f].pc = "idle" /\ em[f].pc = "idle"
  BY OthersIdle
<1>2. \A f \in Emitter : Carried(em[f], Len(object))'
  <2>1. Len(object) \in Nat
    BY DEF ChainInv
  <2>2. ASSUME NEW f \in Emitter, f # e PROVE Carried(em[f], Len(object'))
    BY <2>1, <2>2 DEF StreamInv, StreamTypes, Carried
  <2> QED BY <1>1, <2>2 DEF Carried
<1>3. StreamTypes'
  BY <1>2 DEF StreamInv, StreamTypes, streamVars
<1>4. ~Linked' /\ ~Publishing' /\ ~Publishing
  BY <1>1 DEF Linked, Publishing
<1>5. Pending' /\ (dropped' \/ Reader')
  BY <1>1, <1>4, QuietStream
<1> QED BY <1>3, <1>5 DEF StreamInv

LEMMA StartStream ==
  ASSUME ChainInv, StreamInv, NEW e \in Emitter, ~overlapped',
         StartEvent(e) \/ StartRecord(e) \/ Lookup(e) \/ CollectLines(e)
  PROVE  StreamInv'
<1>0. Only(e)
  BY BeginsAlone, WorkingAlone DEF StartEvent, StartRecord, Lookup, CollectLines, At
<1>1. UNCHANGED <<object, current, file, emits, streamVars>>
  BY DEF StartEvent, StartRecord, Lookup, CollectLines
<1>2. /\ Served' = Served /\ Loaded' = Loaded
      /\ Len(object) \in Nat /\ Len(object') \in Nat /\ Len(object) <= Len(object')
  BY <1>1 DEF Served, Loaded, ChainInv
<1>3. /\ Holding(em[e]) /\ Carried(em[e], Len(object))
      /\ UNCHANGED <<emits, streamVars>> /\ file' \in Seq(Event) \cup {NoFile}
  BY <1>1 DEF ChainInv, StreamInv, StreamTypes
<1>4. CASE StartEvent(e)
  <2> DEFINE m == [em[e] EXCEPT !.pc = "lookup", !.todo = <<0>>]
  <2>1. em' = [em EXCEPT ![e] = m] /\ em[e].pc = "idle"
    BY <1>4 DEF StartEvent, Begin, At
  <2>2. m.pc = "lookup" /\ m.chain = em[e].chain /\ m.event = em[e].event /\ m.lines = em[e].lines
    BY <1>3 DEF Holding
  <2> HIDE DEF m
  <2>3. Carried(m, Len(object'))
    BY <1>1, <1>3, <2>2 DEF Carried
  <2> QED BY <1>0, <1>2, <1>3, <2>1, <2>2, <2>3, EmitterStream
<1>5. CASE StartRecord(e)
  <2> DEFINE m == [em[e] EXCEPT !.pc = "lookup", !.todo = [k \in 1..(history + 1) |-> k]]
  <2>1. em' = [em EXCEPT ![e] = m] /\ em[e].pc = "idle"
    BY <1>5 DEF StartRecord, Begin, At
  <2>2. m.pc = "lookup" /\ m.chain = em[e].chain /\ m.event = em[e].event /\ m.lines = em[e].lines
    BY <1>3 DEF Holding
  <2> HIDE DEF m
  <2>3. Carried(m, Len(object'))
    BY <1>1, <1>3, <2>2 DEF Carried
  <2> QED BY <1>0, <1>2, <1>3, <2>1, <2>2, <2>3, EmitterStream
<1>6. CASE Lookup(e) /\ current # 0
  <2> DEFINE m == [em[e] EXCEPT !.pc = "link", !.chain = current]
  <2>1. em' = [em EXCEPT ![e] = m] /\ em[e].pc = "lookup"
    BY <1>6 DEF Lookup, At
  <2>2. m.pc = "link" /\ m.chain = current /\ m.event = em[e].event /\ m.lines = em[e].lines
        /\ current \in 0..Len(object')
    BY <1>1, <1>3 DEF Holding, ChainInv
  <2> HIDE DEF m
  <2>3. Carried(m, Len(object'))
    BY <1>1, <1>3, <2>2 DEF Carried
  <2> QED BY <1>0, <1>2, <1>3, <2>1, <2>2, <2>3, EmitterStream
<1>7. CASE Lookup(e) /\ current = 0
  <2> DEFINE m == [em[e] EXCEPT !.pc = "create"]
  <2>1. em' = [em EXCEPT ![e] = m] /\ em[e].pc = "lookup"
    BY <1>7 DEF Lookup, At
  <2>2. m.pc = "create" /\ m.chain = em[e].chain /\ m.event = em[e].event /\ m.lines = em[e].lines
    BY <1>3 DEF Holding
  <2> HIDE DEF m
  <2>3. Carried(m, Len(object'))
    BY <1>1, <1>3, <2>2 DEF Carried
  <2> QED BY <1>0, <1>2, <1>3, <2>1, <2>2, <2>3, EmitterStream
<1>8. CASE CollectLines(e)
  <2> DEFINE m == [em[e] EXCEPT !.pc = "replace", !.lines = object[em[e].chain]]
  <2>1. em' = [em EXCEPT ![e] = m] /\ em[e].pc = "save"
    BY <1>8 DEF CollectLines, At
  <2>2. em[e].chain \in 1..Len(object)
    BY <1>3, <2>1 DEF Holding, ChainInv
  <2>3. m.pc = "replace" /\ m.chain = em[e].chain /\ m.event = em[e].event
        /\ m.lines = object[em[e].chain] /\ m.lines \in Seq(Event)
    BY <1>3, <2>2 DEF Holding, ChainInv, Good
  <2> HIDE DEF m
  <2>4. Carried(m, Len(object'))
    BY <1>1, <1>3, <2>3 DEF Carried
  <2> QED BY <1>0, <1>2, <1>3, <2>1, <2>3, <2>4, EmitterStream
<1> QED BY <1>4, <1>5, <1>6, <1>7, <1>8

LEMMA CreateStream ==
  ASSUME ChainInv, StreamInv, NEW e \in Emitter, Create(e)
  PROVE  StreamInv'
<1>0. Only(e)
  BY WorkingAlone DEF At, Create
<1>1. Holding(em[e]) /\ em[e].pc = "create" /\ UNCHANGED <<file, emits, streamVars>>
      /\ file' \in Seq(Event) \cup {NoFile} /\ Len(object) \in Nat /\ Carried(em[e], Len(object))
  BY DEF ChainInv, Create, At, StreamInv, StreamTypes
<1>2. CASE Loadable
  <2> DEFINE m == [em[e] EXCEPT !.pc = "link", !.chain = Len(object) + 1]
  <2>1. /\ object' = Append(object, Loaded) /\ current' = Len(object) + 1
        /\ UNCHANGED <<file, emits, history>> /\ em' = [em EXCEPT ![e] = m]
    BY <1>2 DEF Create
  <2>2. /\ current' \in 1..Len(object') /\ object'[current'] = Loaded /\ Loaded' = Loaded
    BY <2>1, OpenChain
  <2>3. Len(object') = Len(object) + 1
    <3>1. PICK S : object \in Seq(S)
      BY DEF ChainInv
    <3>2. object \in Seq(S \cup {Loaded}) /\ Loaded \in S \cup {Loaded}
      BY <3>1
    <3> QED BY <2>1, <3>2
  <2>4. Served = Loaded /\ Served' = Served
    BY <1>1, <2>2 DEF Served, Holding
  <2>5. m.pc = "link" /\ m.chain = Len(object) + 1 /\ m.event = em[e].event /\ m.lines = em[e].lines
    BY <1>1 DEF Holding
  <2> HIDE DEF m
  <2>6. m.chain \in 0..Len(object')
    BY <1>1, <2>3, <2>5
  <2>7. Carried(m, Len(object'))
    BY <1>1, <2>5, <2>6 DEF Carried
  <2>8. Len(object') \in Nat /\ Len(object) <= Len(object')
    BY <1>1, <2>3
  <2> QED BY <1>0, <1>1, <2>1, <2>2, <2>4, <2>5, <2>7, <2>8, EmitterStream
<1>3. CASE ~Loadable
  <2>1. em' = [em EXCEPT ![e] = IdleEmitter] /\ UNCHANGED <<object, current>>
    BY <1>3 DEF Create
  <2>2. Served' = Served /\ Loaded' = Loaded
    BY <1>1, <2>1 DEF Served, Loaded
  <2>3. Carried(IdleEmitter, Len(object')) /\ IdleEmitter.pc = "idle"
    BY <1>1, <2>1 DEF Carried, IdleEmitter
  <2>4. Len(object') \in Nat /\ Len(object) <= Len(object')
    BY <1>1, <2>1
  <2> QED BY <1>0, <1>1, <2>1, <2>2, <2>3, <2>4, EmitterStream
<1> QED BY <1>2, <1>3

LEMMA LinkStream ==
  ASSUME ChainInv, ChainInv', StreamInv, NEW e \in Emitter, Link(e)
  PROVE  StreamInv'
<1>0. Only(e)
  BY WorkingAlone DEF At, Link
<1> DEFINE ev == [link |-> [id |-> emits + 1, seq |-> Len(object[em[e].chain]) + 1,
                            prev |-> Log!LastId(Links(object[em[e].chain]))],
                  record |-> Head(em[e].todo)]
           m == [em[e] EXCEPT !.pc = "append", !.event = ev]
<1>1. /\ em' = [em EXCEPT ![e] = m] /\ em[e].pc = "link" /\ emits' = emits + 1
      /\ UNCHANGED <<object, current, file, streamVars>>
  BY DEF Link, At
<1>2. m.pc = "append" /\ m.chain = em[e].chain /\ m.event = ev /\ m.lines = em[e].lines
  BY DEF ChainInv, Holding
<1> HIDE DEF m, ev
<1>3. em'[e] = m /\ Len(object) \in Nat
  BY <1>1 DEF ChainInv
<1>4. ev \in Event
  BY <1>2, <1>3 DEF ChainInv, Holding
<1>18. \A f \in Emitter : f # e => em'[f] = em[f] /\ em'[f].pc = "idle" /\ em[f].pc = "idle"
  BY <1>0, <1>1, OthersIdle
<1>5. \A f \in Emitter : Carried(em[f], Len(object))'
  <2>1. Carried(em[e], Len(object))'
    BY <1>1, <1>2, <1>3, <1>4 DEF Carried, StreamInv, StreamTypes
  <2>2. ASSUME NEW f \in Emitter, f # e PROVE Carried(em[f], Len(object))'
    BY <1>1, <1>18, <2>2 DEF Carried, StreamInv, StreamTypes
  <2> QED BY <2>1, <2>2
<1>6. UNCHANGED <<conn, callbacks, queue, dropped, lastSeq, received>>
  BY <1>1 DEF streamVars
<1>7. StreamTypes'
  BY <1>1, <1>5, <1>6 DEF StreamInv, StreamTypes
<1>8. Served' = Served /\ Loaded' = Loaded
  BY <1>1 DEF Served, Loaded
<1>9. Linked' /\ ~Publishing' /\ ~Publishing
  BY <1>1, <1>2, <1>3, <1>18 DEF Linked, Publishing
<1>10. Taken' = Taken
  BY <1>6, <1>8, <1>9 DEF Taken
<1>11. Increasing(Served)'
  BY <1>8 DEF StreamInv, Pending, Increasing
<1>12. Len(Served) < emits + 1 /\ Len(Served) <= emits + 1 /\ emits \in Nat
  <2>1. Len(Served) <= emits
    BY DEF StreamInv, Pending
  <2> QED BY <2>1, ServedGood
<1>13. Pending'
  <2>1. \A f \in Emitter : em'[f].pc # "publish"
    BY <1>2, <1>3, <1>18
  <2> QED BY <1>1, <1>6, <1>8, <1>9, <1>10, <1>11, <1>12, <2>1 DEF StreamInv, Pending
<1>14. Cursor' = Cursor /\ Reached' = Reached /\ (Stepwise' <=> Stepwise)
  BY <1>6 DEF Cursor, Reached, Stepwise
<1>15. /\ Known(Served, Cursor)' <=> Known(Served, Cursor)
       /\ Known(Loaded, Cursor)' <=> Known(Loaded, Cursor)
  BY <1>8, <1>14 DEF Known
<1>16. (Copied(Served)' <=> Copied(Served)) /\ (Copied(Loaded)' <=> Copied(Loaded))
  BY <1>6, <1>8 DEF Copied
<1>17. ASSUME Reader PROVE Reader'
  <2>1. ASSUME NEW k \in 1..Len(received)
        PROVE  received[k].link.id <= emits + 1 /\ received[k].link.id < emits + 1
    <3>1. received[k].link.id <= emits
      BY <1>17 DEF Reader
    <3>2. received[k] \in Event
      BY DEF StreamInv, StreamTypes
    <3> QED BY <1>12, <3>1, <3>2, EventFields
  <2> QED BY <1>1, <1>6, <1>9, <1>10, <1>14, <1>15, <1>16, <1>17, <2>1 DEF Reader
<1> QED BY <1>6, <1>7, <1>13, <1>17 DEF StreamInv


\* The file becomes what is served, or stays.
LEMMA ReplaceStream ==
  ASSUME ChainInv, StreamInv, NEW e \in Emitter, ReplaceFile(e)
  PROVE  StreamInv'
<1>0. Only(e)
  BY WorkingAlone DEF At, ReplaceFile
<1>1. /\ em' = [em EXCEPT ![e] = IdleEmitter] /\ em[e].pc = "replace"
      /\ UNCHANGED <<object, current, emits, streamVars>>
  BY DEF ReplaceFile, At
<1>2. /\ current \in 1..Len(object) /\ file' \in {file, object[current]}
      /\ Loaded' = Loaded \/ Loaded' = object[current]
  BY ReplacedFile
<1>3. Served = object[current] /\ Served' = Served
  BY <1>1, <1>2 DEF Served
<1>4. file' \in Seq(Event) \cup {NoFile}
  BY <1>2, <1>3, ServedGood DEF StreamInv, StreamTypes
<1>5. Carried(IdleEmitter, Len(object')) /\ IdleEmitter.pc = "idle"
  BY <1>1, <1>2 DEF Carried, IdleEmitter
<1>6. Len(object) \in Nat /\ Len(object') \in Nat /\ Len(object) <= Len(object')
  BY <1>1 DEF ChainInv
<1> QED BY <1>0, <1>1, <1>2, <1>3, <1>4, <1>5, <1>6, EmitterStream

LEMMA AppendStream ==
  ASSUME ChainInv, StreamInv, NEW e \in Emitter, AppendEvent(e)
  PROVE  StreamInv'
<1>0. Only(e)
  BY WorkingAlone DEF At, AppendEvent
<1> DEFINE c == Served
           ev == em[e].event
           d == Append(c, ev)
           m == [em[e] EXCEPT !.pc = "publish", !.todo = Tail(@)]
<1>1. /\ current \in 1..Len(object)
      /\ ev \in Event /\ ev.link.id = emits /\ emits \in Nat /\ emits > 0
      /\ Fits(ev, object[current]) /\ Good(object[current], emits - 1)
      /\ Len(object') = Len(object)
      /\ object'[current] = Append(object[current], ev)
  BY AppendedChain
<1>2. /\ em' = [em EXCEPT ![e] = m] /\ em[e].pc = "append"
      /\ UNCHANGED <<current, file, emits, streamVars>>
  BY DEF AppendEvent, At
<1>3. m.pc = "publish" /\ m.chain = em[e].chain /\ m.event = ev /\ m.lines = em[e].lines
  BY DEF ChainInv, Holding
<1>4. UNCHANGED <<conn, callbacks, queue, dropped, lastSeq, received>>
  BY <1>2 DEF streamVars
<1>5. c = object[current] /\ Served' = d /\ Loaded' = Loaded
  BY <1>1, <1>2 DEF Served, Loaded
<1>6. /\ c \in Seq(Event) /\ Len(c) \in Nat /\ DOMAIN c = 1..Len(c)
      /\ Len(d) = Len(c) + 1 /\ d[Len(c) + 1] = ev /\ DOMAIN d = 1..Len(d)
      /\ \A k \in 1..Len(c) : d[k] = c[k] /\ c[k] \in Event /\ c[k].link.id <= emits - 1
  <2>1. c \in Seq(Event)
    BY ServedGood
  <2>2. d \in Seq(Event)
    BY <1>1, <2>1
  <2>3. \A k \in 1..Len(c) : c[k].link.id <= emits - 1
    BY <1>1, <1>5 DEF Good
  <2> HIDE DEF c, ev
  <2>4. /\ Len(c) \in Nat /\ DOMAIN c = 1..Len(c) /\ \A k \in 1..Len(c) : c[k] \in Event
        /\ Len(d) = Len(c) + 1 /\ d[Len(c) + 1] = ev /\ \A k \in 1..Len(c) : d[k] = c[k]
    BY <1>1, <2>1
  <2>5. DOMAIN d = 1..Len(d)
    BY <2>2
  <2> QED BY <2>1, <2>3, <2>4, <2>5
<1> HIDE DEF m, ev, c, d
<1>7. /\ DOMAIN em = Emitter /\ em'[e] = m
      /\ \A f \in Emitter : f # e => em'[f] = em[f] /\ em'[f].pc = "idle" /\ em[f].pc = "idle"
  BY <1>0, <1>2, OthersIdle DEF ChainInv
<1>8. StreamTypes'
  <2>1. Carried(em[e], Len(object))'
    BY <1>1, <1>3, <1>7 DEF StreamInv, StreamTypes, Carried
  <2>3. ASSUME NEW f \in Emitter, f # e PROVE Carried(em[f], Len(object))'
    BY <1>1, <1>7, <2>3 DEF StreamInv, StreamTypes, Carried
  <2>2. \A f \in Emitter : Carried(em[f], Len(object))'
    BY <2>1, <2>3
  <2> QED BY <1>2, <1>4, <2>2 DEF StreamInv, StreamTypes
<1>9. Linked /\ ~Linked' /\ Publishing' /\ ~Publishing
  BY <1>2, <1>3, <1>7 DEF Linked, Publishing
<1>10. Taken' = Taken
  <2>1. Len(Served) = Len(c) /\ Len(Served') = Len(c) + 1
    BY <1>5, <1>6 DEF c
  <2>2. Len(callbacks) \in Nat /\ Len(queue) \in Nat
    BY DEF StreamInv, StreamTypes
  <2> QED BY <1>4, <1>6, <1>9, <2>1, <2>2 DEF Taken
<1>11. Taken >= 0 /\ Taken + Len(queue) + Len(callbacks) = Len(c)
       /\ Taken \in Int /\ Len(queue) \in Nat /\ Len(callbacks) \in Nat
  BY <1>6, <1>9 DEF Taken, StreamInv, Pending, StreamTypes, c
<1>12. Pending'
  <2>1. Increasing(d)
    <3> SUFFICES ASSUME NEW k \in 1..Len(d), NEW n \in 1..Len(d), k < n
        PROVE  d[k].link.id < d[n].link.id
      BY DEF Increasing
    <3>1. CASE n \in 1..Len(c)
      <4>1. k \in 1..Len(c)
        BY <1>6, <3>1
      <4> QED BY <1>6, <3>1, <4>1 DEF StreamInv, Pending, Increasing, c
    <3>2. CASE n = Len(c) + 1
      <4>1. k \in 1..Len(c)
        BY <1>6, <3>2
      <4>2. c[k].link.id \in Nat
        BY <1>6, <4>1, EventFields
      <4> QED BY <1>1, <1>6, <3>2, <4>1, <4>2
    <3> QED BY <1>6, <3>1, <3>2
  <2>2. Len(c) < emits /\ Len(d) <= emits
    BY <1>1, <1>6, <1>9 DEF StreamInv, Pending, c
  <2>3. Len(d) > 0 /\ \A f \in Emitter : em'[f].pc = "publish" => em'[f].event = d[Len(d)]
    BY <1>3, <1>6, <1>7
  <2>4. \A k \in 1..Len(queue) : queue[k] = d[Taken + k]
    BY <1>6, <1>11 DEF StreamInv, Pending, c
  <2>5. \A k \in 1..Len(callbacks) : callbacks[k] = d[Taken + Len(queue) + k]
    BY <1>6, <1>11 DEF StreamInv, Pending, c
  <2>6. conn = "off" => callbacks = << >>
    BY DEF StreamInv, Pending
  <2>7. conn # "live" => queue = << >> /\ lastSeq = 0
    BY DEF StreamInv, Pending
  <2>8. Increasing(Served)'
    BY <1>5, <2>1 DEF Increasing
  <2> QED BY <1>2, <1>4, <1>5, <1>9, <1>10, <1>11, <2>2, <2>3, <2>4, <2>5, <2>6, <2>7, <2>8 DEF Pending
<1>13. Cursor' = Cursor /\ Reached' = Reached /\ (Stepwise' <=> Stepwise)
  BY <1>4 DEF Cursor, Reached, Stepwise
<1>14. ASSUME Reader PROVE Reader'
  <2>1. received \in Seq(Event)
    BY DEF StreamInv, StreamTypes
  <2>2. Cursor # emits
    <3>1. CASE received = << >>
      BY <1>1, <2>1, <3>1, CursorIs
    <3>2. CASE received # << >>
      <4>1. /\ Cursor = received[Len(received)].link.id /\ Len(received) \in 1..Len(received)
            /\ received[Len(received)].link.id < emits
        BY <1>9, <1>14, <2>1, <3>2, CursorIs DEF Reader
      <4>2. received[Len(received)].link.id \in Nat
        BY <2>1, <4>1, EventFields
      <4> QED BY <1>1, <4>1, <4>2
    <3> QED BY <3>1, <3>2
  <2>3. Known(d, Cursor) <=> Known(c, Cursor)
    <3>1. \A k \in 1..Len(d) : k \in 1..Len(c) \/ k = Len(c) + 1
      BY <1>6
    <3>2. \A k \in 1..Len(c) : k \in 1..Len(d)
      BY <1>6
    <3> QED BY <1>1, <1>6, <2>2, <3>1, <3>2 DEF Known
  <2>4. Copied(c) => Copied(d)
    <3> SUFFICES ASSUME Copied(c), NEW k \in 1..Len(received)
        PROVE received[k].link.seq <= Len(d) /\ received[k] = d[received[k].link.seq]
      BY DEF Copied
    <3>1. received[k].link.seq <= Len(c) /\ received[k] = c[received[k].link.seq]
      BY DEF Copied
    <3>2. received[k].link.seq \in 1..Len(c)
      BY <1>6, <2>1, <3>1, EventFields
    <3> QED BY <1>6, <3>1, <3>2
  <2>5. /\ Known(Served, Cursor)' <=> Known(d, Cursor)
        /\ Known(Loaded, Cursor)' <=> Known(Loaded, Cursor)
        /\ Known(Served, Cursor) <=> Known(c, Cursor)
    BY <1>5, <1>13 DEF Known, c
  <2>6. /\ Copied(Served)' <=> Copied(d)
        /\ Copied(Loaded)' <=> Copied(Loaded)
        /\ Copied(Served) <=> Copied(c)
    BY <1>4, <1>5 DEF Copied, c
  <2>7. Known(Served, Cursor)' => Copied(Served)'
    BY <1>14, <2>3, <2>4, <2>5, <2>6 DEF Reader
  <2>8. Known(Loaded, Cursor)' => Copied(Loaded)'
    BY <1>14, <2>5, <2>6 DEF Reader
  <2>9. \A k \in 1..Len(received) : received[k].link.id <= emits
    BY <1>14 DEF Reader
  <2> QED BY <1>2, <1>4, <1>9, <1>10, <1>13, <1>14, <2>3, <2>5, <2>7, <2>8, <2>9 DEF Reader
<1> QED BY <1>4, <1>8, <1>12, <1>14 DEF StreamInv

LEMMA PublishStream ==
  ASSUME ChainInv, StreamInv, NEW e \in Emitter, Publish(e)
  PROVE  StreamInv'
<1>0. Only(e)
  BY WorkingAlone DEF At, Publish
<1> DEFINE ev == em[e].event
           next == IF em[e].todo # << >> /\ emits < MaxEmits THEN "link" ELSE "save"
           m == [em[e] EXCEPT !.pc = next, !.event = NoEvent]
<1>1. /\ em' = [em EXCEPT ![e] = m] /\ em[e].pc = "publish"
      /\ callbacks' = IF conn = "off" THEN callbacks ELSE Append(callbacks, ev)
      /\ UNCHANGED <<object, current, file, emits, conn, queue, dropped, lastSeq, received>>
  BY DEF Publish, At
<1>2. /\ m.pc \in {"link", "save"} /\ m.chain = em[e].chain /\ m.event = NoEvent
      /\ m.lines = em[e].lines
  BY DEF ChainInv, Holding
<1>3. ev \in Event /\ Len(Served) > 0 /\ ev = Served[Len(Served)]
  BY <1>1 DEF StreamInv, StreamTypes, Carried, Pending
<1> HIDE DEF m, ev, next
<1>4. /\ DOMAIN em = Emitter /\ em'[e] = m
      /\ \A f \in Emitter : f # e => em'[f] = em[f] /\ em'[f].pc = "idle" /\ em[f].pc = "idle"
  BY <1>0, <1>1, OthersIdle DEF ChainInv
<1>5. Served' = Served /\ Loaded' = Loaded
  BY <1>1 DEF Served, Loaded
<1>6. callbacks \in Seq(Event) /\ queue \in Seq(Event) /\ Len(queue) \in Nat /\ Len(callbacks) \in Nat
  BY DEF StreamInv, StreamTypes
<1>7. /\ callbacks' \in Seq(Event)
      /\ conn = "off" => callbacks' = << >> /\ Len(callbacks) = 0 /\ Len(callbacks') = 0
      /\ conn # "off" =>
           /\ Len(callbacks') = Len(callbacks) + 1 /\ callbacks'[Len(callbacks) + 1] = ev
           /\ \A k \in 1..Len(callbacks) : callbacks'[k] = callbacks[k]
  BY <1>1, <1>3, <1>6 DEF StreamInv, Pending
<1>8. StreamTypes'
  <2>1. Carried(em[e], Len(object))'
    BY <1>1, <1>2, <1>4 DEF StreamInv, StreamTypes, Carried
  <2>3. ASSUME NEW f \in Emitter, f # e PROVE Carried(em[f], Len(object))'
    BY <1>1, <1>4, <2>3 DEF StreamInv, StreamTypes, Carried
  <2>2. \A f \in Emitter : Carried(em[f], Len(object))'
    BY <2>1, <2>3
  <2> QED BY <1>1, <1>7, <2>2 DEF StreamInv, StreamTypes
<1>9. ~Linked' /\ ~Publishing' /\ Publishing /\ ~Linked
  BY <1>1, <1>2, <1>4 DEF Linked, Publishing
<1>10. /\ Taken >= 0 /\ Taken + Len(queue) + Len(callbacks) + 1 = Len(Served)
       /\ Taken \in Int /\ Len(Served) \in Nat
  BY <1>6, <1>9, ServedGood DEF Taken, StreamInv, Pending
<1>11. Taken' = Len(Served) - Len(callbacks') - Len(queue)
  BY <1>1, <1>5, <1>6, <1>7, <1>9, <1>10 DEF Taken
<1>12. conn # "off" => Taken' = Taken
  BY <1>6, <1>7, <1>10, <1>11
<1>13. conn = "off" => Taken' >= 0 /\ Len(queue) = 0
  BY <1>6, <1>7, <1>10, <1>11 DEF StreamInv, Pending
<1>14. Pending'
  <2>1. Increasing(Served)'
    BY <1>5 DEF StreamInv, Pending, Increasing
  <2>2. \A k \in 1..Len(queue) : queue[k] = Served[Taken' + k]
    BY <1>6, <1>12, <1>13 DEF StreamInv, Pending
  <2>3. ASSUME NEW k \in 1..Len(callbacks') PROVE callbacks'[k] = Served[Taken' + Len(queue) + k]
    <3>1. conn # "off"
      BY <1>7
    <3>2. CASE k \in 1..Len(callbacks)
      BY <1>7, <1>12, <3>1, <3>2 DEF StreamInv, Pending
    <3>3. CASE k = Len(callbacks) + 1
      <4>1. Taken' + Len(queue) + k = Len(Served)
        BY <1>6, <1>10, <1>12, <3>1, <3>3
      <4> QED BY <1>3, <1>7, <3>1, <3>3, <4>1
    <3> QED BY <1>6, <1>7, <3>1, <3>2, <3>3
  <2>4. Taken' >= 0
    BY <1>10, <1>12, <1>13
  <2>5. \A f \in Emitter : em'[f].pc # "publish"
    BY <1>2, <1>4
  <2>6. conn = "off" => callbacks' = << >>
    BY <1>7
  <2>7. conn # "live" => queue = << >> /\ lastSeq = 0
    BY DEF StreamInv, Pending
  <2>8. Len(Served) <= emits
    BY DEF StreamInv, Pending
  <2> QED BY <1>1, <1>5, <1>9, <2>1, <2>2, <2>3, <2>4, <2>5, <2>6, <2>7, <2>8 DEF Pending
<1>15. Cursor' = Cursor /\ Reached' = Reached /\ (Stepwise' <=> Stepwise)
  BY <1>1 DEF Cursor, Reached, Stepwise
<1>16. /\ Known(Served, Cursor)' <=> Known(Served, Cursor)
       /\ Known(Loaded, Cursor)' <=> Known(Loaded, Cursor)
  BY <1>5, <1>15 DEF Known
<1>17. (Copied(Served)' <=> Copied(Served)) /\ (Copied(Loaded)' <=> Copied(Loaded))
  BY <1>1, <1>5 DEF Copied
<1>18. Reader => Reader'
  BY <1>1, <1>9, <1>12, <1>15, <1>16, <1>17 DEF Reader
<1> QED BY <1>1, <1>8, <1>14, <1>18 DEF StreamInv

\* The process starts again: what was in the file is served, and the beginning of
\* what the browser has may be all that is left of the chain.
LEMMA RestartStream == ASSUME ChainInv, StreamInv, Restart PROVE StreamInv'
<1>1. /\ object' = << >> /\ current' = 0 /\ em' = [e \in Emitter |-> IdleEmitter]
      /\ UNCHANGED <<file, emits, dropped, received>>
      /\ conn' = "off" /\ callbacks' = << >> /\ queue' = << >> /\ lastSeq' = 0
  BY DEF Restart, Unsubscribed
<1>2. Served' = Loaded /\ Loaded' = Loaded
  BY <1>1 DEF Served, Loaded
<1>3. ~Linked' /\ ~Publishing' /\ \A f \in Emitter : em'[f].pc = "idle"
  BY <1>1 DEF Linked, Publishing, IdleEmitter
<1>4. /\ Len(Loaded) \in Nat /\ Len(Served) \in Nat /\ Len(Loaded) <= Len(Served)
      /\ \A k \in 1..Len(Loaded) : Served[k] = Loaded[k]
      /\ emits \in Nat
  BY ServedGood DEF Extends
<1>5. StreamTypes'
  <2>1. Len(object') = 0
    BY <1>1
  <2>2. \A f \in Emitter : Carried(em[f], Len(object))'
    BY <1>1, <2>1 DEF Carried, IdleEmitter
  <2> QED BY <1>1, <2>2, QueueSizeAssumption, BoundsAssumption DEF StreamInv, StreamTypes
<1>6. Taken' = Len(Loaded)
  BY <1>1, <1>2, <1>3, <1>4 DEF Taken
<1>7. Pending'
  <2>1. \A k \in 1..Len(Loaded) : k \in 1..Len(Served)
    BY <1>4
  <2>2. Increasing(Loaded)
    BY <1>4, <2>1 DEF StreamInv, Pending, Increasing
  <2>3. Increasing(Served)'
    BY <1>2, <2>2 DEF Increasing
  <2>4. Len(Loaded) <= emits
    BY <1>4 DEF StreamInv, Pending
  <2> QED BY <1>1, <1>2, <1>3, <1>4, <1>6, <2>3, <2>4 DEF Pending
<1>8. Cursor' = Cursor /\ Reached' = Reached /\ (Stepwise' <=> Stepwise)
  BY <1>1 DEF Cursor, Reached, Stepwise
<1>9. ASSUME Reader PROVE Reader'
  <2>1. /\ Known(Served, Cursor)' <=> Known(Loaded, Cursor)
        /\ Known(Loaded, Cursor)' <=> Known(Loaded, Cursor)
    BY <1>2, <1>8 DEF Known
  <2>2. /\ Copied(Served)' <=> Copied(Loaded)
        /\ Copied(Loaded)' <=> Copied(Loaded)
    BY <1>1, <1>2 DEF Copied
  <2> QED BY <1>1, <1>3, <1>8, <1>9, <2>1, <2>2 DEF Reader
<1> QED BY <1>1, <1>5, <1>7, <1>9 DEF StreamInv

\* The reader may open the chain; what is served and the emitter stay.
LEMMA ReaderChain ==
  ASSUME ChainInv, StreamTypes, Subscribe \/ StreamStep \/ Disconnect
  PROVE  /\ Served' = Served /\ Loaded' = Loaded /\ UNCHANGED <<file, em, emits>>
         /\ \A e \in Emitter : Carried(em[e], Len(object))'
         /\ (Linked' <=> Linked) /\ (Publishing' <=> Publishing)
<1>1. CASE UNCHANGED chainVars
  BY <1>1 DEF chainVars, Served, Loaded, StreamTypes, Carried, Linked, Publishing
<1>2. CASE /\ current = 0 /\ object' = Append(object, Loaded)
           /\ current' = Len(object) + 1 /\ UNCHANGED <<file, em, emits, history>>
  <2>1. current' \in 1..Len(object') /\ object'[current'] = Loaded /\ Loaded' = Loaded
    BY <1>2, OpenChain
  <2>2. Len(object) \in Nat /\ Len(object') = Len(object) + 1
    <3>1. PICK S : object \in Seq(S)
      BY DEF ChainInv
    <3>2. object \in Seq(S \cup {Loaded}) /\ Loaded \in S \cup {Loaded}
      BY <3>1
    <3> QED BY <1>2, <3>2
  <2>3. Served = Loaded /\ Served' = Loaded
    BY <1>2, <2>1 DEF Served
  <2> QED BY <1>2, <2>1, <2>2, <2>3 DEF StreamTypes, Carried, Linked, Publishing
<1> QED BY <1>1, <1>2, ReaderSteps

\* Nothing of the browser's moves.
LEMMA SameReceived ==
  ASSUME UNCHANGED received, Served' = Served, Loaded' = Loaded
  PROVE  /\ Cursor' = Cursor /\ Reached' = Reached /\ (Stepwise' <=> Stepwise)
         /\ Known(Served, Cursor)' <=> Known(Served, Cursor)
         /\ Known(Loaded, Cursor)' <=> Known(Loaded, Cursor)
         /\ Copied(Served)' <=> Copied(Served)
         /\ Copied(Loaded)' <=> Copied(Loaded)
<1>1. Cursor' = Cursor /\ Reached' = Reached
  BY DEF Cursor, Reached
<1> QED BY <1>1 DEF Stepwise, Known, Copied

LEMMA SubscribeStream == ASSUME ChainInv, StreamInv, Subscribe PROVE StreamInv'
<1>1. /\ conn = "off" /\ conn' = "subscribed"
      /\ UNCHANGED <<file, callbacks, queue, dropped, lastSeq, received>>
  BY DEF Subscribe, chainVars
<1>2. /\ Served' = Served /\ Loaded' = Loaded /\ UNCHANGED <<file, em, emits>>
      /\ \A e \in Emitter : Carried(em[e], Len(object))'
      /\ (Linked' <=> Linked) /\ (Publishing' <=> Publishing)
  BY ReaderChain DEF StreamInv
<1>3. Taken' = Taken
  BY <1>1, <1>2 DEF Taken
<1>4. StreamTypes'
  BY <1>1, <1>2 DEF StreamInv, StreamTypes
<1>5. Pending'
  <2>1. Increasing(Served)'
    BY <1>2 DEF StreamInv, Pending, Increasing
  <2> QED BY <1>1, <1>2, <1>3, <2>1 DEF StreamInv, Pending
<1>6. ASSUME Reader, Known(Served, Cursor) PROVE Reached <= Taken + 1
  <2>1. callbacks = << >> /\ queue = << >> /\ Len(Served) \in Nat
    BY <1>1, ServedGood DEF StreamInv, Pending
  <2>2. Taken \in Int /\ Taken + 1 >= Len(Served) /\ Taken >= 0
    BY <2>1 DEF Taken, StreamInv, Pending
  <2>3. received \in Seq(Event)
    BY DEF StreamInv, StreamTypes
  <2>4. CASE received = << >>
    BY <2>2, <2>3, <2>4, CursorIs
  <2>5. CASE received # << >>
    <3>1. Len(received) \in 1..Len(received) /\ Reached = received[Len(received)].link.seq
      BY <2>3, <2>5, CursorIs
    <3>2. Reached <= Len(Served) /\ Reached \in Nat
      BY <1>6, <2>3, <3>1, CursorIs DEF Reader, Copied
    <3> QED BY <2>1, <2>2, <3>2
  <2> QED BY <2>4, <2>5
<1>7. Reader => Reader'
  BY <1>1, <1>2, <1>3, <1>6, SameReceived DEF Reader
<1> QED BY <1>1, <1>4, <1>5, <1>7 DEF StreamInv

\* The queue and the callbacks follow what is taken.
LEMMA OnItsWay ==
  ASSUME ChainInv, StreamInv
  PROVE  /\ Taken \in Int /\ Taken >= 0 /\ Len(Served) \in Nat /\ Taken + Len(queue) <= Len(Served)
         /\ \A k \in 1..Len(queue) : queue[k] = Served[Taken + k]
         /\ \A k \in 1..Len(callbacks) : callbacks[k] = Served[Taken + Len(queue) + k]
<1>1. Len(queue) \in Nat /\ Len(callbacks) \in Nat /\ Len(Served) \in Nat
  BY ServedGood DEF StreamInv, StreamTypes
<1>2. Taken \in Int /\ Taken + Len(queue) <= Len(Served)
  BY <1>1 DEF Taken
<1>3. Pending
  BY DEF StreamInv
<1> QED BY <1>1, <1>2, <1>3 DEF Pending

LEMMA PutStream == ASSUME ChainInv, StreamInv, Put PROVE StreamInv'
<1> DEFINE ev == Head(callbacks)
<1>1. /\ conn = "live" /\ callbacks # << >> /\ callbacks' = Tail(callbacks)
      /\ UNCHANGED <<conn, lastSeq, received>>
  BY DEF Put
<1>2. /\ Served' = Served /\ Loaded' = Loaded /\ UNCHANGED <<file, em, emits>>
      /\ \A e \in Emitter : Carried(em[e], Len(object))'
      /\ (Linked' <=> Linked) /\ (Publishing' <=> Publishing)
  BY ReaderChain DEF StreamInv, StreamStep
<1>3. /\ callbacks \in Seq(Event) /\ queue \in Seq(Event) /\ Len(queue) \in Nat
      /\ ev \in Event /\ ev = callbacks[1] /\ callbacks' \in Seq(Event)
      /\ Len(callbacks) \in Nat /\ Len(callbacks) >= 1 /\ Len(callbacks') = Len(callbacks) - 1
      /\ \A k \in 1..Len(callbacks') : callbacks'[k] = callbacks[k + 1]
  BY <1>1 DEF StreamInv, StreamTypes
<1> HIDE DEF ev
<1>4. /\ Taken \in Int /\ Taken >= 0 /\ Len(Served) \in Nat
      /\ \A k \in 1..Len(queue) : queue[k] = Served[Taken + k]
      /\ \A k \in 1..Len(callbacks) : callbacks[k] = Served[Taken + Len(queue) + k]
  BY OnItsWay
<1>5. Increasing(Served)'
  BY <1>2 DEF StreamInv, Pending, Increasing
<1>6. QueueSize \in Nat /\ QueueSize > 0 /\ Len(queue) <= QueueSize
  BY QueueSizeAssumption DEF StreamInv, StreamTypes
<1>7. CASE Len(queue) < QueueSize
  <2>1. queue' = Append(queue, ev) /\ UNCHANGED dropped
    BY <1>7 DEF Put, ev
  <2>2. /\ queue' \in Seq(Event) /\ Len(queue') = Len(queue) + 1 /\ queue'[Len(queue) + 1] = ev
        /\ \A k \in 1..Len(queue) : queue'[k] = queue[k]
    BY <1>3, <2>1
  <2>3. Taken' = Taken
    BY <1>2, <1>3, <1>4, <2>2 DEF Taken
  <2>4. StreamTypes'
    BY <1>1, <1>2, <1>3, <1>6, <1>7, <2>2 DEF StreamInv, StreamTypes
  <2>5. \A k \in 1..Len(queue') : queue'[k] = Served[Taken + k]
    <3> SUFFICES ASSUME NEW k \in 1..Len(queue') PROVE queue'[k] = Served[Taken + k]
      OBVIOUS
    <3>1. CASE k \in 1..Len(queue)
      BY <1>4, <2>2, <3>1
    <3>2. CASE k = Len(queue) + 1
      <4>1. callbacks[1] = Served[Taken + Len(queue) + 1]
        BY <1>3, <1>4
      <4> QED BY <1>3, <1>4, <2>2, <3>2, <4>1
    <3> QED BY <1>3, <2>2, <3>1, <3>2
  <2>6. \A k \in 1..Len(callbacks') : callbacks'[k] = Served[Taken + Len(queue') + k]
    <3> SUFFICES ASSUME NEW k \in 1..Len(callbacks')
        PROVE callbacks'[k] = Served[Taken + Len(queue') + k]
      OBVIOUS
    <3>1. k + 1 \in 1..Len(callbacks) /\ Taken + Len(queue') + k = Taken + Len(queue) + (k + 1)
      BY <1>3, <1>4, <2>2
    <3> QED BY <1>3, <1>4, <3>1
  <2>7. Pending'
    BY <1>1, <1>2, <1>5, <2>3, <2>5, <2>6 DEF StreamInv, Pending
  <2>8. Reader => Reader'
    BY <1>1, <1>2, <2>3, SameReceived DEF Reader
  <2> QED BY <2>1, <2>4, <2>7, <2>8 DEF StreamInv
<1>8. CASE ~(Len(queue) < QueueSize)
  <2>1. queue' = Append(Tail(queue), ev) /\ dropped' = TRUE
    BY <1>8 DEF Put, ev
  <2>2. Len(queue) >= 1 /\ queue # << >>
    BY <1>3, <1>6, <1>8
  <2>3. /\ queue' \in Seq(Event) /\ Len(queue') = Len(queue) /\ queue'[Len(queue)] = ev
        /\ \A k \in 1..(Len(queue) - 1) : queue'[k] = queue[k + 1]
    <3>1. /\ Tail(queue) \in Seq(Event) /\ Len(Tail(queue)) = Len(queue) - 1
          /\ \A k \in 1..(Len(queue) - 1) : Tail(queue)[k] = queue[k + 1]
      BY <1>3, <2>2
    <3> DEFINE t == Tail(queue)
    <3> HIDE DEF t
    <3>2. /\ Append(t, ev) \in Seq(Event) /\ Len(Append(t, ev)) = Len(t) + 1
          /\ Append(t, ev)[Len(t) + 1] = ev
          /\ \A k \in 1..Len(t) : Append(t, ev)[k] = t[k]
      BY <1>3, <3>1 DEF t
    <3> QED BY <1>3, <2>1, <3>1, <3>2 DEF t
  <2>4. Taken' = Taken + 1
    BY <1>2, <1>3, <1>4, <2>3 DEF Taken
  <2>5. StreamTypes'
    BY <1>1, <1>2, <1>3, <1>6, <2>3 DEF StreamInv, StreamTypes
  <2>6. \A k \in 1..Len(queue') : queue'[k] = Served[Taken + 1 + k]
    <3> SUFFICES ASSUME NEW k \in 1..Len(queue') PROVE queue'[k] = Served[Taken + 1 + k]
      OBVIOUS
    <3>1. CASE k \in 1..(Len(queue) - 1)
      <4>1. k + 1 \in 1..Len(queue) /\ Taken + (k + 1) = Taken + 1 + k
        BY <1>3, <1>4, <3>1
      <4> QED BY <1>4, <2>3, <3>1, <4>1
    <3>2. CASE k = Len(queue)
      <4>1. callbacks[1] = Served[Taken + Len(queue) + 1]
        BY <1>3, <1>4
      <4> QED BY <1>3, <1>4, <2>3, <3>2, <4>1
    <3> QED BY <1>3, <2>3, <3>1, <3>2
  <2>7. \A k \in 1..Len(callbacks') : callbacks'[k] = Served[Taken + 1 + Len(queue') + k]
    <3> SUFFICES ASSUME NEW k \in 1..Len(callbacks')
        PROVE callbacks'[k] = Served[Taken + 1 + Len(queue') + k]
      OBVIOUS
    <3>1. k + 1 \in 1..Len(callbacks)
          /\ Taken + 1 + Len(queue') + k = Taken + Len(queue) + (k + 1)
      BY <1>3, <1>4, <2>3
    <3> QED BY <1>3, <1>4, <3>1
  <2>8. Taken' >= 0
    BY <1>4, <2>4
  <2>9. Pending'
    BY <1>1, <1>2, <1>5, <2>4, <2>6, <2>7, <2>8 DEF StreamInv, Pending
  <2> QED BY <2>1, <2>5, <2>9 DEF StreamInv
<1> QED BY <1>7, <1>8


\* What the browser has is in the file up to its cursor, if the cursor is.
LEMMA LoadedCopied ==
  /\ ChainInv /\ Increasing(Served) /\ received \in Seq(Event) /\ Stepwise
  /\ Copied(Served) /\ Known(Loaded, Cursor)
  => Copied(Loaded)
<1> SUFFICES ASSUME ChainInv, Increasing(Served), received \in Seq(Event), Stepwise,
                    Copied(Served), Known(Loaded, Cursor), NEW k \in 1..Len(received)
             PROVE  /\ received[k].link.seq <= Len(Loaded)
                    /\ received[k] = Loaded[received[k].link.seq]
  BY DEF Copied
<1>1. /\ Len(Loaded) \in Nat /\ Len(Served) \in Nat /\ Len(Loaded) <= Len(Served)
      /\ \A n \in 1..Len(Loaded) : Served[n] = Loaded[n]
      /\ DOMAIN Loaded = 1..Len(Loaded) /\ \A n \in 1..Len(Served) : Served[n] \in Event
  BY ServedGood DEF Extends
<1>2. /\ received # << >> /\ Len(received) \in 1..Len(received)
      /\ Cursor = received[Len(received)].link.id /\ Cursor # 0
      /\ Reached = received[Len(received)].link.seq
  BY CursorIs
<1>3. Reached \in 1..Len(Served) /\ Cursor = Served[Reached].link.id
  BY <1>1, <1>2, CursorIs, EventFields DEF Copied
<1>4. PICK n \in 1..Len(Loaded) : Loaded[n].link.id = Cursor
  BY <1>1, <1>2 DEF Known
<1>5. n = Reached
  <2>1. n \in 1..Len(Served) /\ Served[n].link.id = Served[Reached].link.id
    BY <1>1, <1>3, <1>4
  <2>2. Served[n].link.id \in Nat /\ Served[Reached].link.id \in Nat
    BY <1>1, <1>3, <2>1, EventFields
  <2>3. ~(n < Reached) /\ ~(Reached < n)
    BY <1>3, <2>1, <2>2 DEF Increasing
  <2> QED BY <1>3, <2>1, <2>3
<1>6. received[k].link.seq \in 1..n
  <2>1. received[k] \in Event
    OBVIOUS
  <2>2. received[k].link.seq <= Reached
    BY DEF Stepwise
  <2> QED BY <1>5, <2>1, <2>2, EventFields
<1>7. received[k] = Served[received[k].link.seq]
  BY DEF Copied
<1> QED BY <1>1, <1>6, <1>7

LEMMA LoadedCopiedNext ==
  (/\ ChainInv /\ Increasing(Served) /\ received \in Seq(Event) /\ Stepwise
   /\ Copied(Served) /\ Known(Loaded, Cursor)
   => Copied(Loaded))'
BY LoadedCopied, PTL

LEMMA DeliverStream == ASSUME ChainInv, ChainInv', StreamInv, Deliver PROVE StreamInv'
<1> DEFINE ev == Head(queue)
<1>1. /\ conn = "live" /\ queue # << >> /\ queue' = Tail(queue)
      /\ UNCHANGED <<conn, callbacks, dropped>>
  BY DEF Deliver
<1>2. /\ Served' = Served /\ Loaded' = Loaded /\ UNCHANGED <<file, em, emits>>
      /\ \A e \in Emitter : Carried(em[e], Len(object))'
      /\ (Linked' <=> Linked) /\ (Publishing' <=> Publishing)
  BY ReaderChain DEF StreamInv, StreamStep
<1>3. /\ callbacks \in Seq(Event) /\ Len(callbacks) \in Nat
      /\ ev \in Event /\ ev = queue[1] /\ queue' \in Seq(Event)
      /\ Len(queue) \in Nat /\ Len(queue) >= 1 /\ Len(queue') = Len(queue) - 1
      /\ \A k \in 1..Len(queue') : queue'[k] = queue[k + 1]
  BY <1>1 DEF StreamInv, StreamTypes
<1>4. \/ ev.link.seq <= lastSeq /\ UNCHANGED <<lastSeq, received>>
      \/ /\ ~(ev.link.seq <= lastSeq)
         /\ lastSeq' = ev.link.seq /\ received' = Append(received, ev)
  BY DEF Deliver
<1> HIDE DEF ev
<1>5. /\ Taken \in Int /\ Taken >= 0 /\ Len(Served) \in Nat /\ Taken + Len(queue) <= Len(Served)
      /\ \A k \in 1..Len(queue) : queue[k] = Served[Taken + k]
      /\ \A k \in 1..Len(callbacks) : callbacks[k] = Served[Taken + Len(queue) + k]
  BY OnItsWay
<1>6. Increasing(Served)'
  BY <1>2 DEF StreamInv, Pending, Increasing
<1>7. Taken' = Taken + 1
  BY <1>1, <1>2, <1>3, <1>5 DEF Taken
<1>8. ev = Served[Taken + 1] /\ ev.link.seq = Taken + 1 /\ Taken + 1 \in 1..Len(Served)
  <2>1. Taken + 1 \in 1..Len(Served) /\ 1 \in 1..Len(queue)
    BY <1>3, <1>5
  <2> QED BY <1>3, <1>5, <2>1, ServedGood
<1>9. lastSeq \in 0..MaxEmits /\ lastSeq' \in 0..MaxEmits /\ received \in Seq(Event)
      /\ received' \in Seq(Event)
  <2>1. emits \in 0..MaxEmits /\ Len(Served) <= emits
    BY DEF ChainInv, StreamInv, Pending
  <2>2. Taken + 1 \in 0..MaxEmits
    BY <1>5, <1>8, <2>1, BoundsAssumption
  <2>3. lastSeq \in 0..MaxEmits /\ received \in Seq(Event)
    BY DEF StreamInv, StreamTypes
  <2>4. Append(received, ev) \in Seq(Event)
    BY <1>3, <2>3
  <2> QED BY <1>4, <1>8, <2>2, <2>3, <2>4
<1>10. StreamTypes'
  <2>1. Len(queue') <= QueueSize
    BY <1>3, QueueSizeAssumption DEF StreamInv, StreamTypes
  <2> QED BY <1>1, <1>2, <1>3, <1>9, <2>1 DEF StreamInv, StreamTypes
<1>11. Pending'
  <2>1. \A k \in 1..Len(queue') : queue'[k] = Served[Taken + 1 + k]
    <3> SUFFICES ASSUME NEW k \in 1..Len(queue') PROVE queue'[k] = Served[Taken + 1 + k]
      OBVIOUS
    <3>1. k + 1 \in 1..Len(queue) /\ Taken + (k + 1) = Taken + 1 + k
      BY <1>3, <1>5
    <3> QED BY <1>3, <1>5, <3>1
  <2>2. Taken + 1 + Len(queue') = Taken + Len(queue)
    BY <1>3, <1>5
  <2>3. \A k \in 1..Len(callbacks) : callbacks[k] = Served[Taken + 1 + Len(queue') + k]
    BY <1>5, <2>2
  <2>4. Taken' >= 0
    BY <1>5, <1>7
  <2> QED BY <1>1, <1>2, <1>6, <1>7, <2>1, <2>3, <2>4 DEF StreamInv, Pending
<1>12. ASSUME Reader PROVE Reader'
  <2>1. /\ Known(Served, Cursor) /\ Copied(Served)
        /\ Taken <= Reached /\ lastSeq \in {0, Reached}
        /\ lastSeq = 0 => Reached <= Taken + 1
    BY <1>1, <1>12 DEF Reader
  <2>2. Reached \in Nat
    BY <1>9, CursorIs
  <2>3. CASE ev.link.seq <= lastSeq /\ UNCHANGED <<lastSeq, received>>
    <3>1. lastSeq # 0 /\ Taken + 1 <= Reached
      BY <1>5, <1>8, <1>9, <2>1, <2>2, <2>3
    <3>2. Reached' = Reached /\ Cursor' = Cursor
      BY <2>3 DEF Reached, Cursor
    <3> QED BY <1>1, <1>2, <1>7, <1>12, <2>1, <2>3, <3>1, <3>2, SameReceived DEF Reader
  <2>4. CASE /\ ~(ev.link.seq <= lastSeq)
             /\ lastSeq' = ev.link.seq /\ received' = Append(received, ev)
    <3> DEFINE n == Len(received)
    <3>1. /\ n \in Nat /\ Len(received') = n + 1 /\ received'[n + 1] = ev
          /\ \A k \in 1..n : received'[k] = received[k] /\ received[k] \in Event
          /\ received' # << >>
      BY <1>3, <1>9, <2>4
    <3> HIDE DEF n
    <3>2. Cursor' = ev.link.id /\ Reached' = Taken + 1 /\ lastSeq' = Taken + 1
      BY <1>8, <2>4, <3>1 DEF Cursor, Reached
    <3>3. Reached \in {Taken, Taken + 1}
      BY <1>5, <1>8, <1>9, <2>1, <2>2, <2>4
    <3>4. Stepwise'
      <4> SUFFICES ASSUME NEW k \in 1..(n + 1)
          PROVE /\ received'[k].link.seq \in
                     IF k = 1 THEN {1}
                     ELSE {received'[k - 1].link.seq, received'[k - 1].link.seq + 1}
                /\ received'[k].link.seq <= Reached'
        BY <3>1 DEF Stepwise
      <4>1. CASE k \in 1..n
        <5>1. /\ received[k].link.seq \in
                   IF k = 1 THEN {1}
                   ELSE {received[k - 1].link.seq, received[k - 1].link.seq + 1}
              /\ received[k].link.seq <= Reached
          BY <1>12, <4>1 DEF Reader, Stepwise, n
        <5>2. k # 1 => k - 1 \in 1..n
          BY <3>1, <4>1
        <5>3. received[k].link.seq \in Nat
          BY <3>1, <4>1, EventFields
        <5>4. received[k].link.seq <= Reached'
          BY <1>5, <2>2, <3>2, <3>3, <5>1, <5>3
        <5> QED BY <3>1, <4>1, <5>1, <5>2, <5>4
      <4>2. CASE k = n + 1
        <5>1. received'[k].link.seq = Taken + 1
          BY <1>8, <3>1, <4>2
        <5>2. CASE k = 1
          <6>1. Reached = 0
            BY <1>9, <3>1, <4>2, <5>2, CursorIs DEF n
          <6> QED BY <1>5, <3>2, <3>3, <5>1, <5>2, <6>1
        <5>3. CASE k # 1
          <6>1. Reached = received[n].link.seq /\ n \in 1..n /\ k - 1 = n
            BY <1>9, <3>1, <4>2, <5>3, CursorIs DEF n
          <6>2. received'[k - 1].link.seq = Reached
            BY <3>1, <6>1
          <6> QED BY <1>5, <3>2, <3>3, <5>1, <5>3, <6>2
        <5> QED BY <5>2, <5>3
      <4> QED BY <3>1, <4>1, <4>2
    <3>5. \A k \in 1..(n + 1) :
            received'[k].link.id <= emits /\ (Linked => received'[k].link.id < emits)
      <4>1. ev.link.id <= emits
        BY <1>8, ServedGood DEF Good
      <4>2. Linked => ev.link.id < emits
        <5> SUFFICES ASSUME NEW e \in Emitter, em[e].pc = "append"
            PROVE ev.link.id < emits
          BY DEF Linked
        <5>1. Good(object[current], emits - 1) /\ current # 0
          BY DEF ChainInv, Holding
        <5>2. Served = object[current]
          BY <5>1 DEF Served
        <5>3. ev.link.id <= emits - 1
          BY <1>8, <5>1, <5>2 DEF Good
        <5> QED BY <1>3, <5>3, ServedGood, EventFields
      <4> QED BY <1>12, <3>1, <4>1, <4>2 DEF Reader, n
    <3>6. Copied(Served)'
      <4>1. \A k \in 1..(n + 1) : /\ received'[k].link.seq <= Len(Served)
                                  /\ received'[k] = Served[received'[k].link.seq]
        BY <1>8, <2>1, <3>1 DEF Copied, n
      <4> QED BY <1>2, <3>1, <4>1 DEF Copied
    <3>7. Known(Served, Cursor)'
      BY <1>2, <1>8, <3>2, ServedGood DEF Known
    <3>8. Known(Loaded, Cursor)' => Copied(Loaded)'
      BY <1>6, <1>9, <3>4, <3>6, LoadedCopiedNext
    <3>9. conn' = "live" /\ Taken' <= Reached' /\ lastSeq' = Reached' /\ Reached' <= Taken' + 1
      BY <1>1, <1>5, <1>7, <3>2
    <3>10. \A k \in 1..Len(received') :
             received'[k].link.id <= emits' /\ (Linked' => received'[k].link.id < emits')
      BY <1>2, <3>1, <3>5
    <3> QED BY <3>4, <3>6, <3>7, <3>8, <3>9, <3>10 DEF Reader
  <2> QED BY <1>4, <2>3, <2>4
<1> QED BY <1>1, <1>10, <1>11, <1>12 DEF StreamInv

LEMMA CopiedKnown ==
  ChainInv /\ received \in Seq(Event) /\ Copied(Served) => Known(Served, Cursor)
<1> SUFFICES ASSUME ChainInv, received \in Seq(Event), Copied(Served), received # << >>
             PROVE  Known(Served, Cursor)
  BY CursorIs DEF Known
<1> DEFINE n == Reached
<1>1. n \in 1..Len(Served) /\ Served[n].link.id = Cursor
  BY CursorIs, EventFields, ServedGood DEF Copied
<1>2. DOMAIN Served = 1..Len(Served)
  BY ServedGood
<1> QED BY <1>1, <1>2 DEF Known

LEMMA CopiedKnownNext ==
  (ChainInv /\ received \in Seq(Event) /\ Copied(Served) => Known(Served, Cursor))'
BY CopiedKnown, PTL

LEMMA PositionIs ==
  ASSUME NEW c \in Seq(Event), Increasing(c), NEW n \in 1..Len(c)
  PROVE  Position(c, c[n].link.id) = n
<1>1. DOMAIN c = 1..Len(c) /\ Len(c) \in Nat /\ \A k \in 1..Len(c) : c[k].link.id \in Nat
  BY EventFields
<1>2. \A k \in 1..Len(c) : c[k].link.id = c[n].link.id => k = n
  <2> SUFFICES ASSUME NEW k \in 1..Len(c), c[k].link.id = c[n].link.id PROVE k = n
    OBVIOUS
  <2>1. ~(k < n) /\ ~(n < k)
    BY <1>1 DEF Increasing
  <2> QED BY <1>1, <2>1
<1>3. \A k \in 1..(n - 1) : c[k].link.id # c[n].link.id
  <2> SUFFICES ASSUME NEW k \in 1..(n - 1) PROVE c[k].link.id # c[n].link.id
    OBVIOUS
  <2>1. k \in 1..Len(c) /\ k # n
    BY <1>1
  <2> QED BY <1>2, <2>1
<1> QED BY <1>1, <1>2, <1>3 DEF Position

LEMMA RestOf ==
  ASSUME NEW S, NEW c \in Seq(S), NEW n \in 1..Len(c)
  PROVE  /\ SubSeq(c, n + 1, Len(c)) \in Seq(S)
         /\ Len(SubSeq(c, n + 1, Len(c))) = Len(c) - n
         /\ \A k \in 1..(Len(c) - n) : SubSeq(c, n + 1, Len(c))[k] = c[n + k]
OBVIOUS

\* What is replayed: the chain from some place to its end.
LEMMA ReplayedItems ==
  ASSUME ChainInv, StreamInv, Known(Served, Cursor), NEW items,
         items = IF Cursor = 0 THEN Served ELSE After(Served, Cursor)
  PROVE  /\ items \in Seq(Event)
         /\ \E p \in 0..Len(Served) :
              /\ Len(items) = Len(Served) - p
              /\ \A k \in 1..Len(items) : items[k] = Served[p + k]
              /\ Reader => p = Reached
<1> DEFINE c == Served
<1>1. c \in Seq(Event) /\ Len(c) \in Nat /\ Increasing(c) /\ DOMAIN c = 1..Len(c)
      /\ received \in Seq(Event) /\ \A k \in 1..Len(c) : c[k] \in Event
  BY ServedGood DEF StreamInv, Pending, StreamTypes
<1>2. CASE Cursor = 0
  <2>1. Reached = 0
    BY <1>1, <1>2, CursorIs
  <2>2. /\ items \in Seq(Event) /\ Len(items) = Len(c) - 0
        /\ \A k \in 1..Len(items) : items[k] = c[0 + k]
    BY <1>1, <1>2
  <2>3. 0 \in 0..Len(Served)
    BY <1>1
  <2> QED BY <2>1, <2>2, <2>3
<1>3. CASE Cursor # 0
  <2>1. PICK n \in 1..Len(c) : c[n].link.id = Cursor
    BY <1>1, <1>3 DEF Known
  <2>2. Position(c, Cursor) = n
    BY <1>1, <2>1, PositionIs
  <2>3. items = SubSeq(c, n + 1, Len(c))
    BY <1>3, <2>2 DEF After
  <2>4. Reader => n = Reached
    <3> SUFFICES ASSUME Reader PROVE n = Reached
      OBVIOUS
    <3>1. /\ received # << >> /\ Len(received) \in 1..Len(received)
          /\ Cursor = received[Len(received)].link.id
          /\ Reached = received[Len(received)].link.seq /\ received[Len(received)] \in Event
      BY <1>1, <1>3, CursorIs
    <3>2. Reached \in 1..Len(c) /\ c[Reached].link.id = Cursor
      BY <1>1, <3>1, EventFields DEF Reader, Copied
    <3>3. Position(c, Cursor) = Reached
      BY <1>1, <3>2, PositionIs
    <3> QED BY <2>2, <3>3
  <2> HIDE DEF c
  <2>5. /\ items \in Seq(Event) /\ Len(items) = Len(c) - n
        /\ \A k \in 1..Len(items) : items[k] = c[n + k]
    BY <1>1, <2>3, RestOf
  <2>6. n \in 0..Len(c)
    BY <1>1
  <2> QED BY <2>4, <2>5, <2>6 DEF c
<1> QED BY <1>2, <1>3

\* Every event of the chain is older than one that is yet to be appended.
LEMMA ServedOlder ==
  ASSUME ChainInv, NEW k \in 1..Len(Served)
  PROVE  Served[k].link.id <= emits /\ (Linked => Served[k].link.id < emits)
<1>1. Served[k].link.id <= emits /\ Served[k] \in Event
  BY ServedGood DEF Good
<1>2. Linked => Served[k].link.id < emits
  <2> SUFFICES ASSUME NEW e \in Emitter, em[e].pc = "append"
               PROVE  Served[k].link.id < emits
    BY DEF Linked
  <2>1. Good(object[current], emits - 1) /\ current # 0
    BY DEF ChainInv, Holding
  <2>2. Served[k].link.id <= emits - 1
    BY <2>1 DEF Good, Served
  <2> QED BY <1>1, <2>2, ServedGood, EventFields
<1> QED BY <1>1, <1>2

LEMMA BacklogStream == ASSUME ChainInv, ChainInv', StreamInv, Backlog PROVE StreamInv'
<1> DEFINE c == Served
           items == IF Cursor = 0 THEN c ELSE After(c, Cursor)
           n == Len(received)
           r == Len(items)
<1>1. /\ conn = "subscribed" /\ conn' = "live" /\ Known(c, Cursor)
      /\ received' = received \o items
      /\ lastSeq' = IF items = << >> THEN 0 ELSE items[Len(items)].link.seq
      /\ UNCHANGED <<callbacks, queue, dropped>>
  BY DEF Backlog, Served
<1>2. /\ Served' = c /\ Loaded' = Loaded /\ UNCHANGED <<file, em, emits>>
      /\ \A e \in Emitter : Carried(em[e], Len(object))'
      /\ (Linked' <=> Linked) /\ (Publishing' <=> Publishing)
  BY ReaderChain DEF StreamInv, StreamStep
<1>3. /\ items \in Seq(Event)
      /\ \E p \in 0..Len(c) :
              /\ r = Len(c) - p
              /\ \A k \in 1..r : items[k] = c[p + k]
              /\ Reader => p = Reached
  BY <1>1, ReplayedItems
<1>4. received \in Seq(Event) /\ n \in Nat /\ Len(c) \in Nat
      /\ \A k \in 1..Len(c) : c[k] \in Event /\ c[k].link.seq = k
  BY ServedGood DEF StreamInv, StreamTypes
<1> HIDE DEF items, c
<1>5. PICK p \in 0..Len(c) :
              /\ r = Len(c) - p
              /\ \A k \in 1..r : items[k] = c[p + k]
              /\ Reader => p = Reached
  BY <1>3
<1>6. /\ received' \in Seq(Event) /\ Len(received') = n + r /\ r \in Nat
      /\ \A k \in 1..n : received'[k] = received[k] /\ received[k] \in Event
      /\ \A k \in (n + 1)..(n + r) : received'[k] = items[k - n]
  <2>1. r \in Nat /\ items \in Seq(Event)
    BY <1>3
  <2>2. /\ received' \in Seq(Event) /\ Len(received') = n + r
        /\ \A k \in 1..(n + r) : received'[k] = IF k <= n THEN received[k] ELSE items[k - n]
    BY <1>1, <1>4, <2>1, ConcatProperties
  <2>3. \A k \in 1..n : received[k] \in Event /\ k \in 1..(n + r) /\ k <= n
    BY <1>4, <2>1
  <2>4. \A k \in (n + 1)..(n + r) : k \in 1..(n + r) /\ ~(k <= n)
    BY <1>4, <2>1
  <2> QED BY <2>1, <2>2, <2>3, <2>4
<1> HIDE DEF n, r
<1>7. \A k \in (n + 1)..(n + r) :
        /\ p + (k - n) \in 1..Len(c)
        /\ received'[k] = c[p + (k - n)] /\ received'[k].link.seq = p + (k - n)
  <2> SUFFICES ASSUME NEW k \in (n + 1)..(n + r)
               PROVE  /\ p + (k - n) \in 1..Len(c)
                      /\ received'[k] = c[p + (k - n)] /\ received'[k].link.seq = p + (k - n)
    OBVIOUS
  <2>1. k - n \in 1..r /\ p + (k - n) \in 1..Len(c)
    BY <1>4, <1>5, <1>6 DEF n
  <2> QED BY <1>4, <1>5, <1>6, <2>1
<1>8. lastSeq' = IF r = 0 THEN 0 ELSE Len(c)
  <2>1. CASE items = << >>
    BY <1>1, <2>1 DEF r
  <2>2. CASE items # << >>
    <3>1. r # 0
      BY <1>3, <2>2 DEF r
    <3>3. r \in 1..r /\ p + r = Len(c) /\ Len(c) \in 1..Len(c)
      BY <1>4, <1>5, <1>6, <3>1
    <3>2. items[r] = c[Len(c)]
      BY <1>5, <3>3
    <3> QED BY <1>1, <1>4, <2>2, <3>1, <3>2, <3>3 DEF r
  <2> QED BY <2>1, <2>2
<1>9. Taken' = Taken
  BY <1>1, <1>2 DEF Taken, c
<1>10. StreamTypes'
  <2>1. Len(c) \in 0..MaxEmits
    <3>1. emits \in 0..MaxEmits /\ Len(c) <= emits
      BY DEF ChainInv, StreamInv, Pending, c
    <3> QED BY <1>4, <3>1, BoundsAssumption
  <2>2. lastSeq' \in 0..MaxEmits
    BY <1>8, <2>1, BoundsAssumption
  <2> QED BY <1>1, <1>2, <1>6, <2>2 DEF StreamInv, StreamTypes
<1>11. Increasing(Served)'
  BY <1>2 DEF StreamInv, Pending, Increasing, c
<1>12. Pending'
  BY <1>1, <1>2, <1>9, <1>11 DEF StreamInv, Pending, c
<1>13. ASSUME Reader PROVE Reader'
  <2>1. p = Reached /\ Copied(c) /\ Reached <= Taken + 1 /\ Stepwise
    BY <1>1, <1>5, <1>13 DEF Reader, c
  <2>2. Taken \in Int /\ Taken <= Len(c) /\ Taken >= 0
    <3>1. Taken \in Int /\ Taken >= 0 /\ Taken + Len(queue) <= Len(c) /\ Len(queue) \in Nat
      BY OnItsWay DEF c, StreamInv, StreamTypes
    <3> QED BY <1>4, <3>1
  <2>3. Reached' = Len(c)
    <3>1. CASE r = 0
      <4>1. items = << >>
        BY <1>3, <3>1 DEF r
      <4>2. received' = received
        BY <1>1, <1>4, <4>1
      <4>3. Reached' = Reached
        BY <4>2 DEF Reached
      <4> QED BY <1>4, <1>5, <2>1, <3>1, <4>3
    <3>2. CASE r # 0
      <4>1. n + r \in (n + 1)..(n + r) /\ received' # << >> /\ p + ((n + r) - n) = Len(c)
        BY <1>4, <1>5, <1>6, <3>2 DEF n
      <4>2. received'[n + r].link.seq = Len(c)
        BY <1>7, <4>1
      <4> QED BY <1>6, <4>1, <4>2 DEF Reached
    <3> QED BY <3>1, <3>2
  <2>4. \A k \in 1..n : received[k].link.seq <= Len(c) /\ received[k] = c[received[k].link.seq]
    BY <2>1 DEF Copied, n
  <2>5. Copied(Served)'
    <3> SUFFICES ASSUME NEW k \in 1..(n + r)
        PROVE /\ received'[k].link.seq <= Len(c)
              /\ received'[k] = c[received'[k].link.seq]
      BY <1>2, <1>6 DEF Copied
    <3>1. CASE k \in 1..n
      BY <1>6, <2>4, <3>1
    <3>2. CASE k \in (n + 1)..(n + r)
      BY <1>4, <1>7, <3>2
    <3> QED BY <1>4, <1>6, <3>1, <3>2 DEF n
  <2>6. Stepwise'
    <3> SUFFICES ASSUME NEW k \in 1..(n + r)
        PROVE /\ received'[k].link.seq \in
                   IF k = 1 THEN {1}
                   ELSE {received'[k - 1].link.seq, received'[k - 1].link.seq + 1}
              /\ received'[k].link.seq <= Reached'
      BY <1>6 DEF Stepwise
    <3>1. received'[k].link.seq <= Reached'
      BY <1>2, <1>6, <2>3, <2>5 DEF Copied
    <3>2. CASE k \in 1..n
      <4>1. received[k].link.seq \in
              IF k = 1 THEN {1} ELSE {received[k - 1].link.seq, received[k - 1].link.seq + 1}
        BY <2>1, <3>2 DEF Stepwise, n
      <4>2. k # 1 => k - 1 \in 1..n
        BY <1>4, <3>2
      <4> QED BY <1>6, <3>1, <3>2, <4>1, <4>2
    <3>3. CASE k = n + 1
      <4>1. received'[k].link.seq = p + 1
        BY <1>4, <1>6, <1>7, <3>3 DEF n
      <4>2. CASE k = 1
        <5>1. received = << >>
          BY <1>4, <3>3, <4>2 DEF n
        <5> QED BY <1>4, <2>1, <3>1, <4>1, <4>2, <5>1, CursorIs
      <4>3. CASE k # 1
        <5>1. n \in 1..n /\ received # << >>
          BY <1>4, <3>3, <4>3 DEF n
        <5>2. Reached = received[n].link.seq
          BY <1>4, <5>1, CursorIs DEF n
        <5>3. received'[k - 1].link.seq = p
          BY <1>4, <1>6, <2>1, <3>3, <5>1, <5>2
        <5> QED BY <3>1, <4>1, <4>3, <5>3
      <4> QED BY <4>2, <4>3
    <3>4. CASE k \in (n + 2)..(n + r)
      <4>1. k \in (n + 1)..(n + r) /\ k - 1 \in (n + 1)..(n + r) /\ k # 1
        BY <1>4, <1>6, <3>4 DEF n
      <4>2. received'[k].link.seq = p + (k - n) /\ received'[k - 1].link.seq = p + ((k - 1) - n)
        BY <1>7, <4>1
      <4> QED BY <1>4, <3>1, <4>1, <4>2
    <3> QED BY <1>4, <1>6, <3>2, <3>3, <3>4 DEF n
  <2>7. \A k \in 1..Len(received') :
          received'[k].link.id <= emits' /\ (Linked' => received'[k].link.id < emits')
    <3> SUFFICES ASSUME NEW k \in 1..(n + r)
        PROVE received'[k].link.id <= emits /\ (Linked => received'[k].link.id < emits)
      BY <1>2, <1>6
    <3>1. CASE k \in 1..n
      BY <1>6, <1>13, <3>1 DEF Reader, n
    <3>2. CASE k \in (n + 1)..(n + r)
      BY <1>7, <3>2, ServedOlder DEF c
    <3> QED BY <1>4, <1>6, <3>1, <3>2 DEF n
  <2>8. Known(Served, Cursor)'
    BY <1>6, <2>5, CopiedKnownNext
  <2>9. Known(Loaded, Cursor)' => Copied(Loaded)'
    BY <1>6, <1>11, <2>5, <2>6, LoadedCopiedNext
  <2>10. conn' = "live" /\ Taken' <= Reached' /\ lastSeq' \in {0, Reached'}
    BY <1>1, <1>8, <1>9, <2>2, <2>3
  <2>11. lastSeq' = 0 => Reached' <= Taken' + 1
    <3>1. CASE r = 0
      <4>1. Len(c) = Reached
        BY <1>4, <1>5, <2>1, <3>1
      <4> QED BY <1>9, <2>1, <2>3, <4>1
    <3>2. CASE r # 0
      <4>1. Len(c) # 0
        BY <1>4, <1>5, <1>6, <3>2
      <4> QED BY <1>8, <3>2, <4>1
    <3> QED BY <3>1, <3>2
  <2> QED BY <2>5, <2>6, <2>7, <2>8, <2>9, <2>10, <2>11 DEF Reader
<1> QED BY <1>1, <1>10, <1>12, <1>13 DEF StreamInv

\* The connection ends: nothing is on its way any more.
LEMMA UnsubscribedStream ==
  ASSUME ChainInv, StreamInv, Unsubscribed, Disconnect \/ BacklogRefused
  PROVE  StreamInv'
<1>1. /\ conn' = "off" /\ callbacks' = << >> /\ queue' = << >> /\ lastSeq' = 0
      /\ \/ UNCHANGED <<dropped, received>>
         \/ received' = << >> /\ dropped' = FALSE
  BY DEF Unsubscribed, Disconnect, BacklogRefused
<1>2. /\ Served' = Served /\ Loaded' = Loaded /\ UNCHANGED <<file, em, emits>>
      /\ \A e \in Emitter : Carried(em[e], Len(object))'
      /\ (Linked' <=> Linked) /\ (Publishing' <=> Publishing)
  BY ReaderChain DEF StreamInv, StreamStep
<1>3. StreamTypes'
  <2>1. << >> \in Seq(Event) /\ Len(<< >>) = 0 /\ Len(<< >>) <= QueueSize /\ 0 \in 0..MaxEmits
    BY QueueSizeAssumption, BoundsAssumption
  <2> QED BY <1>1, <1>2, <2>1 DEF StreamInv, StreamTypes
<1>4. Len(Served) \in Nat /\ (Publishing => Len(Served) > 0)
  BY ServedGood DEF StreamInv, Pending, Publishing
<1>5. Taken' >= 0
  BY <1>1, <1>2, <1>4 DEF Taken
<1>6. Increasing(Served)'
  BY <1>2 DEF StreamInv, Pending, Increasing
<1>7. Pending'
  BY <1>1, <1>2, <1>5, <1>6 DEF StreamInv, Pending
<1>8. ASSUME UNCHANGED <<dropped, received>>, Reader PROVE Reader'
  BY <1>1, <1>2, <1>8, SameReceived DEF Reader
<1>9. ASSUME received' = << >> PROVE Reader'
  <2>1. Len(received') = 0 /\ Cursor' = 0
    BY <1>9 DEF Cursor
  <2> QED BY <1>1, <2>1 DEF Reader, Stepwise, Known, Copied
<1> QED BY <1>1, <1>3, <1>7, <1>8, <1>9 DEF StreamInv

LEMMA NextStream ==
  ChainInv /\ ChainInv' /\ StreamInv /\ [Next]_vars /\ ~overlapped' => StreamInv'
<1> SUFFICES ASSUME ChainInv, ChainInv', StreamInv, [Next]_vars, ~overlapped'
    PROVE  StreamInv'
  OBVIOUS
<1>1. ASSUME NEW e \in Emitter, StartEvent(e) \/ StartRecord(e) \/ EmitStep(e)
      PROVE  StreamInv'
  BY <1>1, StartStream, CreateStream, LinkStream, AppendStream, PublishStream, ReplaceStream
     DEF EmitStep
<1>2. CASE Subscribe \/ StreamStep \/ Disconnect
  BY <1>2, SubscribeStream, BacklogStream, UnsubscribedStream, PutStream, DeliverStream
     DEF StreamStep, Disconnect, BacklogRefused
<1>3. CASE Restart
  BY <1>3, RestartStream
<1>4. CASE UNCHANGED vars
  <2>1. UNCHANGED <<object, current, file, em, emits, streamVars>>
    BY <1>4 DEF vars, chainVars
  <2>2. Served' = Served /\ Loaded' = Loaded
    BY <2>1 DEF Served, Loaded
  <2>3. Pending' /\ (dropped' \/ Reader')
    BY <2>1, <2>2, QuietStream DEF Linked, Publishing
  <2>4. StreamTypes'
    BY <2>1 DEF StreamInv, StreamTypes, Carried, streamVars
  <2> QED BY <2>3, <2>4 DEF StreamInv
<1> QED BY <1>1, <1>2, <1>3, <1>4 DEF Next

\* Until two emitters are at work at once, a connected browser whose queue did not
\* overflow holds the chain from the first event on, each event once but for the
\* last one of an earlier connection, however often it reconnects and the process
\* crashes.
THEOREM NoGapHolds == Spec => []NoGap
<1> DEFINE Inv == ~overlapped => ChainInv /\ StreamInv
<1>1. Init => Inv
  BY InitChain, InitStream
<1>2. Inv /\ [Next]_vars => Inv'
  BY NextChain, NextStream, StaysOverlapped
<1>3. Inv => NoGap
  BY StreamImplies DEF NoGap
<1> QED BY <1>1, <1>2, <1>3, PTL DEF Spec

-----------------------------------------------------------------------------
(* Types, whatever the emitters do at once.                                *)

\* What an emitter holds is of the right type for the step it is at.
Typed(m, objects) ==
  /\ DOMAIN m = {"pc", "chain", "todo", "event", "lines"}
  /\ m.pc \in {"idle", "lookup", "create", "link", "append", "publish", "save", "replace"}
  /\ m.chain \in 0..objects
  /\ m.pc \in {"link", "append", "publish", "save"} => m.chain # 0
  /\ m.pc \in {"lookup", "create", "link", "append", "publish"} => m.todo \in Seq(0..MaxRecords)
  /\ m.pc \in {"lookup", "create", "link", "append"} => m.todo # << >>
  /\ m.event \in Event \cup {NoEvent}
  /\ m.pc \in {"append", "publish"} => m.event \in Event
  /\ m.lines \in Seq(Event) \cup {NoFile}
  /\ m.pc = "replace" => m.lines \in Seq(Event)

EmitterTypes == DOMAIN em = Emitter /\ \A e \in Emitter : Typed(em[e], Len(object))

ChainTypes ==
  /\ object \in Seq(Seq(Event)) /\ current \in 0..Len(object)
  /\ file \in Seq(Event) \cup {NoFile}
  /\ emits \in 0..MaxEmits /\ history \in 0..MaxRecords

ReaderTypes ==
  /\ conn \in {"off", "subscribed", "live"}
  /\ callbacks \in Seq(Event) /\ queue \in Seq(Event) /\ Len(queue) <= QueueSize
  /\ received \in Seq(Event) /\ lastSeq \in Nat

TypeInv == EmitterTypes /\ ChainTypes /\ ReaderTypes /\ overlapped \in BOOLEAN

LEMMA InitTypes == Init => TypeInv
<1> SUFFICES ASSUME Init PROVE TypeInv
  OBVIOUS
<1>1. /\ object = << >> /\ current = 0 /\ file = NoFile /\ emits = 0 /\ history = 0
      /\ em = [e \in Emitter |-> IdleEmitter] /\ overlapped = FALSE
      /\ conn = "off" /\ callbacks = << >> /\ queue = << >> /\ lastSeq = 0 /\ received = << >>
  BY DEF Init
<1>2. Len(object) = 0 /\ object \in Seq(Seq(Event))
  BY <1>1
<1>3. EmitterTypes
  BY <1>1, <1>2 DEF EmitterTypes, Typed, IdleEmitter
<1>4. ChainTypes
  BY <1>1, <1>2, BoundsAssumption DEF ChainTypes
<1>5. ReaderTypes
  BY <1>1, QueueSizeAssumption DEF ReaderTypes
<1> QED BY <1>1, <1>3, <1>4, <1>5 DEF TypeInv

\* One emitter moves, and no chain object goes away.
LEMMA EmitterTyped ==
  ASSUME EmitterTypes, NEW e \in Emitter, NEW m, em' = [em EXCEPT ![e] = m],
         Len(object) \in Nat, Len(object') \in Nat, Len(object) <= Len(object'),
         Typed(m, Len(object'))
  PROVE  EmitterTypes'
<1>1. /\ DOMAIN em' = Emitter /\ em'[e] = m
      /\ \A f \in Emitter : f # e => em'[f] = em[f]
  BY DEF EmitterTypes
<1>2. ASSUME NEW f \in Emitter PROVE Typed(em'[f], Len(object'))
  <2>1. CASE f = e
    BY <1>1, <2>1
  <2>2. CASE f # e
    <3>1. Typed(em[f], Len(object)) /\ em'[f] = em[f]
      BY <1>1, <2>2 DEF EmitterTypes
    <3>2. em[f].chain \in 0..Len(object')
      BY <3>1 DEF Typed
    <3> QED BY <3>1, <3>2 DEF Typed
  <2> QED BY <2>1, <2>2
<1>3. \A f \in Emitter : Typed(em[f], Len(object))'
  BY <1>2 DEF Typed
<1> QED BY <1>1, <1>3 DEF EmitterTypes

\* The chain that is read: what is served, or the file.
LEMMA ServedTyped ==
  ASSUME ChainTypes
  PROVE  Loaded \in Seq(Event) /\ Served \in Seq(Event) /\ Len(object) \in Nat
<1>1. Loaded \in Seq(Event)
  BY DEF ChainTypes, Loaded
<1>2. ASSUME current # 0 PROVE object[current] \in Seq(Event)
  <2>1. current \in 1..Len(object)
    BY <1>2 DEF ChainTypes
  <2> QED BY <2>1 DEF ChainTypes
<1> QED BY <1>1, <1>2 DEF Served, ChainTypes

LEMMA OpenTyped ==
  ASSUME ChainTypes, object' = Append(object, Loaded), current' = Len(object) + 1,
         UNCHANGED <<file, emits, history>>
  PROVE  ChainTypes' /\ Len(object') = Len(object) + 1
<1>1. Loaded \in Seq(Event) /\ object \in Seq(Seq(Event)) /\ Len(object) \in Nat
  BY ServedTyped DEF ChainTypes
<1>2. object' \in Seq(Seq(Event)) /\ Len(object') = Len(object) + 1
  BY <1>1
<1> QED BY <1>1, <1>2 DEF ChainTypes

LEMMA StartTyped ==
  ASSUME TypeInv, NEW e \in Emitter, StartEvent(e) \/ StartRecord(e)
  PROVE  TypeInv'
<1>1. PICK todo : Begin(e, todo) /\ todo \in Seq(0..MaxRecords) /\ todo # << >>
  <2>1. CASE StartEvent(e)
    <3>1. <<0>> \in Seq(0..MaxRecords) /\ <<0>> # << >>
      BY BoundsAssumption
    <3> QED BY <2>1, <3>1 DEF StartEvent
  <2>2. CASE StartRecord(e)
    <3> DEFINE todo == [k \in 1..(history + 1) |-> k]
    <3>1. Begin(e, todo) /\ history + 1 \in 1..MaxRecords
      BY <2>2, BoundsAssumption DEF StartRecord, TypeInv, ChainTypes
    <3>2. todo \in [1..(history + 1) -> 0..MaxRecords] /\ history + 1 \in Nat
      BY <3>1, BoundsAssumption
    <3>3. DOMAIN todo = 1..(history + 1) /\ 1 \in 1..(history + 1)
      BY <3>1, BoundsAssumption
    <3> HIDE DEF todo
    <3>4. Seq(0..MaxRecords) = UNION {[1..n -> 0..MaxRecords] : n \in Nat}
      BY SeqDef
    <3>5. todo \in Seq(0..MaxRecords)
      BY <3>2, <3>4
    <3>6. todo # << >>
      <4>1. DOMAIN todo = 1..Len(todo) /\ Len(todo) \in Nat
        BY <3>5
      <4> QED BY <3>1, <3>3, <4>1
    <3> QED BY <3>1, <3>5, <3>6
  <2> QED BY <2>1, <2>2
<1> DEFINE m == [em[e] EXCEPT !.pc = "lookup", !.todo = todo]
<1>2. /\ em' = [em EXCEPT ![e] = m] /\ overlapped' \in BOOLEAN
      /\ UNCHANGED <<object, current, file, emits, streamVars>>
  BY <1>1 DEF StartEvent, StartRecord, Begin, TypeInv
<1>3. Typed(em[e], Len(object)) /\ Len(object) \in Nat
  BY DEF TypeInv, EmitterTypes, ChainTypes
<1>4. /\ DOMAIN m = {"pc", "chain", "todo", "event", "lines"}
      /\ m.pc = "lookup" /\ m.chain = em[e].chain /\ m.todo = todo
      /\ m.event = em[e].event /\ m.lines = em[e].lines
  BY <1>3 DEF Typed
<1> HIDE DEF m
<1>5. Typed(m, Len(object'))
  BY <1>1, <1>2, <1>3, <1>4 DEF Typed
<1>6. EmitterTypes'
  <2>1. Len(object) \in Nat /\ Len(object') \in Nat /\ Len(object) <= Len(object')
    BY <1>2, <1>3, <1>5
  <2>2. EmitterTypes
    BY DEF TypeInv
  <2> QED BY <1>2, <1>3, <1>5, <2>1, <2>2, EmitterTyped
<1>7. history' \in 0..MaxRecords
  BY BoundsAssumption DEF StartEvent, StartRecord, TypeInv, ChainTypes
<1> QED BY <1>2, <1>6, <1>7 DEF TypeInv, ChainTypes, ReaderTypes, streamVars

\* What an emitter does after it began, but for what it does to the chain.
LEMMA QuietTyped ==
  ASSUME TypeInv, NEW e \in Emitter, Lookup(e) \/ CollectLines(e)
  PROVE  TypeInv'
<1>1. /\ UNCHANGED <<object, current, file, emits, history, streamVars, overlapped>>
      /\ Typed(em[e], Len(object)) /\ Len(object) \in Nat /\ current \in 0..Len(object)
  BY DEF Lookup, CollectLines, TypeInv, EmitterTypes, ChainTypes
<1>2. CASE Lookup(e) /\ current # 0
  <2> DEFINE m == [em[e] EXCEPT !.pc = "link", !.chain = current]
  <2>1. em' = [em EXCEPT ![e] = m] /\ em[e].pc = "lookup"
    BY <1>2 DEF Lookup, At
  <2>2. /\ DOMAIN m = {"pc", "chain", "todo", "event", "lines"}
        /\ m.pc = "link" /\ m.chain = current /\ m.todo = em[e].todo
        /\ m.event = em[e].event /\ m.lines = em[e].lines
    BY <1>1 DEF Typed
  <2> HIDE DEF m
  <2>3. Typed(m, Len(object'))
    BY <1>1, <1>2, <2>1, <2>2 DEF Typed
  <2>4. EmitterTypes'
    <3>1. Len(object) \in Nat /\ Len(object') \in Nat /\ Len(object) <= Len(object')
      BY <1>1, <2>1, <2>3
    <3>2. EmitterTypes
      BY DEF TypeInv
    <3> QED BY <1>1, <2>1, <2>3, <3>1, <3>2, EmitterTyped
  <2> QED BY <1>1, <2>4 DEF TypeInv, ChainTypes, ReaderTypes, streamVars
<1>3. CASE Lookup(e) /\ current = 0
  <2> DEFINE m == [em[e] EXCEPT !.pc = "create"]
  <2>1. em' = [em EXCEPT ![e] = m] /\ em[e].pc = "lookup"
    BY <1>3 DEF Lookup, At
  <2>2. /\ DOMAIN m = {"pc", "chain", "todo", "event", "lines"}
        /\ m.pc = "create" /\ m.chain = em[e].chain /\ m.todo = em[e].todo
        /\ m.event = em[e].event /\ m.lines = em[e].lines
    BY <1>1 DEF Typed
  <2> HIDE DEF m
  <2>3. Typed(m, Len(object'))
    BY <1>1, <2>1, <2>2 DEF Typed
  <2>4. EmitterTypes'
    <3>1. Len(object) \in Nat /\ Len(object') \in Nat /\ Len(object) <= Len(object')
      BY <1>1, <2>1, <2>3
    <3>2. EmitterTypes
      BY DEF TypeInv
    <3> QED BY <1>1, <2>1, <2>3, <3>1, <3>2, EmitterTyped
  <2> QED BY <1>1, <2>4 DEF TypeInv, ChainTypes, ReaderTypes, streamVars
<1>4. CASE CollectLines(e)
  <2> DEFINE m == [em[e] EXCEPT !.pc = "replace", !.lines = object[em[e].chain]]
  <2>1. em' = [em EXCEPT ![e] = m] /\ em[e].pc = "save"
    BY <1>4 DEF CollectLines, At
  <2>2. em[e].chain \in 1..Len(object)
    BY <1>1, <2>1 DEF Typed
  <2>3. object[em[e].chain] \in Seq(Event)
    BY <2>2 DEF TypeInv, ChainTypes
  <2>4. /\ DOMAIN m = {"pc", "chain", "todo", "event", "lines"}
        /\ m.pc = "replace" /\ m.chain = em[e].chain
        /\ m.event = em[e].event /\ m.lines = object[em[e].chain]
    BY <1>1 DEF Typed
  <2> HIDE DEF m
  <2>5. Typed(m, Len(object'))
    BY <1>1, <2>3, <2>4 DEF Typed
  <2>6. EmitterTypes'
    <3>1. Len(object) \in Nat /\ Len(object') \in Nat /\ Len(object) <= Len(object')
      BY <1>1, <2>1, <2>5
    <3>2. EmitterTypes
      BY DEF TypeInv
    <3> QED BY <1>1, <2>1, <2>5, <3>1, <3>2, EmitterTyped
  <2> QED BY <1>1, <2>6 DEF TypeInv, ChainTypes, ReaderTypes, streamVars
<1> QED BY <1>2, <1>3, <1>4

LEMMA CreateTyped ==
  ASSUME TypeInv, NEW e \in Emitter, Create(e)
  PROVE  TypeInv'
<1>1. /\ UNCHANGED <<file, emits, history, streamVars, overlapped>> /\ em[e].pc = "create"
      /\ Typed(em[e], Len(object)) /\ Len(object) \in Nat
  BY DEF Create, At, TypeInv, EmitterTypes, ChainTypes
<1>2. CASE Loadable
  <2> DEFINE m == [em[e] EXCEPT !.pc = "link", !.chain = Len(object) + 1]
  <2>1. /\ object' = Append(object, Loaded) /\ current' = Len(object) + 1
        /\ em' = [em EXCEPT ![e] = m]
    BY <1>2 DEF Create
  <2>2. ChainTypes' /\ Len(object') = Len(object) + 1
    BY <1>1, <2>1, OpenTyped DEF TypeInv
  <2>3. /\ DOMAIN m = {"pc", "chain", "todo", "event", "lines"}
        /\ m.pc = "link" /\ m.chain = Len(object) + 1 /\ m.todo = em[e].todo
        /\ m.event = em[e].event /\ m.lines = em[e].lines
    BY <1>1 DEF Typed
  <2> HIDE DEF m
  <2>4. m.chain \in 0..Len(object') /\ m.chain # 0
    BY <1>1, <2>2, <2>3
  <2>5. Typed(m, Len(object'))
    BY <1>1, <2>3, <2>4 DEF Typed
  <2>6. EmitterTypes'
    <3>1. Len(object) \in Nat /\ Len(object') \in Nat /\ Len(object) <= Len(object')
      BY <1>1, <2>1, <2>2, <2>5
    <3>2. EmitterTypes
      BY DEF TypeInv
    <3> QED BY <1>1, <2>1, <2>2, <2>5, <3>1, <3>2, EmitterTyped
  <2> QED BY <1>1, <2>2, <2>6 DEF TypeInv, ReaderTypes, streamVars
<1>3. CASE ~Loadable
  <2>1. em' = [em EXCEPT ![e] = IdleEmitter] /\ UNCHANGED <<object, current>>
    BY <1>3 DEF Create
  <2>2. Typed(IdleEmitter, Len(object'))
    BY <1>1, <2>1 DEF Typed, IdleEmitter
  <2>3. EmitterTypes'
    <3>1. Len(object) \in Nat /\ Len(object') \in Nat /\ Len(object) <= Len(object')
      BY <1>1, <2>1, <2>2
    <3>2. EmitterTypes
      BY DEF TypeInv
    <3> QED BY <1>1, <2>1, <2>2, <3>1, <3>2, EmitterTyped
  <2> QED BY <1>1, <2>1, <2>3 DEF TypeInv, ChainTypes, ReaderTypes, streamVars
<1> QED BY <1>2, <1>3

LEMMA LinkTyped ==
  ASSUME TypeInv, NEW e \in Emitter, Link(e)
  PROVE  TypeInv'
<1> DEFINE c == object[em[e].chain]
           prev == Log!LastId(Links(c))
           ev == [link |-> [id |-> emits + 1, seq |-> Len(c) + 1, prev |-> prev],
                  record |-> Head(em[e].todo)]
           m == [em[e] EXCEPT !.pc = "append", !.event = ev]
<1>1. /\ em' = [em EXCEPT ![e] = m] /\ em[e].pc = "link"
      /\ emits < MaxEmits /\ emits' = emits + 1
      /\ UNCHANGED <<object, current, file, history, streamVars, overlapped>>
  BY DEF Link, At
<1>2. Typed(em[e], Len(object)) /\ Len(object) \in Nat /\ emits \in 0..MaxEmits
  BY DEF TypeInv, EmitterTypes, ChainTypes
<1>3. c \in Seq(Event) /\ Len(c) \in Nat
  <2>1. em[e].chain \in 1..Len(object)
    BY <1>1, <1>2 DEF Typed
  <2> QED BY <2>1 DEF TypeInv, ChainTypes
<1>4. prev \in 1..MaxEmits \cup {0}
  <2>1. prev = IF Len(c) = 0 THEN 0 ELSE c[Len(c)].link.id
    BY <1>3, LastLink
  <2>2. ASSUME Len(c) # 0 PROVE c[Len(c)].link.id \in 1..MaxEmits
    <3>1. c[Len(c)] \in Event
      BY <1>3, <2>2
    <3> QED BY <3>1 DEF Event, Log!Event
  <2> QED BY <2>1, <2>2
<1>5. /\ DOMAIN m = {"pc", "chain", "todo", "event", "lines"}
      /\ m.pc = "append" /\ m.chain = em[e].chain /\ m.todo = em[e].todo
      /\ m.event = ev /\ m.lines = em[e].lines
  BY <1>2 DEF Typed
<1> HIDE DEF c, prev
<1>6. Head(em[e].todo) \in 0..MaxRecords
  BY <1>1, <1>2, HeadTailProperties DEF Typed
<1>7. emits + 1 \in 1..MaxEmits
  BY <1>1, <1>2, BoundsAssumption
<1>8. ev \in Event
  BY <1>3, <1>4, <1>6, <1>7 DEF Event, Log!Event, Log!Genesis
<1> HIDE DEF ev, m
<1>9. Typed(m, Len(object'))
  BY <1>1, <1>2, <1>5, <1>8 DEF Typed
<1>10. EmitterTypes'
  <2>1. Len(object) \in Nat /\ Len(object') \in Nat /\ Len(object) <= Len(object')
    BY <1>1, <1>2, <1>9
  <2>2. EmitterTypes
    BY DEF TypeInv
  <2> QED BY <1>1, <1>2, <1>9, <2>1, <2>2, EmitterTyped
<1>11. emits' \in 0..MaxEmits
  BY <1>1, <1>7, BoundsAssumption
<1> QED BY <1>1, <1>10, <1>11 DEF TypeInv, ChainTypes, ReaderTypes, streamVars

LEMMA AppendTyped ==
  ASSUME TypeInv, NEW e \in Emitter, AppendEvent(e)
  PROVE  TypeInv'
<1> DEFINE ev == em[e].event
           i == em[e].chain
           grown == Append(object[i], ev)
           m == [em[e] EXCEPT !.pc = "publish", !.todo = Tail(@)]
<1>1. /\ em' = [em EXCEPT ![e] = m] /\ em[e].pc = "append"
      /\ object' = [object EXCEPT ![i] = grown]
      /\ UNCHANGED <<current, file, emits, history, streamVars, overlapped>>
  BY DEF AppendEvent, At
<1>2. Typed(em[e], Len(object)) /\ Len(object) \in Nat /\ object \in Seq(Seq(Event))
  BY DEF TypeInv, EmitterTypes, ChainTypes
<1>3. i \in 1..Len(object) /\ ev \in Event
  BY <1>1, <1>2 DEF Typed
<1>4. Tail(em[e].todo) \in Seq(0..MaxRecords)
  BY <1>1, <1>2, HeadTailProperties DEF Typed
<1>5. /\ DOMAIN m = {"pc", "chain", "todo", "event", "lines"}
      /\ m.pc = "publish" /\ m.chain = i /\ m.todo = Tail(em[e].todo)
      /\ m.event = ev /\ m.lines = em[e].lines
  BY <1>2 DEF Typed
<1>6. object[i] \in Seq(Event)
  BY <1>2, <1>3
<1> HIDE DEF m, i, ev
<1>7. grown \in Seq(Event)
  BY <1>3, <1>6
<1> HIDE DEF grown
<1>8. object' \in Seq(Seq(Event)) /\ Len(object') = Len(object)
  BY <1>1, <1>2, <1>3, <1>7
<1>9. Typed(m, Len(object'))
  BY <1>2, <1>3, <1>4, <1>5, <1>8 DEF Typed
<1>10. EmitterTypes'
  <2>1. Len(object) \in Nat /\ Len(object') \in Nat /\ Len(object) <= Len(object')
    BY <1>1, <1>2, <1>8, <1>9
  <2>2. EmitterTypes
    BY DEF TypeInv
  <2> QED BY <1>1, <1>2, <1>8, <1>9, <2>1, <2>2, EmitterTyped
<1> QED BY <1>1, <1>8, <1>10 DEF TypeInv, ChainTypes, ReaderTypes, streamVars

LEMMA PublishTyped ==
  ASSUME TypeInv, NEW e \in Emitter, Publish(e)
  PROVE  TypeInv'
<1> DEFINE next == IF em[e].todo # << >> /\ emits < MaxEmits THEN "link" ELSE "save"
           m == [em[e] EXCEPT !.pc = next, !.event = NoEvent]
<1>1. /\ em' = [em EXCEPT ![e] = m] /\ em[e].pc = "publish"
      /\ callbacks' = IF conn = "off" THEN callbacks ELSE Append(callbacks, em[e].event)
      /\ UNCHANGED <<object, current, file, emits, history, conn, queue, lastSeq, received,
                     overlapped>>
  BY DEF Publish, At
<1>2. Typed(em[e], Len(object)) /\ Len(object) \in Nat
  BY DEF TypeInv, EmitterTypes, ChainTypes
<1>3. /\ DOMAIN m = {"pc", "chain", "todo", "event", "lines"}
      /\ m.pc \in {"link", "save"} /\ m.chain = em[e].chain /\ m.todo = em[e].todo
      /\ m.event = NoEvent /\ m.lines = em[e].lines
      /\ m.pc = "link" => em[e].todo # << >>
  BY <1>2 DEF Typed
<1> HIDE DEF m, next
<1>4. Typed(m, Len(object'))
  BY <1>1, <1>2, <1>3 DEF Typed
<1>5. EmitterTypes'
  <2>1. Len(object) \in Nat /\ Len(object') \in Nat /\ Len(object) <= Len(object')
    BY <1>1, <1>2, <1>4
  <2>2. EmitterTypes
    BY DEF TypeInv
  <2> QED BY <1>1, <1>2, <1>4, <2>1, <2>2, EmitterTyped
<1>6. callbacks' \in Seq(Event)
  <2>1. em[e].event \in Event /\ callbacks \in Seq(Event)
    BY <1>1, <1>2 DEF Typed, TypeInv, ReaderTypes
  <2> QED BY <1>1, <2>1
<1> QED BY <1>1, <1>5, <1>6 DEF TypeInv, ChainTypes, ReaderTypes

LEMMA ReplaceTyped ==
  ASSUME TypeInv, NEW e \in Emitter, ReplaceFile(e)
  PROVE  TypeInv'
<1>1. /\ em' = [em EXCEPT ![e] = IdleEmitter] /\ em[e].pc = "replace"
      /\ file' \in {file, em[e].lines}
      /\ UNCHANGED <<object, current, emits, history, streamVars, overlapped>>
  BY DEF ReplaceFile, At
<1>2. Typed(em[e], Len(object)) /\ Len(object) \in Nat
  BY DEF TypeInv, EmitterTypes, ChainTypes
<1>3. Typed(IdleEmitter, Len(object'))
  BY <1>1, <1>2 DEF Typed, IdleEmitter
<1>4. EmitterTypes'
  <2>1. Len(object) \in Nat /\ Len(object') \in Nat /\ Len(object) <= Len(object')
    BY <1>1, <1>2, <1>3
  <2>2. EmitterTypes
    BY DEF TypeInv
  <2> QED BY <1>1, <1>2, <1>3, <2>1, <2>2, EmitterTyped
<1>5. file' \in Seq(Event) \cup {NoFile}
  BY <1>1, <1>2 DEF Typed, TypeInv, ChainTypes
<1> QED BY <1>1, <1>4, <1>5 DEF TypeInv, ChainTypes, ReaderTypes, streamVars

LEMMA RestartTyped == ASSUME TypeInv, Restart PROVE TypeInv'
<1>1. /\ object' = << >> /\ current' = 0 /\ em' = [e \in Emitter |-> IdleEmitter]
      /\ conn' = "off" /\ callbacks' = << >> /\ queue' = << >> /\ lastSeq' = 0
      /\ UNCHANGED <<file, emits, history, received, overlapped>>
  BY DEF Restart, Unsubscribed
<1>2. Len(object') = 0 /\ object' \in Seq(Seq(Event))
  BY <1>1
<1>3. EmitterTypes'
  BY <1>1, <1>2 DEF EmitterTypes, Typed, IdleEmitter
<1> QED BY <1>1, <1>2, <1>3, QueueSizeAssumption DEF TypeInv, ChainTypes, ReaderTypes

\* The reader leaves the chains alone, or opens one.
LEMMA ReaderTyped ==
  ASSUME TypeInv, Subscribe \/ StreamStep \/ Disconnect
  PROVE  EmitterTypes' /\ ChainTypes' /\ overlapped' \in BOOLEAN
<1>1. overlapped' \in BOOLEAN
  BY DEF Subscribe, StreamStep, Backlog, BacklogRefused, Put, Deliver, Disconnect, TypeInv
<1>2. CASE UNCHANGED chainVars
  BY <1>1, <1>2 DEF TypeInv, EmitterTypes, ChainTypes, chainVars
<1>3. CASE /\ current = 0 /\ object' = Append(object, Loaded)
           /\ current' = Len(object) + 1 /\ UNCHANGED <<file, em, emits, history>>
  <2>1. ChainTypes' /\ Len(object') = Len(object) + 1 /\ Len(object) \in Nat
    BY <1>3, OpenTyped, ServedTyped DEF TypeInv
  <2>2. EmitterTypes'
    BY <1>3, <2>1 DEF TypeInv, EmitterTypes, Typed
  <2> QED BY <1>1, <2>1, <2>2
<1> QED BY <1>2, <1>3, ReaderSteps

\* Some place of the chain comes first among those with the id of the cursor.
LEMMA PositionExists ==
  ASSUME NEW c \in Seq(Event), NEW cursor, \E k \in DOMAIN c : c[k].link.id = cursor
  PROVE  Position(c, cursor) \in 1..Len(c)
<1> DEFINE T == {k \in DOMAIN c : c[k].link.id = cursor}
<1>1. T \subseteq Nat /\ T # {} /\ DOMAIN c = 1..Len(c) /\ Len(c) \in Nat
  OBVIOUS
<1> HIDE DEF T
<1>2. \E n \in T : \A k \in T : ~(<<k, n>> \in OpToRel(<, Nat))
  BY <1>1, WFMin, NatLessThanWellFounded, Zenon
<1>3. PICK n \in T : \A k \in T : ~(<<k, n>> \in OpToRel(<, Nat))
  BY <1>2
<1>4. \A k \in T : ~(k < n)
  <2> SUFFICES ASSUME NEW k \in T, k < n PROVE FALSE
    OBVIOUS
  <2>1. k \in Nat /\ n \in Nat
    BY <1>1
  <2>2. <<k, n>> \in OpToRel(<, Nat)
    BY <2>1, Zenon DEF OpToRel
  <2> QED BY <1>3, <2>2
<1>5. n \in DOMAIN c /\ c[n].link.id = cursor
  BY DEF T
<1>6. ASSUME NEW k \in 1..(n - 1) PROVE c[k].link.id # cursor
  <2>1. k \in DOMAIN c /\ k < n
    BY <1>1, <1>5
  <2> QED BY <1>4, <2>1 DEF T
<1>7. \E i \in DOMAIN c : c[i].link.id = cursor /\ \A k \in 1..(i - 1) : c[k].link.id # cursor
  BY <1>5, <1>6
<1> QED BY <1>1, <1>7 DEF Position

LEMMA BacklogTyped == ASSUME TypeInv, Backlog PROVE TypeInv'
<1> DEFINE c == Served
           items == IF Cursor = 0 THEN c ELSE After(c, Cursor)
<1>1. /\ conn' = "live" /\ Known(c, Cursor) /\ received' = received \o items
      /\ lastSeq' = IF items = << >> THEN 0 ELSE items[Len(items)].link.seq
      /\ UNCHANGED <<callbacks, queue>>
  BY DEF Backlog, Served
<1>2. EmitterTypes' /\ ChainTypes' /\ overlapped' \in BOOLEAN
  BY ReaderTyped DEF StreamStep
<1>3. c \in Seq(Event) /\ received \in Seq(Event)
  BY ServedTyped DEF TypeInv, ReaderTypes
<1> HIDE DEF c
<1>4. items \in Seq(Event)
  <2>1. CASE Cursor = 0
    BY <1>3, <2>1
  <2>2. CASE Cursor # 0
    <3>1. Position(c, Cursor) \in 1..Len(c)
      BY <1>1, <1>3, <2>2, PositionExists DEF Known
    <3>2. After(c, Cursor) \in Seq(Event)
      BY <1>3, <3>1, RestOf DEF After
    <3> QED BY <2>2, <3>2
  <2> QED BY <2>1, <2>2
<1> HIDE DEF items
<1>5. received' \in Seq(Event)
  BY <1>1, <1>3, <1>4, ConcatProperties
<1>6. lastSeq' \in Nat
  <2>1. ASSUME items # << >> PROVE items[Len(items)].link.seq \in Nat
    <3>1. items[Len(items)] \in Event
      BY <1>4, <2>1
    <3> QED BY <3>1, EventFields
  <2> QED BY <1>1, <2>1
<1> QED BY <1>1, <1>2, <1>5, <1>6 DEF TypeInv, ReaderTypes

\* An event joins the end of a queue.
LEMMA EventJoins ==
  ASSUME NEW q \in Seq(Event), NEW e \in Event
  PROVE  Append(q, e) \in Seq(Event) /\ Len(Append(q, e)) = Len(q) + 1
OBVIOUS

LEMMA StreamTyped ==
  ASSUME TypeInv, Subscribe \/ BacklogRefused \/ Put \/ Deliver \/ Disconnect
  PROVE  TypeInv'
<1>1. EmitterTypes' /\ ChainTypes' /\ overlapped' \in BOOLEAN
  BY ReaderTyped DEF StreamStep
<1>2. ReaderTypes
  BY DEF TypeInv
<1>3. CASE Subscribe
  BY <1>2, <1>3, <1>1 DEF Subscribe, ReaderTypes, TypeInv
<1>4. CASE BacklogRefused \/ Disconnect
  <2>1. /\ conn' = "off" /\ callbacks' = << >> /\ queue' = << >> /\ lastSeq' = 0
        /\ received' = << >> \/ received' = received
    BY <1>4 DEF BacklogRefused, Disconnect, Unsubscribed
  <2>2. << >> \in Seq(Event) /\ Len(<< >>) = 0 /\ Len(<< >>) <= QueueSize
    BY QueueSizeAssumption
  <2>3. ReaderTypes'
    BY <1>2, <2>1, <2>2 DEF ReaderTypes
  <2> QED BY <1>1, <2>3 DEF TypeInv
<1>5. CASE Put
  <2> DEFINE ev == Head(callbacks)
  <2>1. /\ callbacks # << >> /\ callbacks' = Tail(callbacks)
        /\ UNCHANGED <<conn, lastSeq, received>>
        /\ IF Len(queue) < QueueSize THEN queue' = Append(queue, ev)
           ELSE queue' = Append(Tail(queue), ev)
    BY <1>5 DEF Put
  <2>2. ev \in Event /\ callbacks' \in Seq(Event)
    BY <1>2, <2>1 DEF ReaderTypes
  <2> HIDE DEF ev
  <2>3. queue \in Seq(Event) /\ Len(queue) \in Nat /\ Len(queue) <= QueueSize /\ QueueSize \in Nat
        /\ QueueSize # 0
    BY <1>2, QueueSizeAssumption DEF ReaderTypes
  <2>4. queue' \in Seq(Event) /\ Len(queue') <= QueueSize
    <3>1. CASE Len(queue) < QueueSize
      <4>1. queue' = Append(queue, ev)
        BY <2>1, <3>1
      <4>2. queue' \in Seq(Event) /\ Len(queue') = Len(queue) + 1
        BY <2>2, <2>3, <4>1, EventJoins
      <4> QED BY <2>3, <3>1, <4>2
    <3>2. CASE ~(Len(queue) < QueueSize)
      <4> DEFINE t == Tail(queue)
      <4>1. t \in Seq(Event) /\ Len(t) = Len(queue) - 1
        BY <2>3, <3>2
      <4>2. queue' = Append(t, ev)
        BY <2>1, <3>2
      <4> HIDE DEF t
      <4>3. queue' \in Seq(Event) /\ Len(queue') = Len(t) + 1
        BY <2>2, <4>1, <4>2, EventJoins
      <4> QED BY <2>3, <4>1, <4>3
    <3> QED BY <3>1, <3>2
  <2>5. ReaderTypes'
    BY <1>2, <2>1, <2>2, <2>4 DEF ReaderTypes
  <2> QED BY <1>1, <2>5 DEF TypeInv
<1>6. CASE Deliver
  <2> DEFINE ev == Head(queue)
  <2>1. /\ queue # << >> /\ queue' = Tail(queue) /\ UNCHANGED <<conn, callbacks>>
        /\ \/ UNCHANGED <<lastSeq, received>>
           \/ lastSeq' = ev.link.seq /\ received' = Append(received, ev)
    BY <1>6 DEF Deliver
  <2>2. /\ ev \in Event /\ queue' \in Seq(Event) /\ Len(queue') <= QueueSize
        /\ received \in Seq(Event) /\ lastSeq \in Nat
    BY <1>2, <2>1, QueueSizeAssumption DEF ReaderTypes
  <2> HIDE DEF ev
  <2>3. ev.link.seq \in Nat /\ Append(received, ev) \in Seq(Event)
    BY <2>2, EventFields
  <2> QED BY <1>1, <1>2, <2>1, <2>2, <2>3 DEF ReaderTypes, TypeInv
<1> QED BY <1>3, <1>4, <1>5, <1>6

LEMMA NextTypes == TypeInv /\ [Next]_vars => TypeInv'
<1> SUFFICES ASSUME TypeInv, [Next]_vars PROVE TypeInv'
  OBVIOUS
<1>1. ASSUME NEW e \in Emitter, StartEvent(e) \/ StartRecord(e) \/ EmitStep(e)
      PROVE  TypeInv'
  BY <1>1, StartTyped, QuietTyped, CreateTyped, LinkTyped, AppendTyped, PublishTyped,
     ReplaceTyped DEF EmitStep
<1>2. CASE Subscribe \/ StreamStep \/ Disconnect
  BY <1>2, BacklogTyped, StreamTyped DEF StreamStep
<1>3. CASE Restart
  BY <1>3, RestartTyped
<1>4. CASE UNCHANGED vars
  BY <1>4 DEF vars, chainVars, streamVars, TypeInv, EmitterTypes, ChainTypes, ReaderTypes
<1> QED BY <1>1, <1>2, <1>3, <1>4 DEF Next

\* Every state of the trail and of its reader has the type it should have, with
\* any number of emitters at work at once: no step takes an event, a chain or a
\* record that is not there, and the queue never holds more than its bound.
THEOREM TypeCorrect == Spec => []TypeOK
<1>1. TypeInv => TypeOK
  <2> SUFFICES ASSUME TypeInv PROVE TypeOK
    OBVIOUS
  <2>1. ASSUME NEW e \in Emitter
        PROVE  /\ em[e].pc \in {"idle", "lookup", "create", "link", "append", "publish", "save",
                                "replace"}
               /\ em[e].chain \in 0..Len(object) /\ em[e].event \in Event \cup {NoEvent}
               /\ em[e].lines \in Seq(Event) \cup {NoFile}
    BY DEF TypeInv, EmitterTypes, Typed
  <2> QED BY <2>1 DEF TypeInv, ChainTypes, ReaderTypes, TypeOK
<1> QED BY <1>1, InitTypes, NextTypes, PTL DEF Spec

=============================================================================
