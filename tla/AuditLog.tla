------------------------------ MODULE AuditLog ------------------------------
(***************************************************************************)
(* What the audit trail of one incident promises: a log that only grows,   *)
(* each event linked to the one before it and numbered in order, of which  *)
(* a restart loses at most the newest events that were never persisted.    *)
(***************************************************************************)
EXTENDS Naturals, Sequences

CONSTANT
  EventId     \* what curr_hash identifies: one emission

VARIABLES
  log,
  durable     \* how much of it is persisted

Genesis == 0

\* AuditEvent, reduced to its place in the chain.
Event == [id : EventId, seq : Nat \ {0}, prev : EventId \cup {Genesis}]

\* The link the next event needs.
LastId(c) == IF c = << >> THEN Genesis ELSE c[Len(c)].id

\* AuditChain.verify(): every event numbered by its place and linked to the
\* event before it.
Verifies(c) ==
  \A k \in DOMAIN c :
    /\ c[k].seq = k
    /\ c[k].prev = IF k = 1 THEN Genesis ELSE c[k - 1].id

Init == log = << >> /\ durable = 0

Extend ==
  /\ \E i \in EventId :
       /\ \A k \in DOMAIN log : log[k].id # i
       /\ log' = Append(log, [id |-> i, seq |-> Len(log) + 1, prev |-> LastId(log)])
  /\ UNCHANGED durable

Persist == durable' \in durable..Len(log) /\ UNCHANGED log

LoseTail ==
  /\ \E n \in durable..Len(log) : log' = SubSeq(log, 1, n)
  /\ UNCHANGED durable

Next == Extend \/ Persist \/ LoseTail

vars == <<log, durable>>

Spec == Init /\ [][Next]_vars

=============================================================================
