---------------------------- MODULE ApprovalGate ----------------------------
(***************************************************************************)
(* backend/app/routers/approvals.py over backend/app/services/approval.py: *)
(* the queue of approval requests, its lazy reload from approvals.json,    *)
(* the handlers that decide the requests, and the minting of execution     *)
(* permits.                                                                *)
(*                                                                         *)
(* The HTTP handlers are plain functions, so FastAPI runs them on a thread *)
(* pool and they interleave.  REQUESTS and approvals.json have no lock     *)
(* (runs.py has one); only NonceStore.consume is atomic.  A handler is     *)
(* therefore split at each access to shared state: the reload that it may  *)
(* begin with, the status check, the nonce burn, the status write, the     *)
(* snapshot save_store takes, the rename that publishes it, and the steps  *)
(* of the mint, which reads the clock twice.                               *)
(*                                                                         *)
(* Data left out: roles, key ids, signatures and scopes (a credential that *)
(* fails those checks changes no state here), the audit events, and the    *)
(* response cache (a cached response changes no state).  nonces.jsonl is   *)
(* assumed writable: NonceStore flags the loss of durability otherwise.    *)
(***************************************************************************)
EXTENDS Naturals, Sequences, FiniteSets

CONSTANTS
  Approval,     \* approval ids
  Thread,       \* handler threads
  Ttl,          \* ttl_seconds of a request
  Freshness,    \* PERMIT_FRESHNESS_S
  PerKey,       \* identity mode "per_key"; otherwise "bootstrap"
  DiskFails,    \* os.replace on approvals.json may raise
  WorkerStops,  \* the orchestrator may be disabled or not running
  MaxTime,      \* bound of the clock
  MaxCrashes    \* bound of the crashes

ASSUME TtlAssumption == Ttl \in Nat \ {0}
ASSUME FreshnessAssumption == Freshness \in Nat
ASSUME BoundsAssumption == MaxTime \in Nat /\ MaxCrashes \in Nat
ASSUME FlagAssumption ==
  PerKey \in BOOLEAN /\ DiskFails \in BOOLEAN /\ WorkerStops \in BOOLEAN
ASSUME ApprovalAssumption == Approval # {}

VARIABLES
  status,       \* REQUESTS[a]["status"], "none" for an id that it does not hold
  disk,         \* the statuses in approvals.json; Empty while there is no file
  expires,      \* req.expires_at; 0 before the request is raised
  nonces,       \* nonces.jsonl: burned token and permit nonces
  thr,          \* where each handler thread is
  clock,        \* utcnow() and time.time()
  minted,       \* history: the permits minted, in order
  answers,      \* what callers were told: <<a, "token">> when the request's
                \* token was returned, <<a, "denied">> when a view said so
  disturbed,    \* history: two handlers ran at once, or a write failed
  crashes       \* crashes so far

vars == <<status, disk, expires, nonces, thr, clock, minted, answers, disturbed, crashes>>

Status == {"none", "pending", "approved", "denied", "expired"}

Statuses == [Approval -> Status]

Nonce == Approval \X {"token", "permit"}

\* a: the approval handled; own: the caller's actor is the requester's;
\* stale: the entry the handler holds is no longer the one in REQUESTS;
\* snap: the snapshot save_store took, or what load_store read;
\* then: what follows the save or the reload.
Handler ==
  {h \in [pc : {"idle", "load", "fill", "ready", "verify", "approve", "deny", "save", "replace",
                "view", "trigger", "mint", "burn", "issue"},
          a : Approval, own : BOOLEAN, stale : BOOLEAN, snap : Statuses,
          then : {"idle", "ready", "request", "view", "trigger"}] :
     h.pc \in {"load", "fill"} => h.then \in {"ready", "view", "trigger"}}

NewPermit == [ref : Approval, expires : Nat, under : Status]

-----------------------------------------------------------------------------

Empty == [a \in Approval |-> "none"]

IdleHandler ==
  [pc |-> "idle", a |-> CHOOSE a \in Approval : TRUE, own |-> TRUE, stale |-> FALSE,
   snap |-> Empty, then |-> "idle"]

Init ==
  /\ status = Empty
  /\ disk = status
  /\ expires = [a \in Approval |-> 0]
  /\ nonces = {}
  /\ thr = [t \in Thread |-> IdleHandler]
  /\ clock = 0
  /\ minted = << >>
  /\ answers = {}
  /\ disturbed = FALSE
  /\ crashes = 0

Idle(t) == thr[t].pc = "idle"

At(t, pc) == thr[t].pc = pc

Goto(t, pc) == thr' = [thr EXCEPT ![t].pc = pc]

\* The handler returns.
Done(t) == thr' = [thr EXCEPT ![t] = IdleHandler]

\* _save_best_effort follows; after it the handler goes on at then.
SaveThen(t, a, then) ==
  thr' = [thr EXCEPT ![t].pc = "save", ![t].a = a, ![t].then = then, ![t].stale = FALSE]

SetStatus(a, s) == status' = [status EXCEPT ![a] = s]

\* The entry that the handler fetched gets another status.
SetHeld(t, s) == IF thr[t].stale THEN UNCHANGED status ELSE SetStatus(thr[t].a, s)

Min2(m, n) == IF m < n THEN m ELSE n

-----------------------------------------------------------------------------
(* _ensure_loaded, with which every access to REQUESTS begins.             *)

\* One handler at a time so far, this one included.
Begins(t) == disturbed' = (disturbed \/ \E u \in Thread \ {t} : ~Idle(u))

\* REQUESTS holds something, or there is no file: nothing to load.
Loaded == status # Empty \/ disk = Empty

Enter(t) ==
  /\ Idle(t) /\ Loaded
  /\ Goto(t, "ready")
  /\ Begins(t)
  /\ UNCHANGED <<status, disk, expires, nonces, clock, minted, answers, crashes>>

\* load_store() reads the file, at the start of a handler or, if another
\* handler has just cleared REQUESTS, in its middle.
ReadFile(t) ==
  /\ thr[t].pc \in {"idle", "view", "trigger"} /\ status = Empty
  /\ thr' = [thr EXCEPT ![t].pc = "load", ![t].snap = disk,
                        ![t].then = IF Idle(t) THEN "ready" ELSE thr[t].pc]
  /\ IF Idle(t) THEN Begins(t) ELSE UNCHANGED disturbed
  /\ UNCHANGED <<status, disk, expires, nonces, clock, minted, answers, crashes>>

\* The handler holds an entry of REQUESTS.
Holds(t) == thr[t].pc \in {"verify", "approve", "deny", "mint"}

\* REQUESTS.clear() ...
Clear(t) ==
  /\ At(t, "load")
  /\ status' = Empty
  /\ thr' = [u \in Thread |->
               IF u = t THEN [thr[u] EXCEPT !.pc = "fill"]
               ELSE IF Holds(u) THEN [thr[u] EXCEPT !.stale = TRUE] ELSE thr[u]]
  /\ UNCHANGED <<disk, expires, nonces, clock, minted, answers, disturbed, crashes>>

\* ... and REQUESTS.update(staged).
Fill(t) ==
  LET staged == thr[t].snap IN
  /\ At(t, "fill")
  /\ status' = [a \in Approval |-> IF staged[a] = "none" THEN status[a] ELSE staged[a]]
  /\ thr' = [u \in Thread |->
               IF u = t THEN [thr[u] EXCEPT !.pc = thr[t].then, !.snap = Empty, !.then = "idle"]
               ELSE IF Holds(u) /\ staged[thr[u].a] # "none" THEN [thr[u] EXCEPT !.stale = TRUE]
               ELSE thr[u]]
  /\ UNCHANGED <<disk, expires, nonces, clock, minted, answers, disturbed, crashes>>

\* A view, or a call that is refused: 404, 403, 409, 410 or 422.
Return(t) ==
  /\ At(t, "ready")
  /\ Done(t)
  /\ UNCHANGED <<status, disk, expires, nonces, clock, minted, answers, disturbed, crashes>>

-----------------------------------------------------------------------------
(* NonceStore.                                                             *)

\* Bug: the permit's derived nonce is burned but never checked.
UnusedUnlessPermit(n) == n \notin nonces \/ n[2] = "permit"

Unused(n) == n \notin nonces

\* consume: a durable, locked check and set.
Consume(n) == Unused(n) /\ nonces' = nonces \cup {n}

-----------------------------------------------------------------------------
(* Requesting.                                                             *)

\* request_approval
Request(t, a) ==
  /\ At(t, "ready") /\ expires[a] = 0
  /\ expires' = [expires EXCEPT ![a] = clock + Ttl]
  /\ SetStatus(a, "pending")
  /\ SaveThen(t, a, "request")
  /\ UNCHANGED <<disk, nonces, clock, minted, answers, disturbed, crashes>>

-----------------------------------------------------------------------------
(* Approving.                                                              *)

\* approve_approval found the request pending.  The caller has the token that
\* the request returned; in bootstrap mode it only verifies for the requester's
\* own actor.
Approve(t, a, own) ==
  /\ At(t, "ready") /\ status[a] = "pending"
  /\ <<a, "token">> \in answers
  /\ own \/ PerKey
  /\ thr' = [thr EXCEPT ![t].pc = "verify", ![t].a = a, ![t].own = own]
  /\ UNCHANGED <<status, disk, expires, nonces, clock, minted, answers, disturbed, crashes>>

\* approval.verify raises "approval expired".
VerifyExpired(t) ==
  LET a == thr[t].a IN
  /\ At(t, "verify") /\ clock >= expires[a]
  /\ SetHeld(t, "expired")
  /\ SaveThen(t, a, "idle")
  /\ UNCHANGED <<disk, expires, nonces, clock, minted, answers, disturbed, crashes>>

\* Bug: the token is checked but not burned.
VerifyWithoutBurn(t) ==
  LET a == thr[t].a IN
  /\ At(t, "verify") /\ clock < expires[a]
  /\ Goto(t, "approve")
  /\ UNCHANGED <<status, disk, expires, nonces, clock, minted, answers, disturbed, crashes>>

\* approval.verify burns the token's nonce.
Verify(t) ==
  LET a == thr[t].a IN
  /\ At(t, "verify") /\ clock < expires[a]
  /\ Consume(<<a, "token">>)
  /\ Goto(t, "approve")
  /\ UNCHANGED <<status, disk, expires, clock, minted, answers, disturbed, crashes>>

\* approval.verify raises "token replayed".
VerifyReplayed(t) ==
  LET a == thr[t].a IN
  /\ At(t, "verify") /\ clock < expires[a]
  /\ ~Unused(<<a, "token">>)
  /\ Done(t)
  /\ UNCHANGED <<status, disk, expires, nonces, clock, minted, answers, disturbed, crashes>>

WriteApproved(t) ==
  LET a == thr[t].a IN
  /\ At(t, "approve")
  /\ SetHeld(t, "approved")
  /\ SaveThen(t, a, "trigger")
  /\ UNCHANGED <<disk, expires, nonces, clock, minted, answers, disturbed, crashes>>

-----------------------------------------------------------------------------
(* Denying and expiring.                                                   *)

\* reject_approval found the request pending.
Reject(t, a) ==
  /\ At(t, "ready") /\ status[a] = "pending"
  /\ thr' = [thr EXCEPT ![t].pc = "deny", ![t].a = a]
  /\ UNCHANGED <<status, disk, expires, nonces, clock, minted, answers, disturbed, crashes>>

\* Bug: the denial is answered without being saved.
WriteDeniedUnsaved(t) ==
  /\ At(t, "deny")
  /\ SetHeld(t, "denied")
  /\ thr' = [thr EXCEPT ![t].pc = "view", ![t].stale = FALSE]
  /\ UNCHANGED <<disk, expires, nonces, clock, minted, answers, disturbed, crashes>>

WriteDenied(t) ==
  /\ At(t, "deny")
  /\ SetHeld(t, "denied")
  /\ SaveThen(t, thr[t].a, "view")
  /\ UNCHANGED <<disk, expires, nonces, clock, minted, answers, disturbed, crashes>>

\* reject_approval's approval_view tells the caller the status it finds.
View(t) ==
  LET a == thr[t].a IN
  /\ At(t, "view") /\ Loaded
  /\ answers' = IF status[a] = "denied" THEN answers \cup {<<a, "denied">>} ELSE answers
  /\ Done(t)
  /\ UNCHANGED <<status, disk, expires, nonces, clock, minted, disturbed, crashes>>

\* The requests whose time has passed.
Overdue == {a \in Approval : status[a] = "pending" /\ expires[a] <= clock}

\* Bug: a status load_store does not know.
SweepApprovalsToTimeout(t) ==
  /\ At(t, "ready")
  /\ status' = [a \in Approval |-> IF a \in Overdue THEN "timeout" ELSE status[a]]
  /\ SaveThen(t, thr[t].a, "idle")
  /\ UNCHANGED <<disk, expires, nonces, clock, minted, answers, disturbed, crashes>>

\* sweep_approvals, which saves whether anything expired or not.
SweepApprovals(t) ==
  /\ At(t, "ready")
  /\ status' = [a \in Approval |-> IF a \in Overdue THEN "expired" ELSE status[a]]
  /\ SaveThen(t, thr[t].a, "idle")
  /\ UNCHANGED <<disk, expires, nonces, clock, minted, answers, disturbed, crashes>>

-----------------------------------------------------------------------------
(* save_store.                                                             *)

\* The payload is built from REQUESTS.
Snapshot(t) ==
  /\ At(t, "save")
  /\ thr' = [thr EXCEPT ![t].pc = "replace", ![t].snap = status]
  /\ UNCHANGED <<status, disk, expires, nonces, clock, minted, answers, disturbed, crashes>>

\* The handler goes on; a request is answered with its token.
AfterSave(t) ==
  LET h == thr[t] IN
  /\ IF h.then \in {"view", "trigger"}
     THEN thr' = [thr EXCEPT ![t].pc = h.then, ![t].snap = Empty, ![t].then = "idle"]
     ELSE Done(t)
  /\ answers' = IF h.then = "request" THEN answers \cup {<<h.a, "token">>} ELSE answers

\* os.replace publishes the snapshot.
Replace(t) ==
  /\ At(t, "replace")
  /\ disk' = thr[t].snap
  /\ AfterSave(t)
  /\ UNCHANGED <<status, expires, nonces, clock, minted, disturbed, crashes>>

\* os.replace raises OSError, which _save_best_effort swallows.
ReplaceFails(t) ==
  /\ DiskFails /\ At(t, "replace")
  /\ AfterSave(t)
  /\ disturbed' = TRUE
  /\ UNCHANGED <<status, disk, expires, nonces, clock, minted, crashes>>

-----------------------------------------------------------------------------
(* Minting.                                                                *)

\* _trigger_resume found no enabled, running worker.
TriggerNoWorker(t) ==
  /\ WorkerStops /\ At(t, "trigger")
  /\ Done(t)
  /\ UNCHANGED <<status, disk, expires, nonces, clock, minted, answers, disturbed, crashes>>

\* Bug: _trigger_resume calls verified_permit without the credentials.
TriggerWithBlanks(t) ==
  /\ At(t, "trigger")
  /\ Done(t)
  /\ UNCHANGED <<status, disk, expires, nonces, clock, minted, answers, disturbed, crashes>>

\* _trigger_resume's worker runs and verified_permit reads the status.
Trigger(t) ==
  /\ At(t, "trigger") /\ Loaded
  /\ IF status[thr[t].a] = "approved" THEN Goto(t, "mint") ELSE Done(t)
  /\ UNCHANGED <<status, disk, expires, nonces, clock, minted, answers, disturbed, crashes>>

\* POST /runs/{id}/advance to APPROVED: verified_permit on the caller's
\* approval_id, token and actor.
MintForAdvance(t, a) ==
  /\ At(t, "ready") /\ status[a] = "approved"
  /\ thr' = [thr EXCEPT ![t].pc = "mint", ![t].a = a, ![t].own = TRUE]
  /\ UNCHANGED <<status, disk, expires, nonces, clock, minted, answers, disturbed, crashes>>

\* verified_permit: expired.  The status is not saved.
MintExpired(t) ==
  /\ At(t, "mint") /\ clock >= expires[thr[t].a]
  /\ SetHeld(t, "expired")
  /\ Done(t)
  /\ UNCHANGED <<disk, expires, nonces, clock, minted, answers, disturbed, crashes>>

\* Bug: the permit's nonce is burned before the actor is compared.
RefusedAfterBurn(t) ==
  /\ At(t, "mint") /\ clock < expires[thr[t].a]
  /\ ~thr[t].own
  /\ nonces' = nonces \cup {<<thr[t].a, "permit">>}
  /\ Done(t)
  /\ UNCHANGED <<status, disk, expires, clock, minted, answers, disturbed, crashes>>

\* verified_permit: the actor is not the requester's.
MintRefused(t) ==
  /\ At(t, "mint") /\ clock < expires[thr[t].a]
  /\ ~thr[t].own
  /\ Done(t)
  /\ UNCHANGED <<status, disk, expires, nonces, clock, minted, answers, disturbed, crashes>>

\* verified_permit: the token verifies, at this reading of the clock ...
MintVerified(t) ==
  /\ At(t, "mint") /\ clock < expires[thr[t].a]
  /\ thr[t].own
  /\ thr' = [thr EXCEPT ![t].pc = "burn", ![t].stale = FALSE]
  /\ UNCHANGED <<status, disk, expires, nonces, clock, minted, answers, disturbed, crashes>>

\* ... its derived nonce is burned, durably ...
Burn(t) ==
  /\ At(t, "burn")
  /\ Consume(<<thr[t].a, "permit">>)
  /\ Goto(t, "issue")
  /\ UNCHANGED <<status, disk, expires, clock, minted, answers, disturbed, crashes>>

\* ... or was before: "permit already minted for this approval" ...
BurnReplayed(t) ==
  /\ At(t, "burn") /\ ~Unused(<<thr[t].a, "permit">>)
  /\ Done(t)
  /\ UNCHANGED <<status, disk, expires, nonces, clock, minted, answers, disturbed, crashes>>

\* ... and the permit is made of a later reading of the clock, by which the
\* approval, and the permit with it, may have expired.
Issue(t) ==
  LET a == thr[t].a IN
  /\ At(t, "issue")
  /\ minted' = Append(minted, [ref |-> a, expires |-> Min2(expires[a], clock + Freshness),
                               under |-> status[a]])
  /\ Done(t)
  /\ UNCHANGED <<status, disk, expires, nonces, clock, answers, disturbed, crashes>>

-----------------------------------------------------------------------------
(* The environment.                                                        *)

\* The process dies and restarts: the handlers and the memory are gone, the
\* nonces are read back.
Restart ==
  /\ crashes < MaxCrashes
  /\ crashes' = crashes + 1
  /\ status' = Empty
  /\ thr' = [t \in Thread |-> IdleHandler]
  /\ UNCHANGED <<disk, expires, nonces, clock, minted, answers, disturbed>>

Tick ==
  /\ clock < MaxTime
  /\ clock' = clock + 1
  /\ UNCHANGED <<status, disk, expires, nonces, thr, minted, answers, disturbed, crashes>>

\* What a started handler does next, with a running worker.
Proceed(t) ==
  \/ (~Idle(t) /\ ReadFile(t)) \/ Clear(t) \/ Fill(t)
  \/ VerifyExpired(t) \/ Verify(t) \/ VerifyReplayed(t) \/ WriteApproved(t)
  \/ WriteDenied(t) \/ View(t)
  \/ Snapshot(t) \/ Replace(t)
  \/ Trigger(t)
  \/ MintExpired(t) \/ MintRefused(t) \/ MintVerified(t)
  \/ Burn(t) \/ BurnReplayed(t) \/ Issue(t)

Next ==
  \/ \E t \in Thread :
       \/ Enter(t) \/ ReadFile(t) \/ Proceed(t) \/ Return(t)
       \/ TriggerNoWorker(t) \/ ReplaceFails(t) \/ SweepApprovals(t)
       \/ \E a \in Approval :
            \/ Request(t, a) \/ Reject(t, a) \/ MintForAdvance(t, a)
            \/ \E own \in BOOLEAN : Approve(t, a, own)
  \/ Restart
  \/ Tick

Spec == Init /\ [][Next]_vars

\* FastAPI's thread pool runs a handler it started to its end.  Nobody is
\* obliged to raise, decide or advance anything.
LiveSpec == Spec /\ \A t \in Thread : WF_vars(Proceed(t))

-----------------------------------------------------------------------------
(* Properties.                                                             *)

Permits(a) == {i \in DOMAIN minted : minted[i].ref = a}

TypeOK ==
  /\ status \in Statuses /\ disk \in Statuses
  /\ expires \in [Approval -> Nat]
  /\ nonces \in SUBSET Nonce
  /\ thr \in [Thread -> Handler]
  /\ clock \in 0..MaxTime /\ crashes \in 0..MaxCrashes
  /\ minted \in Seq(NewPermit)
  /\ answers \in SUBSET (Approval \X {"token", "denied"})
  /\ disturbed \in BOOLEAN

\* "One approval mints at most one permit (single-use end to end)": the resume
\* trigger and POST /runs/{id}/advance race for it, before and after restarts
\* whose approvals.json is stale.
OnePermit == \A i, j \in DOMAIN minted : minted[i].ref = minted[j].ref => i = j

\* Nothing reads "approved" in memory or on disk, and no permit exists, unless
\* the approval's token was burned: no interleaving of decisions, saves and
\* restarts approves a request without its token.
ApprovedByToken ==
  \A a \in Approval :
    "approved" \in {status[a], disk[a]} \/ Permits(a) # {} => <<a, "token">> \in nonces

\* "Minting burns a single-use nonce", so one that buys no permit "would spend
\* the one permit this approval can ever produce on nothing" (_trigger_resume):
\* a burned permit nonce has its permit, or a thread is about to make it.  Only
\* a crash between the two, which nothing can tell from a permit in use, may
\* waste it; a refusal, a lost race and a reload never do.
PermitNotWasted ==
  \A a \in Approval :
    <<a, "permit">> \in nonces /\ crashes = 0 =>
      Permits(a) # {} \/ \E t \in Thread : At(t, "issue") /\ thr[t].a = a

\* What the store has on record of a request: memory, or the file while memory
\* is to be loaded.
Record(a) == IF status = Empty THEN disk[a] ELSE status[a]

\* A denial that a caller was told is final, through later calls, expiries,
\* crashes at any point and reloads: the request stays denied and has no permit,
\* as long as no two handlers have run at once and no write has failed.
DenialSticks ==
  ~disturbed =>
    \A a \in Approval :
      <<a, "denied">> \in answers => Record(a) = "denied" /\ Permits(a) = {}

\* The executor's view of the gate: grants and permits are one-way and single.
Ledger == INSTANCE PermitLedger WITH
  phase   <- [a \in Approval |->
                IF Permits(a) # {} THEN "issued"
                ELSE IF <<a, "token">> \in nonces THEN "granted" ELSE "open"],
  permits <- [a \in Approval |-> Cardinality(Permits(a))]

ImplementsLedger == Ledger!Spec

\* The seam that makes the lifecycle close: an approval given while a worker
\* runs yields its permit, unless it expires or the process dies first.
ApprovedIsResumed ==
  \A a \in Approval :
    status[a] = "approved" ~> Permits(a) # {} \/ clock >= expires[a] \/ crashes > 0

\* approved_action: "a caller cannot resume on a pending, denied, expired or
\* replayed request".
PermitOnlyWhileApproved == \A i \in DOMAIN minted : minted[i].under = "approved"

\* _trigger_resume: "the human decision is already durably recorded".
DecisionIsDurable ==
  \A t \in Thread :
    At(t, "trigger") /\ status[thr[t].a] = "approved" => disk[thr[t].a] = "approved"

=============================================================================
