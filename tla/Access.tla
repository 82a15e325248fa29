------------------------------- MODULE Access -------------------------------
(***************************************************************************)
(* Who decides an approval, and what they are told: routers/auth.py        *)
(* resolves a caller to an identity, and the handlers of                   *)
(* routers/approvals.py authorize it, park and list proposals, raise and   *)
(* decide requests, and answer a repeated call from their cache.           *)
(*                                                                         *)
(* ApprovalGate has the threads, the nonces, the permits and the writes of *)
(* the disk that fail; a handler is one step here, and every save reaches  *)
(* the disk.  The token of a request is what its caller was answered and   *)
(* may be handed to another human.  Of the calls that are refused those    *)
(* are modelled that change a request all the same: on one past its TTL.   *)
(***************************************************************************)
EXTENDS Naturals, FiniteSets

CONSTANTS
  Approval,     \* approval ids
  Action,       \* planned actions
  Key,          \* API keys; a key stands for its digest and its key_id
  Owner,        \* the names of their owners
  Stores,       \* the key stores that may be deployed
  IdemKey,      \* idempotency keys
  Delivery,     \* APPROVAL_TOKEN_DELIVERY
  MaxBearers,   \* bound of the unexpired JWTs
  MaxEdits,     \* bound of the changes of the key store
  MaxRestarts   \* bound of the restarts

Bootstrap == "bootstrap"

Role == {"viewer", "operator", "approver", "admin"}

\* An absent or unreadable store falls back to the shared key; a corrupt one
\* refuses everybody.  No two entries share an owner.
Store ==
  [kind : {"absent", "corrupt"}] \cup
  {s \in [kind : {"keys"}, keys : UNION {[K -> [owner : Owner, roles : SUBSET Role]] : K \in SUBSET Key}] :
     \A j, k \in DOMAIN s.keys : s.keys[j].owner = s.keys[k].owner => j = k}

ASSUME StoresAssumption == Stores \subseteq Store
ASSUME NamesAssumption == Bootstrap \notin Key \cup Owner /\ "" \notin Key \cup Owner
ASSUME DeliveryAssumption == Delivery \in {"approver_minted", "out_of_band", "scoped_view"}
ASSUME BoundsAssumption == {MaxBearers, MaxEdits, MaxRestarts} \subseteq Nat

VARIABLES
  store,        \* the key store
  bearer,       \* the identities that unexpired JWTs carry
  waiting,      \* the actions whose runs wait at AWAITING_APPROVAL
  proposals,    \* PROPOSALS, in memory
  requests,     \* REQUESTS
  lapsed,       \* the requests past expires_at
  unsaved,      \* the approved requests that memory alone has as "expired"
  cache,        \* IDEM_RESPONSES, in memory: <<approval, key, status answered>>
  by,           \* history: the identity that decided a request
  heard,        \* history: the statuses that successful calls were answered
  edits, restarts

vars == <<store, bearer, waiting, proposals, requests, lapsed, unsaved, cache, by, heard,
          edits, restarts>>

Identity == [key_id : Key \cup {Bootstrap}, owner : Owner \cup {Bootstrap},
             roles : SUBSET Role, mode : {"per_key", "bootstrap"}]

Request == [action : Action, actor : Owner \cup {Bootstrap}, requester_key_id : Key \cup {Bootstrap},
            identity_mode : {"per_key", "bootstrap"}, decided_by : Key \cup {Bootstrap, ""},
            status : {"pending", "approved", "denied", "expired"}]

NoRequest == [status |-> "none"]

Nobody == [mode |-> "none"]

-----------------------------------------------------------------------------
(* Identities.                                                             *)

Shared ==
  [key_id |-> Bootstrap, owner |-> Bootstrap, roles |-> {}, mode |-> "bootstrap"]

\* resolve_identity: the identities that the deployed keys and the shared key are
\* resolved to.
Resolved ==
  IF store.kind = "corrupt" THEN {}
  ELSE {Shared} \cup
       IF store.kind = "absent" THEN {}
       ELSE {[key_id |-> k, owner |-> store.keys[k].owner, roles |-> store.keys[k].roles,
              mode |-> "per_key"] : k \in DOMAIN store.keys}

\* guard_http: a JWT is trusted for what it says until it expires.
Callers == Resolved \cup bearer

\* require_role
Permitted(who, roles) == who.mode = "bootstrap" \/ who.roles \cap roles # {}

\* _actor_for: a blank claim is the owner; in per_key mode any other claim must be.
Actors(who) == IF who.mode = "per_key" THEN {who.owner} ELSE Owner \cup {Bootstrap}

Init ==
  /\ store \in Stores
  /\ bearer = {} /\ waiting = {} /\ proposals = {} /\ lapsed = {} /\ cache = {}
  /\ unsaved = {}
  /\ requests = [a \in Approval |-> NoRequest]
  /\ by = [a \in Approval |-> Nobody] /\ heard = {}
  /\ edits = 0 /\ restarts = 0

\* http_token
SignIn(who) ==
  /\ who \in Callers /\ Cardinality(bearer) < MaxBearers
  /\ bearer' = bearer \cup {who}
  /\ UNCHANGED <<store, waiting, proposals, requests, lapsed, unsaved, cache, by, heard, edits, restarts>>

ExpireToken(who) ==
  /\ who \in bearer
  /\ bearer' = bearer \ {who}
  /\ UNCHANGED <<store, waiting, proposals, requests, lapsed, unsaved, cache, by, heard, edits, restarts>>

\* The file is replaced while the server runs: keys are added, rotated, given
\* other roles or withdrawn.
EditStore(s) ==
  /\ edits < MaxEdits /\ s # store
  /\ store' = s /\ edits' = edits + 1
  /\ UNCHANGED <<bearer, waiting, proposals, requests, lapsed, unsaved, cache, by, heard, restarts>>

-----------------------------------------------------------------------------
(* Proposals and requests.                                                 *)

\* park_proposal
ParkProposal(x) == proposals' = proposals \cup {x}

\* _park_pending_approval.  The other two deliveries raise the request with an
\* empty secret, which issue() refuses; the refusal is recorded on the chain.
Park(x) ==
  /\ x \notin waiting
  /\ waiting' = waiting \cup {x}
  /\ IF Delivery = "approver_minted" THEN ParkProposal(x) ELSE UNCHANGED proposals
  /\ UNCHANGED <<store, bearer, requests, lapsed, unsaved, cache, by, heard, edits, restarts>>

\* http_request
RequestApproval(who, actor, a, x) ==
  /\ requests[a] = NoRequest
  /\ who \in Callers /\ Permitted(who, {"operator", "approver", "admin"})
  /\ actor \in Actors(who)
  /\ requests' = [requests EXCEPT ![a] =
       [action |-> x, actor |-> actor, requester_key_id |-> who.key_id,
        identity_mode |-> who.mode, decided_by |-> "", status |-> "pending"]]
  /\ unsaved' = {}
  /\ UNCHANGED <<store, bearer, waiting, proposals, lapsed, cache, by, heard, edits, restarts>>

Elapse(a) ==
  /\ requests[a] # NoRequest /\ a \notin lapsed
  /\ lapsed' = lapsed \cup {a}
  /\ UNCHANGED <<store, bearer, waiting, proposals, requests, unsaved, cache, by, heard, edits, restarts>>

-----------------------------------------------------------------------------
(* Decisions.                                                              *)

\* Bug: the answer to one approval is given for another.
CachedForKey(a, i) == {s \in {"approved", "denied"} : \E b \in Approval : <<b, i, s>> \in cache}

\* _idem: what the call was answered before, shared by approve and reject.
Cached(a, i) == {s \in {"approved", "denied"} : <<a, i, s>> \in cache}

\* The call is a repeat and is answered from the cache.
Repeat(who, a, i) ==
  /\ who \in Callers /\ Permitted(who, {"approver", "admin"})
  /\ \E s \in Cached(a, i) : heard' = heard \cup {<<a, s>>}
  /\ UNCHANGED <<store, bearer, waiting, proposals, requests, lapsed, unsaved, cache, by, edits, restarts>>

\* Bug: a call without an idempotency key is remembered under the empty one.
DecideAlwaysCached(who, a, i, s) ==
  /\ requests' = [requests EXCEPT ![a].status = s, ![a].decided_by = who.key_id]
  /\ by' = [by EXCEPT ![a] = who]
  /\ heard' = heard \cup {<<a, s>>}
  /\ cache' = cache \cup {<<a, i, s>>}
  /\ unsaved' = {}

\* _decide, recorded for _idem when the call carried a key.
Decide(who, a, i, s) ==
  /\ requests' = [requests EXCEPT ![a].status = s, ![a].decided_by = who.key_id]
  /\ by' = [by EXCEPT ![a] = who]
  /\ heard' = heard \cup {<<a, s>>}
  /\ cache' = IF i \in IdemKey THEN cache \cup {<<a, i, s>>} ELSE cache
  /\ unsaved' = {}

Fresh(who, a, i) ==
  /\ who \in Callers /\ Permitted(who, {"approver", "admin"})
  /\ Cached(a, i) = {} /\ requests[a].status = "pending"

\* Bug: the approver's name is compared instead of the key.
ByAnotherActor(who, a) == who.owner # requests[a].actor

\* Separation of duties: in per_key mode the approver's key is not the requester's.
ByAnother(who, a) == who.key_id # requests[a].requester_key_id

\* approve_approval: the token verifies for the requester's actor, who in bootstrap
\* mode must be the actor the caller claims.
Approve(who, actor, a, i) ==
  /\ Fresh(who, a, i) /\ actor \in Actors(who)
  /\ IF who.mode = "per_key" THEN ByAnother(who, a) ELSE actor = requests[a].actor
  /\ a \notin lapsed
  /\ Decide(who, a, i, "approved")
  /\ UNCHANGED <<store, bearer, waiting, proposals, lapsed, edits, restarts>>

\* The same call on a request past its time, or sweep_approvals.
ExpireRequest(a) ==
  /\ requests[a].status = "pending" /\ a \in lapsed
  /\ requests' = [requests EXCEPT ![a].status = "expired"]
  /\ unsaved' = {}
  /\ UNCHANGED <<store, bearer, waiting, proposals, lapsed, cache, by, heard, edits, restarts>>

\* verified_permit, for the resume that follows an approval or for POST
\* /runs/{id}/advance, finds an approved request past its time and refuses the
\* permit.  The status is not saved; the next save of any request writes it.
PermitExpired(a) ==
  /\ requests[a].status = "approved" /\ a \in lapsed
  /\ requests' = [requests EXCEPT ![a].status = "expired"]
  /\ unsaved' = unsaved \cup {a}
  /\ UNCHANGED <<store, bearer, waiting, proposals, lapsed, cache, by, heard, edits, restarts>>

\* reject_approval: anybody with the role, the requester too.
Reject(who, a, i) ==
  /\ Fresh(who, a, i)
  /\ Decide(who, a, i, "denied")
  /\ UNCHANGED <<store, bearer, waiting, proposals, lapsed, edits, restarts>>

\* The run goes on; resume_from_approval and FSM are the subject of Lifecycle.
LeaveWaiting(x) ==
  /\ x \in waiting
  /\ \E a \in Approval : requests[a] # NoRequest /\ requests[a].action = x /\
                         requests[a].status = "approved"
  /\ waiting' = waiting \ {x}
  /\ UNCHANGED <<store, bearer, proposals, requests, lapsed, unsaved, cache, by, heard, edits, restarts>>

\* The proposals and the cache are in memory only; the requests come back as
\* they were saved.
Restart ==
  /\ restarts < MaxRestarts
  /\ restarts' = restarts + 1
  /\ proposals' = {} /\ cache' = {} /\ unsaved' = {}
  /\ requests' = [a \in Approval |->
       IF a \in unsaved THEN [requests[a] EXCEPT !.status = "approved"] ELSE requests[a]]
  /\ UNCHANGED <<store, bearer, waiting, lapsed, by, heard, edits>>

Next ==
  \/ \E who \in Callers : SignIn(who) \/ ExpireToken(who)
  \/ \E s \in Stores : EditStore(s)
  \/ \E x \in Action : Park(x) \/ LeaveWaiting(x)
  \/ \E a \in Approval :
       \/ Elapse(a) \/ ExpireRequest(a) \/ PermitExpired(a)
       \/ \E who \in Callers :
            \/ \E actor \in Actors(who), x \in Action : RequestApproval(who, actor, a, x)
            \/ \E i \in IdemKey \cup {""} :
                 \/ Repeat(who, a, i) \/ Reject(who, a, i)
                 \/ \E actor \in Actors(who) : Approve(who, actor, a, i)
  \/ Restart

Spec == Init /\ [][Next]_vars

-----------------------------------------------------------------------------
(* Properties.                                                             *)

\* Type invariant: every variable stays in its domain; a cached answer is of a
\* request that exists.
TypeOK ==
  /\ store \in Stores /\ bearer \subseteq Identity
  /\ waiting \subseteq Action /\ proposals \subseteq Action
  /\ requests \in [Approval -> Request \cup {NoRequest}]
  /\ lapsed \subseteq {a \in Approval : requests[a] # NoRequest}
  /\ unsaved \subseteq {a \in Approval : requests[a].status = "expired"}
  /\ cache \subseteq {a \in Approval : requests[a] # NoRequest} \X IdemKey \X {"approved", "denied"}
  /\ by \in [Approval -> Identity \cup {Nobody}]
  /\ heard \subseteq Approval \X {"approved", "denied"}
  /\ edits \in 0..MaxEdits /\ restarts \in 0..MaxRestarts

\* Four eyes: whatever is done to the key store meanwhile, an approval that an
\* identified key granted was requested with another key, is recorded under the
\* key that granted it, and that key was given the approver's role; and as long
\* as the store is the one deployed, sessions and restarts included, the two
\* keys are two humans' (approvals.py, approve_approval, "Separation of duties").
FourEyes ==
  \A a \in Approval :
    requests[a].status = "approved" /\ by[a].mode = "per_key" =>
      /\ by[a].key_id # requests[a].requester_key_id
      /\ requests[a].decided_by = by[a].key_id
      /\ by[a].roles \cap {"approver", "admin"} # {}
      /\ edits = 0 /\ requests[a].identity_mode = "per_key" => by[a].owner # requests[a].actor

\* A decision that a caller was told, at once or from the cache, is never undone
\* by a later call, an expiry or a restart: a denied request stays denied, and
\* an approved one can only expire, when its permit is asked for too late; it is
\* recorded under the key of the identity that decided it (approvals.py, _idem).
AnswersAreTrue ==
  \A h \in heard :
    /\ requests[h[1]].status \in (IF h[2] = "denied" THEN {"denied"} ELSE {"approved", "expired"})
    /\ requests[h[1]].decided_by = by[h[1]].key_id

\* approval_view's label.
Sod(r) ==
  CASE r.identity_mode = "per_key" /\ r.decided_by \notin {"", r.requester_key_id} -> "enforced"
    [] r.identity_mode = "bootstrap" -> "not_enforced_bootstrap"
    [] OTHER -> "not_recorded"

\* The view says "enforced" only when a per-key store authorized the decision
\* (approvals.py, approval_view).  It does not hold: a request raised with a key
\* and decided with the shared one is labelled so.
EnforcedIsPerKey ==
  \A a \in Approval :
    requests[a] # NoRequest /\ Sod(requests[a]) = "enforced" => by[a].mode = "per_key"

\* "A second human identity is the entire point of four-eyes control"
\* (approvals.py, approve_approval).  It does not hold across an edit of the key
\* store that gives the requester another key: the keys are compared, not their
\* owners.
SecondHuman ==
  \A a \in Approval :
    requests[a].status = "approved" /\ {by[a].mode, requests[a].identity_mode} = {"per_key"}
      => by[a].owner # requests[a].actor

\* An action whose run waits for a human is one a human is shown: it is proposed,
\* or a request was raised for it (approvals.py, PROPOSALS).  It does not hold: a
\* restart forgets the proposals, and two of the three deliveries raise nothing.
WaitingIsShown ==
  \A x \in waiting : x \in proposals \/
    \E a \in Approval : requests[a] # NoRequest /\ requests[a].action = x

=============================================================================
