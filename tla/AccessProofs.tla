---------------------------- MODULE AccessProofs ----------------------------
(***************************************************************************)
(* Theorems about Access, for every set of approvals, actions, keys,       *)
(* owners and idempotency keys, every family of key stores, both token     *)
(* deliveries and any number of edits, sessions and restarts.              *)
(*                                                                         *)
(* The two keys that FourEyes compares are written once, by the request    *)
(* and by the decision, and no later edit of the store reaches them; that  *)
(* they are two humans' while nothing was edited needs every session and   *)
(* every request to stem from the store deployed (Deployed).  A restart    *)
(* may bring an approval back that memory had expired, so all of it holds  *)
(* of those as well (Granted).  AnswersAreTrue needs the same of the       *)
(* cache, since a repeated call answers from it.                           *)
(***************************************************************************)
EXTENDS Access, TLAPS

\* An approval in memory, or one that a restart will find on disk.
Granted(a) == requests[a].status = "approved" \/ a \in unsaved

FourEyesOf(a) ==
  /\ by[a].key_id # requests[a].requester_key_id
  /\ requests[a].decided_by = by[a].key_id
  /\ by[a].roles \cap {"approver", "admin"} # {}
  /\ edits = 0 /\ requests[a].identity_mode = "per_key" => by[a].owner # requests[a].actor

FourEyesKept == \A a \in Approval : Granted(a) /\ by[a].mode = "per_key" => FourEyesOf(a)

\* The decision s on approval a is on record.
OnRecord(a, s) ==
  /\ requests[a].status \in (IF s = "denied" THEN {"denied"} ELSE {"approved", "expired"})
  /\ requests[a].decided_by = by[a].key_id

AnswersKept == \A h \in heard : OnRecord(h[1], h[2])

\* The cache holds what is on record.
CacheKept == \A c \in cache : OnRecord(c[1], c[3])

\* The key k of the store is its owner's.
KeyOf(k, owner) == store.kind = "keys" /\ k \in DOMAIN store.keys /\ store.keys[k].owner = owner

\* An identified caller and an identified requester have keys of the store.
Identified(who) == who.mode = "per_key" => KeyOf(who.key_id, who.owner)

Raised(a) ==
  requests[a] # NoRequest /\ requests[a].identity_mode = "per_key"
    => KeyOf(requests[a].requester_key_id, requests[a].actor)

Deployed ==
  edits = 0 => (\A who \in bearer : Identified(who)) /\ (\A a \in Approval : Raised(a))

IInv == TypeOK /\ FourEyesKept /\ AnswersKept /\ CacheKept /\ Deployed

-----------------------------------------------------------------------------
(* Identities.                                                             *)

\* A key in a store has an owner and roles.
LEMMA KeyEntry ==
  ASSUME store \in Stores, store.kind = "keys", NEW k \in DOMAIN store.keys
  PROVE  k \in Key /\ store.keys[k] \in [owner : Owner, roles : SUBSET Role]
<1>1. store \in Store
  BY StoresAssumption
<1>2. store.keys \in UNION {[K -> [owner : Owner, roles : SUBSET Role]] : K \in SUBSET Key}
  BY <1>1 DEF Store
<1>3. PICK K \in SUBSET Key : store.keys \in [K -> [owner : Owner, roles : SUBSET Role]]
  BY <1>2
<1> QED BY <1>3

\* Whoever calls is somebody.
LEMMA CallersAreIdentities ==
  ASSUME store \in Stores, bearer \subseteq Identity
  PROVE  Callers \subseteq Identity
<1>1. Shared \in Identity
  BY DEF Shared, Identity
<1>2. ASSUME store.kind = "keys", NEW k \in DOMAIN store.keys
      PROVE  [key_id |-> k, owner |-> store.keys[k].owner, roles |-> store.keys[k].roles,
              mode |-> "per_key"] \in Identity
  <2>1. k \in Key /\ store.keys[k].owner \in Owner /\ store.keys[k].roles \in SUBSET Role
    BY <1>2, KeyEntry
  <2> QED BY <2>1 DEF Identity
<1>3. store.kind \in {"absent", "corrupt", "keys"}
  BY StoresAssumption DEF Store
<1>4. Resolved \subseteq Identity
  <2>1. CASE store.kind = "corrupt"
    BY <2>1 DEF Resolved
  <2>2. CASE store.kind = "absent"
    BY <2>2, <1>1 DEF Resolved
  <2>3. CASE store.kind = "keys"
    BY <2>3, <1>1, <1>2 DEF Resolved
  <2> QED BY <1>3, <2>1, <2>2, <2>3
<1> QED BY <1>4 DEF Callers

\* What a caller may claim to be is an owner or the shared identity.
LEMMA ActorsAreNames ==
  ASSUME NEW who \in Identity
  PROVE  Actors(who) \subseteq Owner \cup {Bootstrap}
BY DEF Actors, Identity

\* While the store is the one deployed, identified callers have keys of it ...
LEMMA CallersHaveKeys ==
  ASSUME store \in Stores, Deployed, edits = 0, NEW who \in Callers
  PROVE  Identified(who)
<1>1. CASE who \in bearer
  BY <1>1 DEF Deployed
<1>2. CASE who \in Resolved
  <2>1. who = Shared \/ store.kind \notin {"absent", "corrupt"}
    BY <1>2 DEF Resolved
  <2>2. CASE who = Shared
    BY <2>2 DEF Shared, Identified
  <2>3. CASE store.kind \notin {"absent", "corrupt"} /\ who # Shared
    <3>1. store.kind = "keys"
      BY <2>3, StoresAssumption DEF Store
    <3>2. PICK k \in DOMAIN store.keys :
            who = [key_id |-> k, owner |-> store.keys[k].owner, roles |-> store.keys[k].roles,
                   mode |-> "per_key"]
      BY <2>3, <1>2 DEF Resolved
    <3>3. who.key_id = k /\ who.owner = store.keys[k].owner
      BY ONLY <3>2
    <3> QED BY <3>1, <3>3 DEF Identified, KeyOf
  <2> QED BY <2>1, <2>2, <2>3
<1> QED BY <1>1, <1>2 DEF Callers

\* ... and two keys of it are two owners'.
LEMMA KeysAreOwners ==
  ASSUME store \in Stores, NEW k, NEW l, NEW o, NEW p, KeyOf(k, o), KeyOf(l, p), k # l
  PROVE  o # p
<1>1. store \in Store
  BY StoresAssumption
<1>2. store.kind = "keys"
  BY DEF KeyOf
<1>3. \A x, y \in DOMAIN store.keys : store.keys[x].owner = store.keys[y].owner => x = y
  BY <1>1, <1>2 DEF Store
<1> QED BY <1>3 DEF KeyOf

-----------------------------------------------------------------------------
(* Requests.                                                               *)

\* A status is a request's, and only NoRequest has none.
LEMMA RequestKinds ==
  ASSUME TypeOK, NEW a \in Approval
  PROVE  /\ requests[a] # NoRequest => requests[a] \in Request
         /\ requests[a] = NoRequest => requests[a].status = "none"
         /\ requests[a] \in Request => requests[a].status \in {"pending", "approved", "denied", "expired"}
         /\ requests[a].status # "none" => requests[a] \in Request
<1>1. requests[a] \in Request \cup {NoRequest}
  BY DEF TypeOK
<1>2. NoRequest.status = "none"
  BY DEF NoRequest
<1>3. requests[a] \in Request => requests[a].status \in {"pending", "approved", "denied", "expired"}
  BY DEF Request
<1> QED BY <1>1, <1>2, <1>3

\* What a decision leaves in the requests and of its decider ...
DecidedRequest(who, a, s) ==
  /\ requests'[a] \in Request /\ requests'[a] # NoRequest
  /\ requests'[a].status = s /\ requests'[a].decided_by = who.key_id
  /\ requests'[a].requester_key_id = requests[a].requester_key_id
  /\ requests'[a].identity_mode = requests[a].identity_mode
  /\ requests'[a].actor = requests[a].actor
  /\ \A b \in Approval \ {a} : requests'[b] = requests[b] /\ by'[b] = by[b]
  /\ requests' \in [Approval -> Request \cup {NoRequest}]
  /\ by' \in [Approval -> Identity \cup {Nobody}] /\ by'[a] = who

\* ... and of the answer: the caller heard it, and the cache may have it.
DecidedAnswer(a, i, s) ==
  /\ \A h \in heard' : h \in heard \/ h = <<a, s>>
  /\ \A c \in cache' : c \in cache \/ (c = <<a, i, s>> /\ i \in IdemKey)
  /\ unsaved' = {}

LEMMA DecideAnswer ==
  ASSUME NEW who, NEW a, NEW i, NEW s, Decide(who, a, i, s)
  PROVE  DecidedAnswer(a, i, s)
BY DEF Decide, DecidedAnswer

LEMMA DecideEffect ==
  ASSUME TypeOK, NEW who \in Identity, NEW a \in Approval, NEW i,
         NEW s \in {"approved", "denied"},
         requests[a].status = "pending", Decide(who, a, i, s)
  PROVE  DecidedRequest(who, a, s)
<1>1. who.key_id \in Key \cup {Bootstrap, ""}
  BY DEF Identity
<1>2. requests \in [Approval -> Request \cup {NoRequest}] /\ by \in [Approval -> Identity \cup {Nobody}]
  BY DEF TypeOK
<1> DEFINE r == [requests[a] EXCEPT !.status = s, !.decided_by = who.key_id]
<1>3. requests' = [requests EXCEPT ![a] = r]
  BY <1>2 DEF Decide
<1>4. /\ r \in Request /\ r.status = s /\ r.decided_by = who.key_id
      /\ r.requester_key_id = requests[a].requester_key_id
      /\ r.identity_mode = requests[a].identity_mode /\ r.actor = requests[a].actor
  <2>1. requests[a] \in Request
    BY RequestKinds
  <2> QED BY <1>1, <2>1 DEF Request
<1>6. r # NoRequest
  <2>1. NoRequest.status = "none"
    BY DEF NoRequest
  <2> HIDE DEF r
  <2> QED BY <1>4, <2>1
<1>5. by' = [by EXCEPT ![a] = who]
  BY DEF Decide
<1> HIDE DEF r
<1> QED BY <1>2, <1>3, <1>4, <1>5, <1>6 DEF DecidedRequest

\* What a request is apart from its status.
SameButStatus(a) ==
  /\ requests'[a] \in Request /\ requests'[a] # NoRequest
  /\ requests'[a].decided_by = requests[a].decided_by
  /\ requests'[a].requester_key_id = requests[a].requester_key_id
  /\ requests'[a].identity_mode = requests[a].identity_mode
  /\ requests'[a].actor = requests[a].actor

LEMMA StatusEffect ==
  ASSUME NEW a \in Approval, NEW s \in {"expired", "approved"}, requests[a] \in Request,
         requests'[a] = [requests[a] EXCEPT !.status = s]
  PROVE  SameButStatus(a) /\ requests'[a].status = s
<1> DEFINE r == [requests[a] EXCEPT !.status = s]
<1>1. /\ r \in Request /\ r.status = s /\ r.decided_by = requests[a].decided_by
      /\ r.requester_key_id = requests[a].requester_key_id
      /\ r.identity_mode = requests[a].identity_mode /\ r.actor = requests[a].actor
  BY DEF Request
<1>2. requests'[a] = r
  OBVIOUS
<1> HIDE DEF r
<1>3. r # NoRequest
  BY <1>1 DEF NoRequest
<1> QED BY <1>1, <1>2, <1>3 DEF SameButStatus

-----------------------------------------------------------------------------
(* The invariant.                                                          *)

LEMMA InitInv == Init => IInv
<1> SUFFICES ASSUME Init PROVE IInv
  OBVIOUS
<1>1. \A a \in Approval : requests[a] = NoRequest /\ by[a] = Nobody
  BY DEF Init
<1>2. TypeOK
  BY BoundsAssumption DEF Init, TypeOK
<1>3. FourEyesKept
  BY <1>1 DEF FourEyesKept, NoRequest, Granted, Init
<1>4. AnswersKept /\ CacheKept
  BY DEF Init, AnswersKept, CacheKept
<1>5. Deployed
  BY <1>1 DEF Init, Deployed, Raised
<1> QED BY <1>2, <1>3, <1>4, <1>5 DEF IInv

\* A step that leaves the requests, who decided them, the answers and the cache
\* alone cannot break what relates them; an edit of the store only ends what is
\* said of the one deployed.
LEMMA Untouched ==
  ASSUME IInv, UNCHANGED <<requests, unsaved, by, heard, cache>>, edits' = 0 => edits = 0
  PROVE  FourEyesKept' /\ AnswersKept' /\ CacheKept'
<1>1. FourEyesKept'
  BY DEF IInv, FourEyesKept, FourEyesOf, Granted
<1>2. AnswersKept' /\ CacheKept'
  BY DEF IInv, AnswersKept, CacheKept, OnRecord
<1> QED BY <1>1, <1>2

\* Sessions, edits of the store, proposals and the passing of time.
LEMMA SettingSteps ==
  ASSUME IInv,
         \/ \E who \in Callers : SignIn(who) \/ ExpireToken(who)
         \/ \E s \in Stores : EditStore(s)
         \/ \E x \in Action : Park(x) \/ LeaveWaiting(x)
         \/ \E a \in Approval : Elapse(a)
         \/ UNCHANGED vars
  PROVE  IInv'
<1>1. TypeOK
  BY DEF IInv
<1>2. Callers \subseteq Identity
  BY <1>1, CallersAreIdentities DEF TypeOK
<1>3. UNCHANGED <<requests, unsaved, by, heard, cache>>
  BY DEF SignIn, ExpireToken, EditStore, Park, LeaveWaiting, Elapse, vars
<1>4. TypeOK'
  <2>1. CASE \E who \in Callers : SignIn(who) \/ ExpireToken(who)
    BY <2>1, <1>1, <1>2 DEF TypeOK, SignIn, ExpireToken
  <2>2. CASE \E s \in Stores : EditStore(s)
    BY <2>2, <1>1, BoundsAssumption DEF TypeOK, EditStore
  <2>3. CASE \E x \in Action : Park(x) \/ LeaveWaiting(x)
    BY <2>3, <1>1 DEF TypeOK, Park, LeaveWaiting, ParkProposal
  <2>4. CASE \E a \in Approval : Elapse(a)
    BY <2>4, <1>1 DEF TypeOK, Elapse
  <2>5. CASE UNCHANGED vars
    BY <2>5, <1>1 DEF TypeOK, vars
  <2> QED BY <2>1, <2>2, <2>3, <2>4, <2>5
<1>5. (edits' = edits /\ store' = store) \/ edits' # 0
  <2>1. edits \in Nat
    BY <1>1, BoundsAssumption DEF TypeOK
  <2> QED BY <2>1 DEF SignIn, ExpireToken, EditStore, Park, LeaveWaiting, Elapse, vars
<1>6. edits = 0 => \A who \in bearer' : who \in bearer \/ Identified(who)
  BY CallersHaveKeys DEF IInv, TypeOK, SignIn, ExpireToken, EditStore, Park, LeaveWaiting, Elapse, vars
<1>7. Deployed'
  BY <1>3, <1>5, <1>6 DEF IInv, Deployed, Identified, Raised, KeyOf
<1>8. FourEyesKept' /\ AnswersKept' /\ CacheKept'
  BY <1>3, <1>5, Untouched
<1> QED BY <1>4, <1>7, <1>8 DEF IInv

\* The cache and the proposals are lost; an expiry that was not saved is undone,
\* and the approval is there again as it was granted.
LEMMA RestartStep ==
  ASSUME IInv, Restart
  PROVE  IInv'
<1>1. TypeOK /\ FourEyesKept /\ AnswersKept /\ Deployed
  BY DEF IInv
<1>2. /\ restarts' = restarts + 1 /\ restarts < MaxRestarts
      /\ proposals' = {} /\ cache' = {} /\ unsaved' = {}
      /\ UNCHANGED <<store, bearer, waiting, lapsed, by, heard, edits>>
      /\ requests' = [a \in Approval |->
           IF a \in unsaved THEN [requests[a] EXCEPT !.status = "approved"] ELSE requests[a]]
  BY DEF Restart
<1>3. \A a \in Approval : a \in unsaved => requests[a].status = "expired" /\ requests[a] \in Request
  BY <1>1, RequestKinds DEF TypeOK
<1>4. ASSUME NEW a \in Approval
      PROVE  \/ a \in unsaved /\ SameButStatus(a) /\ requests'[a].status = "approved"
             \/ a \notin unsaved /\ requests'[a] = requests[a]
  <2>1. CASE a \in unsaved
    <3>1. requests'[a] = [requests[a] EXCEPT !.status = "approved"]
      BY <1>2, <2>1
    <3> QED BY <3>1, <2>1, <1>3, StatusEffect
  <2> QED BY <2>1, <1>2
<1>5. TypeOK'
  <2>1. requests' \in [Approval -> Request \cup {NoRequest}]
    <3>1. \A a \in Approval : requests'[a] \in Request \cup {NoRequest}
      BY <1>1, <1>4 DEF SameButStatus, TypeOK
    <3>2. requests' = [a \in Approval |-> requests'[a]]
      BY <1>2
    <3> QED BY <3>1, <3>2
  <2>2. \A a \in Approval : requests[a] # NoRequest => requests'[a] # NoRequest
    BY <1>4 DEF SameButStatus
  <2>3. restarts' \in 0..MaxRestarts
    BY <1>1, <1>2, BoundsAssumption DEF TypeOK
  <2> QED BY <1>1, <1>2, <2>1, <2>2, <2>3 DEF TypeOK
<1>6. FourEyesKept'
  BY <1>1, <1>2, <1>4 DEF FourEyesKept, FourEyesOf, Granted, SameButStatus
<1>7. AnswersKept'
  <2> SUFFICES ASSUME NEW h \in heard PROVE OnRecord(h[1], h[2])'
    BY <1>2 DEF AnswersKept
  <2>1. h[1] \in Approval /\ OnRecord(h[1], h[2])
    BY <1>1 DEF AnswersKept, TypeOK
  <2>2. CASE h[1] \in unsaved
    BY <2>1, <2>2, <1>2, <1>3, <1>4 DEF OnRecord, SameButStatus
  <2>3. CASE h[1] \notin unsaved
    BY <2>1, <2>3, <1>2, <1>4 DEF OnRecord
  <2> QED BY <2>2, <2>3
<1>8. CacheKept'
  BY <1>2 DEF CacheKept
<1>9. Deployed'
  <2>1. \A a \in Approval : Raised(a) => Raised(a)'
    BY <1>2, <1>3, <1>4 DEF Raised, KeyOf, SameButStatus, NoRequest
  <2> QED BY <1>1, <1>2, <2>1 DEF Deployed, Identified, KeyOf
<1> QED BY <1>5, <1>6, <1>7, <1>8, <1>9 DEF IInv

\* A new request has been answered to nobody.
LEMMA RequestStep ==
  ASSUME IInv, NEW a \in Approval, NEW who \in Callers, NEW actor \in Actors(who),
         NEW x \in Action, RequestApproval(who, actor, a, x)
  PROVE  IInv'
<1>1. TypeOK /\ FourEyesKept /\ AnswersKept /\ CacheKept /\ Deployed
  BY DEF IInv
<1>2. who \in Identity
  BY <1>1, CallersAreIdentities DEF TypeOK
<1> DEFINE r == [action |-> x, actor |-> actor, requester_key_id |-> who.key_id,
                 identity_mode |-> who.mode, decided_by |-> "", status |-> "pending"]
<1>3. r \in Request /\ r.status = "pending"
  BY <1>2, ActorsAreNames DEF Request, Identity
<1>4. /\ requests[a] = NoRequest /\ requests' = [requests EXCEPT ![a] = r]
      /\ unsaved' = {}
      /\ UNCHANGED <<store, bearer, waiting, proposals, lapsed, cache, by, heard, edits, restarts>>
  BY DEF RequestApproval
<1>13. edits = 0 /\ r.identity_mode = "per_key" => KeyOf(r.requester_key_id, r.actor)
  <2>1. who.mode = "per_key" => actor = who.owner
    BY DEF Actors
  <2> QED BY <1>1, <2>1, CallersHaveKeys DEF Identified, TypeOK
<1> HIDE DEF r
<1>5. requests[a].status = "none"
  BY <1>4 DEF NoRequest
<1>6. requests \in [Approval -> Request \cup {NoRequest}]
  BY <1>1 DEF TypeOK
<1>7. \A b \in Approval : requests'[b] = requests[b] \/ (b = a /\ requests'[b] = r)
  BY <1>4, <1>6
<1>8. r # NoRequest
  BY <1>3 DEF NoRequest
<1>9. TypeOK'
  BY <1>1, <1>3, <1>4, <1>6, <1>7, <1>8 DEF TypeOK
<1>10. FourEyesKept'
  BY <1>1, <1>3, <1>4, <1>7 DEF FourEyesKept, FourEyesOf, Granted
<1>11. AnswersKept'
  BY <1>1, <1>4, <1>5, <1>7 DEF AnswersKept, OnRecord, TypeOK
<1>12. CacheKept'
  BY <1>1, <1>4, <1>5, <1>7 DEF CacheKept, OnRecord, TypeOK
<1>14. Deployed'
  BY <1>1, <1>4, <1>7, <1>13 DEF Deployed, Raised, Identified, KeyOf
<1> QED BY <1>9, <1>10, <1>11, <1>12, <1>14 DEF IInv

\* A request that is still pending has no answers and is in no cache.
LEMMA PendingIsUnanswered ==
  ASSUME IInv, NEW a \in Approval, requests[a].status = "pending"
  PROVE  /\ \A h \in heard : h[1] # a
         /\ \A c \in cache : c[1] # a
BY DEF IInv, AnswersKept, CacheKept, OnRecord

\* A decision, by whoever may take it.
LEMMA DecideStep ==
  ASSUME IInv, NEW who \in Callers, NEW a \in Approval, NEW i \in IdemKey \cup {""},
         NEW s \in {"approved", "denied"}, Fresh(who, a, i), Decide(who, a, i, s),
         s = "approved" /\ who.mode = "per_key" => ByAnother(who, a),
         UNCHANGED <<store, bearer, waiting, proposals, lapsed, edits, restarts>>
  PROVE  IInv'
<1>1. TypeOK /\ FourEyesKept /\ AnswersKept /\ CacheKept /\ Deployed
  BY DEF IInv
<1>2. who \in Identity /\ requests[a].status = "pending" /\ Permitted(who, {"approver", "admin"})
  BY <1>1, CallersAreIdentities DEF TypeOK, Fresh
<1>3. DecidedRequest(who, a, s) /\ DecidedAnswer(a, i, s)
  BY <1>1, <1>2, DecideEffect, DecideAnswer
<1>4. (\A h \in heard : h[1] # a) /\ (\A c \in cache : c[1] # a)
  BY <1>2, PendingIsUnanswered
<1>10. unsaved' = {}
  BY <1>3 DEF DecidedAnswer
<1>5. TypeOK'
  <2>1. {b \in Approval : requests[b] # NoRequest} \subseteq {b \in Approval : requests'[b] # NoRequest}
    BY <1>3 DEF DecidedRequest
  <2>2. heard' \subseteq Approval \X {"approved", "denied"}
    <3>1. heard \subseteq Approval \X {"approved", "denied"}
      BY <1>1 DEF TypeOK
    <3>2. \A h \in heard' : h \in heard \/ h = <<a, s>>
      BY <1>3 DEF DecidedAnswer
    <3>3. <<a, s>> \in Approval \X {"approved", "denied"}
      OBVIOUS
    <3> QED BY ONLY <3>1, <3>2, <3>3, Zenon
  <2>3. ASSUME NEW c \in cache'
        PROVE  c \in {b \in Approval : requests'[b] # NoRequest} \X IdemKey \X {"approved", "denied"}
    <3>1. CASE c \in cache
      BY <3>1, <1>1, <2>1 DEF TypeOK
    <3>2. CASE c = <<a, i, s>> /\ i \in IdemKey
      <4>1. a \in {b \in Approval : requests'[b] # NoRequest}
        BY <1>3 DEF DecidedRequest
      <4> QED BY <3>2, <4>1
    <3> QED BY <3>1, <3>2, <1>3 DEF DecidedAnswer
  <2>4. UNCHANGED <<store, bearer, waiting, proposals, edits, restarts>>
    OBVIOUS
  <2>5. requests' \in [Approval -> Request \cup {NoRequest}] /\ by' \in [Approval -> Identity \cup {Nobody}]
    BY <1>3 DEF DecidedRequest
  <2>6. lapsed' \subseteq {b \in Approval : requests'[b] # NoRequest}
    BY <1>1, <2>1 DEF TypeOK
  <2>7. cache' \subseteq {b \in Approval : requests'[b] # NoRequest} \X IdemKey \X {"approved", "denied"}
    BY <2>3
  <2> QED BY <1>1, <1>10, <2>2, <2>4, <2>5, <2>6, <2>7 DEF TypeOK
<1>6. FourEyesKept'
  <2> SUFFICES ASSUME NEW b \in Approval, requests'[b].status = "approved", by'[b].mode = "per_key"
               PROVE  FourEyesOf(b)'
    BY <1>10 DEF FourEyesKept, Granted
  <2>1. CASE b = a
    <3>1. ByAnother(who, a) /\ who.mode = "per_key"
      BY <2>1, <1>3 DEF DecidedRequest
    <3>2. ASSUME edits = 0, requests[a].identity_mode = "per_key"
          PROVE  who.owner # requests[a].actor
      <4>1. KeyOf(who.key_id, who.owner)
        BY <1>1, <3>1, <3>2, CallersHaveKeys DEF Identified, TypeOK
      <4>2. requests[a] # NoRequest
        BY <1>1, <1>2, RequestKinds
      <4>3. KeyOf(requests[a].requester_key_id, requests[a].actor)
        BY <1>1, <3>2, <4>2 DEF Deployed, Raised
      <4>4. store \in Stores /\ who.key_id # requests[a].requester_key_id
        BY <1>1, <3>1 DEF TypeOK, ByAnother
      <4> QED BY <4>1, <4>3, <4>4, KeysAreOwners
    <3>3. /\ by'[a] = who /\ requests'[a].decided_by = who.key_id
          /\ requests'[a].requester_key_id = requests[a].requester_key_id
          /\ requests'[a].identity_mode = requests[a].identity_mode
          /\ requests'[a].actor = requests[a].actor /\ edits' = edits
      BY <1>3 DEF DecidedRequest
    <3> QED BY <2>1, <1>2, <3>1, <3>2, <3>3 DEF ByAnother, Permitted, FourEyesOf
  <2>2. CASE b # a
    <3>1. requests'[b] = requests[b] /\ by'[b] = by[b] /\ edits' = edits
      BY <2>2, <1>3 DEF DecidedRequest
    <3>2. FourEyesOf(b)
      BY <3>1, <1>1 DEF FourEyesKept, Granted
    <3> QED BY <3>1, <3>2 DEF FourEyesOf
  <2> QED BY <2>1, <2>2
<1>11. OnRecord(a, s)' /\ \A b \in Approval \ {a} : \A t : OnRecord(b, t) => OnRecord(b, t)'
  BY <1>3 DEF OnRecord, DecidedRequest
<1>7. AnswersKept'
  <2> SUFFICES ASSUME NEW h \in heard' PROVE OnRecord(h[1], h[2])'
    BY DEF AnswersKept
  <2>1. CASE h = <<a, s>>
    BY <2>1, <1>11
  <2>2. CASE h \in heard
    BY <2>2, <1>1, <1>4, <1>11 DEF AnswersKept, TypeOK
  <2> QED BY <2>1, <2>2, <1>3 DEF DecidedAnswer
<1>8. CacheKept'
  <2> SUFFICES ASSUME NEW c \in cache' PROVE OnRecord(c[1], c[3])'
    BY DEF CacheKept
  <2>1. CASE c = <<a, i, s>>
    BY <2>1, <1>11
  <2>2. CASE c \in cache
    BY <2>2, <1>1, <1>4, <1>11 DEF CacheKept, TypeOK
  <2> QED BY <2>1, <2>2, <1>3 DEF DecidedAnswer
<1>9. Deployed'
  <2>1. \A b \in Approval : Raised(b) => Raised(b)'
    <3>1. requests[a] # NoRequest
      BY <1>1, <1>2, RequestKinds
    <3> QED BY <1>3, <3>1 DEF DecidedRequest, Raised, KeyOf
  <2> QED BY <1>1, <2>1 DEF Deployed, Identified, KeyOf
<1> QED BY <1>5, <1>6, <1>7, <1>8, <1>9 DEF IInv

\* A repeated call hears what the cache has.
LEMMA RepeatStep ==
  ASSUME IInv, NEW who \in Callers, NEW a \in Approval, NEW i, Repeat(who, a, i)
  PROVE  IInv'
<1>1. TypeOK /\ FourEyesKept /\ AnswersKept /\ CacheKept /\ Deployed
  BY DEF IInv
<1>2. UNCHANGED <<store, bearer, waiting, proposals, requests, lapsed, unsaved, cache, by, edits, restarts>>
  BY DEF Repeat
<1>3. PICK s \in {"approved", "denied"} : <<a, i, s>> \in cache /\ heard' = heard \cup {<<a, s>>}
  BY DEF Repeat, Cached
<1>4. OnRecord(a, s)
  BY <1>1, <1>3 DEF CacheKept
<1>5. TypeOK'
  BY <1>1, <1>2, <1>3 DEF TypeOK
<1>6. AnswersKept'
  BY <1>1, <1>2, <1>3, <1>4 DEF AnswersKept, OnRecord
<1>7. FourEyesKept' /\ CacheKept'
  BY <1>1, <1>2 DEF FourEyesKept, FourEyesOf, Granted, CacheKept, OnRecord
<1>8. Deployed'
  BY <1>1, <1>2 DEF Deployed, Identified, Raised, KeyOf
<1> QED BY <1>5, <1>6, <1>7, <1>8 DEF IInv

\* A request expires while nobody has decided it, or an approval does when its
\* permit is asked for.
LEMMA ExpireStep ==
  ASSUME IInv, NEW a \in Approval, ExpireRequest(a) \/ PermitExpired(a)
  PROVE  IInv'
<1>1. TypeOK /\ FourEyesKept /\ AnswersKept /\ CacheKept /\ Deployed
  BY DEF IInv
<1>2. /\ requests[a].status \in {"pending", "approved"}
      /\ requests' = [requests EXCEPT ![a].status = "expired"]
      /\ \/ unsaved' = {}
         \/ requests[a].status = "approved" /\ unsaved' = unsaved \cup {a}
      /\ UNCHANGED <<store, bearer, waiting, proposals, lapsed, cache, by, heard, edits, restarts>>
  BY DEF ExpireRequest, PermitExpired
<1>3. requests[a] \in Request
  BY <1>1, <1>2, RequestKinds
<1>4. requests \in [Approval -> Request \cup {NoRequest}]
  BY <1>1 DEF TypeOK
<1>5. /\ requests'[a] = [requests[a] EXCEPT !.status = "expired"]
      /\ \A b \in Approval \ {a} : requests'[b] = requests[b]
      /\ DOMAIN requests' = Approval /\ requests' = [b \in Approval |-> requests'[b]]
  BY <1>2, <1>4
<1>6. SameButStatus(a) /\ requests'[a].status = "expired"
  BY <1>3, <1>5, StatusEffect
<1>7. TypeOK'
  <2>1. requests' \in [Approval -> Request \cup {NoRequest}]
    BY <1>4, <1>5, <1>6 DEF SameButStatus
  <2>2. \A b \in Approval : requests[b] # NoRequest => requests'[b] # NoRequest
    BY <1>5, <1>6 DEF SameButStatus
  <2>3. unsaved' \subseteq {b \in Approval : requests'[b].status = "expired"}
    BY <1>1, <1>2, <1>5, <1>6 DEF TypeOK
  <2> QED BY <1>1, <1>2, <2>1, <2>2, <2>3 DEF TypeOK
<1>8. \A b \in Approval : Granted(b)' => Granted(b)
  BY <1>2, <1>5, <1>6 DEF Granted
<1>9. \A b \in Approval : FourEyesOf(b) => FourEyesOf(b)'
  BY <1>2, <1>5, <1>6 DEF FourEyesOf, SameButStatus
<1>10. FourEyesKept'
  BY <1>1, <1>2, <1>8, <1>9 DEF FourEyesKept
<1>11. \A b \in Approval : \A s : OnRecord(b, s) => OnRecord(b, s)'
  BY <1>2, <1>5, <1>6 DEF OnRecord, SameButStatus
<1>12. AnswersKept'
  BY <1>1, <1>2, <1>11 DEF AnswersKept, TypeOK
<1>13. CacheKept'
  BY <1>1, <1>2, <1>11 DEF CacheKept, TypeOK
<1>14. Deployed'
  <2>1. \A b \in Approval : Raised(b) => Raised(b)'
    BY <1>2, <1>3, <1>5, <1>6 DEF Raised, KeyOf, SameButStatus, NoRequest
  <2> QED BY <1>1, <1>2, <2>1 DEF Deployed, Identified, KeyOf
<1> QED BY <1>7, <1>10, <1>12, <1>13, <1>14 DEF IInv

LEMMA NextInv == IInv /\ [Next]_vars => IInv'
<1> SUFFICES ASSUME IInv, [Next]_vars PROVE IInv'
  OBVIOUS
<1>1. CASE \/ \E who \in Callers : SignIn(who) \/ ExpireToken(who)
           \/ \E s \in Stores : EditStore(s)
           \/ \E x \in Action : Park(x) \/ LeaveWaiting(x)
           \/ \E a \in Approval : Elapse(a)
           \/ UNCHANGED vars
  BY <1>1, SettingSteps
<1>2. CASE \E a \in Approval : ExpireRequest(a) \/ PermitExpired(a)
  BY <1>2, ExpireStep
<1>3. CASE \E a \in Approval, who \in Callers : \E actor \in Actors(who), x \in Action :
             RequestApproval(who, actor, a, x)
  BY <1>3, RequestStep
<1>4. CASE \E a \in Approval, who \in Callers : \E i \in IdemKey \cup {""} : Repeat(who, a, i)
  BY <1>4, RepeatStep
<1>5. CASE \E a \in Approval, who \in Callers : \E i \in IdemKey \cup {""} : Reject(who, a, i)
  BY <1>5, DecideStep DEF Reject
<1>6. CASE \E a \in Approval, who \in Callers : \E i \in IdemKey \cup {""} :
             \E actor \in Actors(who) : Approve(who, actor, a, i)
  BY <1>6, DecideStep DEF Approve
<1>7. CASE Restart
  BY <1>7, RestartStep
<1> QED BY <1>1, <1>2, <1>3, <1>4, <1>5, <1>6, <1>7 DEF Next

LEMMA Invariance == Spec => []IInv
BY InitInv, NextInv, PTL DEF Spec

-----------------------------------------------------------------------------
(* Theorems.                                                               *)

\* Every variable keeps its type; a cached answer is of a request that exists.
THEOREM TypeCorrect == Spec => []TypeOK
<1>1. IInv => TypeOK
  BY DEF IInv
<1> QED BY <1>1, Invariance, PTL

\* An approval that an identified key granted was requested with another key, is
\* recorded under the key that granted it, and that key had the approver's role,
\* whatever is done to the key store, and however long sessions live; and the
\* two keys are two humans' until the store is edited.
THEOREM FourEyesHolds == Spec => []FourEyes
<1>1. IInv => FourEyes
  BY DEF IInv, FourEyesKept, FourEyesOf, Granted, FourEyes
<1> QED BY <1>1, Invariance, PTL

\* What any caller was ever told of an approval stays the decision on record,
\* through expiries, late permits and restarts; an approval can only expire.
THEOREM AnswersAreTrueHolds == Spec => []AnswersAreTrue
<1>1. IInv => AnswersAreTrue
  BY DEF IInv, AnswersKept, OnRecord, AnswersAreTrue
<1> QED BY <1>1, Invariance, PTL

=============================================================================
