----------------------------- MODULE AgentsProofs -----------------------------
(***************************************************************************)
(* Theorems about Agents, for every set of telemetry bundles, everything   *)
(* a model may answer, any number of operators asking at once and every    *)
(* length of a thread.                                                     *)
(*                                                                         *)
(* A plan is reasoned because a diagnosis is banked only after the checks  *)
(* of run_diagnose, together with the pack of the same telemetry (BankInv).*)
(* A postmortem is grounded because full coverage of the pack says, once   *)
(* the age of a row is unfolded, that the telemetry is recent (ReportInv). *)
(* The thread is the tail of what was said because whoever is inside the   *)
(* lock holds a copy of the thread as it still is, or could not read it    *)
(* and starts it over (LockInv), and trimming twice is trimming once       *)
(* (KeptAppend).  TypeCorrect needs both, that a served run is not         *)
(* diagnosed again (RunInv), and that a turn is written at most twice per  *)
(* request (TalkInv).                                                      *)
(***************************************************************************)
EXTENDS Agents, SequenceTheorems, FiniteSetTheorems, WellFoundedInduction, TLAPS

-----------------------------------------------------------------------------
(* The thread.                                                             *)

\* A turn is appended to the trimmed thread as it is to the whole one.
LEMMA KeptAppend ==
  ASSUME NEW S, NEW s \in Seq(S), NEW t \in S
  PROVE  Kept(Append(Kept(s), t)) = Kept(Append(s, t))
<1>1. MaxTurns \in Nat /\ MaxTurns > 0 /\ Len(s) \in Nat
  BY MaxTurnsAssumption
<1>2. CASE Len(s) <= MaxTurns
  BY <1>1, <1>2 DEF Kept
<1>3. CASE Len(s) > MaxTurns
  <2> DEFINE first == Len(s) - MaxTurns + 1
             k == SubSeq(s, first, Len(s))
             a == Append(k, t)
             b == Append(s, t)
  <2>1. Kept(s) = k
    BY <1>3 DEF Kept
  <2>2. /\ k \in Seq(S) /\ Len(k) = MaxTurns
        /\ \A i \in 1..MaxTurns : k[i] = s[first + i - 1]
    BY <1>1, <1>3
  <2> HIDE DEF k
  <2>3. /\ a \in Seq(S) /\ Len(a) = MaxTurns + 1 /\ b \in Seq(S) /\ Len(b) = Len(s) + 1
        /\ \A i \in 1..MaxTurns : a[i] = k[i]
        /\ \A i \in 1..Len(s) : b[i] = s[i]
        /\ a[MaxTurns + 1] = t /\ b[Len(s) + 1] = t
    BY <1>1, <2>2
  <2> HIDE DEF a, b
  <2>4. Kept(a) = SubSeq(a, 2, MaxTurns + 1) /\ Kept(b) = SubSeq(b, first + 1, Len(s) + 1)
    <3>1. Len(a) - MaxTurns + 1 = 2 /\ Len(a) > MaxTurns
      BY <1>1, <2>3
    <3>2. Len(b) - MaxTurns + 1 = first + 1 /\ Len(b) > MaxTurns
      BY <1>1, <1>3, <2>3
    <3> HIDE DEF first
    <3> QED BY <2>3, <3>1, <3>2 DEF Kept
  <2>5. /\ Kept(a) \in Seq(S) /\ Len(Kept(a)) = MaxTurns
        /\ \A i \in 1..MaxTurns : Kept(a)[i] = a[i + 1]
    BY <1>1, <2>3, <2>4
  <2>6. /\ Kept(b) \in Seq(S) /\ Len(Kept(b)) = MaxTurns
        /\ \A i \in 1..MaxTurns : Kept(b)[i] = b[first + i]
    BY <1>1, <1>3, <2>3, <2>4
  <2>7. ASSUME NEW i \in 1..MaxTurns PROVE a[i + 1] = b[first + i]
    <3>1. CASE i = MaxTurns
      BY <1>1, <2>3, <3>1
    <3>2. CASE i < MaxTurns
      <4>1. i + 1 \in 1..MaxTurns /\ first + i \in 1..Len(s) /\ first + (i + 1) - 1 = first + i
        BY <1>1, <1>3, <3>2
      <4> QED BY <2>2, <2>3, <4>1
    <3> QED BY <1>1, <3>1, <3>2
  <2>8. Kept(a) = Kept(b)
    <3>1. \A i \in 1..Len(Kept(a)) : Kept(a)[i] = Kept(b)[i]
      BY <2>5, <2>6, <2>7
    <3> QED BY <2>5, <2>6, <3>1, SeqEqual
  <2> QED BY <2>1, <2>8 DEF a, b
<1> QED BY <1>1, <1>2, <1>3

\* Whoever is inside the lock is alone and holds the thread, or nothing.
LockInv ==
  /\ \E S : said \in Seq(S)
  /\ thread = Kept(said)
  /\ DOMAIN ask = Asker
  /\ \A q \in Asker : DOMAIN ask[q] = {"at", "turn", "copy"}
  /\ unread \subseteq inside
  /\ \A q \in inside :
       /\ q \in Asker /\ inside = {q}
       /\ ask[q].copy = IF q \in unread THEN << >> ELSE thread
       /\ ask[q].at \in {"asking", "replying"}

LEMMA InitLock == Init => LockInv
<1> SUFFICES ASSUME Init PROVE LockInv
  OBVIOUS
<1>1. said = << >> /\ thread = << >> /\ inside = {} /\ unread = {}
  BY DEF Init
<1>2. said \in Seq({}) /\ Kept(said) = said
  BY <1>1, MaxTurnsAssumption DEF Kept
<1>3. DOMAIN ask = Asker /\ \A q \in Asker : DOMAIN ask[q] = {"at", "turn", "copy"}
  BY DEF Init
<1> QED BY <1>1, <1>2, <1>3 DEF LockInv

LEMMA LockLock == ASSUME LockInv, NEW q \in Asker, Lock(q) PROVE LockInv'
<1>1. /\ inside = {} /\ inside' = {q} /\ unread' = unread /\ ask[q].at \in {"asking", "replying"}
      /\ ask' = [ask EXCEPT ![q] = [ask[q] EXCEPT !.copy = thread]]
      /\ UNCHANGED <<thread, said>>
  BY DEF Lock
<1>2. /\ DOMAIN ask' = Asker /\ ask'[q].copy = thread /\ ask'[q].at = ask[q].at
      /\ \A p \in Asker : DOMAIN ask'[p] = {"at", "turn", "copy"}
  BY <1>1 DEF LockInv
<1>3. unread = {}
  BY <1>1 DEF LockInv
<1> QED BY <1>1, <1>2, <1>3 DEF LockInv

LEMMA LockUnreadLock ==
  ASSUME LockInv, NEW q \in Asker, LockUnread(q)
  PROVE  LockInv'
<1>1. /\ inside' = {q} /\ unread' = {q} /\ ask[q].at \in {"asking", "replying"}
      /\ ask' = [ask EXCEPT ![q] = [ask[q] EXCEPT !.copy = << >>]]
      /\ UNCHANGED <<thread, said>>
  BY DEF LockUnread
<1>2. /\ DOMAIN ask' = Asker /\ ask'[q].copy = << >> /\ ask'[q].at = ask[q].at
      /\ \A p \in Asker : DOMAIN ask'[p] = {"at", "turn", "copy"}
  BY <1>1 DEF LockInv
<1> QED BY <1>1, <1>2 DEF LockInv

LEMMA WriteLock == ASSUME LockInv, NEW q \in Asker, Write(q) PROVE LockInv'
<1> DEFINE turn == ask[q].turn
           base == IF q \in unread THEN << >> ELSE said
<1>1. /\ q \in inside /\ inside' = inside \ {q} /\ unread' = unread \ {q}
      /\ thread' = Kept(Append(ask[q].copy, turn)) /\ said' = Append(base, turn)
  BY DEF Write
<1>2. PICK S : said \in Seq(S)
  BY DEF LockInv
<1>3. base \in Seq(S \cup {turn})
  BY <1>2
<1>4. ask[q].copy = Kept(base)
  <2>1. CASE q \in unread
    <3>1. Kept(<< >>) = << >>
      BY MaxTurnsAssumption DEF Kept
    <3> QED BY <1>1, <2>1, <3>1 DEF LockInv
  <2>2. CASE q \notin unread
    BY <1>1, <2>2 DEF LockInv
  <2> QED BY <2>1, <2>2
<1> HIDE DEF turn, base
<1>5. inside' = {} /\ unread' = {}
  BY <1>1 DEF LockInv
<1>6. said' \in Seq(S \cup {turn})
  BY <1>1, <1>3
<1>7. thread' = Kept(said')
  BY <1>1, <1>3, <1>4, KeptAppend
<1>8. DOMAIN ask' = Asker /\ \A p \in Asker : DOMAIN ask'[p] = {"at", "turn", "copy"}
  BY DEF LockInv, Write
<1>9. \E T : said' \in Seq(T)
  BY <1>6
<1> QED BY <1>5, <1>7, <1>8, <1>9 DEF LockInv

LEMMA WriteFailsLock == ASSUME LockInv, NEW q \in Asker, WriteFails(q) PROVE LockInv'
<1>1. inside' = {} /\ unread' = {} /\ UNCHANGED <<thread, said>>
  BY DEF LockInv, WriteFails
<1>2. DOMAIN ask' = Asker /\ \A p \in Asker : DOMAIN ask'[p] = {"at", "turn", "copy"}
  BY DEF LockInv, WriteFails
<1> QED BY <1>1, <1>2 DEF LockInv

\* Reading the run for an answer is done outside the lock.
LEMMA AnswerLock ==
  ASSUME LockInv, NEW q \in Asker, Read(q) \/ Ground(q) \/ Refuse(q)
  PROVE  LockInv'
<1>1. UNCHANGED <<inside, unread, thread, said>>
  BY DEF Read, Ground, Refuse
<1>2. DOMAIN ask' = Asker /\ \A p \in Asker : DOMAIN ask'[p] = {"at", "turn", "copy"}
  BY DEF LockInv, Read, Ground, Refuse
<1>3. q \notin inside
  BY DEF LockInv, Read, Ground, Refuse, At
<1>4. \A p \in inside : ask'[p] = ask[p]
  BY <1>3 DEF LockInv, Read, Ground, Refuse
<1> QED BY <1>1, <1>2, <1>4 DEF LockInv

-----------------------------------------------------------------------------
(* The age of an observation.                                              *)

LEMMA LeastOf ==
  ASSUME NEW T, T \subseteq Nat, T # {}
  PROVE  \E x \in T : \A y \in T : x <= y
<1>1. PICK x \in T : \A y \in T : ~(<<y, x>> \in OpToRel(<, Nat))
  BY NatLessThanWellFounded, WFMin
<1>2. \A y \in T : ~(y < x)
  BY <1>1 DEF OpToRel
<1> QED BY <1>2

\* The rows of a bundle have a latest time, if they have any.
LEMMA LatestOf ==
  ASSUME NEW S, NEW s \in Seq(S), NEW T, T \subseteq Nat, T # {}, NEW f,
         \A y \in T : \E i \in DOMAIN s : y = f[i]
  PROVE  \E x \in T : \A y \in T : y <= x
<1> DEFINE Bound(n, b) == \A i \in 1..n : \A y \in T : y = f[i] => y <= b
           Bad == {n \in Nat : n <= Len(s) /\ ~\E b \in Nat : Bound(n, b)}
<1>1. Bad = {}
  <2> SUFFICES ASSUME Bad # {} PROVE FALSE
    OBVIOUS
  <2>1. PICK n \in Bad : \A m \in Bad : n <= m
    BY LeastOf
  <2>2. n \in Nat /\ n <= Len(s) /\ ~\E b \in Nat : Bound(n, b)
    BY <2>1
  <2>3. n # 0
    <3>1. Bound(0, 0)
      OBVIOUS
    <3> QED BY <2>2, <3>1
  <2>4. n - 1 \in Nat /\ n - 1 < n /\ n - 1 <= Len(s)
    BY <2>2, <2>3
  <2>5. \E b \in Nat : Bound(n - 1, b)
    <3> HIDE DEF Bound
    <3> QED BY <2>1, <2>4
  <2>6. PICK b \in Nat : Bound(n - 1, b)
    BY <2>5
  <2>7. PICK c \in Nat : c >= b /\ \A y \in T : y = f[n] => y <= c
    <3>1. CASE \E y \in T : y = f[n]
      <4>1. PICK y \in T : y = f[n]
        BY <3>1
      <4>2. y + b \in Nat /\ y + b >= b /\ y + b >= y
        OBVIOUS
      <4> QED BY <4>1, <4>2
    <3>2. CASE ~\E y \in T : y = f[n]
      BY <3>2
    <3> QED BY <3>1, <3>2
  <2>8. ASSUME NEW i \in 1..n, NEW y \in T, y = f[i] PROVE y <= c
    <3>1. CASE i = n
      BY <2>7, <2>8, <3>1
    <3>2. CASE i # n
      <4>1. i \in 1..(n - 1)
        BY <2>2, <3>2
      <4>2. y <= b
        BY <2>6, <2>8, <4>1
      <4> QED BY <2>7, <4>2
    <3> QED BY <3>1, <3>2
  <2>9. Bound(n, c)
    BY <2>8
  <2> QED BY <2>2, <2>9
<1>2. PICK b \in Nat : Bound(Len(s), b)
  <2>1. Len(s) \in Nat
    OBVIOUS
  <2> HIDE DEF Bound
  <2> QED BY <1>1, <2>1
<1>3. \A y \in T : y <= b
  BY <1>2
<1> DEFINE U == {u \in Nat : \A y \in T : y <= u}
<1>4. PICK u \in U : \A v \in U : u <= v
  BY <1>3, LeastOf
<1>5. u \in T
  <2> SUFFICES ASSUME u \notin T PROVE FALSE
    OBVIOUS
  <2>1. \A y \in T : y <= u - 1
    BY <1>4
  <2>2. u - 1 \in Nat
    <3>1. PICK y \in T : y <= u - 1
      BY <2>1
    <3> QED BY <1>4, <3>1
  <2> QED BY <1>4, <2>1, <2>2
<1> QED BY <1>4, <1>5

LEMMA DetectionIsTime ==
  ASSUME tele \in Telemetry
  PROVE  Detection(tele) \in Int
<1> DEFINE ends == {tele.rows[i].ts : i \in DOMAIN tele.rows} \ {Unknown}
<1>1. tele.alerts \subseteq Nat /\ tele.rows \in Seq(Row)
  BY TelemetryAssumption
<1>2. CASE tele.alerts # {}
  <2>1. PICK x \in tele.alerts : \A y \in tele.alerts : x <= y
    BY <1>1, <1>2, LeastOf
  <2>2. Min(tele.alerts) \in tele.alerts
    BY <2>1 DEF Min
  <2> QED BY <1>1, <1>2, <2>2 DEF Detection
<1>3. CASE tele.alerts = {} /\ ends # {}
  <2> DEFINE f == [i \in DOMAIN tele.rows |-> tele.rows[i].ts]
  <2>1. \A i \in DOMAIN tele.rows : tele.rows[i] \in Row
    BY <1>1
  <2>2. ends \subseteq Nat /\ \A y \in ends : \E i \in DOMAIN tele.rows : y = f[i]
    BY <2>1 DEF Row
  <2> HIDE DEF f, ends
  <2>3. PICK x \in ends : \A y \in ends : y <= x
    BY <1>1, <1>3, <2>2, LatestOf
  <2>4. \A y \in ends : x >= y
    BY <2>2, <2>3
  <2>5. Max(ends) \in ends
    BY <2>4 DEF Max
  <2> QED BY <1>3, <2>2, <2>5 DEF Detection, ends
<1>4. CASE tele.alerts = {} /\ ends = {}
  BY <1>4 DEF Detection, Unknown
<1> QED BY <1>2, <1>3, <1>4

\* What the pack calls trustworthy is recent in the telemetry.
LEMMA TrustedIsRecent ==
  ASSUME tele \in Telemetry, NEW i \in DOMAIN tele.rows,
         Freshness(tele, tele.rows[i]) <= StaleAfter
  PROVE  Recent(i)
<1> DEFINE row == tele.rows[i]
           age == Detection(tele) - row.ts
<1>1. CASE row.kind = "metric" \/ row.ts = Unknown \/ Detection(tele) = Unknown
  BY <1>1 DEF Recent
<1>2. CASE ~(row.kind = "metric" \/ row.ts = Unknown \/ Detection(tele) = Unknown)
  <2>1. tele.rows \in Seq(Row)
    BY TelemetryAssumption
  <2>2. row \in Row
    BY <2>1
  <2> HIDE DEF row
  <2>3. age \in Int
    BY <1>2, <2>2, DetectionIsTime DEF Row
  <2>4. Max({0, age}) <= 900
    BY <1>2 DEF Freshness, StaleAfter, row
  <2> HIDE DEF age
  <2>5. \E x \in {0, age} : \A y \in {0, age} : x >= y
    BY <2>3
  <2>6. Max({0, age}) \in {0, age} /\ Max({0, age}) >= age
    BY <2>5 DEF Max
  <2>7. age <= 900
    BY <2>3, <2>4, <2>6
  <2> QED BY <2>7 DEF Recent, age, row
<1> QED BY <1>1, <1>2

-----------------------------------------------------------------------------
(* What a run is banked with.                                              *)

\* A diagnosis that passed the checks of run_diagnose.
Checked(d) ==
  d \in Answers \cup {Oracle} /\ d.iid = "own" /\ d.supporting \subseteq DOMAIN tele.rows \cup KB

BankInv ==
  /\ tele \in Telemetry /\ provider \in Provider
  /\ DOMAIN run = {"state", "diagnosis", "pack", "planned"}
  /\ run.pack \in {<< >>, Pack(tele)}
  /\ run.diagnosis = None \/ Checked(run.diagnosis)
  /\ run.planned =>
       /\ pc \in {"adopt", "done"} /\ provider # "direct" /\ run.pack # << >>
       /\ run.diagnosis # None /\ run.diagnosis.runbook = "current"

\* A claim that cites a recent observation.
Cites(c) == \E i \in c : i \in DOMAIN tele.rows /\ Recent(i)

ReportInv ==
  /\ run.state = "AUDITED" => document # {}
  /\ \A c \in document : Cites(c)

WalkInv == BankInv /\ ReportInv

LEMMA SameCites == ASSUME UNCHANGED tele PROVE \A c : Cites(c)' <=> Cites(c)
<1>1. Detection(tele)' = Detection(tele)
  BY DEF Detection
<1>2. \A i : Recent(i)' <=> Recent(i)
  BY <1>1 DEF Recent
<1> QED BY <1>2 DEF Cites

LEMMA InitWalk == Init => WalkInv
<1> SUFFICES ASSUME Init PROVE WalkInv
  OBVIOUS
<1>1. BankInv
  BY DEF Init, BankInv
<1>2. ReportInv
  BY DEF Init, ReportInv
<1> QED BY <1>1, <1>2 DEF WalkInv

\* What changes the state of a run only, to one that is not AUDITED, or nothing.
LEMMA MovedWalk ==
  ASSUME WalkInv, UNCHANGED <<tele, provider, document>>,
         \/ UNCHANGED run
         \/ \E s : s # "AUDITED" /\ run' = [run EXCEPT !.state = s],
         pc' \in {pc, "adopt", "done"} \/ pc \notin {"adopt", "done"}
  PROVE  WalkInv'
<1>1. /\ DOMAIN run' = DOMAIN run /\ run'.pack = run.pack
      /\ run'.diagnosis = run.diagnosis /\ run'.planned = run.planned
      /\ run'.state = run.state \/ run'.state # "AUDITED"
  BY DEF WalkInv, BankInv
<1>2. Oracle' = Oracle /\ Pack(tele)' = Pack(tele)
  BY DEF Oracle, Pack, Freshness, Detection, TrustFor
<1>3. \A d : Checked(d)' <=> Checked(d)
  BY <1>2 DEF Checked
<1>4. BankInv'
  BY <1>1, <1>2, <1>3 DEF WalkInv, BankInv
<1>5. ReportInv'
  <2>1. \A c : Cites(c)' <=> Cites(c)
    BY SameCites
  <2> QED BY <1>1, <2>1 DEF WalkInv, ReportInv
<1> QED BY <1>4, <1>5 DEF WalkInv

\* A diagnosis that passed the checks, or one that pins nothing.
LEMMA DiagnosedWalk ==
  ASSUME WalkInv, pc = "diagnose", UNCHANGED <<tele, provider, document>>,
         NEW d, Diagnosed(d), d.verdict = "PINNED" => Checked(d)
  PROVE  WalkInv'
<1>1. CASE d.verdict # "PINNED"
  BY <1>1, MovedWalk DEF Diagnosed
<1>2. CASE d.verdict = "PINNED"
  <2>1. /\ pc' = "plan"
        /\ run' = [run EXCEPT !.state = "PLANNED", !.diagnosis = d, !.pack = Pack(tele)]
    BY <1>2 DEF Diagnosed
  <2> HIDE DEF Diagnosed
  <2>2. /\ DOMAIN run' = DOMAIN run /\ run'.pack = Pack(tele)
        /\ run'.diagnosis = d /\ run'.planned = run.planned /\ run'.state = "PLANNED"
    BY <2>1 DEF WalkInv, BankInv
  <2>3. ~run.planned
    BY DEF WalkInv, BankInv
  <2>4. Oracle' = Oracle /\ Pack(tele)' = Pack(tele)
    BY DEF Oracle, Pack, Freshness, Detection, TrustFor
  <2>5. Checked(run.diagnosis)'
    BY <1>2, <2>2, <2>4 DEF Checked
  <2>6. BankInv'
    BY <2>2, <2>3, <2>4, <2>5 DEF WalkInv, BankInv
  <2>7. ReportInv'
    BY <2>2, SameCites DEF WalkInv, ReportInv
  <2> QED BY <2>6, <2>7 DEF WalkInv
<1> QED BY <1>1, <1>2

LEMMA DiagnoseWalk == ASSUME WalkInv, Diagnose PROVE WalkInv'
<1>1. pc = "diagnose" /\ UNCHANGED <<tele, provider, document>>
  BY DEF Diagnose
<1>2. CASE Diagnosed(Fallback)
  <2>1. Fallback.verdict # "PINNED"
    BY DEF Fallback, Oracle
  <2> QED BY <1>1, <1>2, <2>1, DiagnosedWalk
<1>3. CASE Diagnosed(Oracle)
  <2>1. Checked(Oracle)
    BY DEF Checked, Oracle
  <2> QED BY <1>1, <1>3, <2>1, DiagnosedWalk
<1>4. ASSUME NEW d \in Answers,
             IF Rejected(d) THEN pc' = "failed" /\ UNCHANGED run ELSE Diagnosed(d)
      PROVE  WalkInv'
  <2>1. CASE Rejected(d)
    BY <1>1, <1>4, <2>1, MovedWalk
  <2>2. CASE ~Rejected(d)
    <3>1. Checked(d)
      BY <2>2 DEF Rejected, Checked
    <3> QED BY <1>1, <1>4, <2>2, <3>1, DiagnosedWalk
  <2> QED BY <2>1, <2>2
<1> QED BY <1>2, <1>3, <1>4 DEF Diagnose

LEMMA PlanWalk == ASSUME WalkInv, Plan PROVE WalkInv'
<1>1. UNCHANGED <<tele, provider, document>> /\ pc = "plan" /\ pc' = "adopt"
  BY DEF Plan
<1>2. CASE run' = [run EXCEPT !.state = "BLOCKED"]
  BY <1>1, <1>2, MovedWalk
<1>3. ASSUME Plannable, NEW s \in {"BLOCKED", "AWAITING_APPROVAL", "RESOLVED", "ESCALATED"},
             run' = [run EXCEPT !.state = s, !.planned = TRUE]
      PROVE  WalkInv'
  <2>1. /\ DOMAIN run' = DOMAIN run /\ run'.pack = run.pack
        /\ run'.diagnosis = run.diagnosis /\ run'.state # "AUDITED"
    BY <1>3 DEF WalkInv, BankInv
  <2>2. /\ provider # "direct" /\ run.pack # << >>
        /\ run.diagnosis # None /\ run.diagnosis.runbook = "current"
    BY <1>3 DEF Plannable, Connected, None
  <2>3. Oracle' = Oracle /\ Pack(tele)' = Pack(tele)
    BY <1>1 DEF Oracle, Pack, Freshness, Detection, TrustFor
  <2>4. \A d : Checked(d)' <=> Checked(d)
    BY <1>1, <2>3 DEF Checked
  <2>5. BankInv'
    BY <1>1, <2>1, <2>2, <2>3, <2>4 DEF WalkInv, BankInv
  <2>6. ReportInv'
    BY <1>1, <2>1, SameCites DEF WalkInv, ReportInv
  <2> QED BY <2>5, <2>6 DEF WalkInv
<1> QED BY <1>2, <1>3 DEF Plan

\* The claims of a report that is covered cite recent observations.
LEMMA CoveredCites ==
  ASSUME BankInv, Covered, NEW c \in Claims
  PROVE  Cites(c)
<1>1. PICK i \in c \cap DOMAIN run.pack : ~Stale(run.pack[i]) /\ run.pack[i].trust # "LOW"
  BY DEF Covered, Grounded
<1>2. run.pack = Pack(tele) /\ i \in DOMAIN tele.rows
  BY <1>1 DEF BankInv, Pack
<1>3. run.pack[i].trust = TrustFor(Freshness(tele, tele.rows[i]))
  BY <1>2 DEF Pack
<1>4. Freshness(tele, tele.rows[i]) <= StaleAfter
  BY <1>1, <1>3 DEF TrustFor
<1> QED BY <1>1, <1>2, <1>4, TrustedIsRecent DEF BankInv, Cites

LEMMA FinalizeWalk == ASSUME WalkInv, NEW result, Finalize(result) PROVE WalkInv'
<1>1. UNCHANGED <<tele, provider, pc>>
  BY DEF Finalize
<1>2. CASE result # "draft"
  BY <1>1, <1>2, MovedWalk DEF Finalize
<1>3. CASE result = "draft"
  <2>1. document' = Claims /\ run' = [run EXCEPT !.state = "AUDITED"]
    BY <1>3 DEF Finalize
  <2>2. Covered
    BY <1>3 DEF Finalize, Report
  <2>3. /\ DOMAIN run' = DOMAIN run /\ run'.pack = run.pack
        /\ run'.diagnosis = run.diagnosis /\ run'.planned = run.planned
    BY <2>1 DEF WalkInv, BankInv
  <2>4. Oracle' = Oracle /\ Pack(tele)' = Pack(tele)
    BY <1>1 DEF Oracle, Pack, Freshness, Detection, TrustFor
  <2>5. \A d : Checked(d)' <=> Checked(d)
    BY <1>1, <2>4 DEF Checked
  <2>6. BankInv'
    BY <1>1, <2>3, <2>4, <2>5 DEF WalkInv, BankInv
  <2>7. Claims # {}
    BY DEF Claims
  <2>8. \A c \in Claims : Cites(c)
    BY <2>2, CoveredCites DEF WalkInv
  <2>9. ReportInv'
    BY <1>1, <2>1, <2>7, <2>8, SameCites DEF ReportInv
  <2> QED BY <2>6, <2>9 DEF WalkInv
<1> QED BY <1>2, <1>3

AskStep ==
  \E q \in Asker :
    Lock(q) \/ LockUnread(q) \/ Write(q) \/ WriteFails(q)
      \/ Read(q) \/ Ground(q) \/ Refuse(q)

LEMMA NextWalk == WalkInv /\ [Next]_vars => WalkInv'
<1> SUFFICES ASSUME WalkInv, [Next]_vars PROVE WalkInv'
  OBVIOUS
<1>1. CASE Triage \/ Adopt
  BY <1>1, MovedWalk DEF Triage, Adopt
<1>2. CASE Diagnose
  BY <1>2, DiagnoseWalk
<1>3. CASE Plan
  BY <1>3, PlanWalk
<1>4. CASE Close
  <2>1. PICK s \in {"RESOLVED", "ESCALATED", "DENIED"} : run' = [run EXCEPT !.state = s]
    BY <1>4 DEF Close
  <2> QED BY <1>4, <2>1, MovedWalk DEF Close
<1>5. CASE \E result \in {"gated", "raised", "draft"} : Finalize(result)
  BY <1>5, FinalizeWalk
<1>6. CASE AskStep \/ UNCHANGED vars
  <2>1. UNCHANGED walking
    BY <1>6 DEF AskStep, Lock, LockUnread, Write, WriteFails, Read, Ground, Refuse,
       walking, vars
  <2> QED BY <2>1, MovedWalk DEF walking
<1> QED BY <1>1, <1>2, <1>3, <1>4, <1>5, <1>6 DEF Next, Walk, AskStep

LEMMA NextLock == LockInv /\ [Next]_vars => LockInv'
<1> SUFFICES ASSUME LockInv, [Next]_vars PROVE LockInv'
  OBVIOUS
<1>1. CASE AskStep
  BY <1>1, LockLock, LockUnreadLock, WriteLock, WriteFailsLock, AnswerLock DEF AskStep
<1>2. CASE UNCHANGED asking
  BY <1>2 DEF LockInv, asking, Kept
<1>3. Walk \/ Close \/ (\E result \in {"gated", "raised", "draft"} : Finalize(result))
        \/ UNCHANGED vars => UNCHANGED asking
  BY DEF Walk, Triage, Diagnose, Plan, Adopt, Close, Finalize, vars, asking
<1> QED BY <1>1, <1>2, <1>3 DEF Next, AskStep

-----------------------------------------------------------------------------

\* No plan without a checked diagnosis of this incident, whatever models answer
\* and whichever of them fail.
THEOREM PlannedIsReasonedHolds == Spec => []PlannedIsReasoned
<1>1. WalkInv => PlannedIsReasoned
  <2> SUFFICES ASSUME WalkInv, run.planned PROVE PlannedIsReasoned
    BY DEF PlannedIsReasoned
  <2>1. Checked(run.diagnosis) /\ provider # "direct" /\ run.diagnosis.runbook = "current"
    BY DEF WalkInv, BankInv
  <2>2. run.pack = Pack(tele) /\ run.pack # << >>
    BY DEF WalkInv, BankInv
  <2>3. tele.rows # << >>
    <3> SUFFICES ASSUME tele.rows = << >> PROVE FALSE
      OBVIOUS
    <3>1. DOMAIN tele.rows = {}
      OBVIOUS
    <3>2. Pack(tele) = << >>
      BY <3>1 DEF Pack
    <3> QED BY <2>2, <3>2
  <2> QED BY <2>1, <2>3 DEF PlannedIsReasoned, Checked
<1> QED BY <1>1, InitWalk, NextWalk, PTL DEF Spec

\* Every published claim cites a recent observation of the incident's own
\* telemetry, however rows are dated and models answer.
THEOREM PublishedIsGroundedHolds == Spec => []PublishedIsGrounded
<1>1. WalkInv => PublishedIsGrounded
  BY DEF WalkInv, ReportInv, Cites, PublishedIsGrounded
<1> QED BY <1>1, InitWalk, NextWalk, PTL DEF Spec

\* The thread on disk is the tail of all turns, for any number of operators at
\* once, refused writes included; a thread that could not be read starts over.
THEOREM ThreadIsTailHolds == Spec => []ThreadIsTail
<1>1. LockInv => ThreadIsTail
  BY DEF LockInv, ThreadIsTail
<1> QED BY <1>1, InitLock, NextLock, PTL DEF Spec

-----------------------------------------------------------------------------
(* Types.                                                                  *)

Places == {"triage", "diagnose", "plan", "adopt", "done", "failed"}

States == {"TRIAGING", "PLANNED", "ESCALATED", "BLOCKED", "AWAITING_APPROVAL",
           "RESOLVED", "DENIED", "RCA_PENDING", "AUDITED"}

\* A run that is served is not diagnosed again, and one with a pack has a pinned
\* diagnosis.
RunInv ==
  /\ pc \in Places /\ run.state \in States
  /\ run.diagnosis \in Answer \cup {None} /\ run.planned \in BOOLEAN
  /\ run.pack # << >> => run.diagnosis.verdict = "PINNED"
  /\ served \in BOOLEAN /\ called \in BOOLEAN
  /\ served => pc = "done"
  /\ ~served => document = {}
  /\ document \subseteq SUBSET DOMAIN run.pack

AgentTurn == [role : {"agent"}, by : Asker, verdict : {"NO_EVIDENCE", "PINNED", "ERROR"},
              evidence_ids : SUBSET DOMAIN tele.rows]

Steps == {"asking", "reading", "grounding", "replying", "answered", "failed"}

Closed == {"answered", "failed"}

\* A request and the turn it holds; what is grounded is the agent's turn, from
\* a run that has been served with its pack.
Fits(r) ==
  /\ r.at \in Steps /\ r.turn \in Turn /\ r.copy \in Seq(Turn)
  /\ r.at = "grounding" => r.turn \in AgentTurn /\ served /\ run.pack # << >>

Begun == {q \in Asker : ask[q].at # "asking"}

Finished == {q \in Asker : ask[q].at \in Closed}

\* Every turn that was written is one of a request that has gone on since.
TalkInv ==
  /\ \A q \in Asker : Fits(ask[q])
  /\ thread \in Seq(Turn) /\ said \in Seq(Turn) /\ inside \subseteq Asker
  /\ Len(said) <= Cardinality(Begun) + Cardinality(Finished)

TypeInv == WalkInv /\ LockInv /\ RunInv /\ TalkInv

LEMMA KeptIsSeq ==
  ASSUME NEW S, NEW s \in Seq(S)
  PROVE  Kept(s) \in Seq(S) /\ Len(Kept(s)) <= MaxTurns
<1>1. MaxTurns \in Nat /\ Len(s) \in Nat
  BY MaxTurnsAssumption
<1> QED BY <1>1 DEF Kept

LEMMA SetsAreFinite ==
  /\ IsFiniteSet(Begun) /\ IsFiniteSet(Finished) /\ IsFiniteSet(Asker)
  /\ Cardinality(Begun) \in Nat /\ Cardinality(Finished) \in Nat /\ Cardinality(Asker) \in Nat
  /\ Cardinality(Begun) <= Cardinality(Asker) /\ Cardinality(Finished) <= Cardinality(Asker)
<1>1. Begun \in SUBSET Asker /\ Finished \in SUBSET Asker
  BY DEF Begun, Finished
<1>2. IsFiniteSet(Begun) /\ IsFiniteSet(Finished)
  BY <1>1, AskerAssumption, FS_Subset
<1>3. Cardinality(Begun) <= Cardinality(Asker) /\ Cardinality(Finished) <= Cardinality(Asker)
  BY <1>1, AskerAssumption, FS_Subset
<1> QED BY <1>2, <1>3, AskerAssumption, FS_CardinalityType

LEMMA InvIsType == TypeInv => TypeOK
<1> SUFFICES ASSUME TypeInv PROVE TypeOK
  OBVIOUS
<1>1. /\ tele \in Telemetry /\ provider \in Provider /\ run.pack \in {<< >>, Pack(tele)}
  BY DEF TypeInv, WalkInv, BankInv
<1>2. Len(thread) <= MaxTurns
  BY KeptIsSeq DEF TypeInv, LockInv
<1>3. Len(said) <= 2 * Cardinality(Asker)
  <2>1. Len(said) \in Nat /\ Len(said) <= Cardinality(Begun) + Cardinality(Finished)
    BY DEF TypeInv, TalkInv
  <2> QED BY <2>1, SetsAreFinite
<1>4. ASSUME NEW q \in Asker
      PROVE  /\ ask[q].at \in Steps /\ ask[q].turn \in Turn
             /\ \A i \in DOMAIN ask[q].copy : ask[q].copy[i] \in Turn
  <2>1. Fits(ask[q])
    BY DEF TypeInv, TalkInv
  <2>2. ask[q].copy \in Seq(Turn)
    BY <2>1 DEF Fits
  <2>3. \A i \in DOMAIN ask[q].copy : ask[q].copy[i] \in Turn
    BY <2>2
  <2> QED BY <2>1, <2>3 DEF Fits
<1>5. inside \subseteq Asker /\ unread \subseteq inside
  BY DEF TypeInv, TalkInv, LockInv
<1> QED BY <1>1, <1>2, <1>3, <1>4, <1>5 DEF TypeOK, TypeInv, RunInv, Places, States, Steps

-----------------------------------------------------------------------------
(* The walk and the postmortem.                                            *)

LEMMA OracleIsAnswer == Oracle \in Answer
BY DEF Oracle, Answer

\* Nobody speaks while the run moves, and what was grounded stays so.
LEMMA SilentTalk ==
  ASSUME TypeInv, UNCHANGED asking, UNCHANGED tele, served => served',
         served => run'.pack = run.pack
  PROVE  TalkInv'
<1>1. Turn' = Turn /\ AgentTurn' = AgentTurn
  BY DEF Turn, AgentTurn
<1>2. \A r : Fits(r) => Fits(r)'
  BY <1>1 DEF Fits
<1>3. Begun' = Begun /\ Finished' = Finished
  BY DEF Begun, Finished, asking
<1> QED BY <1>1, <1>2, <1>3 DEF TypeInv, TalkInv, asking

\* What changes the state of the run only, or nothing.
LEMMA MovedRun ==
  ASSUME TypeInv, UNCHANGED document, called' \in BOOLEAN, pc' \in Places,
         \/ UNCHANGED run
         \/ \E s \in States : run' = [run EXCEPT !.state = s]
         \/ \E s \in States : run' = [run EXCEPT !.state = s, !.planned = TRUE],
         served' \in BOOLEAN, served' => pc' = "done", ~served' => ~served
  PROVE  RunInv' /\ run'.pack = run.pack
<1>1. DOMAIN run = {"state", "diagnosis", "pack", "planned"}
  BY DEF TypeInv, WalkInv, BankInv
<1>2. /\ run'.pack = run.pack /\ run'.diagnosis = run.diagnosis
      /\ run'.state \in States /\ run'.planned \in BOOLEAN
  BY <1>1 DEF TypeInv, RunInv
<1>3. ~served => document = {}
  BY DEF TypeInv, RunInv
<1>4. /\ run.diagnosis \in Answer \cup {None} /\ document \subseteq SUBSET DOMAIN run.pack
      /\ run.pack # << >> => run.diagnosis.verdict = "PINNED"
  BY DEF TypeInv, RunInv
<1> QED BY <1>2, <1>3, <1>4 DEF RunInv

LEMMA DiagnosedRun ==
  ASSUME TypeInv, pc = "diagnose", UNCHANGED <<served, document>>, called' \in BOOLEAN,
         NEW d \in Answer, Diagnosed(d)
  PROVE  RunInv'
<1>1. served = FALSE /\ document = {}
  BY DEF TypeInv, RunInv
<1>2. CASE d.verdict # "PINNED"
  <2>1. pc' = "adopt" /\ run' = [run EXCEPT !.state = "ESCALATED"]
    BY <1>2 DEF Diagnosed
  <2> QED BY <1>1, <2>1, MovedRun DEF Places, States
<1>3. CASE d.verdict = "PINNED"
  <2>1. /\ pc' = "plan"
        /\ run' = [run EXCEPT !.state = "PLANNED", !.diagnosis = d, !.pack = Pack(tele)]
    BY <1>3 DEF Diagnosed
  <2>2. DOMAIN run = {"state", "diagnosis", "pack", "planned"}
    BY DEF TypeInv, WalkInv, BankInv
  <2>3. run'.diagnosis = d /\ run'.state = "PLANNED" /\ run'.planned = run.planned
    BY <2>1, <2>2
  <2> QED BY <1>1, <1>3, <2>1, <2>3 DEF TypeInv, RunInv, Places, States
<1> QED BY <1>2, <1>3

\* An answer of which the lexical fallback replaces what a model would have said.
LEMMA FallbackIsAnswer == Fallback \in Answer
<1>1. ASSUME NEW I, NEW V, NEW R, NEW H, NEW W, NEW S, NEW B, NEW T,
             NEW d \in [iid : I, verdict : V, runbook : R, hyps : H, why : W, supporting : S,
                         supported : B, text : T],
             NEW v \in V, NEW h \in H, NEW s \in S, NEW b \in B
      PROVE  [d EXCEPT !.verdict = v, !.hyps = h, !.supporting = s, !.supported = b] \in
               [iid : I, verdict : V, runbook : R, hyps : H, why : W, supporting : S,
                supported : B, text : T]
  OBVIOUS
<1>2. 1 \in 1..3 /\ {} \in SUBSET (0..4)
  OBVIOUS
<1> QED BY <1>1, <1>2, OracleIsAnswer DEF Fallback, Answer

LEMMA DiagnoseRun == ASSUME TypeInv, Diagnose PROVE RunInv'
<1>1. /\ pc = "diagnose" /\ UNCHANGED <<served, document>> /\ called' \in BOOLEAN
      /\ served = FALSE
  BY DEF Diagnose, TypeInv, RunInv, Connected
<1>2. Fallback \in Answer
  BY FallbackIsAnswer
<1>3. ASSUME NEW d \in Answers,
             IF Rejected(d) THEN pc' = "failed" /\ UNCHANGED run ELSE Diagnosed(d)
      PROVE  RunInv'
  <2>1. CASE Rejected(d)
    BY <1>1, <1>3, <2>1, MovedRun DEF Places, TypeInv, RunInv
  <2>2. CASE ~Rejected(d)
    BY <1>1, <1>3, <2>2, AnswersAssumption, DiagnosedRun
  <2> QED BY <2>1, <2>2
<1> QED BY <1>1, <1>2, <1>3, OracleIsAnswer, DiagnosedRun DEF Diagnose

LEMMA FinalizeRun ==
  ASSUME TypeInv, NEW result, Finalize(result)
  PROVE  RunInv' /\ run'.pack = run.pack
<1>1. UNCHANGED <<tele, pc, served>> /\ served /\ called' \in BOOLEAN
  BY DEF Finalize, TypeInv, RunInv, Connected, Covered, Blaming
<1>2. CASE result # "draft"
  <2>1. UNCHANGED document /\ run' = [run EXCEPT !.state = "RCA_PENDING"]
    BY <1>2 DEF Finalize
  <2>2. pc' \in Places /\ "RCA_PENDING" \in States /\ pc' = "done" /\ served' \in BOOLEAN
    BY <1>1 DEF TypeInv, RunInv, States
  <2> QED BY <1>1, <2>1, <2>2, MovedRun
<1>3. CASE result = "draft"
  <2>1. document' = Claims /\ run' = [run EXCEPT !.state = "AUDITED"]
    BY <1>3 DEF Finalize
  <2>2. DOMAIN run = {"state", "diagnosis", "pack", "planned"}
    BY DEF TypeInv, WalkInv, BankInv
  <2>3. /\ run'.pack = run.pack /\ run'.diagnosis = run.diagnosis
        /\ run'.planned = run.planned /\ run'.state = "AUDITED"
    BY <2>1, <2>2
  <2>4. Claims \subseteq SUBSET DOMAIN run.pack
    BY DEF Claims, Valid
  <2> QED BY <1>1, <2>1, <2>3, <2>4 DEF TypeInv, RunInv, States
<1> QED BY <1>2, <1>3

LEMMA WalkedType ==
  ASSUME TypeInv, Walk \/ Close \/ \E result \in {"gated", "raised", "draft"} : Finalize(result)
  PROVE  RunInv' /\ TalkInv'
<1>1. UNCHANGED <<asking, tele>> /\ (served => served')
  BY DEF Walk, Triage, Diagnose, Plan, Adopt, Close, Finalize
<1>2. CASE Diagnose
  <2>1. ~served
    BY <1>2 DEF Diagnose, TypeInv, RunInv
  <2> QED BY <1>1, <1>2, <2>1, SilentTalk, DiagnoseRun
<1>3. CASE Triage \/ Adopt
  <2>1. UNCHANGED <<run, document>> /\ called' \in BOOLEAN /\ pc' \in Places
    BY <1>3 DEF Triage, Adopt, TypeInv, RunInv, Connected, Places
  <2>2. served' \in BOOLEAN /\ (served' => pc' = "done") /\ (~served' => ~served)
    <3>1. CASE Triage
      <4>1. served = FALSE
        BY <3>1 DEF Triage, TypeInv, RunInv
      <4> QED BY <3>1, <4>1 DEF Triage
    <3>2. CASE Adopt
      BY <3>2 DEF Adopt
    <3> QED BY <1>3, <3>1, <3>2
  <2> QED BY <1>1, <2>1, <2>2, MovedRun, SilentTalk
<1>4. CASE Plan
  <2>1. UNCHANGED <<document, served>> /\ served = FALSE /\ pc' \in Places
    BY <1>4 DEF Plan, TypeInv, RunInv, Places
  <2>2. called' \in BOOLEAN
    BY <1>4 DEF Plan, TypeInv, RunInv, Plannable, Connected
  <2>3. \/ \E s \in States : run' = [run EXCEPT !.state = s]
        \/ \E s \in States : run' = [run EXCEPT !.state = s, !.planned = TRUE]
    BY <1>4 DEF Plan, States
  <2> QED BY <1>1, <2>1, <2>2, <2>3, MovedRun, SilentTalk
<1>5. CASE Close
  <2>1. /\ UNCHANGED <<document, served, pc, called>> /\ pc' \in Places /\ called' \in BOOLEAN
        /\ served' \in BOOLEAN /\ pc' = "done"
    BY <1>5 DEF Close, TypeInv, RunInv
  <2>2. \E s \in States : run' = [run EXCEPT !.state = s]
    BY <1>5 DEF Close, States
  <2> QED BY <1>1, <2>1, <2>2, MovedRun, SilentTalk
<1>6. CASE \E result \in {"gated", "raised", "draft"} : Finalize(result)
  BY <1>1, <1>6, FinalizeRun, SilentTalk
<1> QED BY <1>2, <1>3, <1>4, <1>5, <1>6 DEF Walk

-----------------------------------------------------------------------------
(* The requests.                                                           *)

\* One request goes on; a turn that is written is one step of it.
LEMMA SpokenType ==
  ASSUME TypeInv, UNCHANGED walking, NEW q \in Asker, NEW r, Fits(r),
         ask' = [ask EXCEPT ![q] = r],
         thread' \in Seq(Turn), said' \in Seq(Turn), inside' \subseteq Asker,
         r.at = "asking" => ask[q].at = "asking",
         ask[q].at \in Closed => r.at \in Closed,
         \/ Len(said') = Len(said)
         \/ /\ Len(said') <= Len(said) + 1
            /\ \/ ask[q].at = "asking" /\ r.at # "asking"
               \/ ask[q].at \notin Closed /\ r.at \in Closed
  PROVE  RunInv' /\ TalkInv'
<1>1. Turn' = Turn /\ AgentTurn' = AgentTurn
  BY DEF Turn, AgentTurn, walking
<1>2. \A s : Fits(s) <=> Fits(s)'
  BY <1>1 DEF Fits, walking
<1>3. DOMAIN ask = Asker
  BY DEF TypeInv, LockInv
<1>4. ask'[q] = r /\ \A p \in Asker : p # q => ask'[p] = ask[p]
  BY <1>3
<1>5. \A p \in Asker : Fits(ask'[p])
  BY <1>4 DEF TypeInv, TalkInv
<1>6. /\ Begun' = IF r.at # "asking" THEN Begun \cup {q} ELSE Begun
      /\ Finished' = IF r.at \in Closed THEN Finished \cup {q} ELSE Finished
      /\ q \in Begun <=> ask[q].at # "asking"
      /\ q \in Finished <=> ask[q].at \in Closed
  BY <1>4 DEF Begun, Finished
<1>7. /\ Len(said) \in Nat /\ Len(said) <= Cardinality(Begun) + Cardinality(Finished)
      /\ Len(said') \in Nat
  BY DEF TypeInv, TalkInv
<1>8. /\ Cardinality(Begun') = Cardinality(Begun) + (IF ask[q].at = "asking" /\ r.at # "asking" THEN 1 ELSE 0)
      /\ Cardinality(Finished') =
           Cardinality(Finished) + (IF ask[q].at \notin Closed /\ r.at \in Closed THEN 1 ELSE 0)
  <2>1. /\ Cardinality(Begun \cup {q}) = IF q \in Begun THEN Cardinality(Begun) ELSE Cardinality(Begun) + 1
        /\ Cardinality(Finished \cup {q}) =
             IF q \in Finished THEN Cardinality(Finished) ELSE Cardinality(Finished) + 1
    BY SetsAreFinite, FS_AddElement
  <2>2. Cardinality(Begun) \in Nat /\ Cardinality(Finished) \in Nat
    BY SetsAreFinite
  <2> QED BY <1>6, <2>1, <2>2
<1>9. Len(said') <= Cardinality(Begun') + Cardinality(Finished')
  <2>1. Cardinality(Begun) \in Nat /\ Cardinality(Finished) \in Nat
    BY SetsAreFinite
  <2> QED BY <1>7, <1>8, <2>1
<1>10. TalkInv'
  BY <1>1, <1>2, <1>5, <1>9 DEF TalkInv
<1>11. RunInv'
  BY DEF TypeInv, RunInv, walking
<1> QED BY <1>10, <1>11

LEMMA AskedType ==
  ASSUME TypeInv, NEW q \in Asker,
         \/ Lock(q) \/ LockUnread(q) \/ Write(q) \/ WriteFails(q)
         \/ Read(q) \/ Ground(q) \/ Refuse(q)
  PROVE  RunInv' /\ TalkInv'
<1>1. /\ DOMAIN ask = Asker /\ DOMAIN ask[q] = {"at", "turn", "copy"} /\ Fits(ask[q])
      /\ thread \in Seq(Turn) /\ said \in Seq(Turn) /\ inside \subseteq Asker
  BY DEF TypeInv, LockInv, TalkInv
<1>2. CASE Lock(q)
  <2> DEFINE r == [ask[q] EXCEPT !.copy = thread]
  <2>1. /\ ask' = [ask EXCEPT ![q] = r] /\ inside' \subseteq Asker
        /\ UNCHANGED <<walking, thread, said>> /\ ask[q].at \in {"asking", "replying"}
    BY <1>2 DEF Lock
  <2>2. r.at = ask[q].at /\ r.turn = ask[q].turn /\ r.copy = thread
    BY <1>1
  <2> HIDE DEF r
  <2>3. Fits(r)
    BY <1>1, <2>2 DEF Fits
  <2> QED BY <1>1, <2>1, <2>2, <2>3, SpokenType DEF Closed
<1>3. CASE Write(q)
  <2> DEFINE at == IF ask[q].at = "asking" THEN "reading" ELSE "answered"
             r == [ask[q] EXCEPT !.at = at, !.copy = << >>]
             turn == ask[q].turn
             base == IF q \in unread THEN << >> ELSE said
  <2>1. /\ ask' = [ask EXCEPT ![q] = r] /\ inside' \subseteq Asker /\ UNCHANGED walking
        /\ thread' = Kept(Append(ask[q].copy, turn)) /\ said' = Append(base, turn)
        /\ ask[q].at \in {"asking", "replying"}
    BY <1>1, <1>3 DEF Write, TypeInv, LockInv
  <2>2. r.at = at /\ r.turn = ask[q].turn /\ r.copy = << >>
    BY <1>1
  <2> HIDE DEF r
  <2>3. Fits(r)
    BY <1>1, <2>2 DEF Fits, Steps
  <2>4. turn \in Turn /\ ask[q].copy \in Seq(Turn)
    BY <1>1 DEF Fits
  <2>5. thread' \in Seq(Turn) /\ said' \in Seq(Turn) /\ Len(said') <= Len(said) + 1
    <3>0. base \in Seq(Turn) /\ Len(base) <= Len(said) /\ Len(base) \in Nat /\ Len(said) \in Nat
      BY <1>1
    <3> HIDE DEF turn, base
    <3>1. Append(ask[q].copy, turn) \in Seq(Turn)
      BY <2>4
    <3>2. said' \in Seq(Turn) /\ Len(said') <= Len(said) + 1
      <4>1. said' \in Seq(Turn) /\ Len(said') = Len(base) + 1
        BY <2>1, <2>4, <3>0
      <4> QED BY <3>0, <4>1
    <3> QED BY <2>1, <3>1, <3>2, KeptIsSeq
  <2> QED BY <1>1, <2>1, <2>2, <2>3, <2>5, SpokenType DEF Closed
<1>4. CASE WriteFails(q)
  <2> DEFINE r == [ask[q] EXCEPT !.at = "failed", !.copy = << >>]
  <2>1. /\ ask' = [ask EXCEPT ![q] = r] /\ inside' \subseteq Asker
        /\ UNCHANGED <<walking, thread, said>>
    BY <1>1, <1>4 DEF WriteFails
  <2>2. r.at = "failed" /\ r.turn = ask[q].turn /\ r.copy = << >>
    BY <1>1
  <2> HIDE DEF r
  <2>3. Fits(r)
    BY <1>1, <2>2 DEF Fits, Steps
  <2> QED BY <1>1, <2>1, <2>2, <2>3, SpokenType DEF Closed
<1>5. CASE Read(q)
  <2> DEFINE turn == [role |-> "agent", by |-> q, verdict |-> "NO_EVIDENCE",
                      evidence_ids |-> Observed]
             at == IF Observed = {} THEN "replying" ELSE "grounding"
             r == [ask[q] EXCEPT !.at = at, !.turn = turn]
  <2>1. /\ ask' = [ask EXCEPT ![q] = r] /\ UNCHANGED <<walking, inside, thread, said>>
        /\ ask[q].at = "reading"
    BY <1>5 DEF Read, At
  <2>2. r.at = at /\ r.turn = turn /\ r.copy = ask[q].copy
    BY <1>1
  <2> HIDE DEF r
  <2>3. run.pack \in {<< >>, Pack(tele)}
    BY DEF TypeInv, WalkInv, BankInv
  <2>4. Observed \in SUBSET DOMAIN tele.rows
    BY <2>3 DEF Observed, Pack
  <2>5. turn \in AgentTurn /\ turn \in Turn
    BY <2>4 DEF AgentTurn, Turn
  <2>6. Observed # {} => served /\ run.pack # << >>
    BY DEF Observed
  <2> HIDE DEF turn
  <2>7. Fits(r)
    BY <1>1, <2>2, <2>5, <2>6 DEF Fits, Steps
  <2>8. r.at \notin Closed /\ r.at # "asking"
    BY <2>2 DEF Closed
  <2> QED BY <1>1, <2>1, <2>2, <2>7, <2>8, SpokenType DEF Closed
<1>6. CASE Ground(q)
  <2> DEFINE turn == [ask[q].turn EXCEPT !.verdict = run.diagnosis.verdict]
             r == [ask[q] EXCEPT !.at = "replying", !.turn = turn]
  <2>1. /\ ask' = [ask EXCEPT ![q] = r] /\ UNCHANGED <<walking, inside, thread, said>>
        /\ ask[q].at = "grounding"
    BY <1>6 DEF Ground, At
  <2>2. r.at = "replying" /\ r.turn = turn /\ r.copy = ask[q].copy
    BY <1>1
  <2> HIDE DEF r
  <2>3. ask[q].turn \in AgentTurn /\ run.diagnosis.verdict = "PINNED"
    BY <1>1, <2>1 DEF Fits, TypeInv, RunInv
  <2>4. turn \in Turn
    BY <2>3 DEF AgentTurn, Turn
  <2> HIDE DEF turn
  <2>5. Fits(r)
    BY <1>1, <2>2, <2>4 DEF Fits, Steps
  <2> QED BY <1>1, <2>1, <2>2, <2>5, SpokenType DEF Closed
<1>7. CASE LockUnread(q)
  <2> DEFINE r == [ask[q] EXCEPT !.copy = << >>]
  <2>1. /\ ask' = [ask EXCEPT ![q] = r] /\ inside' \subseteq Asker
        /\ UNCHANGED <<walking, thread, said>> /\ ask[q].at \in {"asking", "replying"}
    BY <1>7 DEF LockUnread
  <2>2. r.at = ask[q].at /\ r.turn = ask[q].turn /\ r.copy = << >>
    BY <1>1
  <2> HIDE DEF r
  <2>3. Fits(r)
    BY <1>1, <2>1, <2>2 DEF Fits
  <2> QED BY <1>1, <2>1, <2>2, <2>3, SpokenType DEF Closed
<1>8. CASE Refuse(q)
  <2> DEFINE turn == [ask[q].turn EXCEPT !.verdict = "ERROR", !.evidence_ids = {}]
             r == [ask[q] EXCEPT !.at = "replying", !.turn = turn]
  <2>1. /\ ask' = [ask EXCEPT ![q] = r] /\ UNCHANGED <<walking, inside, thread, said>>
        /\ ask[q].at = "grounding"
    BY <1>8 DEF Refuse, At
  <2>2. r.at = "replying" /\ r.turn = turn /\ r.copy = ask[q].copy
    BY <1>1
  <2> HIDE DEF r
  <2>3. ask[q].turn \in AgentTurn
    BY <1>1, <2>1 DEF Fits
  <2>4. turn \in Turn
    BY <2>3 DEF AgentTurn, Turn
  <2> HIDE DEF turn
  <2>5. Fits(r)
    BY <1>1, <2>2, <2>4 DEF Fits, Steps
  <2> QED BY <1>1, <2>1, <2>2, <2>5, SpokenType DEF Closed
<1> QED BY <1>2, <1>3, <1>4, <1>5, <1>6, <1>7, <1>8

LEMMA InitType == Init => TypeInv
<1> SUFFICES ASSUME Init PROVE TypeInv
  OBVIOUS
<1>1. RunInv
  BY DEF Init, RunInv, Places, States, None
<1>2. ASSUME NEW q \in Asker PROVE Fits(ask[q]) /\ ask[q].at = "asking"
  <2>1. ask[q] = [at |-> "asking", turn |-> [role |-> "operator", by |-> q], copy |-> << >>]
    BY DEF Init
  <2>2. [role |-> "operator", by |-> q] \in Turn
    BY DEF Turn
  <2>3. << >> \in Seq(Turn)
    OBVIOUS
  <2> QED BY <2>1, <2>2, <2>3 DEF Fits, Steps
<1>3. thread = << >> /\ said = << >> /\ inside = {}
  BY DEF Init
<1>4. TalkInv
  <2>1. thread \in Seq(Turn) /\ said \in Seq(Turn) /\ Len(said) = 0
    BY <1>3
  <2>2. Cardinality(Begun) \in Nat /\ Cardinality(Finished) \in Nat
    BY SetsAreFinite
  <2> QED BY <1>2, <1>3, <2>1, <2>2 DEF TalkInv
<1> QED BY <1>1, <1>4, InitWalk, InitLock DEF TypeInv

LEMMA NextType == TypeInv /\ [Next]_vars => TypeInv'
<1> SUFFICES ASSUME TypeInv, [Next]_vars PROVE TypeInv'
  OBVIOUS
<1>1. WalkInv' /\ LockInv'
  BY NextWalk, NextLock DEF TypeInv
<1>2. CASE Walk \/ Close \/ \E result \in {"gated", "raised", "draft"} : Finalize(result)
  BY <1>1, <1>2, WalkedType DEF TypeInv
<1>3. CASE AskStep
  BY <1>1, <1>3, AskedType DEF AskStep, TypeInv
<1>4. CASE UNCHANGED vars
  <2>1. RunInv'
    BY <1>4 DEF TypeInv, RunInv, vars
  <2> QED BY <1>1, <1>4, <2>1, SilentTalk DEF TypeInv, vars, asking
<1> QED BY <1>2, <1>3, <1>4 DEF Next, AskStep

\* Every state has the type it should have: no thread longer than its bound, no
\* more turns than the requests wrote, no claim that cites what is not in the pack.
THEOREM TypeCorrect == Spec => []TypeOK
BY InvIsType, InitType, NextType, PTL DEF Spec

=============================================================================
