------------------------------- MODULE Agents -------------------------------
(***************************************************************************)
(* What the agents may conclude from one incident's telemetry: the         *)
(* evidence pack, triage, diagnosis and plan of run_pipeline, the          *)
(* post-incident report of finalize_rca, and the operator's questions to   *)
(* POST /agents/investigate with the thread they are kept in.              *)
(*                                                                         *)
(* Evidence ids are positions in the pack.  A model's answer is what the   *)
(* checks on it tell apart; prose is "clean", "blaming" (the blameless     *)
(* lint refuses it) or "long" (it does not fit the report).  The gates     *)
(* after the plan are the subject of Remediation: here they are a choice.  *)
(***************************************************************************)
EXTENDS Integers, Sequences, FiniteSetsExt

CONSTANTS
  Telemetry,      \* the bundles a job may bring
  Answers,        \* what a live diagnostic agent may return
  Asker,          \* threads of POST /agents/investigate
  MaxTurns        \* turns a thread keeps

StaleAfter == 900 \* seconds

Unknown == -1     \* a missing or malformed time

Row == [kind : {"log", "metric", "deploy"}, ts : Nat \cup {Unknown}]

ASSUME TelemetryAssumption ==
  Telemetry \subseteq [alerts : SUBSET Nat, rows : Seq(Row)]
ASSUME AskerAssumption == IsFiniteSet(Asker)
ASSUME MaxTurnsAssumption == MaxTurns \in Nat \ {0}

KB == {0}         \* the id of a runbook document

\* hyps: how many hypotheses; supporting: the citations of the leading one,
\* which counts as a lead only if its status is SUPPORTED; why: a single-cause
\* justification.
Answer == [iid : {"own", "other"}, verdict : {"PINNED", "INSUFFICIENT_EVIDENCE"},
           runbook : {"current", "drifted", "none"}, hyps : 1..3, why : BOOLEAN,
           supporting : SUBSET (0..4), supported : BOOLEAN,
           text : {"clean", "blaming", "long"}]

ASSUME AnswersAssumption == Answers \subseteq Answer

VARIABLES
  tele,           \* the incident's telemetry
  provider,       \* the credentials found: "lyzr", "direct" or none, "scripted"
  pc,             \* where the worker's walk is
  run,            \* the run: state, banked diagnosis and evidence pack, plan
  served,         \* the run is in REPO_STORE
  called,         \* a language model was called
  document,       \* run.rca_report: the claims of the published postmortem
  ask,            \* per thread: where its request is, and the turn it holds
  inside,         \* who holds the lock of the thread files
  unread,         \* who of them could not read the thread
  thread,         \* the turns on disk
  said            \* history: every turn written since one that was added to a
                  \* thread nobody could read, or since the beginning

vars == <<tele, provider, pc, run, served, called, document, ask, inside, unread,
          thread, said>>

walking == <<tele, provider, pc, run, served, called, document>>

asking == <<ask, inside, unread, thread, said>>

None == [verdict |-> "none"]

\* LLMHub.get_client: the first credential found, or the scripted oracle.
Provider == {"lyzr", "direct", "scripted"}

Turn == [role : {"operator"}, by : Asker] \cup
        [role : {"agent"}, by : Asker, verdict : {"NO_EVIDENCE", "PINNED", "ERROR"},
         evidence_ids : SUBSET DOMAIN tele.rows]

-----------------------------------------------------------------------------
(* The evidence pack.                                                      *)

\* The earliest alert; without one, the latest observation.
Detection(t) ==
  LET ends == {t.rows[i].ts : i \in DOMAIN t.rows} \ {Unknown}
  IN  IF t.alerts # {} THEN Min(t.alerts)
      ELSE IF ends # {} THEN Max(ends) ELSE Unknown

\* Age at detection.  An untimed row is fresh; so is the metric aggregate.
Freshness(t, row) ==
  IF row.kind = "metric" \/ row.ts = Unknown \/ Detection(t) = Unknown THEN 0
  ELSE Max({0, Detection(t) - row.ts})

TrustFor(freshness) == IF freshness <= StaleAfter THEN "MED" ELSE "LOW"

\* build_evidence_pack
Pack(t) ==
  [i \in DOMAIN t.rows |->
     [kind |-> t.rows[i].kind, freshness |-> Freshness(t, t.rows[i]),
      trust |-> TrustFor(Freshness(t, t.rows[i]))]]

Stale(evidence) == evidence.freshness > StaleAfter

\* Bug: membership in the pack is enough.
GroundedByMembership(claim, pack) == claim \cap DOMAIN pack # {}

\* _claim_grounded
Grounded(claim, pack) ==
  \E i \in claim \cap DOMAIN pack : ~Stale(pack[i]) /\ pack[i].trust # "LOW"

-----------------------------------------------------------------------------

Init ==
  /\ tele \in Telemetry
  /\ provider \in Provider
  /\ pc = "triage"
  /\ run = [state |-> "TRIAGING", diagnosis |-> None, pack |-> << >>, planned |-> FALSE]
  /\ served = FALSE /\ called = FALSE
  /\ document = {}
  /\ ask = [q \in Asker |-> [at |-> "asking", turn |-> [role |-> "operator", by |-> q],
                             copy |-> << >>]]
  /\ inside = {} /\ unread = {} /\ thread = << >> /\ said = << >>

-----------------------------------------------------------------------------
(* The worker's walk.  An exception that is not the pipeline's own leaves  *)
(* no run at all.                                                          *)

\* mode_for: a direct client is CONNECTED after a call that succeeded, and each
\* agent is given a new one.
Connected == provider # "direct"

\* chat: a call that fails, or that brings no JSON object, falls back.
Chat ==
  IF provider = "scripted" THEN {"oracle"}
  ELSE IF provider = "lyzr" THEN {"answer", "FALLBACK"} ELSE {"UNVERIFIED"}

\* A1: an answer, or the deterministic rules; a live answer may be rejected.
Triage ==
  /\ pc = "triage"
  /\ called' = (called \/ Connected)
  /\ \/ pc' = "diagnose"
     \/ "answer" \in Chat /\ pc' = "failed"
  /\ UNCHANGED <<tele, provider, run, served, document, asking>>

\* What the scripted oracle returns: it cites the first two pieces of evidence.
Oracle ==
  [iid |-> "own", verdict |-> "PINNED", runbook |-> "current", hyps |-> 2, why |-> FALSE,
   supporting |-> {1, 2} \cap DOMAIN tele.rows, supported |-> TRUE, text |-> "clean"]

\* Bug: the knowledge base's best hit is pinned without a model.
FallbackPinning == [Oracle EXCEPT !.supporting = {}, !.supported = FALSE]

\* The lexical lead: no model reasoned, so nothing is pinned.
Fallback ==
  [Oracle EXCEPT !.verdict = "INSUFFICIENT_EVIDENCE", !.hyps = 1, !.supporting = {},
                 !.supported = FALSE]

\* parse_or_reject, _pin_rules, and the checks of run_diagnose.
Rejected(d) ==
  \/ d.iid # "own"
  \/ d.verdict = "PINNED" /\ (d.runbook = "none" \/ (d.hyps < 2 /\ ~d.why))
  \/ ~(d.supporting \subseteq DOMAIN tele.rows \cup KB)

\* A2
Diagnosed(d) ==
  IF d.verdict = "PINNED"
  THEN /\ pc' = "plan"
       /\ run' = [run EXCEPT !.state = "PLANNED", !.diagnosis = d, !.pack = Pack(tele)]
  ELSE /\ pc' = "adopt"
       /\ run' = [run EXCEPT !.state = "ESCALATED"]

Diagnose ==
  /\ pc = "diagnose"
  /\ called' = (called \/ Connected)
  /\ \/ {"FALLBACK", "UNVERIFIED"} \cap Chat # {} /\ Diagnosed(Fallback)
     \/ "oracle" \in Chat /\ Diagnosed(Oracle)
     \/ "answer" \in Chat /\ \E d \in Answers :
          IF Rejected(d) THEN pc' = "failed" /\ UNCHANGED run ELSE Diagnosed(d)
  /\ UNCHANGED <<tele, provider, served, document, asking>>

\* What run_plan asks for before it calls the model.
Plannable ==
  /\ run.diagnosis.verdict = "PINNED" /\ run.diagnosis.runbook = "current"
  /\ run.pack # << >>
  /\ Connected

\* A3.  A planner that is refused, falls back or returns no valid action blocks
\* the run; a plan meets the gates that follow.
Plan ==
  /\ pc = "plan"
  /\ called' = (called \/ Plannable)
  /\ pc' = "adopt"
  /\ \/ /\ ~Plannable \/ provider = "lyzr"
        /\ run' = [run EXCEPT !.state = "BLOCKED"]
     \/ /\ Plannable
        /\ \E s \in {"BLOCKED", "AWAITING_APPROVAL", "RESOLVED", "ESCALATED"} :
             run' = [run EXCEPT !.state = s, !.planned = TRUE]
  /\ UNCHANGED <<tele, provider, served, document, asking>>

Adopt ==
  /\ pc = "adopt"
  /\ served' = TRUE
  /\ pc' = "done"
  /\ UNCHANGED <<tele, provider, run, called, document, asking>>

\* A human, the executor and the verifier decide the waiting action.
Close ==
  /\ served /\ run.state = "AWAITING_APPROVAL"
  /\ \E s \in {"RESOLVED", "ESCALATED", "DENIED"} : run' = [run EXCEPT !.state = s]
  /\ UNCHANGED <<tele, provider, pc, served, called, document, asking>>

-----------------------------------------------------------------------------
(* The post-incident stage.                                                *)

Lead == run.diagnosis # None /\ run.diagnosis.supported

\* _evidence_from_run: what a claim may cite is what the run was banked with.
Valid == DOMAIN run.pack

\* rca_inputs_from_run: the claims, each the set of evidence it cites.
Claims ==
  LET diagnosis == IF Lead THEN {run.diagnosis.supporting \cap Valid} \ {{}} ELSE {}
      observed == {{i} : i \in {j \in Valid : run.pack[j].kind = "metric"}}
  IN  IF diagnosis \cup observed = {} THEN {{}} ELSE diagnosis \cup observed

Covered == \A c \in Claims : Grounded(c, run.pack)

\* The prose the report is built from: the leading hypothesis is quoted.
Prose == IF Lead THEN run.diagnosis.text ELSE "clean"

\* lint_report_fields
Blaming == Prose = "blaming"

\* The bounds of RCAReport.
TooLong == Prose = "long"

\* run_report: "gated" below full coverage, "raised" by the lint, by a summary
\* that is refused or by the limits of RCAReport, otherwise a draft.
Report(result) ==
  \/ Blaming /\ result = "raised"
  \/ /\ ~Blaming /\ Covered
     /\ \/ result = "draft" /\ ~TooLong
        \/ result = "raised" /\ (TooLong \/ "answer" \in Chat)
  \/ /\ ~Blaming /\ ~Covered
     /\ result = IF TooLong THEN "raised" ELSE "gated"

\* finalize_rca and publish_rca, from the worker, its resume thread or an operator.
Finalize(result) ==
  /\ served /\ run.state \in {"RESOLVED", "ESCALATED", "RCA_PENDING"}
  /\ Report(result)
  /\ called' = (called \/ (Connected /\ Covered /\ ~Blaming))
  /\ IF result = "draft"
     THEN document' = Claims /\ run' = [run EXCEPT !.state = "AUDITED"]
     ELSE run' = [run EXCEPT !.state = "RCA_PENDING"] /\ UNCHANGED document
  /\ UNCHANGED <<tele, provider, pc, served, asking>>

-----------------------------------------------------------------------------
(* Investigations.  The operator's turn is kept before anything is read.   *)

At(q, step) == ask[q].at = step

\* Bug: a turn too many is kept.
KeptOneMore(turns) ==
  IF Len(turns) > MaxTurns + 1 THEN SubSeq(turns, Len(turns) - MaxTurns, Len(turns)) ELSE turns

Kept(turns) ==
  IF Len(turns) > MaxTurns THEN SubSeq(turns, Len(turns) - MaxTurns + 1, Len(turns)) ELSE turns

\* Bug: the thread is read without the lock.
LockIgnored(q) ==
  /\ ask[q].at \in {"asking", "replying"} /\ q \notin inside
  /\ inside' = inside \cup {q}
  /\ ask' = [ask EXCEPT ![q].copy = thread]
  /\ UNCHANGED <<walking, unread, thread, said>>

\* append_turn takes the lock and reads the file.
Lock(q) ==
  /\ ask[q].at \in {"asking", "replying"} /\ inside = {}
  /\ inside' = {q}
  /\ ask' = [ask EXCEPT ![q].copy = thread]
  /\ UNCHANGED <<walking, unread, thread, said>>

\* read_thread swallows an error of the disk: a thread that cannot be read is
\* an empty one.
LockUnread(q) ==
  /\ ask[q].at \in {"asking", "replying"} /\ inside = {} /\ thread # << >>
  /\ inside' = {q} /\ unread' = {q}
  /\ ask' = [ask EXCEPT ![q].copy = << >>]
  /\ UNCHANGED <<walking, thread, said>>

\* It replaces the file and releases the lock.
Write(q) ==
  /\ q \in inside
  /\ inside' = inside \ {q} /\ unread' = unread \ {q}
  /\ thread' = Kept(Append(ask[q].copy, ask[q].turn))
  /\ said' = Append(IF q \in unread THEN << >> ELSE said, ask[q].turn)
  /\ ask' = [ask EXCEPT ![q].at = IF @ = "asking" THEN "reading" ELSE "answered",
                        ![q].copy = << >>]
  /\ UNCHANGED walking

\* Or the disk refuses it and the request fails.
WriteFails(q) ==
  /\ q \in inside
  /\ inside' = inside \ {q} /\ unread' = unread \ {q}
  /\ ask' = [ask EXCEPT ![q].at = "failed", ![q].copy = << >>]
  /\ UNCHANGED <<walking, thread, said>>

\* _persisted_pack
Observed == IF served THEN DOMAIN run.pack ELSE {}

Read(q) ==
  /\ At(q, "reading")
  /\ ask' = [ask EXCEPT ![q].at = IF Observed = {} THEN "replying" ELSE "grounding",
                        ![q].turn = [role |-> "agent", by |-> q, verdict |-> "NO_EVIDENCE",
                                     evidence_ids |-> Observed]]
  /\ UNCHANGED <<walking, inside, unread, thread, said>>

\* _grounded_from_run: a run with a pack has the diagnosis it was banked with.
Ground(q) ==
  /\ At(q, "grounding")
  /\ ask' = [ask EXCEPT ![q].at = "replying", ![q].turn.verdict = run.diagnosis.verdict]
  /\ UNCHANGED <<walking, inside, unread, thread, said>>

\* The oracle's payloads cannot be built: the error is the answer.
Refuse(q) ==
  /\ At(q, "grounding")
  /\ ask' = [ask EXCEPT ![q].at = "replying", ![q].turn.verdict = "ERROR",
                        ![q].turn.evidence_ids = {}]
  /\ UNCHANGED <<walking, inside, unread, thread, said>>

-----------------------------------------------------------------------------

Walk == Triage \/ Diagnose \/ Plan \/ Adopt

Next ==
  \/ Walk \/ Close
  \/ \E result \in {"gated", "raised", "draft"} : Finalize(result)
  \/ \E q \in Asker :
       Lock(q) \/ LockUnread(q) \/ Write(q) \/ WriteFails(q)
         \/ Read(q) \/ Ground(q) \/ Refuse(q)

Spec == Init /\ [][Next]_vars

\* The worker goes on, and somebody retries the post-incident stage until the
\* reporter has answered well, if it can.
LiveSpec == Spec /\ WF_vars(Walk) /\ SF_vars(Finalize("draft"))

-----------------------------------------------------------------------------
(* Properties.                                                             *)

\* Type invariant: every variable stays in its domain.
TypeOK ==
  /\ tele \in Telemetry
  /\ provider \in Provider
  /\ pc \in {"triage", "diagnose", "plan", "adopt", "done", "failed"}
  /\ run.state \in {"TRIAGING", "PLANNED", "ESCALATED", "BLOCKED", "AWAITING_APPROVAL",
                    "RESOLVED", "DENIED", "RCA_PENDING", "AUDITED"}
  /\ run.diagnosis \in Answer \cup {None}
  /\ run.pack \in {<< >>, Pack(tele)} /\ run.planned \in BOOLEAN
  /\ served \in BOOLEAN /\ called \in BOOLEAN
  /\ document \subseteq SUBSET DOMAIN run.pack
  /\ \A q \in Asker :
       /\ ask[q].at \in {"asking", "reading", "grounding", "replying", "answered", "failed"}
       /\ ask[q].turn \in Turn
       /\ \A i \in DOMAIN ask[q].copy : ask[q].copy[i] \in Turn
  /\ inside \subseteq Asker /\ unread \subseteq inside
  /\ Len(thread) <= MaxTurns /\ Len(said) <= 2 * Cardinality(Asker)

\* An observation that the telemetry itself does not date more than a quarter
\* of an hour before the detection.
Recent(i) ==
  LET row == tele.rows[i]
  IN  \/ row.kind = "metric" \/ row.ts = Unknown \/ Detection(tele) = Unknown
      \/ Detection(tele) - row.ts <= 900

\* A postmortem is published only if every claim in it cites a recent
\* observation of the incident's own telemetry; a run that is AUDITED has one
\* (reporter.py, the MUST-CITE gate; pipeline.py, rca_inputs_from_run).
PublishedIsGrounded ==
  /\ run.state = "AUDITED" => document # {}
  /\ \A c \in document : \E i \in c : i \in DOMAIN tele.rows /\ Recent(i)

\* A plan rests on a model's or the oracle's pinned diagnosis of this incident,
\* never on a lexical fallback, with the current runbook, at least one
\* observation, and citations that exist (planner.py, "no fake plans").
PlannedIsReasoned ==
  run.planned =>
    /\ provider # "direct" /\ run.diagnosis \in Answers \cup {Oracle}
    /\ run.diagnosis.iid = "own" /\ run.diagnosis.runbook = "current"
    /\ tele.rows # << >>
    /\ run.diagnosis.supporting \subseteq DOMAIN tele.rows \cup KB

\* The thread on disk is the latest MaxTurns turns of all that were written, in
\* order, whoever asks at the same time.  A turn that is added when the thread
\* cannot be read is the exception: it replaces what was there, and the thread
\* is the tail of what was written from that turn on (conversation.py,
\* append_turn and read_thread).
ThreadIsTail == thread = Kept(said)

\* A run left at RCA_PENDING with full coverage is closed by a retry
\* (pipeline.py, finalize_rca, "Retryable from RCA_PENDING").  It does not hold:
\* the lead is quoted, and what the lint or the report's bounds refuse once they
\* refuse again.
RetryCloses == (run.state = "RCA_PENDING" /\ Covered) ~> (run.state = "AUDITED")

\* A direct provider that is configured is called (llm_hub.py).  It does not hold:
\* its mode is CONNECTED only after a call, and nobody calls before it is.
DirectIsCalled == provider = "direct" /\ pc = "done" => called

=============================================================================
