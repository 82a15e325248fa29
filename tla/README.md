# ProofOps in TLA+

ProofOps is an incident-response control plane: agents diagnose an incident and
plan one remediation, policy and a human decide whether it may run, an executor
changes the target, an independent verifier judges the change, and a postmortem
closes the incident. This directory holds TLA+ modules of its control logic,
TLC configurations that check them on small instances, and TLAPS proofs of what
holds for every instance. Paths below are relative to `src/backend/app/`.

## The system and its parts

| Part | State | Operations | How it interacts |
|---|---|---|---|
| Incident FSM, `services/fsm.py` | one `IncidentRun`: state, history, replans, rolled_back, permit, consumed_refs, entered_at, idem_store | `advance`, `sweep`, `execute_once`, `handoff` | a plain object, mutated by whoever holds it; no lock |
| Approval gate, `routers/approvals.py`, `services/approval.py` | `REQUESTS`, `PROPOSALS`, response cache, `approvals.json`, `nonces.jsonl` | request, approve, reject, sweep, `verified_permit`, park, save, load | approving triggers `orchestrator.resume`; `POST /runs/{id}/advance` mints from it too |
| Identity, `routers/auth.py` | key store file, shared key, bearer sessions | `resolve_identity`, `authorize` | every mutating handler asks it first |
| Pipeline, `services/pipeline.py`, `routers/audit.py` | locals of one call; the run | `run_pipeline`, `resume_from_approval`, `finalize_rca` | calls agents, policy, executor, verifier; advances the run; emits to the chain |
| Agents, `agents/*`, `services/conversation.py`, `services/evidence.py` | sessions with a call budget, conversation files | triage, diagnose, plan, report, investigate | called by the pipeline and over HTTP; models may answer anything |
| Policy, validator, runbooks | sealed policy files | pure functions | called by the pipeline, before and after the human |
| Executors, verifiers, rollback | the mock target, the cluster and its connection flag | apply, execute, verify, `rollback_for` | called by the pipeline; the cluster and Prometheus answer what they like |
| Orchestrator, `services/orchestrator.py` | `_claimed`, `_context`, `_resuming`, two queues, stats | submit, resume, worker loop, resume loop, generator, stop | runs the pipeline on threads; puts the run in `REPO_STORE` |
| Ingest and webhooks, `routers/ingest.py`, `routers/webhooks.py` | none | alerts, batches, kill switch, four webhooks | callers of `submit` |
| Runs store and API, `routers/runs.py` | `REPO_STORE`, `runs.json`, response cache | create, get, advance, sweep, save, load | shares run objects with the threads |
| Audit chain, `services/audit.py`, `routers/audit.py` | hash-linked events, `audit-*.jsonl` | emit, verify, save, load, record_fsm | every part emits; feeds the bus |
| Event bus and live stream, `services/eventbus.py`, `routers/stream.py` | subscriptions, bounded queues | subscribe, publish, backlog, live frames | reads the chain, receives its events |
| Telemetry analysis, `services/normalizer.py`, `services/correlator.py` | none | normalize, deduplicate, group, grade | first step of an incident |
| Token delivery, budgets, retrieval, evaluation, database mirror, frontend | | | see "Not modelled" |

What is hard about it: HTTP handlers are plain `def` functions, so FastAPI runs
them on a thread pool, beside the orchestrator's worker and resume threads, and
most shared state has no lock; decisions are checks followed later by writes;
files are snapshots renamed into place; credentials are single-use across
restarts; clocks are read once and used late, or come from a request body;
readers fall behind and reconnect; models and clusters answer anything; and
several failures are swallowed on purpose. `PROJECT.json` lists the hazards at
their lines.

What makes each part correct:

- FSM: no execution without an approval right before it, at most one; sweeps
  never touch an execution; bounded retries; no permit leaked or lost.
- Approval gate: one token approves once; one approval mints one permit and wastes
  none; an answered denial is final; an approver is not the requester.
- Lifecycle: what is executed is what was approved, though threads, operators
  and sweeps compete; every change is judged; a run closes on the verifier's word.
- Remediation: what runs has been authorized, on every route; what resolves a live
  run is measured; a rollback undoes.
- Agents: no plan without a reasoned diagnosis, no claim without a citation that
  counts, no turn of a conversation lost.
- Orchestrator and store: an incident is driven once and resumed by one thread;
  capacity holds; the file ends up as the memory.
- Chain and stream: sequence and links hold through crashes; a reader misses
  nothing its queue did not drop.
- Correlator: a storm is reported by an alert that was kept; every alert belongs to
  one incident.

## Modules

| Module | Models | Kind |
|---|---|---|
| `Fsm` | the rules of `fsm.py` as operators on a run record | operators |
| `IncidentFsm` | one run under any `advance`/`sweep` calls with any clocks | specification; abstract for `Lifecycle` |
| `PermitLedger` | what the gate promises: grant once, one permit | abstract specification |
| `ApprovalGate` | the handlers of `approvals.py` as threads over memory, two files and a nonce log | specification; implements `PermitLedger` |
| `Access` | who may request and decide, and what callers are told | specification |
| `Lifecycle` | worker, resume thread, publishers, operator and sweep over one run | specification; composes `Fsm`, implements `IncidentFsm` |
| `RunStore` | `REPO_STORE` and `runs.json` under every thread | actions |
| `Orchestrator` | submission, claims, capacity, both queues, kill switch, restart | specification; composes `RunStore` |
| `AuditLog` | what the trail promises | abstract specification |
| `AuditStream` | chain, file, bus and one reader | specification; implements `AuditLog` |
| `Policy` | runbooks, validator and policy engine as operators | operators |
| `Remediation` | one action from proposal to verdict and rollback | specification; composes `Policy` |
| `Agents` | triage to postmortem, and the conversation | specification |
| `Correlator` | normalization, thinning, grouping, severity | specification of one call |
| `IncidentProofs` | the theorems of `IncidentFsm` and `Correlator` | proofs |
| `*Proofs` | the theorems of the module they are named after | proofs |
| `MC*` | the finite values the configurations use | |

### Fsm and IncidentFsm

`run` is the dataclass with the gate refs, texts and handoffs left out.
`AdvanceOK` is the conjunction of every check on the way through `advance` and
`Advanced` all of its assignments; `ReplanSpentByRejection` is the one rejection
that leaves a trace, because `advance` increments `replans` before it looks at
the permit offered with the edge. `SweepDue`/`Swept` are `sweep`. Every call
brings its own `now`: the pipeline passes a time read long before, and
`POST /runs/{id}/sweep` takes clock and TTLs from its body, so the model does not
assume time moves forward. The history is part of the state, as in the code. One
call is one step; that two threads could interleave inside `advance` is not
modelled.

### ApprovalGate and Access

In `ApprovalGate` a handler thread has a program counter, and there is a step
for each access to shared state. A handler begins with `_ensure_loaded`: if
memory is empty and there is a file it reads the file (`ReadFile`), clears the
queue (`Clear`) and fills it (`Fill`), with no lock, so that two threads can load
at once, one over what the other has written since; a handler whose entry was
replaced meanwhile holds a `stale` one, and what it writes is lost. Then come the
check of the status, the burn of the nonce (`NonceStore.consume` holds a lock and
appends to `nonces.jsonl`, so it is atomic and durable), the write of the status,
the snapshot `save_store` takes and the rename that publishes it. A mint is four
steps: the status (`Trigger`, `MintForAdvance`), `verify` at one reading of the
clock (`MintVerified`; `MintExpired` sets the status and does not save it,
`MintRefused`), the burn of the derived `:permit` nonce (`Burn`, `BurnReplayed`),
and the permit at a later reading (`Issue`). `own` says whether the actor that the
caller presents is the requester's: in `per_key` mode approver and requester
differ by rule, `verify` is told the requester and the mint that follows is not.
`Restart` empties memory; the file and the nonces survive. `minted`, `answers` and
`disturbed` (two handlers ran at once, or a write failed) are history variables.
`PermitLedger` is the view the executor needs: an approval is granted when its
token's nonce is burned and issued when its permit is made.

`Access` looks at the same handlers from the caller's side, one handler a step:
the key store is a file that an operator edits, an absent store falls back to the
shared key and a corrupt one refuses everybody, a bearer session carries the
identity it was issued with past any edit, the response cache answers before
anything is checked, and a restart forgets the cache and the proposals.
`PermitExpired` is what `verified_permit` does to an approved request whose permit
is asked for too late: it expires in memory only. `unsaved` holds these until the
next save, and a restart brings them back as approved.

### Lifecycle

`Route` is the sequence of `advance` calls of `run_pipeline`,
`resume_from_approval` and `finalize_rca`, one row per call: where the thread is,
the target, where it is next. `Walk` is an accepted call, `WalkRaises` a rejected
one: the thread ends, and the resume thread's `finally` releases the incident.
`CallRaises` is any other call between the steps that raises (agents, evidence
pack, runbook and policy files, service levels, `chain.emit`, the report), before
and after the change; `broken` remembers that one did so before a verdict.
Between the rows are the steps that touch something else: the executor
(`ExecuteOnce`, `ExecutorRaises`), the verifier (`Judge`), the publication
(`Publish`), the checks (`Recheck`, `Finalize`). The pipeline and the resume share
their execution code almost line for line, so they share the steps. Agents,
policy, validator, executor and verifier are choices of their outcomes; `Agents`
and `Remediation` model how they are decided. `served` says the run is in
`REPO_STORE`: before that only the worker can reach it. The approval gate appears
as what `PermitLedger` promises of it, one permit per approval, at any time.

### Orchestrator and RunStore

`RunStore` has the memory, the file and each thread's place in the store code: the
lazy load (`EnsureLoaded`, then `Clear` and `Fill`, or `Merge`), the copy under
the lock and the rename (`Snapshot`, `Replace`, `ReplaceFails`). A run is its
walk, its stage and whether it carries results, which the file leaves out.
`Orchestrator` adds the claims, queues and the two loops: a claim and its job are
one step because nobody else can act on the id between them; `Drive` ends a walk
in any of the outcomes the orchestrator tells apart, and lists the proposal before
`Adopt` puts the run into the store; `TakeResume` keeps its claim on the early
return and `Release` gives it back otherwise. `ResumeFails` is a resume that
raises, either before it moves the run or when the run of the store is already
executing: `_resume_sync` then saves nothing, and `behind` holds the runs the file
does not follow, until a save writes them. `Restart` keeps the two files.

### AuditStream

An emitter looks up or creates the chain, reads its last link, appends, publishes,
collects the lines and renames the file: one step each, for no lock covers them.
`overlapped` remembers that an emitter began while another was at work (`Begin`):
the worker, the resume thread and the HTTP handlers of one incident share its
chain. The reader subscribes, reads the backlog after its cursor, moves events
from the loop's callbacks through its bounded queue, drops what the queue drops,
disconnects and comes back with its cursor. A crash leaves the file, and the chain
is loaded at its next use. The hash of an event is the number of its emission.

### Policy and Remediation

`Policy` gives each gate as an operator on an action: allowlist and pin of the
runbook, the validator's issues, the engine's verdict over the sealed matrix.
`Remediation` calls them in the pipeline's order, on the automatic route and on
the human one (`Check`, `Resume`, `Rollback`), lets the files be tampered with,
executes on the tier of the run, and lets the connection flag of the shared
cluster client be probed by another thread at each of the points where the code
reads it. The verifiers are the code's comparisons, over rates in thousandths.

### Agents

One action per agent: evidence pack and triage, diagnosis (a model, the oracle or
the lexical fallback, with the call budget and the checks on the answer), plan,
and `finalize_rca` with coverage, quality and blameless gates. An answer is what
the checks tell apart. Askers share one conversation file: read, trim, append
and replace happen inside a lock. A read that fails gives an empty thread, which
is then written over the file (`LockUnread`), and `said` starts again with it.

### Correlator

One call: `NormalizeAlert` per alert, or `NormalizeRecord` per telemetry record
(one bad record refuses the bundle), then `Deduplicate`, one alert a step,
`Group`, one turn of the loop of `correlate` a step, and `Return`, which makes an
incident of each group. `canon` is the sorted list (`Sorted` puts an alert after
those of its time, as a stable sort does), `turn` is the loop's index. The
specification's names begin with `Cor`, so that one module can extend it beside
`IncidentFsm`.

## Runs

| Run | Shows | Bounds |
|---|---|---|
| `incident_fsm` | the history and the permit under any calls | two refs, two re-plans, times 0..3 |
| `approval_threads` | one token, no permit wasted, denials final until disturbed, refinement of the ledger | one approval, two threads, one crash, TTL and freshness 2, clock to 3; disk may fail, worker may stop, per-key callers |
| `approval_serial` | approvals yield their permit | two approvals, one thread, one crash |
| `approval_perkey` | violated: in per-key mode no approval yields its permit | one approval, one thread |
| `lifecycle` | execution as approved, judged, resolved on a verdict, refinement of `IncidentFsm` | two approvals and the automatic permit, one publisher, any call may raise, clock to 1, sweeps with clocks and TTLs to 2 |
| `lifecycle_claim` | violated: an early approval is lost with its claim | one approval, no clock |
| `orchestrator` | driven once, one resume, capacity, file and memory | two incidents, capacity one, one HTTP thread, one seed, two events (HTTP calls, failed writes, resumes that raise half-way, stops, restarts), one restart |
| `audit_stream` | the chain verifies, is a log, and the reader gets it | one emitter, four emissions, two FSM records, queue of one, two connections, one crash |
| `remediation` | authorized, measured, undone | two environments, three replica counts, two versions, three error rates, every runbook, sound proposals and proposals with one flaw, one prober |
| `agents` | reasoned plans, grounded postmortems, the whole conversation | six bundles on both sides of the age bounds, answers that are sound or have one flaw, two askers, three turns |
| `correlator` | storms reported, incidents a partition | up to four alerts from eight, two contexts, cap two |
| `access` | four eyes, true answers | two approvals, keys and owners, one session, one edit, or one restart and one request whose time passes |

Why the bounds are enough. The FSM has one cycle, the re-plan, and one bounded
counter besides; with two refs a permit can be spent, replayed and mistaken for
another, and times 0..3 order an entry, an expiry, a deadline and a later sweep.
Each race in the gate is between two accesses of two handlers, so two threads show
it; requests interact only through the shared file. In the lifecycle there is one
worker and one resume thread per incident by construction, and two approvals and
the automatic permit are what it takes to confuse permits. In the orchestrator two
incidents meet a capacity of one, and the generator repeats a client's id; two
events are enough for a run opened by hand that the worker overwrites, a failed
write followed by a restart, a resume that raises and a call that saves after it,
or two handlers in a row that load and save beside the worker. In the stream a
queue of one overflows on the second event, two connections have one seam, and two
records after two other events make a cursor that lies between them. The proposals
of `remediation` reach every gate as the only one that refuses. The bundles of
`agents` have a row exactly at, before and after each bound and telemetry without
times; three turns and two askers of two messages each trim the conversation. Four
alerts hold a storm, its end, a second service and a merge. Two approvals of
`access` are interchangeable, which its symmetry uses; no other run uses symmetry,
and that one has no liveness property. An edit of the key store, and a restart
after a request's time has passed, touch different state, so its constraint takes
one or the other; the theorems are for any number of both. The run of
`audit_stream` has one emitter, for its properties end where a second joins the
first; two emitters with two emissions pass as well, and the theorems are for any
number.

`CHECK_DEADLOCK FALSE` throughout: clocks, crashes and calls are bounded, runs end
in terminal states and nobody is obliged to call anything.

Fairness. `LiveSpec` of `ApprovalGate` is weak fairness of a started handler's
next step: the thread pool runs a handler to its end. `LiveSpec` of `Lifecycle` is
weak fairness of a started thread's next step and of taking a queued resume job:
both loops run while the orchestrator does, and no step waits for another thread.
`LiveSpec` of `AuditStream` is weak fairness of each emitter's next step and of
the event loop's: an emitter finishes the call it began, and the loop is never
blocked. No human, clock, crash, failing disk, failing executor or reconnecting
browser is obliged to happen. A property that needs more excludes it in its
statement (the request expires, the process dies, an operator took the run, a call
raised, the queue overflowed).

## What the violations say

- `ApprovedIsResumed` (`approval_perkey`): `_trigger_resume` verifies for the
  approver while the request was made by another key, so in per-key mode an
  approved run waits forever.
- `GrantEndsTheWait` (`lifecycle_claim`): `_resume_sync` returns before its
  `finally` when the run is not served yet, and its claim stays.

Statements of the repository that the code does not keep, written next to the
properties of their modules and not in any run. TLC finds each of them violated
when it is added to the named configuration or one like it.

| Property | Module | Why it does not hold |
|---|---|---|
| `PermitOnlyWhileApproved` | `ApprovalGate` | the status is read, the permit's nonce burned later |
| `DecisionIsDurable` | `ApprovalGate` | `approvals.save_store` has no lock, unlike `runs.save_store` |
| `ResolvedMeansVerified` | `Lifecycle` | the advance endpoint checks edges, not evidence |
| `PublishedOnce` | `Lifecycle` | `finalize_rca` checks, then publishes, unlocked |
| `DeniedIsBlocked` | `Lifecycle` | there is no edge from AWAITING_APPROVAL to BLOCKED |
| `ClosedIsReviewed` | `Lifecycle` | only the resume path calls `finalize_rca` |
| `RunsSurvive` | `Orchestrator` | a load beside a save, or a new life of the process, drops runs from the file |
| `NoRunIsInFlight` | `Orchestrator` | a job that failed keeps its claim and its place |
| `StoppedDrivesNothing` | `Orchestrator` | queued jobs do not read the kill switch |
| `RecordedOnce` | `AuditStream` | a restart forgets which FSM records are in the chain |
| `NoDuplicate` | `AuditStream` | the event at the cursor can be delivered again after a reconnect |
| `GapIsReplayed` | `AuditStream` | a dropped event is not fetched while connected |
| `ChainVerifies` after `overlapped` | `AuditStream` | two emitters read the same last link |
| `LiveIsNeverMock` | `Remediation` | a cluster that is lost between two reads of the flag |
| `RollbackRestores` | `Remediation` | the mock target's patch always writes the same revision |
| `RetryCloses`, `DirectIsCalled` | `Agents` | a refusal repeats itself; a provider is connected only after a call |
| `SuppressedOnce`, `ProdPages` | `Correlator` | a suppressed key counts in two groups; a merge ignores the environment |
| `EnforcedIsPerKey`, `WaitingIsShown` | `Access` | a label compares names only; a restart forgets the proposals |
| `SecondHuman` | `Access` | keys are compared, and an edit gives the requester another key |

Two more were met while reading and are not properties here: `resolve_identity`
resolves the shared key while a key store is deployed, which its docstring
excludes, and the call budget that `session.py` gives per incident is counted per
session store. `PermitOnlyWhileApproved` and `DenialSticks` are the two sides of
one race: until two handlers run at once, the denial holds. Nothing stops a permit
from being made after its approval's expiry, for the clock is read again after the
nonce is burned; it carries that expiry, and `advance` refuses it. `FourEyes` is
about keys, and about owners only while the store is as it was;
`PublishedIsGrounded` measures the age of an observation at detection, as the code
does, so what became stale between detection and publication is covered by
neither.

## What is proved

Every theorem is for all values of the constants, from the assumptions the
modules name.

`IncidentProofs`, first part: type correctness and the safety properties of
`IncidentFsm`. The properties speak of positions in the history; they are
inductive only with facts about how it grows: the history is a chain, states that
lie after an execution are reached only through one, and a forced record only
leads out of stages before an approval. `AdvanceRecords` and `SweepRecords` reduce
both actions to "append one record along an edge"; `EntriesAfter` says how the set
of entries changes; each property then needs one step. `BoundedRetries` also needs
that the set of re-plan positions is finite and grows by at most one.

`ApprovalGateProofs`: type correctness, `OnePermit`, `ApprovedByToken`,
`PermitNotWasted`, `DenialSticks`, and that `ApprovalGate` implements
`PermitLedger`, for any number of threads and crashes and failing disks. Memory,
file and snapshots may disagree in any way, so no invariant bounds the statuses;
the nonce log, which only grows, is what does. `TokenInv` relates every place that
can carry a decision to the burned token: a snapshot that reads "approved" would
break `ApprovedByToken` one rename later. `PermitInv` says that a permit exists
only when its nonce is burned, that a burned one has its permit or exactly one
thread about to make it, and that a permit's nonce is burned only after the
token's. `DenialSticks` holds until `disturbed`, and no longer in the code: two
handlers can interleave their reloads, decisions and saves, and a denial whose
save fails (the failure is swallowed) is forgotten by a crash. `CalmInv` is the
invariant up to then, for any number of threads and a disk that may fail: what
memory, file, permit and answer of a request may be together (`ApprovalFits`: a
rejected one is denied on disk, and in memory once it is loaded), and what the
handler under way may still do to it (`HandlerFits`).

`LifecycleProofs`: type correctness, `ExecutedAsApproved`, `ResolvedIsVerified`,
and that `Lifecycle` implements `IncidentFsm`, so that the safety properties
proved of `IncidentFsm` hold of the run that the threads share. Neither property
is inductive: between the advance to EXECUTING and the last verdict a thread
carries the permit and the outcome in its locals. `DriverInv` says that at most
one thread is in that stretch, that its permit is the one the run consumed, and
what has been changed and judged at each point (`Progress`); it rests on the fact
that no edge leads from the states after EXECUTING back to APPROVED. `ClosedInv`
adds that nobody drives a resolved run. `LocalStep` and `RunMoves` dispose of the
steps that do not enter the stretch.

`OrchestratorProofs`: type correctness, `DrivenOnce`, `SingleResume`,
`InFlightBounded` and `DiskFollowsMemory`. `ClaimInv`: a queued or driven id is
claimed, claims are never given back, and a queued id was not driven. `ResumeInv`:
whatever is queued to resume, or being resumed, is in `_resuming`, once.
`ThreadInv` says what a thread holds where it is. The last two properties speak of
the first life of the process, so their invariant (`FirstInv`) is carried as
`FirstLife`, "while `boots = 0`", and a restart leaves nothing to show. An
incident comes back to life only if its run is replaced by an older one: whatever
a thread could load is in memory already (`LoadInv`), and the resume thread works
on the run that is stored (`HoldInv`). The file follows because a run that changes
sends its thread to save, or is put among those left `behind`, and whoever holds
the lock writes the memory, or another save is to come (`SaveInv`).
`AbsentAssumption` keeps the values that stand for "no run" and "no file" apart
from the runs and files.

`AccessProofs`: type correctness, `FourEyes`, `AnswersAreTrue`. The keys compared
are written once and no edit of the store reaches them (`FourEyesKept`, also of an
approval that a restart would bring back); that they are of two owners before any
edit needs every session and request to stem from the store (`Deployed`); answers
are true because the cache is (`CacheKept`).

`RemediationProofs`: type correctness, `Authorized`, `ResolvedIsMeasured` and
`RollbackUndoes`. `GateInv`: what is about to be executed is cleared for the
consent it has, and a rollback inherits the clearance of what it inverts.
`MeasureInv`: a state read back from the cluster has no error rate, so neither
verifier resolves it without Prometheus. Types need `CountInv`, how many
executions and verdicts there are at each place, and `StateInv`, what the snapshot
before the first execution holds, for the inverse of an action names it;
`SnapshotAssumption` says that the sandbox's own replicas and version are among
the constants. `UndoInv` carries what the sandbox holds from the first execution
to the rollback, and `InverseUndoes` is the case over action types.

`AgentsProofs`: type correctness, `PlannedIsReasoned` (`BankInv`: a banked
diagnosis passed the checks, with the pack of the same telemetry),
`PublishedIsGrounded` (`ReportInv`, and `TrustedIsRecent` which unfolds the age of
a row) and `ThreadIsTail` (`LockInv`: whoever is inside the lock holds a copy of
the thread as it still is, or an empty one it could not read; `KeptAppend`:
trimming twice is trimming once). Types need that a served run is not diagnosed
again (`RunInv`), and that each request writes at most two turns (`TalkInv`, over
the requests begun and finished, which are finite by `AskerAssumption`).

`AuditStreamProofs`: type correctness for any emitters, overlapping or not, and,
until `overlapped`, `ChainVerifies`, `NoGap`, and that `AuditStream` implements
`AuditLog`. The code does not keep emitters apart, so nothing is assumed of them:
both invariants are proved of every behaviour up to the step at which a second
emitter begins. `ChainInv` relates the three places a chain is in: the file is a
prefix of what is served, a linked event fits its end, collected lines are the
chain. `StreamInv` adds the reader: the queue, the callbacks and the event in the
emitter's hand are, in this order, the end of the chain, and the browser has the
rest; off line this is only known of a chain that still holds the cursor, because
what a crash loses is followed by other events with the same numbers.

`IncidentProofs`, second part: type correctness of `Correlator`, `StormIsReported`
and `IncidentsPartition`, for batches of any length. `SortInv`: the alerts are in
the order of their times, and what is kept is not later than what is left; without
the order a "recent" duplicate could lie in the future of the alert that reports
it. `Inserted` says where an insertion moves each alert, and `SortedSorts` that it
keeps the order; `LeastOf`, that the `Min` of a set of positions is its least
element, comes from well-foundedness. `GroupInv` types the groups and says that
nothing is grouped before everything is thinned. `PlaceInv`: the groups hold the
alerts of the turns so far, each in one place, where it belongs; it needs that no
two kept alerts are equal, which `StormIsReported` gives. `Turned` is what one
turn of the loop does to the groups, whether the alert joins a group or opens one.
`ReturnInv`: an incident counts what its group holds. That the counts add up to
the kept alerts is then a bijection between the turns of the loop and the places
in the groups (`CountsAddUp`), and no sum is unfolded.

Only model-checked: liveness (`ApprovedIsResumed`, `ChangeIsJudged`,
`EventsArrive`), which the provers cannot handle. Every invariant and every
refinement that a passing run checks has its theorem.

## Plan

Done: everything the tables above name. Next:

1. What is left of `NoGap` and `ImplementsLog` after two emitters overlapped.
2. A composition of `Orchestrator` with `ApprovalGate`, for the claim that an early
   approval leaks and for a restart between the mint and the resume.
3. Two readers on one bus, and a second incident on it.
4. `fsm.advance` split into its check and its assignment, for two threads inside it.

## Not modelled, and why

- Token delivery: `hold` is called with a token from a mint that
  `_park_pending_approval` asks for with an empty secret, which is refused; the
  held tokens stay empty in this commit. Claims and scoped views therefore find
  nothing.
- Budgets, evaluation, benchmarks, adversarial suites and metrics: offline scoring
  and counters for display; nothing in the control plane reads them. The agents'
  own call budget is in `Agents`.
- Retrieval: a pure ranking of runbooks, whose result is a choice in `Agents`.
- The database mirror: a write-only copy. The frontend: views over the API.
- Signatures, JWT encoding and password comparison: external to `Access`.
- List views and the response cache of `runs.py`: they only read, or repeat an
  answer without a state change.
- Prompts, and what the agents' tools retrieve: choices of what they return.
- The two halves of `fsm.advance`, and dict operations of the interpreter finer
  than the ones `RunStore` names.
