----------------------------- MODULE Correlator -----------------------------
(***************************************************************************)
(* backend/app/services/normalizer.py and correlator.py: how a bundle of   *)
(* raw telemetry becomes incidents.  The records are normalized (one that  *)
(* does not normalize fails the whole bundle), the alerts are sorted by    *)
(* time, duplicates are suppressed, what is left is grouped one alert at a *)
(* time, and each group becomes an incident with a severity.               *)
(*                                                                         *)
(* A signature is the set of its words, error rates are in thousandths,    *)
(* and a fingerprint is the tuple it hashes.                               *)
(*                                                                         *)
(* CorInit, CorNext, CorSpec and CorTypeOK have a prefix because           *)
(* IncidentProofs extends this module beside IncidentFsm.                  *)
(***************************************************************************)
EXTENDS Integers, Sequences, SequencesExt

CONSTANTS
  Service,    \* names of services
  Batches,    \* the lists of raw alerts a call may bring
  Contexts,   \* the deploys, dependency edges and error rates that come with them
  Bundles,    \* the other records normalize_telemetry is given
  Arrival,    \* utcnow() at the call
  Cap         \* MAX_STORED_IDS

Missing == -1  \* a field the record does not have
Blank == 0     \* an alert_id that is empty

DeployWindow == 900
MergeWindow == 600
DedupWindow == 5

Env == {"dev", "staging", "prod", "mock"}

\* sound: the other fields are of the right type, severity_raw is known, and no
\* identifier has blanks around it.
Raw == [id : Nat, service : Service \cup {"missing", "blank"},
        signature : SUBSET STRING, env : Env \cup {"missing"},
        ts : Nat \cup {Missing}, sound : BOOLEAN]

Alert == [id : Int, service : Service, signature : SUBSET STRING, env : Env, ts : Nat]

Context == [deploys : Seq([service : Service, id : STRING, ts : Nat]),
            edges : SUBSET SUBSET Service,
            errors : SUBSET [service : Service \cup {""}, rate : Nat]]

Record == [kind : {"log", "trace", "metric", "deployment", "k8s"},
           service : Service \cup {"missing", "blank"}, ts : Nat \cup {Missing}, sound : BOOLEAN]

ASSUME ServiceAssumption == "unknown" \in Service
ASSUME BatchesAssumption == Batches \subseteq Seq(Raw)
ASSUME ContextsAssumption == Contexts \subseteq Context
ASSUME BundlesAssumption == Bundles \subseteq Seq(Record)
ASSUME CapAssumption == Cap \in Nat \ {0} /\ Arrival \in Nat

VARIABLES
  pc,         \* what is running
  given,      \* the raw alerts left to normalize
  bundle,     \* the bundle's other records left to normalize
  context,    \* deploys, topology and metrics
  canon,      \* normalized alerts, sorted by time
  unique,     \* what deduplicate kept
  suppressed, \* what it did not
  turn,       \* how many of the kept alerts correlate()'s loop has grouped
  groups,     \* the groups, in the order they were opened
  incidents   \* what correlate() returned

vars == <<pc, bundle, given, context, canon, unique, suppressed, turn, groups, incidents>>

-----------------------------------------------------------------------------
(* Normalizing.                                                            *)

\* normalize_log and its like: observations without a time take the arrival's,
\* anchored events must carry one; a deployment must name its service.
RecordAccepted(r) ==
  /\ r.sound
  /\ r.kind \in {"metric", "deployment", "k8s"} => r.ts # Missing
  /\ r.kind = "deployment" => r.service \notin {"missing", "blank"}

\* normalize_alert: a missing service takes a default, a blank one is refused by
\* the contract; the environment and the signature are never guessed.
Accepted(r) ==
  r.sound /\ r.signature # {} /\ r.env # "missing" /\ r.service # "blank"

\* A missing or blank alert_id takes a new one.
Normalized(r) ==
  [id |-> IF r.id = Blank THEN -Len(given) ELSE r.id,
   service |-> IF r.service = "missing" THEN "unknown" ELSE r.service,
   signature |-> r.signature, env |-> r.env,
   ts |-> IF r.ts = Missing THEN Arrival ELSE r.ts]

\* Keeps alerts sorted by time, and equal times in the order they came.
Sorted(alerts, a) ==
  LET later == {i \in DOMAIN alerts : alerts[i].ts > a.ts}
  IN  InsertAt(alerts, Min(later \cup {Len(alerts) + 1}), a)

CorInit ==
  /\ pc = "normalize"
  /\ given \in Batches /\ bundle \in Bundles /\ context \in Contexts
  /\ canon = << >> /\ unique = << >> /\ suppressed = << >>
  /\ turn = 0 /\ groups = << >> /\ incidents = << >>

\* normalize_telemetry, one alert; correlate() sorts them by time.
NormalizeAlert ==
  /\ pc = "normalize" /\ given # << >>
  /\ given' = Tail(given)
  /\ IF Accepted(Head(given))
     THEN canon' = Sorted(canon, Normalized(Head(given))) /\ UNCHANGED pc
     ELSE pc' = "refused" /\ UNCHANGED canon
  /\ UNCHANGED <<bundle, context, unique, suppressed, turn, groups, incidents>>

\* normalize_telemetry, one record of the other sources.
NormalizeRecord ==
  /\ pc = "normalize" /\ given = << >> /\ bundle # << >>
  /\ bundle' = Tail(bundle)
  /\ pc' = IF RecordAccepted(Head(bundle)) THEN "normalize" ELSE "refused"
  /\ UNCHANGED <<given, context, canon, unique, suppressed, turn, groups, incidents>>

\* correlate() is called with the normalized alerts.
Correlate ==
  /\ pc = "normalize" /\ given = << >> /\ bundle = << >>
  /\ pc' = "correlate"
  /\ UNCHANGED <<bundle, given, context, canon, unique, suppressed, turn, groups, incidents>>

-----------------------------------------------------------------------------
(* Duplicates.                                                             *)

Key(a) == <<a.service, a.signature, a.env>>

Seen(id) == \E i \in DOMAIN unique : unique[i].id = id

\* Bug: a suppressed alert restarts the window, so a storm never ends.
RecentToSuppressed(a) ==
  \E b \in ToSet(unique) \cup ToSet(suppressed) :
    Key(b) = Key(a) /\ a.ts - b.ts <= DedupWindow

\* last_seen is the time of the last alert that was kept.
Recent(a) == \E b \in ToSet(unique) : Key(b) = Key(a) /\ a.ts - b.ts <= DedupWindow

\* deduplicate, one alert
Deduplicate ==
  /\ pc = "correlate" /\ canon # << >>
  /\ canon' = Tail(canon)
  /\ IF Seen(Head(canon).id) \/ Recent(Head(canon))
     THEN suppressed' = Append(suppressed, Head(canon)) /\ UNCHANGED unique
     ELSE unique' = Append(unique, Head(canon)) /\ UNCHANGED suppressed
  /\ UNCHANGED <<pc, bundle, given, context, turn, groups, incidents>>

-----------------------------------------------------------------------------
(* Grouping.                                                               *)

Near(s, t, window) == s - t <= window /\ t - s <= window

\* _deploy_in_window: the first deploy of the service within a quarter of an hour.
DeployOf(a) ==
  LET hits == {i \in DOMAIN context.deploys :
                 /\ context.deploys[i].service = a.service
                 /\ Near(context.deploys[i].ts, a.ts, DeployWindow)}
  IN  IF hits = {} THEN "none" ELSE context.deploys[Min(hits)].id

Fingerprint(a) == <<a.service, a.signature, a.env, DeployOf(a)>>

\* _sig_sim above 0.7
Similar(s, t) == 10 * Cardinality(s \cap t) > 7 * Cardinality(s \cup t)

\* Bug: services that the topology names, in whatever relation.
EdgeByName(s, t) == {s, t} \subseteq UNION context.edges

\* _topology_edges: the pair itself, in either direction.
Edge(s, t) == {s, t} \in context.edges

\* The group of another service that an alert is merged into.
Merges(a, g) ==
  /\ g.service # a.service /\ Edge(a.service, g.service)
  /\ Near(a.ts, g.last, MergeWindow) /\ Similar(a.signature, g.signature)

\* The place of an alert: the first group it merges into, or the one with its own
\* fingerprint, or a new one at the end.
Place(a) ==
  LET merged == {i \in DOMAIN groups : Merges(a, groups[i])}
      own == {i \in DOMAIN groups : groups[i].fp = Fingerprint(a)}
  IN  CASE merged # {} -> Min(merged)
        [] merged = {} /\ own # {} -> Min(own)
        [] OTHER -> Len(groups) + 1

Opened(a) ==
  [service |-> a.service, signature |-> a.signature, env |-> a.env,
   fp |-> Fingerprint(a), alerts |-> << >>, last |-> 0, keys |-> {}]

Joined(g, a) ==
  [g EXCEPT !.alerts = Append(@, a), !.last = a.ts, !.keys = @ \cup {Key(a)}]

\* One turn of correlate()'s loop.
Group ==
  /\ pc = "correlate" /\ canon = << >>
  /\ turn < Len(unique) /\ turn' = turn + 1
  /\ LET a == unique[turn + 1]
         i == Place(a)
     IN  groups' = IF i \in DOMAIN groups THEN [groups EXCEPT ![i] = Joined(@, a)]
                   ELSE Append(groups, Joined(Opened(a), a))
  /\ UNCHANGED <<pc, bundle, given, context, canon, unique, suppressed, incidents>>

-----------------------------------------------------------------------------
(* Incidents.                                                              *)

\* _service_max_err: readings without a service count for every service.
MaxErr(service) ==
  Max({0} \cup {e.rate : e \in {x \in context.errors : x.service \in {"", service}}})

Severity(g) ==
  LET err == MaxErr(g.service) IN
  CASE g.signature \in {{"flapping", "probe"}, {"cpu", "blip"}} /\ err < 10 -> "P4"
    [] g.signature = {"suspicious", "log", "instruction"} -> "P1"
    [] OTHER -> IF g.env # "prod" THEN "P3"
                ELSE IF err > 50 \/ {"spike", "exhausted"} \cap g.signature # {}
                     THEN "P1" ELSE "P2"

OwnSuppressed(g) == Len(SelectSeq(suppressed, LAMBDA a : Key(a) \in g.keys))

\* Bug: a storm's ids are all stored.
StoredUncapped(g) == [i \in DOMAIN g.alerts |-> g.alerts[i].id]

Stored(g) == [i \in 1..Min({Len(g.alerts), Cap}) |-> g.alerts[i].id]

Incident(g) ==
  [fp |-> g.fp, severity |-> Severity(g), service |-> g.service, env |-> g.env,
   ids |-> Stored(g),
   detected |-> Min({g.alerts[i].ts : i \in DOMAIN g.alerts}),
   count |-> Len(g.alerts), suppressed |-> OwnSuppressed(g), capped |-> Len(g.alerts) > Cap]

Return ==
  /\ pc = "correlate" /\ canon = << >>
  /\ turn = Len(unique)
  /\ incidents' = [i \in DOMAIN groups |-> Incident(groups[i])]
  /\ pc' = "returned"
  /\ UNCHANGED <<bundle, given, context, canon, unique, suppressed, turn, groups>>

CorNext == NormalizeAlert \/ NormalizeRecord \/ Correlate \/ Deduplicate \/ Group \/ Return

CorSpec == CorInit /\ [][CorNext]_vars

-----------------------------------------------------------------------------
(* Properties.                                                             *)

\* Type invariant: every variable stays in its domain, and the stored ids of an
\* incident respect the contract's bound.
CorTypeOK ==
  /\ pc \in {"normalize", "correlate", "refused", "returned"}
  /\ \A s \in {canon, unique, suppressed} : \A i \in DOMAIN s : s[i] \in Alert
  /\ \A i \in DOMAIN groups :
       groups[i].alerts # << >> /\ ToSet(groups[i].alerts) \subseteq ToSet(unique)
  /\ \A i \in DOMAIN incidents :
       Len(incidents[i].ids) = Min({incidents[i].count, Cap})
  /\ incidents # << >> => pc = "returned"

\* A storm is thinned, never swallowed: for every alert that was suppressed one
\* was kept with the same id, or like it and at most five seconds earlier, and two
\* that were kept are not duplicates (correlator.py, deduplicate).
StormIsReported ==
  /\ \A a \in ToSet(suppressed) : \E b \in ToSet(unique) :
       b.id = a.id \/ (Key(b) = Key(a) /\ b.ts <= a.ts /\ a.ts - b.ts <= 5)
  /\ \A i, j \in DOMAIN unique : i < j =>
       /\ unique[i].id # unique[j].id
       /\ Key(unique[i]) = Key(unique[j]) => unique[j].ts - unique[i].ts > 5

\* The alerts that the incidents say they have.
Places == UNION {{i} \X (1..incidents[i].count) : i \in DOMAIN incidents}

\* Every kept alert is in exactly one incident, and belongs there: it has the
\* incident's fingerprint, or it comes from a service the incident's service
\* depends on or that depends on it, at most ten minutes after another alert of
\* the incident (correlator.py, "cross-service merge is PAIRWISE").
IncidentsPartition ==
  /\ pc = "returned" =>
       /\ \A a \in ToSet(unique) :
            Cardinality({i \in DOMAIN groups : a \in ToSet(groups[i].alerts)}) = 1
       /\ Cardinality(Places) = Len(unique)
  /\ \A i \in DOMAIN groups : \A k \in DOMAIN groups[i].alerts :
       LET a == groups[i].alerts[k] IN
       \/ Fingerprint(a) = groups[i].fp
       \/ /\ {a.service, groups[i].service} \in context.edges
          /\ k > 1 /\ a.ts - groups[i].alerts[k - 1].ts <= 600

\* Incidents report their own suppressed count (correlator.py, deduplicate).  It
\* does not hold: a key on both sides of a deploy's window counts in both groups.
SuppressedOnce ==
  pc = "returned" =>
    SumFunction([i \in DOMAIN incidents |-> incidents[i].suppressed]) <= Len(suppressed)

\* An alert from production is in an incident that pages (normalizer.py, "the old
\* mock-default mis-grouped prod alerts").  It does not hold: the merge across
\* services does not compare environments.
ProdPages ==
  pc = "returned" => \A i \in DOMAIN groups :
    (\E a \in ToSet(groups[i].alerts) : a.env = "prod") =>
      incidents[i].severity \in {"P1", "P2", "P4"}

=============================================================================
