---------------------------- MODULE MCCorrelator ----------------------------
(* Instance of Correlator: up to four alerts from a pool that has storms,    *)
(* reruns, deploys, dependent services and records that do not normalize.    *)
EXTENDS Correlator

MCService == {"db", "cache", "web", "unknown"}

RawAlert(id, service, ts) ==
  [id |-> id, service |-> service, signature |-> {"error", "spike"}, env |-> "prod",
   ts |-> ts, sound |-> TRUE]

Pool ==
  {RawAlert(1, "db", 1000), RawAlert(2, "db", 1004), RawAlert(3, "db", 1008),
   RawAlert(4, "cache", 1010), RawAlert(5, "web", 1500), RawAlert(6, "web", 1901),
   [RawAlert(1, "web", 1002) EXCEPT !.env = "staging"],
   [RawAlert(Blank, "missing", Missing) EXCEPT !.signature = {"cpu", "blip"}]}

Refused ==
  {[RawAlert(7, "db", 1000) EXCEPT !.env = "missing"], RawAlert(7, "blank", 1000),
   [RawAlert(7, "db", 1000) EXCEPT !.sound = FALSE]}

MCBatches ==
  UNION {[1..n -> Pool] : n \in 0..4} \cup {<<RawAlert(1, "db", 1000), r>> : r \in Refused}

MCContexts ==
  {[deploys |-> << >>, edges |-> {{"web", "db"}, {"web", "cache"}},
    errors |-> {[service |-> "db", rate |-> 60]}],
   [deploys |-> <<[service |-> "db", id |-> "d1", ts |-> 104]>>, edges |-> {},
    errors |-> {[service |-> "", rate |-> 20]}]}

Other(kind, ts) == [kind |-> kind, service |-> "db", ts |-> ts, sound |-> TRUE]

MCBundles ==
  {<< >>, <<Other("log", Missing), Other("metric", 1000)>>, <<Other("deployment", Missing)>>}
=============================================================================
