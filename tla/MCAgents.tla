------------------------------ MODULE MCAgents ------------------------------
(* Instance of Agents: bundles whose rows lie on either side of the        *)
(* freshness bound, and answers that are sound or have one flaw.           *)
EXTENDS Agents

Log(ts) == [kind |-> "log", ts |-> ts]
Metric == [kind |-> "metric", ts |-> 1200]
Deploy(ts) == [kind |-> "deploy", ts |-> ts]

MCTelemetry ==
  [alerts : {{}, {1000, 1500}},
   rows : {<< >>, <<Log(99)>>, <<Log(100), Deploy(99)>>, <<Log(Unknown)>>,
           <<Log(99), Metric, Deploy(1000)>>, <<Metric>>}]

SoundAnswer ==
  [iid |-> "own", verdict |-> "PINNED", runbook |-> "current", hyps |-> 2, why |-> FALSE,
   supporting |-> {1}, supported |-> TRUE, text |-> "clean"]

MCAnswers ==
  {[SoundAnswer EXCEPT !.supporting = s, !.text = t] :
     s \in {{1}, {1, 2}, KB}, t \in {"clean", "blaming", "long"}} \cup
  {[SoundAnswer EXCEPT !.iid = "other"], [SoundAnswer EXCEPT !.verdict = "INSUFFICIENT_EVIDENCE"],
   [SoundAnswer EXCEPT !.runbook = "none"], [SoundAnswer EXCEPT !.runbook = "drifted"],
   [SoundAnswer EXCEPT !.hyps = 1], [SoundAnswer EXCEPT !.supporting = {1, 4}],
   [SoundAnswer EXCEPT !.supported = FALSE]}
=============================================================================
