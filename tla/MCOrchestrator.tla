--------------------------- MODULE MCOrchestrator ---------------------------
(* Two incidents and room for one in flight: the second submission meets the *)
(* capacity, the generator's id may also come from a client, and after the   *)
(* one restart the generator starts over with the same id.                   *)
EXTENDS Orchestrator

CONSTANTS i1, i2, h1

TwoIncidents == {i1, i2}
OneHandler == {h1}
OneSeed == <<i1>>

=============================================================================
