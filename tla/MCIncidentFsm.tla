--------------------------- MODULE MCIncidentFsm ---------------------------
(* Two permits suffice for a replay and for a competing approval; four     *)
(* clock values let a permit lapse before, at and after its use.           *)
EXTENDS IncidentFsm

CONSTANTS p1, p2

MCRef == {p1, p2}

=============================================================================
