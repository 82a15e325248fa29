-------------------------- MODULE MCApprovalGate --------------------------
(* Two handler threads are enough for every race between two accesses; two  *)
(* approvals share one approvals.json; the clock passes a request's expiry. *)
EXTENDS ApprovalGate

CONSTANTS a1, a2, t1, t2

OneApproval == {a1}
TwoApprovals == {a1, a2}
OneThread == {t1}
TwoThreads == {t1, t2}

=============================================================================
