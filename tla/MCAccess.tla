------------------------------ MODULE MCAccess ------------------------------
(* Instance of Access: an operator's key and an approver's, the approver    *)
(* taking over the operator's key while his own is withdrawn, and a store   *)
(* that cannot be read.                                                     *)
EXTENDS Access, TLC

Entry(owner, roles) == [owner |-> owner, roles |-> roles]

MCStores ==
  {[kind |-> "corrupt"],
   [kind |-> "keys", keys |-> "k1" :> Entry("ann", {"operator"}) @@ "k2" :> Entry("bob", {"approver"})],
   [kind |-> "keys", keys |-> "k1" :> Entry("bob", {"admin"})]}

\* The store is edited once, or the server is restarted once and one request's
\* time passes.
OneDisturbance == edits + restarts <= 1 /\ edits + Cardinality(lapsed) <= 1

\* Nothing tells one approval from another.
ApprovalSymmetry == Permutations(Approval)
=============================================================================
