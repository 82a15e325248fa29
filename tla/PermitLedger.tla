--------------------------- MODULE PermitLedger ---------------------------
(***************************************************************************)
(* What the approval gate promises the executor, without threads, clocks,  *)
(* stores or crashes: an approval is granted once, by spending its token,  *)
(* and a granted approval issues at most one permit, ever.                 *)
(*                                                                         *)
(* ApprovalGate implements this specification.                             *)
(***************************************************************************)
EXTENDS Naturals

CONSTANT Approval

VARIABLES
  phase,        \* "open", "granted" or "issued", per approval
  permits       \* number of permits issued, per approval

Init ==
  /\ phase = [a \in Approval |-> "open"]
  /\ permits = [a \in Approval |-> 0]

Grant(a) ==
  /\ phase[a] = "open"
  /\ phase' = [phase EXCEPT ![a] = "granted"]
  /\ UNCHANGED permits

Issue(a) ==
  /\ phase[a] = "granted"
  /\ phase' = [phase EXCEPT ![a] = "issued"]
  /\ permits' = [permits EXCEPT ![a] = @ + 1]

Next == \E a \in Approval : Grant(a) \/ Issue(a)

Spec == Init /\ [][Next]_<<phase, permits>>

=============================================================================
