---------------------------- MODULE MCAuditStream ----------------------------
(* One or two emitters on one chain, one browser that connects twice, one    *)
(* crash, and a queue of one event so that it overflows.                      *)
EXTENDS AuditStream

CONSTANTS e1, e2

OneEmitter == {e1}
TwoEmitters == {e1, e2}

=============================================================================
