------------------------------ MODULE MCLedger ------------------------------
(* LedgerAudit on three accounts and two leases. *)
EXTENDS LedgerAudit, TLC

CONSTANTS a1, a2, a3, l1, l2

MCGenesis == (a1 :> [amount |-> 6, slot |-> 0]) @@ (a2 :> [amount |-> 4, slot |-> 1])
             @@ (a3 :> [amount |-> 4, slot |-> -1])

Leases == Permutations(Lease)

(* The bound on the chain's length is no deadlock of the node. *)
AtBound == height = MaxHeight /\ UNCHANGED auditVars

MCSpec == AuditInit /\ [][AuditNext \/ AtBound]_auditVars
=============================================================================
