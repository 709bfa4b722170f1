---------------------------- MODULE LedgerAudit ----------------------------
(***************************************************************************)
(* Ledger with what two of its properties compare it to: the effective     *)
(* balances every block left, and the coins issued less the fees.          *)
(***************************************************************************)
EXTENDS Ledger, Sequences

VARIABLES
    past,    \* the effective balances at the end of each block
    supply   \* coins issued, less the fees destroyed

auditVars == <<vars, past, supply>>

AuditInit == Init /\ past = <<>> /\ supply = 0

Issued ==
    CASE height = 0 /\ height' = 0 -> SumFunction(balance') - SumFunction(balance)
      [] minted' /\ ~minted -> MintingReward
      [] txs' > txs -> -Fee
      [] OTHER -> 0

AuditNext ==
    /\ Next
    /\ past' = IF height' > height THEN Append(past, opening'.effective) ELSE past
    /\ supply' = supply + Issued

AuditSpec == AuditInit /\ [][AuditNext]_auditVars

(* Fees are destroyed, the minting reward is the only new coin: no other   *)
(* transaction changes what there is (Block.feesDistribution is empty).    *)
CoinsConserved == SumFunction(balance) = supply

(* The walk over the snapshots finds the least effective balance at the    *)
(* heights asked for, although most heights have no snapshot.              *)
MinBySnapshotIsMinimum ==
    (height > 0 /\ txs = 0 /\ ~minted) =>
        \A a \in Account, confirmations \in 0 .. MaxHeight :
            LET from == IF height - confirmations < 1 THEN 1 ELSE height - confirmations
            IN  MinBySnapshot(a, height, confirmations) = Min({past[h][a] : h \in from .. height})
=============================================================================
