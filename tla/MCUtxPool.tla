------------------------------ MODULE MCUtxPool ------------------------------
(* Two payments of one account and one of another that they can fund.       *)
EXTENDS UtxPoolAudit, TLC

CONSTANTS rich, poor, payA, payB, payC, client, reader

MCSender == payA :> rich @@ payB :> rich @@ payC :> poor
MCRecipient == payA :> poor @@ payB :> rich @@ payC :> rich
MCAmount == payA :> 2 @@ payB :> 1 @@ payC :> 1
MCFee == [t \in Tx |-> 1]
MCStamp == payA :> 0 @@ payB :> 1 @@ payC :> 1
MCRank == payA :> 1 @@ payB :> 2 @@ payC :> 3
MCFunds == rich :> 5 @@ poor :> 0
=============================================================================
