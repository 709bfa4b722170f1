----------------------------- MODULE ChainState -----------------------------
(***************************************************************************)
(* What BlockchainUpdater and History promise the rest of the node: one    *)
(* chain of valid blocks from the genesis block, and a state that is       *)
(* always the state of that chain.  A call takes the chain (processBlock   *)
(* extends it by at most one block, removeAfter retracts it) and settles;  *)
(* the process may die at any moment and, if it starts again, starts with  *)
(* the chain it had.                                                       *)
(***************************************************************************)
EXTENDS Integers, Sequences, SequencesExt

CONSTANTS Block, NoBlock, Genesis, Reference, Valid

VARIABLES
    chain,  \* the blocks, by height
    phase,  \* "open", or what the call in progress is doing, or "down"
    view    \* the state of the open chain: the blocks folded into it

vars == <<chain, phase, view>>

Init == chain = <<>> /\ phase = "down" /\ view = <<>>

Take(p) == phase = "open" /\ phase' = p /\ view' = <<>> /\ UNCHANGED chain

Extend(b) ==
    /\ phase = "extending"
    /\ b \in Valid
    /\ IF chain = <<>> THEN b = Genesis ELSE Reference[b] = Last(chain)
    /\ chain' = Append(chain, b)
    /\ phase' = "extended"
    /\ UNCHANGED view

Retract ==
    /\ phase = "retracting"
    /\ Len(chain) > 1
    /\ chain' = Front(chain)
    /\ UNCHANGED <<phase, view>>

(* The call returns, or the node is up again. *)
Settle ==
    /\ phase # "open"
    /\ phase' = "open"
    /\ view' = chain
    /\ UNCHANGED chain

Die == phase' = "down" /\ view' = <<>> /\ UNCHANGED chain

Next ==
    \/ \E p \in {"extending", "retracting"} : Take(p)
    \/ \E b \in Block : Extend(b)
    \/ Retract \/ Settle \/ Die

Spec == Init /\ [][Next]_vars
=============================================================================
