---------------------------- MODULE UtxPoolAudit ----------------------------
(***************************************************************************)
(* What a reader of a portfolio and the miner get from the pool, with what  *)
(* must be remembered of the past to say whether it is right.               *)
(***************************************************************************)
EXTENDS UtxPool

VARIABLES held, moved

(* held: what was in the pool or in the chain at every moment of the query. *)
(* moved: whether the chain moved since packing began.                      *)
WatchedInit == Init /\ held = [r \in Readers |-> {}] /\ moved = FALSE

Settled(r) == SentBy(query'[r].of, pool' \cup Mined')

WatchedNext ==
    /\ Next
    /\ held' = [r \in Readers |-> IF query[r] = NoQuery THEN Settled(r) ELSE held[r] \cap Settled(r)]
    /\ moved' = (packing'.on /\ (moved \/ chain' # chain))

WatchedSpec == WatchedInit /\ [][WatchedNext]_<<vars, held, moved>>

-----------------------------------------------------------------------------
Answering(r) == query[r] # NoQuery /\ query'[r] = NoQuery

(* Without a common lock for readers, a portfolio misses a payment that was *)
(* in the pool or in the chain all along only when a block took it from the *)
(* one to the other, and counts one twice only while the removal of a block *)
(* is under way or when a rollback took it from the chain.                  *)
PortfolioOffOnlyInTransit ==
    [][\A r \in Readers : Answering(r) =>
          /\ held[r] \ (query[r].base \cup Found(r)) \subseteq Mined \ query[r].base
          /\ query[r].base \cap Found(r) \cap Mined \subseteq block.remove]_vars

(* What packing keeps can be applied in order, and what it drops could not  *)
(* be applied in its place, if the chain stands still meanwhile.            *)
Packed == packing.on /\ ~packing'.on
Before(t) == {v \in packing.valid : Rank[v] < Rank[t]}
PacksInOrder ==
    [][Packed /\ ~moved =>
          /\ \A t \in packing.valid : Accepted(t, Before(t))
          /\ \A t \in packing.invalid : ~Accepted(t, Before(t))]_vars
=============================================================================
