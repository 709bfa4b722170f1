--------------------------- MODULE MCStateReaders ---------------------------
(* StateReaders on a trunk and a fork from block 2. *)
EXTENDS StateReaders

CONSTANTS Trunk, ForkA

MCBlock == (1 .. Trunk) \cup {100 + i : i \in 3 .. ForkA}
MCReference == [b \in MCBlock |-> IF b = 103 THEN 2 ELSE b - 1]
=============================================================================
