------------------------ MODULE MCBlockchainUpdater ------------------------
(* BlockchainUpdater on a tree of blocks: a trunk 1 .. Trunk, a fork from   *)
(* block 2, a fork from block 5, and a child of block 2 that no node        *)
(* accepts.                                                                 *)
EXTENDS BlockchainUpdater

CONSTANTS Trunk, ForkA, ForkB    \* heights of the three branches

MCBlock ==
    (1 .. Trunk) \cup {100 + i : i \in 3 .. ForkA} \cup {200 + i : i \in 6 .. ForkB} \cup {999}
MCReference ==
    [b \in MCBlock |->
        CASE b = 999 \/ b = 103 -> 2 [] b = 206 -> 5 [] OTHER -> b - 1]
MCValid == MCBlock \ {999}

=============================================================================
