---------------------- MODULE MCBlockchainUpdaterLive ----------------------
(* BlockchainUpdater with its crashes counted, to state what follows the    *)
(* last of them.                                                            *)
EXTENDS MCBlockchainUpdater

CONSTANT MaxCrashes     \* crashes before the node is left alone

VARIABLE crashes

CountedInit == Init /\ crashes = 0

CountedNext ==
    \/ (Step \/ Call \/ Start) /\ UNCHANGED crashes
    \/ Crash /\ crashes < MaxCrashes /\ crashes' = crashes + 1

(* A thread that holds the lock runs on, and the node is started after it   *)
(* stopped; nobody has to call it.                                          *)
LiveSpec ==
    /\ CountedInit
    /\ [][CountedNext]_<<vars, crashes>>
    /\ WF_vars(Step) /\ WF_vars(Start)

(* Every call releases the lock, or the process dies: the loops of          *)
(* removeAfter and updatePersistedAndInMemory end.                          *)
CallsEnd == (pc \notin {"idle", "down"}) ~> (pc \in {"idle", "down"})

(* A node that was killed comes back, unless it was killed inside           *)
(* applyBlockDiff (its transactions stored, its height not).                *)
CleanStop == pc = "down" /\ crashes = MaxCrashes /\ Len(applied) = height /\ storedTxs = Range(applied)
RestartsAfterCleanStop == CleanStop ~> (pc = "idle")
=============================================================================
