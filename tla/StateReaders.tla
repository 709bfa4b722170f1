---------------------------- MODULE StateReaders ----------------------------
(***************************************************************************)
(* Reads through currentPersistedBlocksState while BlockchainUpdater runs. *)
(* The miner, UtxPool, the API and the coordinator's validation read       *)
(* through two CompositeStateReader.Proxy objects.  A read takes the top   *)
(* diff, then the bottom diff, then the persisted value; only the last     *)
(* takes the lock.  Between the three, the write lock may come and go any  *)
(* number of times.                                                        *)
(*                                                                         *)
(* One reader is enough: readers change nothing another thread sees.       *)
(* Synchronized.value is a plain field; each read of it is taken to return *)
(* the latest value.                                                       *)
(***************************************************************************)
EXTENDS BlockchainUpdater, FiniteSetsExt

VARIABLES
    at,         \* 0: no read in progress; else the place in ReadOrder
    readTop,    \* what topMemoryDiff() returned
    readBottom, \* what bottomMemoryDiff() returned
    answer,     \* the blocks behind the value computed
    before,     \* the chain whose diffs were in the layers when the read began
    shifted,    \* whether a rotation of the layers overlapped the read
    undone      \* whether a rollback overlapped it

reader == <<at, readTop, readBottom, answer, before, shifted, undone>>
allVars == <<history, storedTxs, applied, height, bottom, top, pc, op, block, target, diff,
             at, readTop, readBottom, answer, before, shifted, undone>>

(* Proxy evaluates its diff before it asks its inner reader. *)
ReadOrderBottomFirst == <<"bottom", "top", "persisted">>
ReadOrder == <<"top", "bottom", "persisted">>
Done == Len(ReadOrder) + 1

Shifting == op = "process" /\ pc \in {"store", "height", "shift", "clearTop"}

Reset ==
    /\ at' = 0 /\ readTop' = <<>> /\ readBottom' = <<>> /\ answer' = <<>>
    /\ before' = <<>> /\ shifted' = FALSE /\ undone' = FALSE

ReaderInit ==
    /\ Init
    /\ at = 0 /\ readTop = <<>> /\ readBottom = <<>> /\ answer = <<>>
    /\ before = <<>> /\ shifted = FALSE /\ undone = FALSE

(* The reader exists once the constructor has returned. *)
Begin ==
    /\ at = 0 /\ pc # "down" /\ op # "boot"
    /\ at' = 1
    /\ before' = IF pc = "combine" THEN Front(history) ELSE history
    /\ shifted' = Shifting
    /\ undone' = (op = "rollback")
    /\ UNCHANGED vars /\ UNCHANGED <<readTop, readBottom, answer>>

Reading(layer) == at \in DOMAIN ReadOrder /\ ReadOrder[at] = layer /\ at' = at + 1

ReadTop ==
    /\ Reading("top")
    /\ readTop' = top
    /\ UNCHANGED vars /\ UNCHANGED <<readBottom, answer, before, shifted, undone>>

ReadBottom ==
    /\ Reading("bottom")
    /\ readBottom' = bottom
    /\ UNCHANGED vars /\ UNCHANGED <<readTop, answer, before, shifted, undone>>

(* CompositeStateReader: the diffs read lie over the persisted value. *)
Overlay == applied \o readBottom \o readTop

ReadPersisted ==
    /\ Reading("persisted")
    /\ pc = "idle"
    /\ answer' = Overlay
    /\ UNCHANGED vars /\ UNCHANGED <<readTop, readBottom, before, shifted, undone>>

Return == at = Done /\ Reset /\ UNCHANGED vars

(* A step of the node beside the reader; a crash ends the read. *)
NodeStep ==
    /\ Next
    /\ IF pc' = "down"
       THEN Reset
       ELSE /\ shifted' = (shifted \/ (at # 0 /\ Shifting'))
            /\ undone' = (undone \/ (at # 0 /\ op' = "rollback"))
            /\ UNCHANGED <<at, readTop, readBottom, answer, before>>

ReaderNext == Begin \/ ReadTop \/ ReadBottom \/ ReadPersisted \/ Return \/ NodeStep

ReaderSpec == ReaderInit /\ [][ReaderNext]_allVars

-----------------------------------------------------------------------------
(* Without a rotation in between, no diff is missed or counted twice:       *)
(* balances and heights, which add up over the layers, are those of the     *)
(* chain at some moment of the read.                                        *)
SumsExactWithoutShift ==
    (at = Done /\ ~undone /\ ~shifted) =>
        IsPrefix(before, answer) /\ IsPrefix(answer, history)

(* The block a lookup of a key answers from. *)
LastWriter(s, key) ==
    LET writes == {i \in 1 .. Len(s) : s[i] \in key}
    IN  IF writes = {} THEN NoBlock ELSE s[Max(writes)]

(* A lookup (slot, lease, transaction) answers from the newest layer that   *)
(* has the key.  Whatever blocks write the key, and however often the       *)
(* layers rotate, it returns what some chain between the start and the end  *)
(* of the read had: an old diff hides a newer one only where the older      *)
(* value was still current when the read began.                             *)
LookupsLinearizable ==
    (at = Done /\ ~undone) =>
        \A key \in SUBSET Range(history) :
            \E n \in Len(before) .. Len(history) :
                LastWriter(answer, key) = LastWriter(SubSeq(history, 1, n), key)
=============================================================================
