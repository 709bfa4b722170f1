------------------------- MODULE BlockchainUpdater -------------------------
(***************************************************************************)
(* The chain state of a node: the block history in LevelDB                 *)
(* (HistoryWriterImpl), the persisted state in LevelDB (StateWriterImpl    *)
(* over StateStorage) and the two in-memory diffs laid over it             *)
(* (BlockchainUpdaterImpl).  One operation at a time holds the write lock; *)
(* it is split here at every write another thread, or the next start of    *)
(* the node after a crash, can see.                                        *)
(*                                                                         *)
(* Abstraction.  A block is an identifier; its diff is opaque.  A state is *)
(* the sequence of blocks whose diffs were folded into it, the finest      *)
(* value a diff-combining store can have: two stores that differ in any    *)
(* balance differ in that sequence.  A block id determines its reference.  *)
(***************************************************************************)
EXTENDS Integers, Sequences, SequencesExt

CONSTANTS
    Block,      \* block identifiers (Block.uniqueId)
    NoBlock,    \* no block: the argument of an operation that has none
    Genesis,    \* Block.genesis of the settings
    Reference,  \* [Block -> Block \cup {NoBlock}]: Block.reference
    Valid,      \* blocks that BlockDiffer accepts on the state of their parent
    MinDiff     \* minimumInMemoryDiffSize

ASSUME BlockAssumption ==
    /\ NoBlock \notin Block /\ Genesis \in Block
    /\ Reference \in [Block -> Block \cup {NoBlock}]
    /\ Valid \subseteq Block

ASSUME MinDiffAssumption == MinDiff \in Nat \ {0}

VARIABLES
    history,    \* durable: the blocks of HistoryWriterImpl, by height
    storedTxs,  \* durable: blocks with a transaction in StateStorage.transactions
    applied,    \* durable: blocks whose portfolios, slots, ... are in StateStorage
    height,     \* durable: StateStorage.getHeight
    bottom,     \* bottomMemoryDiff: the blocks it combines
    top,        \* topMemoryDiff
    pc,         \* where the holder of the write lock is; "idle": nobody holds it
    op,         \* the operation that holds it
    block,      \* processBlock's argument
    target,     \* the height removeAfter goes back to
    diff        \* the diff applyBlockDiff is writing

durable == <<history, storedTxs, applied, height>>
persisted == <<storedTxs, applied, height>>
memory == <<bottom, top>>
call == <<op, block, target>>
vars == <<history, storedTxs, applied, height, bottom, top, pc, op, block, target, diff>>

Ops == {"none", "process", "rollback", "boot"}
Stages == {"down", "idle", "store", "height", "shift", "clearTop", "append", "combine",
           "discard", "discarded", "cutBottom", "rebuild"}

TypeOK ==
    /\ history \in Seq(Block) /\ applied \in Seq(Block)
    /\ bottom \in Seq(Block) /\ top \in Seq(Block) /\ diff \in Seq(Block)
    /\ storedTxs \in SUBSET Block
    /\ height \in Nat /\ target \in Nat
    /\ pc \in Stages /\ op \in Ops
    /\ block \in Block \cup {NoBlock}

-----------------------------------------------------------------------------
(* currentPersistedBlocksState: top over bottom over persisted. *)
Composite == applied \o bottom \o top

(* The height it reports: stored height plus the heightDiff of each layer. *)
CompositeHeight == height + Len(bottom) + Len(top)

LastBlock == IF history = <<>> THEN NoBlock ELSE Last(history)

(* The blocks of unsafeDiffByRange(_, from, to): `to` is exclusive. *)
BlocksOf(from, to) == SubSeq(history, from, to - 1)

ThrowsUnchecked(from, to) == FALSE

(* unsafeDiffMany throws when a transaction of the range is already in the *)
(* state below (disallowDuplicateIds); every block carries a transaction.  *)
Throws(from, to) == \E i \in from .. to - 1 : history[i] \in storedTxs

ChunkEndEmpty(from, to) == from

(* The first chunk of ranges(from, to, by): its exclusive end. *)
ChunkEnd(from, to) == IF from + MinDiff < to THEN from + MinDiff ELSE to

PersistUpTo == Len(history) - MinDiff + 1

Finish ==
    /\ pc' = "idle" /\ op' = "none"
    /\ block' = NoBlock /\ target' = 0 /\ diff' = <<>>

Init ==
    /\ history = <<>> /\ storedTxs = {} /\ applied = <<>> /\ height = 0
    /\ bottom = <<>> /\ top = <<>>
    /\ pc = "down" /\ op = "none" /\ block = NoBlock /\ target = 0 /\ diff = <<>>

-----------------------------------------------------------------------------
(* StateWriterImpl.applyBlockDiff: one LevelDB put after another, never a  *)
(* batch.  The transactions come first (par.foreach: in any order), then   *)
(* everything else, the height last.                                       *)

StartApply(d) == pc' = "store" /\ diff' = d

StoreTransactions ==
    /\ pc = "store"
    /\ \E b \in Range(diff) \ storedTxs : storedTxs' = storedTxs \cup {b}
    /\ UNCHANGED <<history, applied, height, bottom, top, pc, op, block, target, diff>>

ApplyRest ==
    /\ pc = "store"
    /\ Range(diff) \subseteq storedTxs
    /\ applied' = applied \o diff
    /\ pc' = "height"
    /\ UNCHANGED <<history, storedTxs, height, bottom, top, op, block, target, diff>>

SetHeight ==
    /\ pc = "height"
    /\ height' = height + Len(diff)
    /\ pc' = IF op = "process" THEN "shift" ELSE "rebuild"
    /\ diff' = <<>>
    /\ UNCHANGED <<history, storedTxs, applied, bottom, top, op, block, target>>

-----------------------------------------------------------------------------
(* BlockchainUpdaterImpl.processBlock *)

ProcessBlock(b) ==
    /\ pc = "idle"
    /\ op' = "process" /\ block' = b
    /\ IF Len(top) >= MinDiff
       THEN StartApply(bottom)
       ELSE pc' = "append" /\ UNCHANGED diff
    /\ UNCHANGED <<history, storedTxs, applied, height, bottom, top, target>>

ShiftTop ==
    /\ pc = "shift"
    /\ bottom' = top
    /\ pc' = "clearTop"
    /\ UNCHANGED <<history, storedTxs, applied, height, top, op, block, target, diff>>

KeepTop ==
    /\ pc = "clearTop"
    /\ pc' = "append"
    /\ UNCHANGED <<history, storedTxs, applied, height, bottom, top, op, block, target, diff>>

ClearTop ==
    /\ pc = "clearTop"
    /\ top' = <<>>
    /\ pc' = "append"
    /\ UNCHANGED <<history, storedTxs, applied, height, bottom, op, block, target, diff>>

AcceptableOrphan(b) ==
    /\ b \in Valid
    /\ b \notin storedTxs \cup Range(bottom) \cup Range(top)

(* HistoryWriterImpl.appendBlock's checks: the parent, then BlockDiffer, for *)
(* which a transaction already in the state is an error of its own.         *)
Acceptable(b) ==
    /\ Len(history) = 0 \/ LastBlock = Reference[b]
    /\ b \in Valid
    /\ b \notin storedTxs \cup Range(bottom) \cup Range(top)

AppendBlock ==
    /\ pc = "append"
    /\ Acceptable(block)
    /\ history' = Append(history, block)
    /\ pc' = "combine"
    /\ UNCHANGED <<storedTxs, applied, height, bottom, top, op, block, target, diff>>

RejectBlock ==
    /\ pc = "append"
    /\ ~Acceptable(block)
    /\ Finish
    /\ UNCHANGED <<history, storedTxs, applied, height, bottom, top>>

CombineTop ==
    /\ pc = "combine"
    /\ top' = Append(top, block)
    /\ Finish
    /\ UNCHANGED <<history, storedTxs, applied, height, bottom>>

-----------------------------------------------------------------------------
(* BlockchainUpdaterImpl.removeAfter.  Going back to the last block, or to *)
(* one the history does not hold, changes nothing.                         *)

RemoveAfter(h) ==
    /\ pc = "idle"
    /\ h < Len(history)
    /\ op' = "rollback" /\ target' = h
    /\ pc' = "discard"
    /\ UNCHANGED <<history, storedTxs, applied, height, bottom, top, block, diff>>

DiscardBlock ==
    /\ pc = "discard"
    /\ Len(history) > target
    /\ history' = Front(history)
    /\ UNCHANGED <<storedTxs, applied, height, bottom, top, pc, op, block, target, diff>>

DiscardedAll ==
    /\ pc = "discard"
    /\ Len(history) = target
    /\ pc' = "discarded"
    /\ UNCHANGED <<history, storedTxs, applied, height, bottom, top, op, block, target, diff>>

ClearAllButTxs == applied' = <<>> /\ height' = 0 /\ UNCHANGED storedTxs

(* persisted.clear(): one batch. *)
ClearPersisted == storedTxs' = {} /\ applied' = <<>> /\ height' = 0

RebuildOverOld ==
    /\ pc = "discarded"
    /\ target < height
    /\ pc' = "rebuild"
    /\ UNCHANGED <<history, storedTxs, applied, height, bottom, top, op, block, target, diff>>

RebuildAll ==
    /\ pc = "discarded"
    /\ target < height
    /\ ClearPersisted
    /\ pc' = "rebuild"
    /\ UNCHANGED <<history, bottom, top, op, block, target, diff>>

CutTop ==
    /\ pc = "discarded"
    /\ height <= target
    /\ CompositeHeight # target
    /\ LET overBottom == height + Len(bottom) IN
         \/ /\ target > overBottom
            /\ top' = BlocksOf(overBottom + 1, target + 1)
            /\ Finish
         \/ /\ target = overBottom
            /\ top' = <<>>
            /\ Finish
         \/ /\ target < overBottom
            /\ top' = <<>>
            /\ pc' = "cutBottom"
            /\ UNCHANGED <<op, block, target, diff>>
    /\ UNCHANGED <<history, storedTxs, applied, height, bottom>>

KeepBottom ==
    /\ pc = "cutBottom"
    /\ Finish
    /\ UNCHANGED <<history, storedTxs, applied, height, bottom, top>>

CutBottom ==
    /\ pc = "cutBottom"
    /\ bottom' = BlocksOf(height + 1, target + 1)
    /\ Finish
    /\ UNCHANGED <<history, storedTxs, applied, height, top>>

-----------------------------------------------------------------------------
(* updatePersistedAndInMemory, after a deep rollback and at every start.   *)

PersistChunk ==
    /\ pc = "rebuild"
    /\ height + 1 < PersistUpTo
    /\ LET last == ChunkEnd(height + 1, PersistUpTo) IN
         /\ ~Throws(height + 1, last)
         /\ StartApply(BlocksOf(height + 1, last))
    /\ UNCHANGED <<history, storedTxs, applied, height, bottom, top, op, block, target>>

BuildInMemory ==
    /\ pc = "rebuild"
    /\ PersistUpTo <= height + 1
    /\ ~Throws(height + 1, Len(history) + 1)
    /\ bottom' = BlocksOf(height + 1, Len(history) + 1)
    /\ top' = <<>>
    /\ Finish
    /\ UNCHANGED <<history, storedTxs, applied, height>>

(* The first range a rebuild reads: a chunk to persist or the rest. *)
FirstRangeEnd ==
    IF height + 1 < PersistUpTo THEN ChunkEnd(height + 1, PersistUpTo) ELSE Len(history) + 1

(* explicitGet() throws out of the constructor: the node does not start. *)
FailedStart ==
    /\ pc = "rebuild" /\ op = "boot"
    /\ Throws(height + 1, FirstRangeEnd)
    /\ pc' = "down" /\ op' = "none"
    /\ bottom' = <<>> /\ top' = <<>>
    /\ UNCHANGED <<history, storedTxs, applied, height, block, target, diff>>

-----------------------------------------------------------------------------
(* StorageFactory: a persisted state above the history is dropped. *)
Start ==
    /\ pc = "down"
    /\ op' = "boot" /\ pc' = "rebuild"
    /\ IF height <= Len(history)
       THEN UNCHANGED persisted
       ELSE ClearPersisted
    /\ UNCHANGED <<history, bottom, top, block, target, diff>>

(* The process dies between any two writes; LevelDB keeps what was written. *)
Crash ==
    /\ pc # "down"
    /\ pc' = "down" /\ op' = "none"
    /\ block' = NoBlock /\ target' = 0 /\ diff' = <<>>
    /\ bottom' = <<>> /\ top' = <<>>
    /\ UNCHANGED durable

(* The steps of the operation that holds the write lock. *)
Step ==
    \/ StoreTransactions \/ ApplyRest \/ SetHeight
    \/ ShiftTop \/ ClearTop \/ AppendBlock \/ RejectBlock \/ CombineTop
    \/ DiscardBlock \/ DiscardedAll \/ RebuildAll \/ CutTop \/ CutBottom
    \/ PersistChunk \/ BuildInMemory \/ FailedStart

(* Application.checkGenesis: an empty history gets the genesis block before *)
(* the miner, the network and the API start.                                *)
CheckGenesis == history = <<>> /\ ProcessBlock(Genesis)

Call ==
    \/ CheckGenesis
    \/ \E b \in Block : history # <<>> /\ ProcessBlock(b)
    \/ \E h \in 1 .. Len(history) : RemoveAfter(h)

Next == Step \/ Call \/ Start \/ Crash

Spec == Init /\ [][Next]_vars

-----------------------------------------------------------------------------
(* Properties *)

(* Whenever the write lock is free, the state the node answers from is the *)
(* fold of exactly the blocks of its history, in order: whatever rotation, *)
(* rollback, rebuild, rejected block or restart came before               *)
(* (BlockchainUpdaterImpl.processBlock and removeAfter).                   *)
StateIsHistory ==
    pc = "idle" =>
        /\ Composite = history
        /\ storedTxs = Range(applied)
        /\ height = Len(applied)

(* Neither memory layer outgrows minimumInMemoryDiffSize, however rollbacks *)
(* and appends alternate (the rotation in processBlock, the rebuild).       *)
MemoryBounded == Len(bottom) <= MinDiff /\ Len(top) <= MinDiff

(* applyBlockDiff adds portfolios to what is stored, so a block applied    *)
(* twice would silently double its transfers.  No crash, at any put, and   *)
(* no restart after it, brings that about.                                 *)
AppliedOnce == \A i, j \in 1 .. Len(applied) : applied[i] = applied[j] => i = j

(* The restart check of StorageFactory (stored height <= history height)   *)
(* suffices: a state it keeps was built from blocks the history still has, *)
(* although a rollback shortens the history before it clears the state.    *)
KeptStateIsOfThisChain ==
    (pc = "down" /\ height <= Len(history)) =>
        SubSeq(applied, 1, height) = SubSeq(history, 1, height)

(* A rebuild inside removeAfter never throws halfway, with the history     *)
(* already cut and the layers not: its range is never in the state below.  *)
RollbackNeverThrows ==
    /\ (pc \in {"discarded", "cutBottom"} /\ height <= target) => ~Throws(height + 1, target + 1)
    /\ (pc = "rebuild" /\ op = "rollback") => ~Throws(height + 1, Len(history) + 1)

(* Why StateIsHistory is inductive: what holds at each write of each call.  *)
NoRepeat(s) == \A i, j \in 1 .. Len(s) : s[i] = s[j] => i = j

Clean == storedTxs = Range(applied) /\ height = Len(applied)
OnChain == Clean /\ height <= Len(history) /\ applied = SubSeq(history, 1, height)
(* Killed inside applyBlockDiff: the next start must notice. *)
Torn ==
    /\ height <= Len(history) /\ height <= Len(applied)
    /\ SubSeq(applied, 1, height) = SubSeq(history, 1, height)
    /\ Throws(height + 1, FirstRangeEnd)
(* A rollback shortened the history and not yet the layers. *)
Cutting(s) ==
    /\ Clean
    /\ 1 <= target /\ target <= Len(history)
    /\ target < Len(s) /\ Len(history) <= Len(s)
    /\ history = SubSeq(s, 1, Len(history))

Applying ==
    /\ height <= Len(history)
    /\ diff # <<>> =>
          /\ height + 1 < PersistUpTo
          /\ diff = BlocksOf(height + 1, ChunkEnd(height + 1, PersistUpTo))
    /\ op # "none"
    /\ op = "boot" => bottom = <<>> /\ top = <<>>
    /\ op = "process" => diff = bottom /\ Len(top) = MinDiff /\ block \in Block

LayersInv ==
    /\ NoRepeat(history) /\ NoRepeat(applied)
    /\ Len(bottom) <= MinDiff /\ Len(top) <= MinDiff
    /\ pc \in {"idle", "down"} <=> op = "none"
    /\ (op = "process" /\ history = <<>>) => block = Genesis
    /\ pc \in {"shift", "clearTop", "append", "combine"} => op = "process" /\ block \in Block
    /\ pc \in {"discard", "discarded", "cutBottom"} => op = "rollback"
    /\ pc = "down" =>
          /\ bottom = <<>> /\ top = <<>>
          /\ OnChain \/ Torn \/ (Clean /\ Len(history) < height)
    /\ pc = "rebuild" =>
          \/ op = "boot" /\ bottom = <<>> /\ top = <<>> /\ (OnChain \/ Torn)
          \/ op = "rollback" /\ OnChain
    /\ pc = "store" =>
          /\ Applying
          /\ height = Len(applied) /\ applied = SubSeq(history, 1, height)
          /\ Range(applied) \subseteq storedTxs
          /\ storedTxs \subseteq Range(applied) \cup Range(diff)
          /\ op = "process" => Composite = history
    /\ pc = "height" =>
          /\ Applying
          /\ storedTxs = Range(applied)
          /\ height + Len(diff) = Len(applied)
          /\ applied = SubSeq(history, 1, height) \o diff
          /\ op = "process" => applied \o top = history
    /\ pc \in {"shift", "clearTop"} => Clean /\ applied \o top = history
    /\ pc = "clearTop" => bottom = top
    /\ pc = "idle" => Clean /\ Composite = history
    /\ pc = "append" => Clean /\ Composite = history /\ Len(top) < MinDiff
    /\ pc = "combine" => Clean /\ Append(Composite, block) = history /\ Len(top) < MinDiff
    /\ pc \in {"discard", "discarded"} => Cutting(Composite)
    /\ pc = "discarded" => Len(history) = target
    /\ pc = "cutBottom" =>
          Cutting(applied \o bottom) /\ top = <<>> /\ height <= target /\ Len(history) = target

(* What holds before and after every write of processBlock, removeAfter,   *)
(* applyBlockDiff and the start, crashes included; all the others but the  *)
(* liveness follow from it.                                                *)
Inv == TypeOK /\ LayersInv

(* What the node promises of its chain: ChainState.  The state it answers  *)
(* from exists while nobody holds the write lock.                          *)
Phase ==
    CASE pc = "down" \/ op = "boot" -> "down"
      [] pc = "idle" -> "open"
      [] pc = "combine" -> "extended"
      [] op = "process" /\ pc # "combine" -> "extending"
      [] op = "rollback" -> "retracting"

Chain == INSTANCE ChainState WITH
    chain <- history,
    phase <- Phase,
    view <- IF pc = "idle" THEN Composite ELSE <<>>

(* Every step of the three-layer implementation is one of ChainState's or  *)
(* a stutter: the history moves one block at a time, grows by at most one  *)
(* valid child per processBlock, and whoever gets the lock finds the state *)
(* of exactly that history.                                                *)
ImplementsChainState == Chain!Spec
=============================================================================
