--------------------------- MODULE UtxPool_proofs ---------------------------
(* Theorems about UtxPool for every set of transactions, accounts and       *)
(* threads, every limit and every length of the chain.                      *)
EXTENDS UtxPoolAudit, FiniteSetTheorems, TLAPS

Types ==
    /\ chain \in Seq(SUBSET Tx)
    /\ pool \in SUBSET Tx /\ IsFiniteSet(pool)
    /\ lock \in Writers \cup {Nobody}
    /\ putting \in [Writers -> SUBSET Tx]
    /\ block \in [pc : {"idle", "cut", "appended", "removing", "return"},
                  remove : SUBSET Tx, dropped : SUBSET Tx]

(* What is about to be added is one transaction, and there is room for it.  *)
RoomLeft ==
    \A w \in Writers : putting[w] # {} =>
        /\ Cardinality(pool) < MaxSize
        /\ \E t \in Tx : putting[w] = {t}

(* The miner puts nothing, nor does the coordinator while it works on the   *)
(* chain; it has something to remove only between an append and the end of  *)
(* removeAll.                                                               *)
InOrder ==
    /\ putting[Miner] = {}
    /\ block.pc \in {"cut", "appended", "removing"} => putting[Coordinator] = {}
    /\ block.pc \notin {"appended", "removing"} => block.remove = {}

(* What is in the pool, or will be, and in the chain is going to be removed.*)
Pending ==
    \A t \in Mined :
        (t \in pool \/ \E w \in Writers : t \in putting[w]) => t \in block.remove

PoolInv == Types /\ OneWriter /\ RoomLeft /\ PoolBounded /\ ChargedIsPool /\ InOrder /\ Pending

-----------------------------------------------------------------------------
(* The transactions of the chain after a block is appended, or cut off.     *)
LEMMA MinedOfAppend ==
    ASSUME chain \in Seq(SUBSET Tx), NEW txs \in SUBSET Tx, chain' = Append(chain, txs)
    PROVE  chain' \in Seq(SUBSET Tx) /\ Mined' = Mined \cup txs
<1>1. chain' \in Seq(SUBSET Tx)
  OBVIOUS
<1>2. Range(chain') = Range(chain) \cup {txs}
  <2>1. Len(chain') = Len(chain) + 1 /\ chain'[Len(chain) + 1] = txs
        /\ \A i \in 1 .. Len(chain) : chain'[i] = chain[i]
    OBVIOUS
  <2>2. DOMAIN chain' = DOMAIN chain \cup {Len(chain) + 1}
    BY <1>1, <2>1
  <2>. QED BY <2>1, <2>2 DEF Range
<1>. QED BY <1>1, <1>2 DEF Mined

LEMMA MinedOfFront ==
    ASSUME chain \in Seq(SUBSET Tx), chain # <<>>, chain' = Front(chain)
    PROVE  chain' \in Seq(SUBSET Tx) /\ Mined' \subseteq Mined /\ Last(chain) \in SUBSET Tx
<1>1. Len(chain) \in Nat \ {0}
  OBVIOUS
<1>2. chain' \in Seq(SUBSET Tx) /\ \A i \in DOMAIN chain' : i \in DOMAIN chain /\ chain'[i] = chain[i]
  BY <1>1 DEF Front
<1>. QED BY <1>1, <1>2 DEF Mined, Range, Last

(* Nobody is in the middle of anything while the lock is free.              *)
LEMMA LockFree ==
    ASSUME Types, OneWriter, lock = Nobody
    PROVE  /\ \A w \in Writers : putting[w] = {}
           /\ ~packing.on /\ block.pc # "removing"
  BY UtxPoolAssumption DEF OneWriter, Writers, Types

LEMMA Shrink ==
    ASSUME IsFiniteSet(pool), NEW smaller \in SUBSET pool
    PROVE  IsFiniteSet(smaller) /\ Cardinality(smaller) <= Cardinality(pool)
           /\ Cardinality(smaller) \in Nat /\ Cardinality(pool) \in Nat
  BY FS_Subset, FS_CardinalityType

(* A step that leaves the pool and who is adding to it alone, or shrinks    *)
(* the pool, leaves room where there was room.                              *)
LEMMA RoomKept ==
    ASSUME Types, RoomLeft, PoolBounded, pool' \in SUBSET pool, putting' = putting
    PROVE  RoomLeft' /\ PoolBounded' /\ IsFiniteSet(pool')
<1>1. MaxSize \in Nat
  BY UtxPoolAssumption
<1>2. IsFiniteSet(pool') /\ Cardinality(pool') <= Cardinality(pool)
      /\ Cardinality(pool') \in Nat /\ Cardinality(pool) \in Nat
  BY Shrink DEF Types
<1>. QED BY <1>1, <1>2 DEF RoomLeft, PoolBounded

-----------------------------------------------------------------------------
(* One lemma for each group of actions.                                     *)
LEMMA InitPool == Init => PoolInv
<1>. SUFFICES ASSUME Init PROVE PoolInv
  OBVIOUS
<1>1. Types
  BY FS_EmptySet DEF Init, Types, NotPacking, NoBlockJob
<1>2. RoomLeft /\ OneWriter /\ InOrder /\ ChargedIsPool
  BY DEF Init, RoomLeft, OneWriter, NotPacking, InOrder, NoBlockJob, ChargedIsPool, Writers
<1>3. PoolBounded
  BY UtxPoolAssumption, FS_EmptySet DEF Init, PoolBounded
<1>4. Pending
  BY DEF Init, Pending
<1>. QED BY <1>1, <1>2, <1>3, <1>4 DEF PoolInv

(* A known transaction's verdict is not part of the invariant; who judges   *)
(* takes the lock with one transaction in hand, or nothing changes.         *)
LEMMA Judged ==
    ASSUME PoolInv, NEW w \in Writers, NEW t \in Tx, Judge(w, t), w # Miner,
           UNCHANGED <<chain, pool, charged, packing>>,
           block' \in [pc : {"idle", "cut", "appended", "removing", "return"},
                       remove : SUBSET Tx, dropped : SUBSET Tx],
           block'.remove = block.remove,
           \/ block'.pc = block.pc /\ w # Coordinator
           \/ block.pc = "return" /\ block'.pc \in {"idle", "return"}
    PROVE  PoolInv'
<1>1. CASE UNCHANGED <<lock, putting>>
  <2>1. Types' /\ RoomLeft' /\ PoolBounded' /\ ChargedIsPool'
    BY <1>1 DEF PoolInv, Types, RoomLeft, PoolBounded, ChargedIsPool
  <2>2. OneWriter' /\ InOrder'
    BY <1>1 DEF PoolInv, OneWriter, InOrder
  <2>3. Pending'
    BY <1>1 DEF PoolInv, Pending, Mined
  <2>. QED BY <2>1, <2>2, <2>3 DEF PoolInv
<1>2. CASE /\ lock = Nobody /\ lock' = w
           /\ putting' = [putting EXCEPT ![w] = {t}]
           /\ Cardinality(pool) < MaxSize /\ Accepted(t, {})
  <2>1. \A v \in Writers : putting'[v] = IF v = w THEN {t} ELSE {}
    BY <1>2, LockFree DEF PoolInv, Types
  <2>2. ~packing.on /\ block.pc # "removing" /\ t \notin Mined
    BY <1>2, LockFree DEF PoolInv, Accepted
  <2>3. Types' /\ RoomLeft' /\ PoolBounded' /\ ChargedIsPool'
    BY <1>2, <2>1 DEF PoolInv, Types, RoomLeft, PoolBounded, ChargedIsPool
  <2>4. OneWriter' /\ InOrder'
    BY <1>2, <2>1, <2>2 DEF PoolInv, OneWriter, InOrder
  <2>5. Pending'
    BY <2>1, <2>2 DEF PoolInv, Pending, Mined
  <2>. QED BY <2>3, <2>4, <2>5 DEF PoolInv
<1>. QED BY <1>1, <1>2 DEF Judge

LEMMA Submitted ==
    ASSUME PoolInv, NEW w \in Submitters, NEW t \in Tx, Submit(w, t)
    PROVE  PoolInv'
<1>1. w \in Writers /\ w # Coordinator /\ w # Miner
  BY UtxPoolAssumption DEF Writers
<1>2. block' = block /\ block \in [pc : {"idle", "cut", "appended", "removing", "return"},
                                  remove : SUBSET Tx, dropped : SUBSET Tx]
  BY DEF Submit, PoolInv, Types
<1>. QED BY <1>1, <1>2, Judged DEF Submit

LEMMA Added ==
    ASSUME PoolInv, NEW w \in Writers, Add(w)
    PROVE  PoolInv'
<1>1. PICK t \in putting[w] : charged' = charged \cup {t} /\ pool' = pool \cup {t}
  BY DEF Add
<1>2. /\ lock = w /\ lock' = Nobody /\ t \in Tx
      /\ Cardinality(pool) < MaxSize
  BY <1>1 DEF PoolInv, OneWriter, RoomLeft, Types, Add
<1>3. /\ \A v \in Writers : putting'[v] = {}
      /\ putting' \in [Writers -> SUBSET Tx]
  BY <1>2 DEF Add, PoolInv, Types, OneWriter
<1>4. IsFiniteSet(pool') /\ Cardinality(pool') <= MaxSize
  <2>1. IsFiniteSet(pool) /\ Cardinality(pool) \in Nat /\ MaxSize \in Nat
    BY UtxPoolAssumption, FS_CardinalityType DEF PoolInv, Types
  <2>2. IsFiniteSet(pool') /\ Cardinality(pool') <= Cardinality(pool) + 1
    <3>1. /\ IsFiniteSet(pool \cup {t})
          /\ Cardinality(pool \cup {t}) =
                IF t \in pool THEN Cardinality(pool) ELSE Cardinality(pool) + 1
      BY <2>1, FS_AddElement
    <3>2. Cardinality(pool \cup {t}) <= Cardinality(pool) + 1
      BY <2>1, <3>1
    <3>. QED BY <1>1, <3>1, <3>2
  <2>. QED BY <1>1, <1>2, <2>1, <2>2, FS_CardinalityType
<1>5. Types' /\ RoomLeft' /\ PoolBounded' /\ ChargedIsPool'
  BY <1>1, <1>2, <1>3, <1>4 DEF PoolInv, Types, RoomLeft, PoolBounded, ChargedIsPool, Add
<1>6. OneWriter' /\ InOrder'
  <2>1. /\ ~packing.on /\ block.pc # "removing"
    BY <1>1, <1>2, UtxPoolAssumption DEF PoolInv, OneWriter, InOrder, Types
  <2>. QED BY <2>1, <1>3, UtxPoolAssumption DEF PoolInv, OneWriter, InOrder, Add, Writers
<1>7. Pending'
  BY <1>1, <1>3 DEF PoolInv, Pending, Mined, Add
<1>. QED BY <1>5, <1>6, <1>7 DEF PoolInv

LEMMA BlockAppended == ASSUME PoolInv, AppendBlock PROVE PoolInv'
<1>1. PICK txs \in SUBSET Tx : /\ chain' = Append(chain, txs)
                               /\ block' = [block EXCEPT !.pc = "appended", !.remove = txs]
  BY DEF AppendBlock
<1>2. chain' \in Seq(SUBSET Tx) /\ Mined' = Mined \cup txs
  BY <1>1, MinedOfAppend DEF PoolInv, Types
<1>3. /\ Types' /\ block'.pc = "appended" /\ block'.remove = txs
      /\ block.pc # "removing" /\ block.pc # "appended"
  BY <1>1, <1>2 DEF AppendBlock, PoolInv, Types, poolVars
<1>4. UNCHANGED <<pool, charged, lock, putting, packing>> /\ putting[Coordinator] = {}
  BY DEF AppendBlock, poolVars
<1>5. RoomLeft' /\ PoolBounded' /\ ChargedIsPool' /\ OneWriter' /\ InOrder'
  BY <1>3, <1>4 DEF PoolInv, RoomLeft, PoolBounded, ChargedIsPool, OneWriter, InOrder
<1>6. Pending'
  BY <1>2, <1>3, <1>4 DEF PoolInv, Pending, InOrder
<1>. QED BY <1>3, <1>5, <1>6 DEF PoolInv

LEMMA RemovalStarted == ASSUME PoolInv, RemoveStart PROVE PoolInv'
<1>1. /\ \A w \in Writers : putting[w] = {}
      /\ ~packing.on /\ block.pc # "removing"
  BY LockFree DEF RemoveStart, PoolInv
<1>2. /\ pool' \in SUBSET pool /\ charged' = charged \ (pool \ pool')
      /\ lock' = Coordinator /\ block.pc = "appended" /\ block' = [block EXCEPT !.pc = "removing"]
      /\ UNCHANGED <<chain, putting, packing>>
  BY DEF RemoveStart, RemoveExpired, Unexpired
<1>3. RoomLeft' /\ PoolBounded' /\ IsFiniteSet(pool')
  BY <1>2, RoomKept DEF PoolInv
<1>4. Types' /\ block'.pc = "removing" /\ block'.remove = block.remove
  BY <1>2, <1>3 DEF PoolInv, Types, Writers
<1>5. ChargedIsPool' /\ OneWriter' /\ InOrder'
  BY <1>1, <1>2, <1>4 DEF PoolInv, ChargedIsPool, OneWriter, InOrder, Writers
<1>6. Pending'
  BY <1>2, <1>4 DEF PoolInv, Pending, Mined
<1>. QED BY <1>3, <1>4, <1>5, <1>6 DEF PoolInv

LEMMA OneRemoved == ASSUME PoolInv, RemoveOne PROVE PoolInv'
<1>1. PICK t \in block.remove : /\ pool' = pool \ {t} /\ charged' = charged \ {t}
                                /\ block' = [block EXCEPT !.remove = @ \ {t}]
  BY DEF RemoveOne
<1>2. /\ lock = Coordinator /\ block.pc = "removing" /\ putting[Coordinator] = {}
      /\ \A w \in Writers : putting[w] = {}
  BY DEF RemoveOne, PoolInv, OneWriter, InOrder
<1>3. UNCHANGED <<chain, lock, putting, packing>> /\ pool' \in SUBSET pool
  BY <1>1 DEF RemoveOne
<1>4. RoomLeft' /\ PoolBounded' /\ IsFiniteSet(pool')
  BY <1>3, RoomKept DEF PoolInv
<1>5. Types' /\ block'.pc = "removing" /\ block'.remove = block.remove \ {t}
  BY <1>1, <1>2, <1>3, <1>4 DEF PoolInv, Types
<1>6. ChargedIsPool' /\ OneWriter' /\ InOrder'
  BY <1>1, <1>2, <1>3, <1>5 DEF PoolInv, ChargedIsPool, OneWriter, InOrder
<1>7. Pending'
  BY <1>1, <1>2, <1>3, <1>5 DEF PoolInv, Pending, Mined
<1>. QED BY <1>4, <1>5, <1>6, <1>7 DEF PoolInv

LEMMA RemovalEnded == ASSUME PoolInv, RemoveEnd PROVE PoolInv'
<1>1. /\ lock = Coordinator /\ putting[Coordinator] = {} /\ lock' = Nobody
      /\ \A w \in Writers : putting[w] = {}
      /\ ~packing.on
  BY UtxPoolAssumption DEF RemoveEnd, PoolInv, OneWriter, InOrder
<1>2. UNCHANGED <<chain, pool, charged, putting, packing>>
  BY DEF RemoveEnd, poolVars
<1>3. /\ Types' /\ block'.pc \in {"idle", "return"} /\ block'.remove = {} /\ block.remove = {}
  BY <1>1, <1>2 DEF RemoveEnd, PoolInv, Types
<1>4. RoomLeft' /\ PoolBounded' /\ ChargedIsPool' /\ OneWriter' /\ InOrder'
  BY <1>1, <1>2, <1>3 DEF PoolInv, RoomLeft, PoolBounded, ChargedIsPool, OneWriter, InOrder
<1>5. Pending'
  BY <1>2, <1>3 DEF PoolInv, Pending, Mined
<1>. QED BY <1>3, <1>4, <1>5 DEF PoolInv

LEMMA ChainCut == ASSUME PoolInv, CutChain PROVE PoolInv'
<1>1. /\ chain' \in Seq(SUBSET Tx) /\ Mined' \subseteq Mined /\ Last(chain) \in SUBSET Tx
  BY MinedOfFront DEF CutChain, PoolInv, Types
<1>2. /\ UNCHANGED <<pool, charged, lock, putting, packing>> /\ putting[Coordinator] = {}
      /\ block.pc = "idle"
  BY DEF CutChain, poolVars
<1>3. Types' /\ block'.pc = "cut" /\ block'.remove = {}
  BY <1>1, <1>2 DEF CutChain, PoolInv, Types
<1>4. RoomLeft' /\ PoolBounded' /\ ChargedIsPool' /\ OneWriter' /\ InOrder'
  BY <1>2, <1>3 DEF PoolInv, RoomLeft, PoolBounded, ChargedIsPool, OneWriter, InOrder
<1>5. Pending'
  BY <1>1, <1>2, <1>3 DEF PoolInv, Pending, InOrder
<1>. QED BY <1>3, <1>4, <1>5 DEF PoolInv

LEMMA ForkFailed == ASSUME PoolInv, ForkFails PROVE PoolInv'
<1>1. UNCHANGED <<chain, pool, charged, lock, putting, packing>>
  BY DEF ForkFails, poolVars
<1>2. Types' /\ block'.pc = "idle" /\ block'.remove = {} /\ block.pc = "cut"
  BY <1>1 DEF ForkFails, NoBlockJob, PoolInv, Types
<1>3. RoomLeft' /\ PoolBounded' /\ ChargedIsPool' /\ OneWriter' /\ InOrder'
  BY <1>1, <1>2 DEF PoolInv, RoomLeft, PoolBounded, ChargedIsPool, OneWriter, InOrder
<1>4. Pending'
  BY <1>1, <1>2 DEF PoolInv, Pending, InOrder, Mined
<1>. QED BY <1>2, <1>3, <1>4 DEF PoolInv

LEMMA PutBackKeeps == ASSUME PoolInv, PutBack PROVE PoolInv'
<1>1. PICK t \in block.dropped :
         /\ Judge(Coordinator, t) \/ Recall(t)
         /\ block' = IF block.dropped = {t} THEN NoBlockJob
                     ELSE [block EXCEPT !.dropped = @ \ {t}]
  BY DEF PutBack
<1>2. /\ t \in Tx /\ block.pc = "return" /\ block.remove = {}
      /\ UNCHANGED <<chain, pool, charged, packing>>
  BY DEF PutBack, PoolInv, Types, InOrder
<1>3. /\ block' \in [pc : {"idle", "cut", "appended", "removing", "return"},
                     remove : SUBSET Tx, dropped : SUBSET Tx]
      /\ block'.remove = {} /\ block'.pc \in {"idle", "return"}
  BY <1>1, <1>2 DEF NoBlockJob, PoolInv, Types
<1>4. CASE Judge(Coordinator, t)
  BY <1>2, <1>3, <1>4, Judged, UtxPoolAssumption DEF Writers
<1>5. CASE Recall(t)
  <2>1. UNCHANGED <<lock, putting>>
    BY <1>5 DEF Recall
  <2>2. Types' /\ RoomLeft' /\ PoolBounded' /\ ChargedIsPool' /\ OneWriter' /\ InOrder'
    BY <1>2, <1>3, <2>1 DEF PoolInv, Types, RoomLeft, PoolBounded, ChargedIsPool, OneWriter, InOrder
  <2>3. Pending'
    BY <1>2, <1>3, <2>1 DEF PoolInv, Pending, Mined
  <2>. QED BY <2>2, <2>3 DEF PoolInv
<1>. QED BY <1>1, <1>4, <1>5

-----------------------------------------------------------------------------
(* Packing only ever takes from the pool, under the lock.                   *)
LEMMA PackingStarted == ASSUME PoolInv, PackStart PROVE PoolInv'
<1>1. /\ \A w \in Writers : putting[w] = {}
      /\ block.pc # "removing"
  BY LockFree DEF PackStart, PoolInv
<1>2. /\ pool' \in SUBSET pool /\ charged' = charged \ (pool \ pool')
      /\ lock' = Miner /\ UNCHANGED <<chain, putting, block>>
  BY DEF PackStart, RemoveExpired, Unexpired
<1>3. RoomLeft' /\ PoolBounded' /\ IsFiniteSet(pool')
  BY <1>2, RoomKept DEF PoolInv
<1>4. Types' /\ ChargedIsPool' /\ OneWriter' /\ InOrder'
  BY <1>1, <1>2, <1>3 DEF PoolInv, Types, ChargedIsPool, OneWriter, InOrder, Writers
<1>5. Pending'
  BY <1>2 DEF PoolInv, Pending, Mined
<1>. QED BY <1>3, <1>4, <1>5 DEF PoolInv

LEMMA OnePacked == ASSUME PoolInv, PackOne PROVE PoolInv'
<1>1. lock = Miner /\ UNCHANGED <<chain, pool, charged, lock, putting, block>>
  BY DEF PackOne, PoolInv, OneWriter, poolVars
<1>2. Types' /\ RoomLeft' /\ PoolBounded' /\ ChargedIsPool' /\ OneWriter' /\ InOrder'
  BY <1>1 DEF PoolInv, Types, RoomLeft, PoolBounded, ChargedIsPool, OneWriter, InOrder
<1>3. Pending'
  BY <1>1 DEF PoolInv, Pending, Mined
<1>. QED BY <1>2, <1>3 DEF PoolInv

LEMMA PackingEnded == ASSUME PoolInv, PackEnd PROVE PoolInv'
<1>1. /\ lock = Miner /\ lock' = Nobody /\ ~packing'.on
      /\ pool' \in SUBSET pool /\ charged' = charged \ packing.invalid
      /\ pool' = pool \ packing.invalid /\ UNCHANGED <<chain, putting, block>>
  BY DEF PackEnd, NotPacking, PoolInv, OneWriter
<1>2. \A w \in Writers : putting[w] = {}
  BY <1>1 DEF PoolInv, OneWriter, InOrder
<1>3. RoomLeft' /\ PoolBounded' /\ IsFiniteSet(pool')
  BY <1>1, RoomKept DEF PoolInv
<1>4. Types' /\ ChargedIsPool' /\ OneWriter' /\ InOrder'
  BY <1>1, <1>2, <1>3, UtxPoolAssumption DEF PoolInv, Types, ChargedIsPool, OneWriter, InOrder
<1>5. Pending'
  BY <1>1 DEF PoolInv, Pending, Mined
<1>. QED BY <1>3, <1>4, <1>5 DEF PoolInv

-----------------------------------------------------------------------------
LEMMA PoolStep == ASSUME PoolInv, [Next]_vars PROVE PoolInv'
<1>1. CASE UNCHANGED <<chain, pool, charged, lock, putting, packing, block>>
  <2>1. Types' /\ RoomLeft' /\ PoolBounded' /\ ChargedIsPool' /\ OneWriter' /\ InOrder'
    BY <1>1 DEF PoolInv, Types, RoomLeft, PoolBounded, ChargedIsPool, OneWriter, InOrder
  <2>2. Pending'
    BY <1>1 DEF PoolInv, Pending, Mined
  <2>. QED BY <2>1, <2>2 DEF PoolInv
<1>2. ASSUME NEW r \in Readers, ReadBase(r) \/ ReadPool(r) PROVE PoolInv'
  BY <1>1, <1>2 DEF ReadBase, ReadPool, poolVars
<1>3. CASE Tick
  BY <1>1, <1>3 DEF Tick, poolVars
<1>4. CASE UNCHANGED vars
  BY <1>1, <1>4 DEF vars, poolVars
<1>5. ASSUME NEW w \in Submitters, NEW t \in Tx, Submit(w, t) PROVE PoolInv'
  BY <1>5, Submitted
<1>6. ASSUME NEW w \in Writers, Add(w) PROVE PoolInv'
  BY <1>6, Added
<1>7. CASE AppendBlock \/ RemoveStart \/ RemoveOne \/ RemoveEnd
  BY <1>7, BlockAppended, RemovalStarted, OneRemoved, RemovalEnded
<1>8. CASE CutChain \/ ForkFails \/ PutBack
  BY <1>8, ChainCut, ForkFailed, PutBackKeeps
<1>9. CASE PackStart \/ PackOne \/ PackEnd
  BY <1>9, PackingStarted, OnePacked, PackingEnded
<1>. QED BY <1>2, <1>3, <1>4, <1>5, <1>6, <1>7, <1>8, <1>9 DEF Next

LEMMA PoolInvariant == Spec => []PoolInv
  BY InitPool, PoolStep, PTL DEF Spec

(* Whoever is in the middle of a change to the pool holds the write lock:   *)
(* putIfNew, removeAll and packUnconfirmed never interleave.                *)
THEOREM OneWriterAlways == Spec => []OneWriter
<1>. PoolInv => OneWriter
  BY DEF PoolInv
<1>. QED BY PoolInvariant, PTL

(* The pool is never above maxSize, although putIfNew looks at its size     *)
(* before the validation and adds after it.                                 *)
THEOREM PoolBoundedAlways == Spec => []PoolBounded
<1>. PoolInv => PoolBounded
  BY DEF PoolInv
<1>. QED BY PoolInvariant, PTL

(* PessimisticPortfolios counts the transactions of the pool and no others. *)
THEOREM ChargedIsPoolAlways == Spec => []ChargedIsPool
<1>. PoolInv => ChargedIsPool
  BY DEF PoolInv
<1>. QED BY PoolInvariant, PTL

(* Outside the time between processBlock and the end of removeAll no        *)
(* transaction of the chain is in the pool, whatever clients submit and     *)
(* whichever forks the coordinator switches to meanwhile.                   *)
THEOREM MinedLeavesPoolAlways == Spec => []MinedLeavesPool
<1>1. PoolInv => MinedLeavesPool
  BY DEF PoolInv, InOrder, Pending, MinedLeavesPool
<1>. QED BY <1>1, PoolInvariant, PTL

-----------------------------------------------------------------------------
(* What a reader and the miner get.                                         *)

LEMMA WatchedInitIsInit == WatchedInit => Init
  BY DEF WatchedInit

LEMMA WatchedStepIsStep == [WatchedNext]_<<vars, held, moved>> => [Next]_vars
  BY DEF WatchedNext

(* The ghosts only watch.                                                   *)
LEMMA WatchedIsSpec == WatchedSpec => Spec
  BY WatchedInitIsInit, WatchedStepIsStep, PTL DEF WatchedSpec, Spec

(* What a query held is still in the pool or in the chain.                  *)
HeldStays == \A r \in Readers : held[r] \subseteq SentBy(query[r].of, pool \cup Mined)

LEMMA HeldStaysAlways == WatchedSpec => []HeldStays
<1>1. WatchedInit => HeldStays
  BY DEF WatchedInit, HeldStays
<1>2. HeldStays /\ [WatchedNext]_<<vars, held, moved>> => HeldStays'
  <2>. SUFFICES ASSUME HeldStays, [WatchedNext]_<<vars, held, moved>> PROVE HeldStays'
    OBVIOUS
  <2>1. CASE WatchedNext
    <3>1. \A r \in Readers : held'[r] \subseteq Settled(r)
      BY <2>1 DEF WatchedNext
    <3>. QED BY <3>1 DEF HeldStays, Settled
  <2>2. CASE UNCHANGED <<vars, held, moved>>
    BY <2>2 DEF HeldStays, vars, poolVars, Mined
  <2>. QED BY <2>1, <2>2
<1>. QED BY <1>1, <1>2, PTL DEF WatchedSpec

(* A portfolio misses a payment that was there all along only when a block  *)
(* has it that the state's part did not count, and counts one twice only    *)
(* while removeAll still has to take it from the pool or when the chain     *)
(* lost it: for every number of readers that no lock holds back.            *)
THEOREM PortfolioOffOnlyInTransitAlways == WatchedSpec => PortfolioOffOnlyInTransit
<1> DEFINE Right(r) == /\ held[r] \ (query[r].base \cup Found(r)) \subseteq Mined \ query[r].base
                       /\ query[r].base \cap Found(r) \cap Mined \subseteq block.remove
<1>1. PoolInv /\ HeldStays => \A r \in Readers : Right(r)
  <2>. SUFFICES ASSUME PoolInv, HeldStays, NEW r \in Readers PROVE Right(r)
    OBVIOUS
  <2>1. Found(r) = SentBy(query[r].of, pool)
    BY DEF Found, PoolInv, ChargedIsPool
  <2>2. held[r] \ Found(r) \subseteq Mined
    BY <2>1 DEF HeldStays, SentBy
  <2>3. Found(r) \cap Mined \subseteq block.remove
    BY <2>1 DEF SentBy, PoolInv, Pending
  <2>. QED BY <2>2, <2>3
<1>2. PoolInv /\ HeldStays /\ [Next]_vars =>
         [\A r \in Readers : Answering(r) => Right(r)]_vars
  BY <1>1
<1>3. WatchedSpec => []PoolInv
  BY WatchedIsSpec, PoolInvariant, PTL
<1>. HIDE DEF Right
<1>4. WatchedSpec => [][\A r \in Readers : Answering(r) => Right(r)]_vars
  BY <1>2, <1>3, WatchedIsSpec, HeldStaysAlways, PTL DEF Spec
<1>. QED BY <1>4 DEF PortfolioOffOnlyInTransit, Right

-----------------------------------------------------------------------------
(* The place of a transaction among those of a finite set: how many come no *)
(* later.  It numbers the set, since no two have the same rank.             *)
LEMMA InUTXPoolSorts ==
    ASSUME NEW txs \in SUBSET Tx, IsFiniteSet(txs)
    PROVE  /\ InUTXPool(txs) \in Seq(Tx)
           /\ \A i, j \in DOMAIN InUTXPool(txs) :
                 i < j => Rank[InUTXPool(txs)[i]] < Rank[InUTXPool(txs)[j]]
<1> DEFINE n == Cardinality(txs)
           UpTo(t) == {u \in txs : Rank[u] <= Rank[t]}
           place == [t \in txs |-> Cardinality(UpTo(t))]
           order == [k \in 1 .. n |-> CHOOSE t \in txs : place[t] = k]
           Sorted(s) == \A i, j \in DOMAIN s : i < j => Rank[s[i]] < Rank[s[j]]
<1>1. n \in Nat /\ \A t \in Tx : Rank[t] \in Nat
  BY FS_CardinalityType, UtxPoolAssumption
<1>2. ASSUME NEW t \in txs
      PROVE  IsFiniteSet(UpTo(t)) /\ place[t] \in 1 .. n
  <2>1. UpTo(t) \in SUBSET txs /\ t \in UpTo(t)
    BY <1>1
  <2>2. /\ IsFiniteSet(UpTo(t)) /\ Cardinality(UpTo(t)) <= n
        /\ Cardinality(UpTo(t)) \in Nat /\ Cardinality(UpTo(t)) # 0
    BY <2>1, FS_Subset, FS_CardinalityType, FS_EmptySet
  <2>. QED BY <1>1, <2>2
<1>3. ASSUME NEW t \in txs, NEW u \in txs, Rank[t] < Rank[u]
      PROVE  place[t] < place[u]
  <2>1. UpTo(t) \in SUBSET UpTo(u) /\ u \in UpTo(u) /\ u \notin UpTo(t)
    BY <1>1, <1>3
  <2>2. IsFiniteSet(UpTo(u)) /\ IsFiniteSet(UpTo(t))
    BY <1>2
  <2>3. Cardinality(UpTo(t)) <= Cardinality(UpTo(u))
        /\ Cardinality(UpTo(t)) # Cardinality(UpTo(u))
    BY <2>1, <2>2, FS_Subset
  <2>4. Cardinality(UpTo(t)) \in Nat /\ Cardinality(UpTo(u)) \in Nat
    BY <2>2, FS_CardinalityType
  <2>. QED BY <2>3, <2>4
<1>4. place \in [txs -> 1 .. n]
  BY <1>2
<1> HIDE DEF place
<1>5. place \in Surjection(txs, 1 .. n)
  <2>1. ASSUME NEW t \in txs, NEW u \in txs, place[t] = place[u] PROVE t = u
    <3>1. place[t] \in Nat
      BY <1>1, <1>4
    <3>2. ~(Rank[t] < Rank[u]) /\ ~(Rank[u] < Rank[t])
      BY <1>3, <2>1, <3>1
    <3>3. Rank[t] = Rank[u]
      BY <1>1, <3>2
    <3>. QED BY <3>3, UtxPoolAssumption
  <2>2. place \in Injection(txs, 1 .. n)
    BY <1>4, <2>1 DEF Injection, IsInjective
  <2>3. IsFiniteSet(1 .. n) /\ Cardinality(1 .. n) = n
    BY <1>1, FS_Interval
  <2>. QED BY <2>2, <2>3, FS_Injection
<1>6. \A k \in 1 .. n : order[k] \in txs /\ place[order[k]] = k
  BY <1>5 DEF Surjection
<1>7. order \in SetToSeqs(txs)
  BY <1>6 DEF SetToSeqs
<1>8. Sorted(order)
  <2>. SUFFICES ASSUME NEW i \in 1 .. n, NEW j \in 1 .. n, i < j
                PROVE  Rank[order[i]] < Rank[order[j]]
    OBVIOUS
  <2>1. order[i] \in txs /\ order[j] \in txs /\ place[order[i]] = i /\ place[order[j]] = j
    BY <1>6
  <2>2. ~(Rank[order[j]] < Rank[order[i]])
    BY <2>1, <1>3
  <2>3. Rank[order[i]] # Rank[order[j]]
    BY <2>1, UtxPoolAssumption
  <2>. QED BY <1>1, <2>1, <2>2, <2>3
<1>9. InUTXPool(txs) \in SetToSeqs(txs) /\ Sorted(InUTXPool(txs))
  BY <1>7, <1>8 DEF InUTXPool
<1>. QED BY <1>1, <1>9 DEF SetToSeqs

-----------------------------------------------------------------------------
PackTyped == packing \in [on : BOOLEAN, todo : Seq(Tx), valid : SUBSET Tx, invalid : SUBSET Tx]

(* The fold goes through the pool in order: what is judged comes before     *)
(* what is not.                                                             *)
FoldInOrder ==
    LET todo == packing.todo
    IN  /\ \A i, j \in DOMAIN todo : i < j => Rank[todo[i]] < Rank[todo[j]]
        /\ \A t \in packing.valid \cup packing.invalid, i \in DOMAIN todo :
              Rank[t] < Rank[todo[i]]

(* Each verdict is the one under the valid transactions that come before.   *)
Verdicts ==
    /\ \A t \in packing.valid : Accepted(t, Before(t))
    /\ \A t \in packing.invalid : ~Accepted(t, Before(t))

PackInv == PackTyped /\ FoldInOrder /\ (packing.on /\ ~moved => Verdicts)

(* A verdict depends on the chain alone.                                    *)
LEMMA AcceptedOfChain ==
    ASSUME chain' = chain, NEW t, NEW diff
    PROVE  Accepted(t, diff)' <=> Accepted(t, diff)
<1>1. Mined' = Mined
  BY DEF Mined
<1>. QED BY <1>1 DEF Accepted, Balance

LEMMA InitPack == Init => PackInv
  BY DEF Init, NotPacking, PackInv, PackTyped, FoldInOrder

(* Only the miner packs.                                                    *)
LEMMA OthersDoNotPack ==
    ASSUME [Next]_vars PROVE UNCHANGED packing \/ PackStart \/ PackOne \/ PackEnd
<1>1. ASSUME NEW w \in Submitters, NEW t \in Tx, Submit(w, t) PROVE UNCHANGED packing
  BY <1>1 DEF Submit
<1>2. ASSUME NEW w \in Writers, Add(w) PROVE UNCHANGED packing
  BY <1>2 DEF Add
<1>3. AppendBlock \/ RemoveStart \/ RemoveOne \/ RemoveEnd => UNCHANGED packing
  BY DEF AppendBlock, RemoveStart, RemoveOne, RemoveEnd
<1>4. CutChain \/ ForkFails \/ PutBack \/ Tick => UNCHANGED packing
  BY DEF CutChain, ForkFails, PutBack, Tick
<1>5. ASSUME NEW r \in Readers, ReadBase(r) \/ ReadPool(r) PROVE UNCHANGED packing
  BY <1>5 DEF ReadBase, ReadPool
<1>. QED BY <1>1, <1>2, <1>3, <1>4, <1>5 DEF Next, vars

LEMMA PackingStartedInOrder == ASSUME PoolInv, PackStart PROVE PackInv'
<1>1. Unexpired \in SUBSET Tx /\ IsFiniteSet(Unexpired)
  BY FS_Subset DEF Unexpired, PoolInv, Types
<1>2. packing' = [on |-> TRUE, todo |-> InUTXPool(Unexpired), valid |-> {}, invalid |-> {}]
  BY DEF PackStart
<1>3. PackTyped' /\ FoldInOrder'
  BY <1>1, <1>2, InUTXPoolSorts DEF PackTyped, FoldInOrder
<1>4. Verdicts'
  BY <1>2 DEF Verdicts
<1>. QED BY <1>3, <1>4 DEF PackInv

LEMMA OnePackedInOrder ==
    ASSUME PackInv, PackOne, packing.on /\ ~moved' => ~moved
    PROVE  PackInv'
<1>0. PICK t \in Tx : t = Head(packing.todo)
  BY DEF PackOne, PackInv, PackTyped
<1>1. /\ packing.on /\ packing.todo # <<>> /\ chain' = chain
      /\ packing'.on /\ packing'.todo = Tail(packing.todo)
      /\ \/ packing'.valid = packing.valid /\ packing'.invalid = packing.invalid
         \/ /\ packing'.valid = packing.valid \cup {t} /\ packing'.invalid = packing.invalid
            /\ Accepted(t, packing.valid)
         \/ /\ packing'.valid = packing.valid /\ packing'.invalid = packing.invalid \cup {t}
            /\ ~Accepted(t, packing.valid)
  BY <1>0 DEF PackOne, PackInv, PackTyped
<1>2. /\ t = packing.todo[1] /\ 1 \in DOMAIN packing.todo
      /\ Tail(packing.todo) \in Seq(Tx)
      /\ \A i \in DOMAIN Tail(packing.todo) :
            /\ i + 1 \in DOMAIN packing.todo /\ i \in Nat \ {0}
            /\ Tail(packing.todo)[i] = packing.todo[i + 1]
  BY <1>0, <1>1 DEF PackInv, PackTyped
<1>3. /\ packing'.valid \in {packing.valid, packing.valid \cup {t}}
      /\ packing'.invalid \in {packing.invalid, packing.invalid \cup {t}}
      /\ packing'.valid # packing.valid => Accepted(t, packing.valid)
      /\ packing'.invalid # packing.invalid => ~Accepted(t, packing.valid)
  BY <1>1
<1>4. PackTyped'
  BY <1>0, <1>1, <1>2 DEF PackOne, PackInv, PackTyped
<1>5. \A u \in packing.valid \cup packing.invalid : Rank[u] < Rank[t]
  BY <1>2 DEF PackInv, FoldInOrder
<1>6. FoldInOrder'
  <2>1. ASSUME NEW i \in DOMAIN packing'.todo, NEW j \in DOMAIN packing'.todo, i < j
        PROVE  Rank[packing'.todo[i]] < Rank[packing'.todo[j]]
    <3>1. /\ i + 1 \in DOMAIN packing.todo /\ packing'.todo[i] = packing.todo[i + 1]
          /\ j + 1 \in DOMAIN packing.todo /\ packing'.todo[j] = packing.todo[j + 1]
          /\ i \in Nat /\ j \in Nat
      BY <1>1, <1>2
    <3>2. i + 1 < j + 1
      BY <2>1, <3>1
    <3>. QED BY <3>1, <3>2 DEF PackInv, FoldInOrder
  <2>2. ASSUME NEW u \in packing'.valid \cup packing'.invalid, NEW i \in DOMAIN packing'.todo
        PROVE  Rank[u] < Rank[packing'.todo[i]]
    <3>1. i + 1 \in DOMAIN packing.todo /\ 1 < i + 1 /\ packing'.todo[i] = packing.todo[i + 1]
      BY <1>1, <1>2
    <3>2. CASE u = t
      BY <3>1, <3>2, <1>2 DEF PackInv, FoldInOrder
    <3>3. CASE u \in packing.valid \cup packing.invalid
      BY <3>1, <3>3 DEF PackInv, FoldInOrder
    <3>. QED BY <3>2, <3>3, <1>3
  <2>. QED BY <2>1, <2>2 DEF FoldInOrder
<1>7. ASSUME ~moved' PROVE Verdicts'
  <2>1. Verdicts
    BY <1>1, <1>7 DEF PackInv
  <2>2. \A u \in Tx : Rank[u] \in Nat
    BY UtxPoolAssumption
  <2>3. Before(t)' = packing.valid /\ t \notin packing.valid \cup packing.invalid
    BY <1>3, <1>5, <2>2 DEF Before
  <2>4. ASSUME NEW u \in packing.valid \cup packing.invalid
        PROVE  Before(u)' = Before(u) /\ u \in Tx
    <3>1. u \in Tx /\ ~(Rank[t] < Rank[u])
      BY <1>2, <1>5, <2>2 DEF PackInv, PackTyped
    <3>. QED BY <1>3, <3>1 DEF Before
  <2>5. ASSUME NEW u \in packing'.valid PROVE Accepted(u, Before(u))'
    <3>1. CASE u \in packing.valid
      BY <3>1, <2>1, <2>4, <1>1, AcceptedOfChain DEF Verdicts
    <3>2. CASE u = t /\ packing'.valid # packing.valid
      BY <3>2, <2>3, <1>1, <1>3, AcceptedOfChain
    <3>. QED BY <3>1, <3>2, <1>3
  <2>6. ASSUME NEW u \in packing'.invalid PROVE ~Accepted(u, Before(u))'
    <3>1. CASE u \in packing.invalid
      BY <3>1, <2>1, <2>4, <1>1, AcceptedOfChain DEF Verdicts
    <3>2. CASE u = t /\ packing'.invalid # packing.invalid
      BY <3>2, <2>3, <1>1, <1>3, AcceptedOfChain
    <3>. QED BY <3>1, <3>2, <1>3
  <2>. QED BY <2>5, <2>6 DEF Verdicts
<1>. QED BY <1>4, <1>6, <1>7 DEF PackInv

LEMMA NotPackedKept ==
    ASSUME PackInv, UNCHANGED packing, packing.on /\ ~moved' => ~moved /\ chain' = chain
    PROVE  PackInv'
<1>1. PackTyped' /\ FoldInOrder'
  BY DEF PackInv, PackTyped, FoldInOrder
<1>2. ASSUME packing'.on, ~moved' PROVE Verdicts'
  <2>1. Verdicts /\ chain' = chain
    BY <1>2 DEF PackInv
  <2>2. \A u : Before(u)' = Before(u)
    BY DEF Before
  <2>3. \A u : Accepted(u, Before(u))' <=> Accepted(u, Before(u))
    BY <2>1, <2>2, AcceptedOfChain
  <2>. QED BY <2>1, <2>3 DEF Verdicts
<1>. QED BY <1>1, <1>2 DEF PackInv

LEMMA PackStep ==
    ASSUME PoolInv, PackInv, [WatchedNext]_<<vars, held, moved>>
    PROVE  PackInv'
<1>1. packing'.on /\ ~moved' => (packing.on => ~moved) /\ (UNCHANGED packing => ~moved \/ ~packing.on)
  BY DEF WatchedNext, vars
<1>2. packing.on /\ packing'.on /\ ~moved' => ~moved /\ chain' = chain
  BY DEF WatchedNext, vars
<1>3. CASE UNCHANGED packing
  BY <1>2, <1>3, NotPackedKept
<1>4. CASE PackStart
  BY <1>4, PackingStartedInOrder
<1>5. CASE PackOne
  <2>1. packing'.on
    BY <1>5 DEF PackOne, PackInv, PackTyped
  <2>. QED BY <1>2, <1>5, <2>1, OnePackedInOrder
<1>6. CASE PackEnd
  BY <1>6 DEF PackEnd, NotPacking, PackInv, PackTyped, FoldInOrder
<1>. QED BY <1>3, <1>4, <1>5, <1>6, OthersDoNotPack, WatchedStepIsStep

(* If the chain stands still while packUnconfirmed folds over the pool,     *)
(* what it keeps can be applied in the order of TransactionsOrdering, and   *)
(* what it drops could not be applied in its place: for every pool, limit   *)
(* of a block and balances.                                                 *)
THEOREM PacksInOrderAlways == WatchedSpec => PacksInOrder
<1>1. WatchedSpec => []PoolInv
  BY WatchedIsSpec, PoolInvariant, PTL
<1>2. WatchedSpec => []PackInv
  BY <1>1, WatchedInitIsInit, InitPack, PackStep, PTL DEF WatchedSpec
<1>3. PackInv /\ [Next]_vars => [Packed /\ ~moved => Verdicts]_vars
  BY DEF PackInv, Packed
<1>4. WatchedSpec => [][Packed /\ ~moved => Verdicts]_vars
  BY <1>2, <1>3, WatchedIsSpec, PTL DEF Spec
<1>. QED BY <1>4 DEF PacksInOrder, Verdicts
=============================================================================
