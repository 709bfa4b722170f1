------------------------------ MODULE UtxPool ------------------------------
(***************************************************************************)
(* The pool of unconfirmed transactions (UtxPool) under the threads that   *)
(* call it: submitters (UtxPoolSynchronizer's executors, the API), the     *)
(* coordinator, which appends a block and then removes its transactions,   *)
(* a miner that packs a block, and readers that ask for a portfolio.       *)
(*                                                                         *)
(* synchronizationToken is a def, so that the read lock and the write lock *)
(* belong to two different ReentrantReadWriteLocks: writers exclude each   *)
(* other and nothing keeps a reader out.  The chain is behind a lock of    *)
(* its own and moves while the pool's is held.                             *)
(*                                                                         *)
(* Abstraction.  A transaction is a payment; what it costs includes its    *)
(* fee.  The checks that do not depend on the chain (type, fee, signature) *)
(* are one set, Inadmissible; the age that validation allows is wider than *)
(* the pool's and left out.  One state read is one step (StateReaders has  *)
(* what a read may see while the layers rotate).                           *)
(***************************************************************************)
EXTENDS Integers, Sequences, SequencesExt, FiniteSetsExt

CONSTANTS
    Tx, Account,
    Sender, Recipient,  \* [Tx -> Account]
    Amount, Fee,        \* [Tx -> Nat]
    Stamp,              \* Transaction.timestamp
    Rank,               \* place in TransactionsOrdering.InUTXPool, smallest first; its
                        \* last key is the id, so that no two have the same place
    Inadmissible,       \* refused whatever the chain: minting, fee, proofs
    Funds,              \* balances of the genesis block
    MaxSize,            \* UtxSettings.maxSize
    MaxAge,             \* UtxSettings.maxTransactionAge
    PackLimit,          \* MaxTransactionsPerBlockVer1 - 1
    Submitters, Readers, Miner, Coordinator, Nobody,
    MaxTime,            \* bound on the clock
    MaxBlocks           \* bound on the length of the chain

Writers == Submitters \cup {Miner, Coordinator}

ASSUME UtxPoolAssumption ==
    /\ Sender \in [Tx -> Account] /\ Recipient \in [Tx -> Account]
    /\ Amount \in [Tx -> Nat] /\ Fee \in [Tx -> Nat \ {0}]
    /\ Stamp \in [Tx -> Nat] /\ Rank \in [Tx -> Nat] /\ Funds \in [Account -> Nat]
    /\ \A t, u \in Tx : Rank[t] = Rank[u] => t = u
    /\ Inadmissible \subseteq Tx
    /\ {MaxSize, PackLimit} \subseteq Nat \ {0} /\ {MaxAge, MaxTime, MaxBlocks} \subseteq Nat
    /\ Nobody \notin Writers /\ Miner # Coordinator
    /\ Submitters \cap {Miner, Coordinator} = {}

VARIABLES
    chain,      \* the transactions of each block
    now,        \* Time.correctedTime
    pool,       \* transactions
    known,      \* knownTransactions: "no" entry, "good" (Right) or "bad" (Left)
    charged,    \* PessimisticPortfolios: transactions it counts against their sender
    lock,       \* the holder of the write lock
    putting,    \* [Writers -> what putIfNew has validated and will add, a set]
    packing,    \* packUnconfirmed's fold
    block,      \* the coordinator's job: where it is, what it has to remove, and to put back
    query       \* [Readers -> the state's part of a portfolio that is being read]

poolVars == <<pool, known, charged>>
vars == <<chain, now, poolVars, lock, putting, packing, block, query>>

NotPacking == [on |-> FALSE, todo |-> <<>>, valid |-> {}, invalid |-> {}]
NoBlockJob == [pc |-> "idle", remove |-> {}, dropped |-> {}]
NoQuery == [of |-> {}, base |-> {}]

Init ==
    /\ chain = <<>> /\ now = 0
    /\ pool = {} /\ charged = {} /\ known = [t \in Tx |-> "no"]
    /\ lock = Nobody
    /\ putting = [w \in Writers |-> {}]
    /\ packing = NotPacking /\ block = NoBlockJob
    /\ query = [r \in Readers |-> NoQuery]

-----------------------------------------------------------------------------
(* Validation.  A state is the chain with a diff on top; a diff is the set  *)
(* of the transactions it sums up.                                          *)
Mined == UNION Range(chain)

Cost(t) == Amount[t] + Fee[t]
SpentBy(a, txs) == MapThenSumSet(Cost, {t \in txs : Sender[t] = a})
ReceivedBy(a, txs) == MapThenSumSet(LAMBDA t : Amount[t], {t \in txs : Recipient[t] = a})

(* Monoid.combine: what is in the chain and in the diff counts twice.       *)
Balance(a, diff) ==
    Funds[a] + ReceivedBy(a, Mined) - SpentBy(a, Mined) + ReceivedBy(a, diff) - SpentBy(a, diff)

(* TransactionDiffer: no duplicate id, and the sender can pay.              *)
Accepted(t, diff) ==
    /\ t \notin Inadmissible
    /\ t \notin Mined \cup diff
    /\ Balance(Sender[t], diff) >= Cost(t)

Expired(t) == now - Stamp[t] > MaxAge

(* Cache.put: guava keeps at most twice maxSize entries, and drops others   *)
(* to make room, some of them early.                                        *)
Remember(t, verdict) ==
    \E u \in Tx : \E forget \in {{}, {u} \ {t}} :
        LET kept == [v \in Tx |-> IF v = t THEN verdict ELSE IF v \in forget THEN "no" ELSE known[v]]
        IN  /\ forget \subseteq {v \in Tx : known[v] # "no"}
            /\ Cardinality({v \in Tx : kept[v] # "no"}) <= 2 * MaxSize
            /\ known' = kept

-----------------------------------------------------------------------------
(* As if the size were compared with one too few.                           *)
JudgeOverfull(w, t) ==
    /\ lock = Nobody
    /\ known[t] = "no"
    /\ IF Cardinality(pool) <= MaxSize /\ Accepted(t, {})
       THEN /\ lock' = w
            /\ putting' = [putting EXCEPT ![w] = {t}]
            /\ UNCHANGED known
       ELSE Remember(t, "bad") /\ UNCHANGED <<lock, putting>>

(* putIfNew, for a submitter, or for the coordinator's dropped transactions.*)
(* It is the lock that makes the four ways one call.                        *)
Judge(w, t) ==
    /\ lock = Nobody
    /\ known[t] = "no"
    /\ IF Cardinality(pool) < MaxSize /\ Accepted(t, {})
       THEN /\ lock' = w
            /\ putting' = [putting EXCEPT ![w] = {t}]
            /\ UNCHANGED known
       ELSE Remember(t, "bad") /\ UNCHANGED <<lock, putting>>

(* A transaction that is known is answered from the cache.                  *)
Recall(t) == lock = Nobody /\ known[t] # "no" /\ UNCHANGED <<known, lock, putting>>

Submit(w, t) ==
    /\ Judge(w, t)
    /\ UNCHANGED <<chain, now, pool, charged, packing, block, query>>

(* As if the portfolio were not added.                                      *)
AddUncharged(w) ==
    /\ \E t \in putting[w] : pool' = pool \cup {t} /\ Remember(t, "good")
    /\ lock' = Nobody
    /\ putting' = [putting EXCEPT ![w] = {}]
    /\ UNCHANGED <<chain, now, charged, packing, block, query>>

(* The rest of putIfNew; the chain may have moved since the validation.     *)
Add(w) ==
    /\ \E t \in putting[w] :
          /\ charged' = charged \cup {t}
          /\ pool' = pool \cup {t}
          /\ Remember(t, "good")
    /\ lock' = Nobody
    /\ putting' = [putting EXCEPT ![w] = {}]
    /\ UNCHANGED <<chain, now, packing, block, query>>

Unexpired == {t \in pool : ~Expired(t)}

(* removeExpired, first thing under the lock in removeAll, packUnconfirmed. *)
RemoveExpired ==
    /\ pool' = pool \cap Unexpired
    /\ charged' = charged \ (pool \ Unexpired)

-----------------------------------------------------------------------------
(* The coordinator.  A block of a peer, or of this node's miner: some order *)
(* in which each transaction is valid under the diff of those before it.    *)
Fits(txs) ==
    \E order \in SetToSeqs(txs) :
        \A i \in DOMAIN order : Accepted(order[i], {order[j] : j \in 1 .. i - 1})

(* appendBlock: processBlock, and then removeAll of what is in the block.   *)
AppendBlock ==
    /\ block.pc \in {"idle", "cut"} /\ putting[Coordinator] = {} /\ Len(chain) < MaxBlocks
    /\ \E txs \in SUBSET Tx :
          /\ Fits(txs)
          /\ chain' = Append(chain, txs)
          /\ block' = [block EXCEPT !.pc = "appended", !.remove = txs]
    /\ UNCHANGED <<now, poolVars, lock, putting, packing, query>>

(* As if removeAll did not wait for the write lock.                         *)
RemoveStartUnlocked ==
    /\ block.pc = "appended"
    /\ lock' = Coordinator
    /\ RemoveExpired
    /\ block' = [block EXCEPT !.pc = "removing"]
    /\ UNCHANGED <<chain, now, known, putting, packing, query>>

RemoveStart ==
    /\ block.pc = "appended" /\ lock = Nobody
    /\ lock' = Coordinator
    /\ RemoveExpired
    /\ block' = [block EXCEPT !.pc = "removing"]
    /\ UNCHANGED <<chain, now, known, putting, packing, query>>

(* As if the portfolio stayed.                                              *)
RemoveOneCharged ==
    /\ block.pc = "removing"
    /\ \E t \in block.remove :
          /\ known' = [known EXCEPT ![t] = "no"]
          /\ pool' = pool \ {t}
          /\ block' = [block EXCEPT !.remove = @ \ {t}]
    /\ UNCHANGED <<chain, now, charged, lock, putting, packing, query>>

RemoveOne ==
    /\ block.pc = "removing"
    /\ \E t \in block.remove :
          /\ known' = [known EXCEPT ![t] = "no"]
          /\ pool' = pool \ {t} /\ charged' = charged \ {t}
          /\ block' = [block EXCEPT !.remove = @ \ {t}]
    /\ UNCHANGED <<chain, now, lock, putting, packing, query>>

RemoveEnd ==
    /\ block.pc = "removing" /\ block.remove = {}
    /\ lock' = Nobody
    /\ block' = [block EXCEPT !.pc = IF block.dropped = {} THEN "idle" ELSE "return"]
    /\ UNCHANGED <<chain, now, poolVars, putting, packing, query>>

(* processFork: removeAfter, the block of the fork, and then each dropped   *)
(* transaction is put; not so when the fork's block is invalid.             *)
CutChain ==
    /\ block.pc = "idle" /\ putting[Coordinator] = {} /\ chain # <<>>
    /\ block' = [pc |-> "cut", remove |-> {}, dropped |-> Last(chain)]
    /\ chain' = Front(chain)
    /\ UNCHANGED <<now, poolVars, lock, putting, packing, query>>

ForkFails ==
    /\ block.pc = "cut"
    /\ block' = NoBlockJob
    /\ UNCHANGED <<chain, now, poolVars, lock, putting, packing, query>>

PutBack ==
    /\ block.pc = "return" /\ putting[Coordinator] = {}
    /\ \E t \in block.dropped :
          /\ Judge(Coordinator, t) \/ Recall(t)
          /\ block' = IF block.dropped = {t} THEN NoBlockJob
                      ELSE [block EXCEPT !.dropped = @ \ {t}]
    /\ UNCHANGED <<chain, now, pool, charged, packing, query>>

-----------------------------------------------------------------------------
(* sorted(TransactionsOrdering.InUTXPool).                                  *)
InUTXPool(txs) ==
    CHOOSE order \in SetToSeqs(txs) :
        \A i, j \in DOMAIN order : i < j => Rank[order[i]] < Rank[order[j]]

(* packUnconfirmed: a fold over the pool in order.  Every step reads the    *)
(* state as it is then, under the diff of what was found valid before.      *)
PackStart ==
    /\ lock = Nobody
    /\ lock' = Miner
    /\ RemoveExpired
    /\ packing' = [on |-> TRUE, todo |-> InUTXPool(Unexpired), valid |-> {}, invalid |-> {}]
    /\ UNCHANGED <<chain, now, known, putting, block, query>>

(* As if each were judged by the state alone.                               *)
PackOneAlone ==
    /\ packing.on /\ packing.todo # <<>>
    /\ LET t == Head(packing.todo)
           rest == [packing EXCEPT !.todo = Tail(@)]
       IN  packing' = IF Cardinality(packing.valid) >= PackLimit THEN rest
                      ELSE IF Accepted(t, {}) THEN [rest EXCEPT !.valid = @ \cup {t}]
                      ELSE [rest EXCEPT !.invalid = @ \cup {t}]
    /\ UNCHANGED <<chain, now, poolVars, lock, putting, block, query>>

PackOne ==
    /\ packing.on /\ packing.todo # <<>>
    /\ LET t == Head(packing.todo)
           rest == [packing EXCEPT !.todo = Tail(@)]
       IN  packing' = IF Cardinality(packing.valid) >= PackLimit THEN rest
                      ELSE IF Accepted(t, packing.valid) THEN [rest EXCEPT !.valid = @ \cup {t}]
                      ELSE [rest EXCEPT !.invalid = @ \cup {t}]
    /\ UNCHANGED <<chain, now, poolVars, lock, putting, block, query>>

PackEnd ==
    /\ packing.on /\ packing.todo = <<>>
    /\ pool' = pool \ packing.invalid
    /\ charged' = charged \ packing.invalid
    /\ lock' = Nobody
    /\ packing' = NotPacking
    /\ UNCHANGED <<chain, now, known, putting, block, query>>

-----------------------------------------------------------------------------
(* portfolio: the balance of the state, then what the pool takes from it.   *)
(* No writer waits for it, and it waits for none.                           *)
SentBy(accounts, txs) == {t \in txs : Sender[t] \in accounts}

ReadBase(r) ==
    /\ query[r] = NoQuery
    /\ \E a \in Account :
          query' = [query EXCEPT ![r] = [of |-> {a}, base |-> SentBy({a}, Mined)]]
    /\ UNCHANGED <<chain, now, poolVars, lock, putting, packing, block>>

(* getAggregated: what the pool has of the account.                         *)
Found(r) == SentBy(query[r].of, charged)

ReadPool(r) ==
    /\ query[r] # NoQuery
    /\ query' = [query EXCEPT ![r] = NoQuery]
    /\ UNCHANGED <<chain, now, poolVars, lock, putting, packing, block>>

Tick ==
    /\ now < MaxTime
    /\ now' = now + 1
    /\ UNCHANGED <<chain, poolVars, lock, putting, packing, block, query>>

Next ==
    \/ \E w \in Submitters, t \in Tx : Submit(w, t)
    \/ \E w \in Writers : Add(w)
    \/ AppendBlock \/ RemoveStart \/ RemoveOne \/ RemoveEnd
    \/ CutChain \/ ForkFails \/ PutBack
    \/ PackStart \/ PackOne \/ PackEnd
    \/ \E r \in Readers : ReadBase(r) \/ ReadPool(r)
    \/ Tick

Spec == Init /\ [][Next]_vars

-----------------------------------------------------------------------------
(* Whoever is in the middle of a change to the pool holds the write lock.   *)
OneWriter ==
    /\ \A w \in Writers : putting[w] # {} => lock = w
    /\ packing.on => lock = Miner
    /\ block.pc = "removing" => lock = Coordinator

(* The size is looked at before validation, the transaction added after it: *)
(* the pool is never above its limit.                                       *)
PoolBounded == Cardinality(pool) <= MaxSize

(* The transactions and the portfolios are two maps: nobody is charged for  *)
(* a transaction that is gone, and none that is there is free.              *)
ChargedIsPool == charged = pool

(* A transaction that this node's chain has is not offered to its miner     *)
(* again: whatever was validated, put or put back while a block was         *)
(* appended, removeAll has the last word.                                   *)
MinedLeavesPool == block.pc \notin {"appended", "removing"} => pool \cap Mined = {}
=============================================================================
