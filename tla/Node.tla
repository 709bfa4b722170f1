-------------------------------- MODULE Node --------------------------------
(***************************************************************************)
(* The threads of a node that change its chain, and what they do between   *)
(* two calls of the blockchain updater: the coordinator thread             *)
(* (CoordinatorHandler's single-thread executor running Coordinator), the  *)
(* two threads of the miner's pool, and the API's rollback.                *)
(*                                                                         *)
(* Abstraction.  processBlock and removeAfter hold the write lock and are  *)
(* one step each here: ChainState is what they promise, BlockchainUpdater  *)
(* how they keep it.  The state is a function of the chain.  putIfNew,     *)
(* removeAll and packUnconfirmed hold the pool's write lock; transactions  *)
(* do not expire and the pool does not fill.  The node has one minting     *)
(* account.  No checkpoint is stored (see CheckpointService), so that      *)
(* isBlockValid is true.  Of an attempt only its parent is kept: a height, *)
(* balance or time read for another tip makes a block that validation      *)
(* rejects, as a stale parent does.                                        *)
(***************************************************************************)
EXTENDS Integers, Sequences, SequencesExt, FiniteSets

CONSTANTS
    Block, NoBlock, Genesis,
    Reference,   \* Block.reference
    Valid,       \* blocks whose signatures, fees and sizes pass
    Own,         \* blocks this node's account may build
    Timestamp,   \* Block.timestamp
    Slot,        \* how the account stands when a block is the last one:
                 \* "own" slot, "none", or a record of a slot that is "empty"
    Verdict,     \* [<<block, last block>> -> what blockConsensusValidation does]
    Tx,
    Content,     \* the transactions of a block, {} for those to be built
    Needs,       \* [Tx -> transactions it can only come after]
    Net, Api,    \* the coordinator thread; an API thread, at first the main thread
    Miners,      \* the threads of miner-pool
    Jobs,        \* what peers may send: [kind : {"block", "fork"}, blocks]
    Targets,     \* blocks the API may roll back to
    MaxJobs,     \* bound: jobs and rollbacks
    MaxHorizon   \* bound: how far time goes

Thread == {Net, Api} \cup Miners

ASSUME NodeAssumption ==
    /\ NoBlock \notin Block /\ Genesis \in Block \ Own /\ Reference[Genesis] = NoBlock
    /\ Own \subseteq Block
    /\ Reference \in [Block -> Block \cup {NoBlock}]
    /\ Slot \in [Block -> {"own", "none", "empty"}]
    /\ Verdict \in [Block \X Block -> {"ok", "invalid", "throws"}]
    /\ Content \in [Block -> SUBSET Tx] /\ Needs \in [Tx -> SUBSET Tx]
    /\ Timestamp \in [Block -> Nat] /\ MaxHorizon \in Nat /\ MaxJobs \in Nat
    /\ Net # Api /\ Net \notin Miners /\ Api \notin Miners
    /\ Targets \subseteq Block
    /\ \A j \in Jobs :
          /\ j.kind \in {"block", "fork"} /\ j.blocks # <<>>
          /\ j.blocks \in Seq(Block \ Own)  \* peers do not build blocks for this account

VARIABLES
    chain,      \* History
    horizon,    \* blocks with a smaller timestamp are too old to mine on
    pool,       \* UtxPool.transactions
    known,      \* UtxPool.knownTransactions
    built,      \* own blocks that were built: [block -> transactions]
    attempt,    \* scheduledAttempts: the parent of the attempt that waits, or NoBlock
    live,       \* miner threads whose task was not cancelled
    discarding, \* blockchainReadiness, read by DiscardingHandler
    at,         \* where each thread is, with what it holds
    jobs        \* jobs so far

utx == <<pool, known>>
mining == <<attempt, live, built>>
vars == <<chain, horizon, pool, known, built, attempt, live, discarding, at, jobs>>

Stages == {"idle", "cut", "validate", "append", "clean", "return", "flag", "read", "arm",
           "build", "retry"}

(* blk: the block it appends, or the target of its rollback; tip: the last    *)
(* block it read; rest: blocks of the fork still to append; dropped:          *)
(* transactions still to put back; fork: whether its job is a fork.           *)
Idle == [pc |-> "idle", blk |-> NoBlock, tip |-> NoBlock, rest |-> <<>>, dropped |-> {},
         fork |-> FALSE]
Places == [pc : Stages, blk : Block \cup {NoBlock}, tip : Block \cup {NoBlock},
           rest : Seq(Block), dropped : SUBSET Tx, fork : BOOLEAN]

TypeOK ==
    /\ chain \in Seq(Block) /\ chain # <<>>
    /\ horizon \in 0 .. MaxHorizon /\ jobs \in 0 .. MaxJobs
    /\ pool \subseteq Tx /\ known \in [Tx -> {"unknown", "good", "bad"}]
    /\ DOMAIN built \subseteq Own /\ \A b \in DOMAIN built : built[b] \subseteq Tx
    /\ attempt \in Block \cup {NoBlock} /\ live \subseteq Miners
    /\ discarding \in BOOLEAN
    /\ at \in [Thread -> Places]

-----------------------------------------------------------------------------
Tip == Last(chain)
Txs(b) == IF b \in DOMAIN built THEN built[b] ELSE Content[b]
TxsOf(s) == UNION {Txs(s[i]) : i \in DOMAIN s}
OnChain == TxsOf(chain)
InHistory(b) == b \in Range(chain)
Old(b) == Timestamp[b] < horizon

(* TransactionDiffer on the current state. *)
Acceptable(t) == t \notin OnChain /\ Needs[t] \subseteq OnChain

FitsAnywhere(b) ==
    /\ InHistory(Reference[b]) /\ ~InHistory(b)
    /\ b \in Valid
    /\ Txs(b) \cap OnChain = {}
    /\ \A t \in Txs(b) : Needs[t] \subseteq OnChain \cup Txs(b)

(* The checks of HistoryWriterImpl.appendBlock and BlockDiffer.fromBlock. *)
Fits(b) ==
    /\ Reference[b] = Tip
    /\ b \in Valid
    /\ Txs(b) \cap OnChain = {}
    /\ \A t \in Txs(b) : Needs[t] \subseteq OnChain \cup Txs(b)

(* The chain up to and including b. *)
UpTo(b) == SubSeq(chain, 1, CHOOSE i \in DOMAIN chain : chain[i] = b)
After(b) == SubSeq(chain, Len(UpTo(b)) + 1, Len(chain))

Move(t, place) == at' = [at EXCEPT ![t] = place]
Goto(t, stage) == Move(t, [at[t] EXCEPT !.pc = stage, !.blk = NoBlock, !.tip = NoBlock])

(* UtxPool.putIfNew *)
PutIfNew(t) ==
    IF known[t] # "unknown" THEN UNCHANGED utx
    ELSE IF Acceptable(t)
    THEN pool' = pool \cup {t} /\ known' = [known EXCEPT ![t] = "good"]
    ELSE known' = [known EXCEPT ![t] = "bad"] /\ UNCHANGED pool

(* What packUnconfirmed keeps of the pool, in some order of its transactions: *)
(* one that needs another is dropped when its turn comes first.               *)
Packings ==
    {s \in SUBSET pool : /\ \A t \in pool : Acceptable(t) => t \in s
                         /\ \A t \in s : t \notin OnChain /\ Needs[t] \subseteq OnChain \cup s}

-----------------------------------------------------------------------------
Init ==
    /\ chain = <<Genesis>> /\ horizon = 0
    /\ pool = {} /\ known = [t \in Tx |-> "unknown"]
    /\ built = <<>> /\ attempt = NoBlock /\ live = {}
    /\ discarding = FALSE
    \* Application.run calls miner.lastBlockChanged when the network is already up
    /\ at = [t \in Thread |-> IF t = Api THEN [Idle EXCEPT !.pc = "read"] ELSE Idle]
    /\ jobs = 0

(* Time passes: the blocks of one more moment become too old. *)
Age ==
    /\ horizon < MaxHorizon
    /\ horizon' = horizon + 1
    /\ UNCHANGED <<chain, utx, mining, discarding, at, jobs>>

(* A transaction from a peer or the API. *)
Submit(t) ==
    /\ known[t] = "unknown"
    /\ PutIfNew(t)
    /\ UNCHANGED <<chain, horizon, mining, discarding, at, jobs>>

-----------------------------------------------------------------------------
(* CoordinatorHandler.channelRead hands a job to the coordinator thread. *)

ReceiveBlock(b) ==
    /\ at[Net].pc = "idle" /\ jobs < MaxJobs
    /\ jobs' = jobs + 1
    /\ Move(Net, [Idle EXCEPT !.pc = "validate", !.blk = b])
    /\ UNCHANGED <<chain, horizon, utx, mining, discarding>>

(* processFork up to removeAfter.  Nothing new, or no common block: the job ends. *)
ReceiveFork(f) ==
    /\ at[Net].pc = "idle" /\ jobs < MaxJobs
    /\ jobs' = jobs + 1
    /\ \E n \in DOMAIN f :
          /\ ~InHistory(f[n]) /\ \A i \in 1 .. n - 1 : InHistory(f[i])
          /\ InHistory(Reference[f[n]])
          /\ Move(Net, [Idle EXCEPT !.pc = "cut", !.blk = Reference[f[n]],
                                   !.rest = SubSeq(f, n, Len(f)), !.fork = TRUE])
    /\ UNCHANGED <<chain, horizon, utx, mining, discarding>>

(* DebugApiRoute.rollback and rollbackTo. *)
Rollback(b) ==
    /\ at[Api].pc = "idle" /\ jobs < MaxJobs /\ InHistory(b)
    /\ jobs' = jobs + 1
    /\ Move(Api, [Idle EXCEPT !.pc = "cut", !.blk = b])
    /\ UNCHANGED <<chain, horizon, utx, mining, discarding>>

(* removeAfter: a target that has gone meanwhile is an error. *)
CutFork ==
    /\ at[Net].pc = "cut"
    /\ LET to == at[Net].blk IN
       IF InHistory(to)
       THEN /\ chain' = UpTo(to)
            /\ Move(Net, [at[Net] EXCEPT !.pc = "validate", !.dropped = TxsOf(After(to)),
                                        !.blk = Head(at[Net].rest), !.rest = Tail(@)])
       ELSE Move(Net, Idle) /\ UNCHANGED chain
    /\ UNCHANGED <<horizon, utx, mining, discarding, jobs>>

(* `back` is returnTransactionsToUtx. *)
CutApi(back) ==
    /\ at[Api].pc = "cut"
    /\ LET to == at[Api].blk IN
       IF InHistory(to)
       THEN /\ chain' = UpTo(to)
            /\ Move(Api, [Idle EXCEPT !.pc = "return",
                                     !.dropped = IF back THEN TxsOf(After(to)) ELSE {}])
       ELSE Move(Api, Idle) /\ UNCHANGED chain
    /\ UNCHANGED <<horizon, utx, mining, discarding, jobs>>

-----------------------------------------------------------------------------
(* Coordinator.appendBlock, on any thread. *)

RefusedSilently(t) == Move(t, Idle)

(* The miner is told even of its own block that failed: local || isRight. *)
Refused(t) == Move(t, IF t \in Miners THEN [Idle EXCEPT !.pc = "flag"] ELSE Idle)

(* blockConsensusValidation: the parent may be anywhere in the history, slots *)
(* and balances are those of the last block; an empty slot throws.            *)
Validate(t) ==
    /\ at[t].pc = "validate"
    /\ LET b == at[t].blk IN
       IF ~InHistory(Reference[b]) \/ Verdict[<<b, Tip>>] = "invalid" THEN Refused(t)
       ELSE IF Verdict[<<b, Tip>>] = "throws" THEN Move(t, Idle)
       ELSE Move(t, [at[t] EXCEPT !.pc = "append", !.tip = Tip])
    /\ UNCHANGED <<chain, horizon, utx, mining, discarding, jobs>>

AppendBlock(t) ==
    /\ at[t].pc = "append"
    /\ IF Fits(at[t].blk)
       THEN /\ chain' = Append(chain, at[t].blk)
            /\ Move(t, [at[t] EXCEPT !.pc = "clean", !.tip = NoBlock])
       ELSE Refused(t) /\ UNCHANGED chain
    /\ UNCHANGED <<horizon, utx, mining, discarding, jobs>>

RemoveKnown(t) ==
    /\ at[t].pc = "clean"
    /\ known' = [x \in Tx |-> IF x \in Txs(at[t].blk) THEN "unknown" ELSE known[x]]
    /\ IF at[t].rest # <<>>
       THEN Move(t, [at[t] EXCEPT !.pc = "validate", !.blk = Head(at[t].rest), !.rest = Tail(@)])
       ELSE Goto(t, IF at[t].fork THEN "return" ELSE "flag")
    /\ UNCHANGED <<chain, horizon, pool, mining, discarding, jobs>>

(* utxStorage.removeAll; then the next block of the fork, or the end of it. *)
RemoveAll(t) ==
    /\ at[t].pc = "clean"
    /\ LET gone == Txs(at[t].blk) IN
       /\ pool' = pool \ gone
       /\ known' = [x \in Tx |-> IF x \in gone THEN "unknown" ELSE known[x]]
    /\ IF at[t].rest # <<>>
       THEN Move(t, [at[t] EXCEPT !.pc = "validate", !.blk = Head(at[t].rest), !.rest = Tail(@)])
       ELSE Goto(t, IF at[t].fork THEN "return" ELSE "flag")
    /\ UNCHANGED <<chain, horizon, mining, discarding, jobs>>

(* droppedTransactions.foreach(utxStorage.putIfNew), in any order: none of *)
(* them is acceptable because another one came back before it.             *)
PutBack(t) ==
    /\ at[t].pc = "return"
    /\ \E x \in at[t].dropped : PutIfNew(x) /\ Move(t, [at[t] EXCEPT !.dropped = @ \ {x}])
    /\ UNCHANGED <<chain, horizon, mining, discarding, jobs>>

(* processFork tells the miner, the API does not. *)
AllBack(t) ==
    /\ at[t].pc = "return" /\ at[t].dropped = {}
    /\ Goto(t, IF at[t].fork THEN "read" ELSE "idle")
    /\ UNCHANGED <<chain, horizon, utx, mining, discarding, jobs>>

(* updateBlockchainReadinessFlag: compareAndSet(expired, !expired), where     *)
(* `expired` says that the last block is young, leaves !expired in any case.  *)
UpdateReadiness(t) ==
    /\ at[t].pc = "flag"
    /\ discarding' = Old(Tip)
    /\ IF at[t].fork THEN Move(t, Idle) ELSE Goto(t, "read")
    /\ UNCHANGED <<chain, horizon, utx, mining, jobs>>

-----------------------------------------------------------------------------
(* Miner *)

(* checkAge; the first block is never too old. *)
Minable(b) == b = Genesis \/ ~Old(b)

(* lastBlockChanged: generateBlockTask reads the last block; checkSlot throws *)
(* when the record of the account points to an empty slot ...                 *)
ReadTip(t) ==
    /\ at[t].pc = "read"
    /\ IF Minable(Tip) /\ Slot[Tip] = "empty"
       THEN Move(t, Idle)
       ELSE Move(t, [at[t] EXCEPT !.pc = "arm", !.tip = IF Minable(Tip) THEN Tip ELSE NoBlock])
    /\ UNCHANGED <<chain, horizon, utx, mining, discarding, jobs>>

(* ... and scheduledAttempts := cancels the earlier tasks, also those that run. *)
Arm(t) ==
    /\ at[t].pc = "arm"
    /\ attempt' = at[t].tip
    /\ live' = {}
    /\ IF at[t].fork THEN Goto(t, "flag") ELSE Move(t, Idle)
    /\ UNCHANGED <<chain, horizon, utx, built, discarding, jobs>>

(* The delay of the attempt is over. *)
Fire(m) ==
    /\ at[m].pc = "idle" /\ attempt # NoBlock
    /\ Move(m, [Idle EXCEPT !.pc = "build", !.tip = attempt])
    /\ attempt' = NoBlock
    /\ live' = live \cup {m}
    /\ UNCHANGED <<chain, horizon, utx, built, discarding, jobs>>

(* generateOneBlockTask, on the parent read when the attempt was scheduled. *)
Build(m) ==
    /\ at[m].pc = "build" /\ Slot[Tip] = "own"
    /\ \E b \in Own \ DOMAIN built, packed \in Packings :
          /\ Reference[b] = at[m].tip /\ ~Old(b)
          /\ built' = [x \in DOMAIN built \cup {b} |-> IF x = b THEN packed ELSE built[x]]
          /\ pool' = packed
          /\ Move(m, [Idle EXCEPT !.pc = "validate", !.blk = b])
    /\ UNCHANGED <<chain, horizon, known, attempt, live, discarding, jobs>>

NoBuildRepeats(m) ==
    /\ at[m].pc = "build" /\ Slot[Tip] # "empty"
    /\ attempt' = (IF m \in live THEN at[m].tip ELSE attempt)
    /\ live' = live \ {m}
    /\ Move(m, Idle)
    /\ UNCHANGED <<chain, horizon, utx, built, discarding, jobs>>

(* No quorum of peers, or no slot. *)
NoBuild(m) ==
    /\ at[m].pc = "build" /\ Slot[Tip] # "empty"
    /\ Goto(m, "retry")
    /\ UNCHANGED <<chain, horizon, utx, mining, discarding, jobs>>

BuildThrows(m) ==
    /\ at[m].pc = "build" /\ Slot[Tip] = "empty"
    /\ Move(m, Idle)
    /\ UNCHANGED <<chain, horizon, utx, mining, discarding, jobs>>

(* generateBlockTask again; a cancelled task schedules nothing. *)
Retry(m) ==
    /\ at[m].pc = "retry"
    /\ IF m \in live /\ Minable(Tip) /\ Slot[Tip] # "empty"
       THEN attempt' = Tip ELSE UNCHANGED attempt
    /\ live' = live \ {m}
    /\ Move(m, Idle)
    /\ UNCHANGED <<chain, horizon, utx, built, discarding, jobs>>

-----------------------------------------------------------------------------
Step(t) ==
    \/ Validate(t) \/ AppendBlock(t) \/ RemoveAll(t)
    \/ PutBack(t) \/ AllBack(t)
    \/ UpdateReadiness(t) \/ ReadTip(t) \/ Arm(t)

Coordinate == CutFork \/ Step(Net)
Serve == (\E back \in BOOLEAN : CutApi(back)) \/ Step(Api)
Mine(m) == Build(m) \/ NoBuild(m) \/ BuildThrows(m) \/ Retry(m) \/ Step(m)

Arrive ==
    \/ Age
    \/ \E t \in Tx : Submit(t)
    \/ \E j \in Jobs : IF j.kind = "fork" THEN ReceiveFork(j.blocks) ELSE ReceiveBlock(j.blocks[1])
    \/ \E b \in Targets : Rollback(b)

(* Every thread rests and nothing more arrives. *)
Rest ==
    /\ \A t \in Thread : at[t].pc = "idle"
    /\ UNCHANGED vars

Next ==
    \/ Arrive \/ Coordinate \/ Serve
    \/ \E m \in Miners : Mine(m) \/ Fire(m)
    \/ Rest

Spec == Init /\ [][Next]_vars

(* Timers fire and running threads go on.  Nobody has to send anything. *)
LiveSpec ==
    /\ Spec
    /\ WF_vars(Coordinate) /\ WF_vars(Serve)
    /\ \A m \in Miners : WF_vars(Mine(m))
    /\ WF_vars(\E m \in Miners : Fire(m))

-----------------------------------------------------------------------------
(* A transaction both in a block of the chain and in the pool is about to  *)
(* leave the pool: appendBlock calls removeAll after processBlock, without *)
(* a common lock, while putIfNew, packing and rollbacks run on others.     *)
PoolAheadOfChain ==
    \A x \in pool \cap OnChain : \E t \in Thread : at[t].pc = "clean" /\ x \in Txs(at[t].blk)

(* A block from the network that becomes the last block was validated      *)
(* against the state of its parent, although blockConsensusValidation      *)
(* finds the parent anywhere, reads slots and balances of whatever block   *)
(* is last, and the miner appends blocks between that and processBlock.    *)
ValidatedOnParent ==
    [][(at[Net].pc = "append" /\ at'[Net].pc = "clean") => at[Net].tip = Tip]_vars

(* Whatever fails -- a stale or rejected own block, no quorum, no slot, a  *)
(* fork given up half way, a rollback nobody announces -- there is always  *)
(* an attempt waiting, or a thread on its way to schedule one, as long as  *)
(* no block is too old and no slot of the account empty.                   *)
Working(m) ==
    \/ at[m].pc \in {"validate", "append", "clean"}
    \/ at[m].pc \in {"build", "retry"} /\ m \in live
Arming(t) == at[t].pc \in {"read", "arm"} \/ (at[t].pc = "flag" /\ ~at[t].fork)
MinerArmed ==
    \/ attempt # NoBlock
    \/ \E m \in Miners : Working(m)
    \/ \E t \in Thread : Arming(t)

(* An attempt on a block that is no longer the last one, as rollbacks and  *)
(* failed forks leave behind, does not stay: its block is refused and the  *)
(* refusal schedules the next.                                             *)
StaleAttemptReplaced ==
    (attempt # NoBlock /\ attempt # Tip) ~> (attempt = Tip)
=============================================================================
