# TiValue node: a verification project

TLA+ models of the TiValue node (`src/src/main/scala`, a Scala node with the SPoS
consensus and a token matcher), TLC runs on small instances, and TLAPS proofs. Paths
below are relative to `src/src/main/scala/vsys` unless they start with `matcher/`
(`src/src/main/scala/com/wavesplatform/matcher`).

## The system and its parts

A node keeps one chain of blocks in LevelDB and the state the chain leads to, follows the
peer with the best score, mines blocks when its account holds a slot, and keeps a pool of
unconfirmed transactions. The matcher is an optional actor system on top.

| Part | State | Operations | Talks to | What is hard | What makes it correct |
| --- | --- | --- | --- | --- | --- |
| Block history (`blockchain/history/HistoryWriterImpl`) | blocks, heights and scores by height, in LevelDB | `appendBlock`, `discardBlock`, lookups | called by the updater under the common lock | a rollback is many batches | parent of a block is the block below it |
| Blockchain updater (`blockchain/state/BlockchainUpdaterImpl`) | persisted state, `bottomMemoryDiff`, `topMemoryDiff` | `processBlock`, `removeAfter`, the rebuild at start | history, state writer, `BlockDiffer` | rotation and rollback in any order, crash between two writes | the three layers are the state of exactly the chain |
| State storage and writer (`StateStorage`, `StateWriter`, `db/`) | about twenty LevelDB maps and a height | `applyBlockDiff`, `clear` | updater | not one batch: dozens of puts, height last | a torn write is noticed at the next start, nothing is applied twice |
| State readers (`state/reader/`) | none; three layers seen one after another | every balance, lease, slot and transaction lookup | miner, pool, API, validation, while the updater writes | reads are not snapshots | sums exact without a rotation, lookups linearizable |
| Ledger (`state/diffs/`, `Diff`, `Portfolio`) | balances, leases, slots, snapshots | one differ per transaction type, `BlockDiffer.apply` | readers of the state so far | totals and records written by different transactions | leases add up, slots exclusive, coins conserved |
| SPoS weight (`consensus/SPoSCalc`, `StateReader.minBySnapshot`) | snapshots | `mintingBalance`, `weightedBalaceCalc` | contention, miner, block validation | integer division, snapshots only when something changed | no coin counted twice, no gain by churning |
| Coordinator (`Coordinator`, `network/CoordinatorHandler`) | readiness flag | `processFork`, `processBlock`, `processCheckpoint` on one thread; the miner calls `processBlock` on others | history, updater, pool, miner, peers | check-then-act without the lock, fork switch that fails half way | the chain complies with the checkpoint, transactions are not lost |
| Checkpoint service | last checkpoint, in LevelDB | `set`, `get`, `isBlockValid` | coordinator, API | first checkpoint, rollback to comply | chain agrees with the checkpoint |
| Miner (`mining/Miner`) | scheduled attempts | `lastBlockChanged`, `generateBlockTask` | coordinator, pool, readers | attempts on stale parents, exceptions in a task | an eligible miner always has an attempt |
| UTX pool (`blockchain/UtxPool`) | transactions, cache of known ones, pessimistic portfolios | `putIfNew`, `removeAll`, `removeExpired`, `packUnconfirmed` | API, network, miner, coordinator | read and write locks are two different locks, the chain is behind a third | the maps agree, a mined transaction leaves, what is packed can be applied in order |
| Chain synchronization (`network/RemoteScoreObserver`, `Extension*Loader`, `OptimisticExtensionLoader`, `HistoryReplier`) | pinned channel, scores, pending ids, buffers, timeouts | channel reads and writes, timers, close listeners | peers, coordinator | event loops of many channels, late answers, closing channels | one extension at a time, never stuck while a better peer is there |
| Connections and peers (`NetworkServer`, `HandshakeHandler`, `InboundConnectionFilter`, `PeerDatabaseImpl`) | counters, channel maps, blacklist, suspension | connect, accept, handshake, close | all of the network | futures complete in any order, one operation of the peer database takes no lock | limits kept, no peer twice, a close leaves nothing behind |
| Matcher order book (`matcher/market/OrderBookActor`, `model/`) | the book, journal and snapshots | add, cancel, match, recover | history actor, UTX pool | validation timeout against a late answer, crash between persist and publish | best price first, volume conserved |
| Matcher order history (`matcher/market/OrderHistoryActor`, `model/`) | order infos, open portfolios | accepted, executed, canceled | order books | events out of order | open volume equals the open orders |
| Contracts (`blockchain/contract`, `state/opcdiffs`) | state variables, token tables | register, execute | ledger | authority is a sequence of opcodes; a failure half way | supply backed and below its maximum, only the entitled account changes anything |
| Wallet, time, REST API, codecs, accounts, settings, wiring, generator | | | | | see "What is not modelled" |

## Modules

| Module | Models | Correspondence |
| --- | --- | --- |
| `BlockchainUpdater` | updater, history, state storage, start and crash | `history` is `HistoryWriterImpl`; `storedTxs`, `applied`, `height` are the groups of maps of `StateStorage` in the order `applyBlockDiff` writes them; `bottom` and `top` are the memory diffs; `pc`, `op`, `block`, `target`, `diff` are where the thread with the write lock is. One action per write that a reader or the next start can see. |
| `ChainState` | what the updater promises: one chain, extended by a valid child or cut, and a state of exactly that chain whenever it can be read | `BlockchainUpdater!ImplementsChainState` is the refinement mapping |
| `MCBlockchainUpdater`, `MCBlockchainUpdaterLive` | the tree of blocks for TLC; crashes counted, fairness | |
| `StateReaders` | a read through the two `CompositeStateReader.Proxy` objects, beside every step of `BlockchainUpdater` | `ReadTop`, `ReadBottom`, `ReadPersisted` in the order of `Proxy`; only the last takes the lock |
| `SPoSCalc` | `weightedBalaceCalc` | |
| `Ledger` | the state a block is assembled on: portfolios, leases, slots, snapshots | one action per transaction differ with `BalanceDiffValidation` inside, `CloseBlock` is the end of `BlockDiffer.apply` |
| `LedgerAudit` | `Ledger` beside what two of its properties compare it to: the effective balances every block left, the coins issued less the fees | |
| `MCLedger` | three accounts, two leases, the bound on the height | |
| `MintingWeight` | the weight of one standing balance over many blocks | `Touch` is a block with a snapshot of the account, `Pass` one without |
| `Node` | the threads around the updater: the coordinator thread, the two threads of the miner, the rollback of the API, submissions | `at[t]` is where a thread is between two calls of the updater or the pool, with what it holds; `processBlock`, `removeAfter`, `putIfNew`, `removeAll` and `packUnconfirmed` each hold a write lock and are one step. `attempt` and `live` are `scheduledAttempts`: the task that waits, and the running tasks nobody cancelled. |
| `MCNode` | a tree with two branches and own blocks on both | |
| `UtxPool` | the pool under its callers: submitters, the coordinator's `removeAll` and `putIfNew` after a fork switch, the miner's packing, readers of a portfolio | `pool`, `known` and `charged` are `transactions`, `knownTransactions` and `PessimisticPortfolios`; `lock` is the write lock only, since the read lock belongs to another lock. `putIfNew` is two steps (validated, added) between which the chain moves; packing is a fold with one step per transaction; a portfolio is two reads. |
| `UtxPoolAudit` | `UtxPool` beside what two of its properties compare it to: what was there during a query, whether the chain moved during packing | |
| `MCUtxPool` | three payments of two accounts | |
| `PeerDatabase`, `Connections` | `PeerDatabaseImpl`; the server, the inbound filter and the handshake handlers on top of it | `chan[c]` says how far a channel is and which listeners of its close future still have to run (`owes`, in the order they were added); one action per listener. The queue's lock is held over several steps by `randomPeer` only (`drawing`); `addCandidate` takes none. |
| `MCConnections` | two peers on two hosts, three channels, what is explored together | |
| `ContractLedger` | what a token contract promises: each change one step, within the limits, paid for by the account entitled to it | `ContractExecution!PromiseKept` is the refinement mapping |
| `ContractExecution` | registration and execution: type checks, the byte code of the two permitted contracts, the opcodes with their checks in order, the fold, the fee | `exec` is the fold of `OpcFuncDiffer`: function, place, data stack, diff and status. One action per opcode, then `Settle` or `Reject`. |
| `MCContractExecution` | two accounts that pay, one that receives, one contract | |
| `ExtensionSync` | the score observer shared by all channels, the three loaders each channel has, the replies of the peers, the fork switch on the coordinator thread | `loader[c]` holds the fields of the three loaders of a channel and `wire`, what its peer still owes; a handler runs to its end on the event loop of its channel and is one action, but for those of the observer: their fields are shared by all event loops, so each is several actions, one per decision and one per write that follows from it, and `handler[c]` is its next step and the channel it looked up; `queue[c]` is what other threads write to the channel; `jobs`, `work` and `busy` are the coordinator thread |
| `MCExtensionSync` | two peers whose chains part, one whose chain comes in parts, and a long chain | |
| `CheckpointService` | `set` and the stored checkpoint | the three answers of `set` |
| `*_proofs` | theorems | |

A block in `BlockchainUpdater` is an identifier and a state is the sequence of blocks folded
into it. That is the finest value a store that combines diffs can have: if two stores differ
in a balance, they differ in that sequence. `Ledger` is the other half: what one diff does.

## Runs

| Run | Question | Bounds, and why they are enough |
| --- | --- | --- |
| `chain_state` | Do the layers stay the state of the chain under every order of appends, rotations, rollbacks of any depth, rebuilds, rejected blocks, and crashes at every write? Does the implementation refine `ChainState`? Does every operation end, and a node that stopped start again? | a tree with a trunk of 9 and two forks, `minimumInMemoryDiffSize` 2: the persisted part reaches several chunks, both layers fill, and every branch of `removeAfter` is taken, also after an earlier rollback; three crashes: one during the recovery from another, and one more |
| `state_readers` | What may a read that overlaps with appends, rotations and rollbacks return? | trunk 5, size 2, a fork: one read overlaps with two rotations |
| `ledger` | Do money, leases, slots and snapshots stay consistent under every order of transactions? | three accounts, two leases, two slots, three blocks, two transactions per block beside the minting one: eviction, release, re-contention, lease and cancel across blocks, snapshots with gaps |
| `minting_weight` | Can a pattern of updates raise the weight of a standing balance? | balances to 17 with a day of 4 blocks: all remainders of the divisions |
| `node` | Can blocks and forks of peers, own blocks, refusals and stale attempts, in any order on three threads, with lost and empty slots, blocks that become too old and validations that throw, leave a mined transaction in the pool, or append a block that was validated on another state? | 10 blocks: two branches, own blocks on each, one block that is never valid; two jobs and two transactions of which one needs the other. Two jobs are enough for a fork switch that fails half way, and for one job to undo the other under the miner's feet. |
| `node_live` | With rollbacks through the API: can they stop the miner, and is an attempt on a block that is gone replaced by one on the last block? | one miner thread, two jobs or rollbacks |
| `sync` | Two peers on two branches, one of them growing and broadcasting, both silent or closing at will, with a miner, a block that fails the pre-check and scores that expire: does a loader wait only for what its peer owes, and which order of the steps of the close listeners leaves a closed channel pinned? | chains of 4 and 3 blocks that share the first two, replies of 2 ids: a request, its replacement and a part loaded ahead are under way together. Requests carry 4 ids, no fewer than the chain of the node has, so that a peer always finds a common block, as with the 100 of the default and forks of less than 100 blocks. Two channels are what the race of two close listeners needs; one of the scores may expire and the other may not, so that the map is met empty, too |
| `sync_live` | Does a node that follows one peer load its whole chain, part after part? | 22 blocks in parts of 4 with requests of 3 ids (101 and 100 in the settings, with the same difference): seven parts, each ahead of the switch to the one before |
| `utx` | Do the maps of the pool agree and stay within the limit, does a mined transaction leave, what may a portfolio miss or count twice while readers share no lock with writers, and can what is packed be applied in order? | three payments of two accounts, of which one is funded by another's; a limit of two, a chain of two blocks, a clock of two readings: a full pool, an eviction, a fork switch with a transaction to put back, and an expiry meet. One submitter: the write lock makes several one after another |
| `connections` | Are the inbound limits kept and peers dialled and connected once, does a close leave nothing behind, and what can the unlocked `addCandidate` spoil? | two peers of which one declares its address, three channels (both directions and one in excess), limits 1 out, 2 in, 2 per host. `Bounded` explores a third channel, and what follows the shutdown, only while nobody is banned or queued, and one ban at a time: bans and limits share no state. With these limits the one per host follows from the total; for other limits there is the theorem |
| `contract` | Every order of registrations and calls of both permitted contracts, with ill-typed data: is the supply backed and within its limit, is the byte code well formed, and does the whole implement `ContractLedger`? | one contract, two accounts that pay and a third that receives; amounts 0, 1 and the largest of a field of 2 bits, so that sums reach the limit and overflow; coins for a few fees, which bounds the run |
| `checkpoint_first` | Is a checkpoint that was already applied the stored one? | violated (see Findings) |

In `node` the verdict of the consensus validation is as lax as it can be (nearly every
block passes it whatever block is last, one last block makes it throw), so that `ValidatedOnParent` cannot hold because
validation happens to reject; slots, balances and mint times are not part of the model.

Every property of a passing run has a mutant in `PROJECT.json`: a change of one mapped
definition, of the kind a bug would make, under which TLC finds the property violated.

Fairness. `chain_state` assumes `WF_vars(Step)`: a thread that holds the write lock is
not suspended for ever, since nothing in those sections waits for another thread; and
`WF_vars(Start)`: the operator or the service manager restarts a node that stopped. No call
is assumed to be made, and nothing is assumed about crashes but that they end.

`node_live` assumes `WF_vars(Coordinate)`, `WF_vars(Serve)` and `WF_vars(Mine(m))`: a thread
that has begun a job goes on with it (executor threads, locks held for bounded sections); and
that one of the waiting timers fires in the end. Nothing is assumed about peers or the API.

`sync_live` assumes that the event loop of a channel runs a handler when one is waiting
(`Ready` is when one is, a cheaper form of `ENABLED Handler(c)`) and `WF_vars(CoordinatorThread)`:
executors run what is queued. A peer that is not in `Silent` answers; nothing is assumed about
new blocks, closings, the miner or broadcasts.

The other runs are safety only. Deadlock is checked in all runs but those of `ExtensionSync`,
where finite peers that have nothing more to tell do leave the node at rest, and `connections`,
where a node that was shut down and has closed its channels does nothing more; the ledger run
stutters at its bound on the height (`AtBound`), which is not a stop of the node.

## Findings

`checkpoint_first`: `CheckpointServiceImpl.set` tests `!get.forall(...)`, which is false when
nothing is stored. The first checkpoint is therefore refused with "Checkpoint already
applied", and as only `set` stores one, none ever is: `isBlockValid` is true of every block
and `makeBlockchainCompliantWith` is never reached, which is why `Node` has neither.

Met while modelling, and recorded as what the model does rather than as findings: the age of
the last block is checked when an attempt is scheduled and not when the block is built, up to
a round of slots later (`application.conf:279`); a node killed inside `applyBlockDiff` cannot
start until its state directory is removed (`Torn`, `FailedStart`); an evicted minter can
neither contend nor release again (`EvictedForGood`); a fork whose later block fails leaves
the chain short and its dropped transactions nowhere; `updateBlockchainReadinessFlag`, a
compare-and-set of a value to its opposite, always leaves the flag at "the last block is old",
whatever it was before; a rollback within `minimum-in-memory-diff-blocks`, which
`application.conf:110` calls fast, rebuilds the whole state when an earlier rollback has
shrunk the memory layers; and `appendBlock` calls `utxStorage.removeAll` after
`processBlock` has released the lock, so that a rollback which puts the block's transactions
back in between loses them.

In the pool: `synchronizationToken` is a `def`, so that each use makes a lock pair of its own
and a reader never waits for a writer (`PortfolioOffOnlyInTransit` says what that costs); and
`packUnconfirmed` validates each transaction against the state as it is then, so that a block
appended in the middle counts what it has in common with the fold twice and evicts a valid
transaction (`PacksInOrder` is stated for a chain that stands still meanwhile,
`UtxPoolSpecification.scala:205` has only that case); a transaction of a dropped block that was
submitted again while it was mined is remembered as refused and not put back.

In the network: `addCandidate` adds to the queue without its lock, so that an operation that
walks it may throw. Then the connect task is dead for good (`TaskDies`), or the listener of a
dial ends before it has counted the channel and asked to be told of its close (`DialIsCut`,
`StaleOnlyWhenCut`), or a ban is skipped. Failed dials are never suspended, since a channel that
did not connect has no remote address; `outgoingChannelCount` counts no dials under way, so that
the task and the API may exceed its limit; the filter may refuse both of two connections of
which one had room, since each counts before it checks; `removeObsoleteRecords` may remove a ban
renewed since it was read; a banned address at the head of the queue keeps the others waiting.

In contracts: the functions that return a value always end in `ContractUnsupportedOPC`, as no
differ knows their last opcode; and a transfer to oneself of more than fits a field twice is
refused by the overflow check, although it would change nothing.

In chain synchronization: any new local score
(`RemoteScoreObserver.scala:55`), also that of a block of a third peer, and an empty answer to
what was loaded ahead release a channel that still downloads, and what it brings is dropped as
from a channel that is not pinned (line 92 takes the download as finished); a request that
`ExtensionSignaturesLoader` drops because one is unanswered, an extension that is discarded,
or signatures none of which is known leave a channel pinned with nothing under way until a
score is written to it (`CoordinatorHandler.scala:95` relies on the opposite); with two peers
a score that arrives before the pinned channel is released wakes nobody, and the better peer
is not asked before its next score (so `CatchesUp` is stated for one); a part of one block,
handed over, leaves `hopefullyNextIds` as it was, and the next extension is discarded; when two
channels close at once, the listener of one looks the other up as second best
(`RemoteScoreObserver.scala:38`), that one removes its score and finds that it is not pinned
(line 44), and the first pins it after all (line 40): a closed channel is pinned, and no score
that arrives pins another, until a local score is written to the channel with the best one; when
the last score has expired, closing the pinned channel leaves it pinned (line 32); the timer of
`ExtensionBlocksLoader` outlives its channel; a fork that fails half way leaves `localScore`
that of the longer chain.

## Proofs

`BlockchainUpdater_proofs`, for every tree of blocks and every buffer size. `StateIsHistory`
is not inductive: it speaks of the moments when nobody holds the lock. `LayersInv` says what
holds at each write of each call: where the thread is in `applyBlockDiff`, how much of the
diff is applied, that a rollback has cut the history to a prefix of the layers and not yet
the layers, and that a state found at start is either that of a prefix of the chain, or
higher than the chain, or torn in a way the next rebuild notices by a duplicate transaction
(`Torn`). `Inv`, which adds the types, is inductive, and `chain_state` checks it as it is proved.
From it follow `StateIsHistory`, `MemoryBounded`, `AppliedOnce`,
`KeptStateIsOfThisChain`, `RollbackNeverThrows`, and the refinement of `ChainState`
(initial states map to initial states, each step to a step or a stutter). The assumptions are
`BlockAssumption` (ids, the genesis block, references, valid blocks) and `MinDiffAssumption`
(a positive buffer size).

Of the liveness properties `CallsEnd` and `RestartsAfterCleanStop` it proves what is not
fairness. `Work` bounds the steps the call that holds the lock can still take: the
transactions `applyBlockDiff` has to put, four steps for each block a rebuild has left, the
blocks a rollback has to discard. `StepsAreFinite` says that it is a natural number and that
every step makes it smaller; `NeverStuckAlways`, that a call that has not ended has a step
whose guard holds (`StepReady` spells the guards out, ENABLED being out of the prover's reach); and
`OnlyTornFailsToStart`, that the node fails to start only on a state a crash tore inside
`applyBlockDiff`.

The same module proves the two properties of `StateReaders`, for every length of a read and
every number of rotations that overlap it. A read holds what it has taken so far, and the layers
go on moving: `ReadsPlaced` says at which place of the chain the blocks of each part taken stand,
and how that place relates to the layers as they are now (a rotation moves the boundary up, and
never below what a read in progress has seen); `ReadsExact`, that without a rotation the parts
taken so far meet without gap or overlap. `Overlaps` ties the flags `shifted` and `undone` to the
step the writer is at. `ReaderInv` joins them with `Inv`. A lookup is linearizable because what
a read counts twice are blocks that it has in the right order the second time.

`Ledger_proofs`, for every set of accounts, leases, slots and amounts. `SlotsInv`, which the
`ledger` run checks too, adds to `SlotsExclusive` and `SlotsCounted` the types and the fact that while the genesis block is assembled a slot is held by the
account whose genesis transaction names it (`GenesisSlots`), without which nothing excludes
that a second genesis transaction takes a slot already given. With it, a step that takes a
minter away leaves the minimum (`MintersRemain`), and an evicted minter stays evicted. `NeverOverLeased` needs that
each transaction changes the portfolios of the touched accounts only, since
`BalanceDiffValidation` looks at no others. The assumption is `LedgerAssumption`; its last
conjunct, that no two genesis transactions name the same slot, is a fact about the settings.

The rest of `Ledger_proofs` needs sums. A sum over a set is a recursion on its elements, and the
induction theorems of the library cannot be cited; what can be is that a set of naturals that is
not empty has a least element (`LeastNumber`, from the well-foundedness of the order). With it,
the recursion behind a sum has a solution on every finite set (`TotalSums`), a sum can be taken
apart at any element (`TotalRemove`), and it moves by what one addend moves by (`TotalChange`).
Hence three properties. `LeasesAddUp` is inductive with the types: a lease or a cancellation moves
one total of each of two accounts and adds or removes one term of the sum over the active leases.
`WeightsWithinSupply` needs that what is leased out is leased in (`LeasesBalance`), so that the
effective balances sum to the coins, and that a weight is at most the effective balance.
`CoinsConserved` follows transaction by transaction from `CoinsMoved`.

`SnapshotsCurrent` is inductive with `SnapshotsPlaced`: snapshots are of closed blocks, name one
another in falling order, and the newest is the one `lastUpdate` names. `MinBySnapshotIsMinimum`
compares a walk of any length with the whole past. `WalkExists` says that the function the walk is
defined by exists, again by a least height at which it would fail; `Walks` says what a step of
it returns. `PastInv` links it to the past: between a snapshot and its predecessor there is no
other, and at each height from one snapshot to the next the effective balance was what the
first says (`KeptOf`). The walk down from a height then covers an interval of the past,
block by block (`Over`), and stops at the snapshot that speaks for the bottom height.

`LedgerAssumption` has accounts and lease ids finite in number: both have a fixed number of bytes.

`MintingWeight_proofs`, for every length of the day and every balance. `ChurnInv` says that
what the weight lacks of the full weight, times the blocks left, is at least what a stake
left alone lacks; the step is arithmetic on two products that shrink by one block
(`OneBlockLess`).

`Node_proofs`, for every tree of blocks, every set of miner threads, every table of verdicts
and slots, and everything peers may send. `Typed` adds to `TypeOK` what each stage of a thread
holds (`Held`). `MinerArmed` is inductive with `ArmsABlock` (whoever replaces the attempt holds
a block): a step of a busy thread leaves it busy or leaves an attempt, and only `Arm`, `Fire`
and `Retry` touch the attempt. It is proved under `NeverStops`: no block too old, no empty slot,
no exception in validation. `PoolAheadOfChain` needs `OnlySettled`: the chain, the blocks in the
threads' hands and the rest of a fork are blocks of peers or own blocks already built, so that
building another block changes the transactions of none of them. `ValidatedOnParent` needs that
the chain is a path without repetitions (`Linked`) and that the parent found by validation lies
at or below the last block it was validated on (`ParentBelowTip`); it is proved for a node
nobody rolls back through the API. The assumption is `NodeAssumption`; that peers send no block
of this node's account stands for its key being secret.

`ExtensionSync_proofs`, for every number of channels, all chains and all bounds. That
the pinned channel is an open one is false of this code (see Findings). What is proved is that
the race of two listeners is the only way there: `LeftPinnedByRaceOnly` takes every step that
ends with a pinned channel which is closed and whose listener has run, and says that the channel
was left pinned before, or that the step is the compareAndSet of another channel's listener that
had looked it up. Whether a listener unpins its channel depends on what it finds in the map of
scores many steps after the channel was pinned: it does nothing when the map is empty. `Scored`
says that a channel that is open and pinned, or that some handler is about to pin (`Sought`), has
its score in the map; `Placed` that only an open channel is about to pin itself, that the score
of a channel whose listener has got past its first writes is gone, and hence that the second best
it finds is another one. The property leaves out the channels whose score may expire, for which
line 32 is a second way, and the model leaves out what netty hands over after a close (see What is
not modelled), which may be a third.

`AnswerOwed` is false of a node that is far behind on a fork of its own: its request names none
of the blocks the peer has, the peer does not answer, and the loader runs into its timeout. It
is therefore proved under `PartedWithin`: a peer that is about to be asked (`Sought`) has, before
its last block, one of the last `MaxRollback` blocks of the node (or the request is just its last
block). It speaks of the peers a handler has decided for and not of all with a better chain,
since the request carries the ids at the time it is written, and the chain may have moved since
the decision. TLC finds `PartedWithin` true of every state of the run `sync` and `AnswerOwed`
violated without it when `MaxRollback` is 1. The invariant is `Kept`. Of the loaders of a channel,
`Sound` says that the wire carries no two requests of a kind and one of each kind a loader waits
for (`OneOfEach`), and that what is held or asked for will be answered (`Answerable`): the ids of
a request on the wire meet the chain of the peer (`Meets`), and the blocks held by the loaders
are consecutive blocks of that chain (`FromPeer`), so that the next part, asked for by the ids
of the last one, is answered too (`PartsMeet`, `ReplyMeets`). `QueuesMeet` says the same of the
requests that wait in the queue of a channel, made when another channel closed, `Behind` that no
score is above the height of its peer. Both `Meets` and `FromPeer` survive the growth of a peer
(`MoreIsKept`): a late answer serves an old request. `AnswerOwedWhileShort` derives the same
from a chain no longer than `MaxRollback`: its part of the invariant is `SoughtHasMore`, that a
peer about to be asked has more than the genesis block, as its score was above the local one when
it was looked up. The assumption is `SyncAssumption`: one genesis block
for all chains, and peers that grow from the chain the node starts with.

`UtxPool_proofs`, for every set of transactions, accounts and threads, every limit and every
length of the chain. `PoolInv` joins `OneWriter` (whoever is in the middle of a change holds the
write lock), `RoomLeft` (what has been validated and not added yet is one transaction, and there
is room for it), `InOrder` (who may be doing what) and `Pending`: a transaction that is in the
chain and in the pool, or about to be put there, is among those the coordinator is going to
remove. `Pending` is why `MinedLeavesPool` holds although validation and addition are two steps
between which a block may arrive.

It also carries `PortfolioOffOnlyInTransit`: what a query held stays in the pool or in the chain
(`HeldStays`), so that a portfolio can miss only what is in the chain by now, and by `Pending` it
counts twice only what the coordinator is about to remove. For `PacksInOrder`, `InUTXPoolSorts`
shows that the order of `TransactionsOrdering` exists and numbers the pool (the place of a
transaction is how many come no later); `FoldInOrder` then says that all that has been judged
comes before all that has not, and `Verdicts` that each verdict is the one under the valid
transactions that come before, which a further transaction of the fold does not change because it
comes after them. Only the chain could change a verdict, hence the condition that it stands still.

The assumption is `UtxPoolAssumption`: the types of the tables, that no two transactions have the
same place in the order (its last key is the id), and that miner, coordinator and submitters are
different threads.

`ContractExecution_proofs`, for every set of accounts and contracts and every width of the
amounts. `BooksInv` says that the stored books of each contract are sound, that a registration
that failed left nothing (`NothingFromFailure`), and that the stored books under the diff of an
execution under way are sound as well (`ExecSound`), which is what makes each opcode's checks,
made against that view, sufficient; `InitProgress` says which part of a registration is done at
which opcode. The assumptions are `ConstantsAssumption` and `SumAssumption`: that `SumOf` is zero
of zeros, bounds each term, and moves with a single entry. TLC evaluates it for the `MCSum` of
the run, and `TotalIsTheSum` of `Ledger_proofs` proves it of the sum over any finite set.

What the byte code does is read place by place. `PlaceInv` says of each function, at each of its
opcodes, what is on the stack, what has been asserted and what the diff has become: before the
last opcode of `issue`, say, the stack holds the amount and the issuer that the books name, and
the signer is that issuer. An opcode whose indices lie in the stack can fail for the reasons in
`Refusals` only (`LoadRuns` to `ReturnRuns`, one lemma for each kind of opcode), and each
function goes from place to place (`InitSteps` to `QuerySteps`). `WellFormed` is read off it.
So is `PromiseKept`: when an execution settles, it has failed and its diff is empty, which the
promise calls `Refuse` or `CreateFails`, or it stands at the end of its code, where the diff is
that of one step of `ContractLedger` with its guards true of the stored books (`SettleRefines`).
An execution works on the stored books from its first opcode to the settling, since `exec` is one
transaction at a time: that is the differ, called for one transaction after the other.

`Connections_proofs`, for every number of channels, hosts, addresses and limits. The filter raises
a count, then compares it, and a rejected connection lowers it later, so the count may exceed the
limit while the channels that were let in may not. `LimitInv` counts a channel as admitted from
the moment its own count is within the limit, before `accept` has looked at it: a channel counted
as the n-th is one of at most n counted at all, so those admitted never exceed the limit; and
every channel counted owes exactly one decrement, first among its listeners. `BookInv` says the
same of the other books: a channel is in `connections`, `peerInfo`, the outgoing count or
`allChannels` just as long as the listener that takes it out is still due, the stage of a channel
tells which listeners those are, and an entry of `outgoingChannels` is of a channel that is
being dialled, that still owes the entry's removal, or whose dial was cut short. From it follow
`OneChannelPerPeer`, `NothingLeftBehind` and `StaleOnlyWhenCut`. `DrawInv` (no candidate of
`randomPeer` is banned while it holds the lock) gives `BannedOnlyByEviction`. The assumption is
`LimitsAssumption`, with `PeersAssumption` of the database.

Only model-checked: the four liveness properties `CallsEnd`, `RestartsAfterCleanStop`,
`StaleAttemptReplaced` and `CatchesUp`, since the prover does not reason about fairness. Every
other property of the passing runs is a theorem.

## What is not modelled, and why

- Signatures, byte formats, JSON, parsing, logging, metrics: no property is about them.
- 64-bit overflow in the ledger: `safeSum` guards sums in portfolios, and amounts in `Ledger` stay
  below the supply. In `ContractExecution` amounts have a width.
- Issue, transfer, alias and exchange transactions: commented out of `TransactionDiffer`
  (lines 31-49), so no block can carry them.
- LevelDB itself: a put that returned is durable, a batch is atomic.
- The Java memory model for `Synchronized.value`: a read returns the latest value.
- In `Node`: expiry and the size limit of the pool, which are in `UtxPool`, more than one minting
  account; the scores sent to peers are in `ExtensionSync`.
- In `UtxPool`: the layers of the state (one read of it is one step; `StateReaders` has what a read
  may see), transactions other than payments, which peers a transaction is passed on to.
- In `Connections`: the exchange of known peers but for the candidates it brings; a handler that
  waits for the lock of the peer database waits with its whole step; addresses resolve to one host.
- In `ContractExecution`: contracts other than the two that `ContractPermitted` lists, which
  registration refuses; `DbPut`, a map of strings beside the contracts; signatures and stamps.
- In `ExtensionSync`: of the handlers of the observer, a lookup is one step with the comparison to
  `localScore` that guards its use, a `compareAndSet` with the message it lets the handler write,
  `put` of a score with the lookup after it, and in `write` the `compareAndSet`, the assignment of
  `localScore` and the lookup: what other event loops do in between they may do before or after,
  since the decision and the pinning that follows it are two steps. After the close of a channel
  only its listener runs. Netty still hands the handlers what was read together with the message
  that made them close the channel, and the writes that were queued before: a score among them
  would return to the map, and could pin the closed channel. The blocks of one extension arrive
  together;
  a score is the length of a chain; the blacklist (in `Connections`).
- The matcher: it trades with `ExchangeTransaction`, which `TransactionDiffer` refuses, so no
  order it matches can settle on this chain; the code is that of the project this one derives from.
- The JavaScript under `src/src/main/resources/swagger-ui` (Swagger UI, Handlebars, marked, an ES5
  shim): third-party files that draw the page of the REST API. They keep no state of the node. All
  of the node's own code is Scala, under `src/src/main/scala`.
- REST routes other than rollback, wallet, settings, accounts, codecs, generator: see `PROJECT.json`.

## Plan

1. Chain state: `BlockchainUpdater`, `ChainState`, `StateReaders`. Done, all safety properties proved.
2. Ledger: `Ledger`, `LedgerAudit`, `SPoSCalc`, `MintingWeight`. Done, all properties proved.
3. `Node`: coordinator, checkpoint service, miner and API on their threads. Done, its four
   safety properties proved.
4. `UtxPool`: the three maps under the two locks, the cache of rejections, packing. Done, all
   properties proved.
5. `ExtensionSync`: the pinned channel, signatures, blocks and optimistic loaders on several
   channels with timeouts and closes. Done, both safety properties proved. Left: the handlers of
   the observer split at their accesses to the shared fields.
6. `PeerDatabase`, `Connections`: inbound filter, handshakes, outgoing map and counter, peer
   database. Done, its five properties proved.
7. `ContractLedger`, `ContractExecution`: registration, byte code and opcodes of the two
   permitted contracts. Done, all properties proved.
8. Left: transaction paging over the layers (against reference paging), the size counter of
   `StateMap`, the clock. The matcher is not planned any more (see above).

The abstract specifications are `ChainState` (the refinement is checked and proved) and
`ContractLedger` (the same); a download as "extension of the local chain or
nothing" is worth stating for 5.
