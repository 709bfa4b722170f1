------------------------------- MODULE Ledger -------------------------------
(***************************************************************************)
(* The state one block after another builds: balances, leases, minting     *)
(* slots and balance snapshots (state/diffs, Diff, Portfolio, SPoSCalc,    *)
(* StateReader).  A block is assembled transaction by transaction, each    *)
(* one checked against the state the earlier ones left, as BlockDiffer     *)
(* does with CompositeStateReader; CloseBlock is the end of                *)
(* BlockDiffer.apply.  A transaction the code rejects is no step.          *)
(*                                                                         *)
(* Abstraction.  Signatures, timestamps and aliases are left out.  Amounts *)
(* stay below the supply, far from the 64-bit limit that safeSum guards.   *)
(***************************************************************************)
EXTENDS SPoSCalc, FiniteSets, FiniteSetsExt, Functions

CONSTANTS
    Account,            \* addresses
    Lease,              \* ids of lease transactions
    None,               \* Scala's None
    Genesis,            \* [Account -> [amount, slot]]: the genesis transactions
    NumOfSlots,         \* numOfSlots
    SlotGap,
    MinimalSlotNumber,  \* of ReleaseSlotsTransactionDiff
    MinContender,       \* MinimalEffectiveBalanceForContender
    MintingReward,
    Fee,                \* the fee of every transaction but Genesis and Minting
    Amounts,            \* amounts a payment or a lease may have
    MaxHeight,          \* bound: blocks
    MaxTxs              \* bound: transactions of a block beside the minting one

Slot == 0 .. NumOfSlots - 1

LeaseRecord == [from : Account, to : Account, amount : Nat, active : BOOLEAN]

(* Addresses and ids have a fixed number of bytes. *)
ASSUME LedgerAssumption ==
    /\ IsFiniteSet(Account) /\ IsFiniteSet(Lease)
    /\ None \notin Account /\ None \notin Slot /\ None \notin LeaseRecord
    /\ NumOfSlots \in Nat /\ SlotGap \in Nat \ {0}
    /\ MinimalSlotNumber \in Nat /\ MinContender \in Nat
    /\ MintingReward \in Nat /\ Fee \in Nat \ {0} /\ Amounts \subseteq Nat \ {0}
    /\ MaxHeight \in Nat /\ MaxTxs \in Nat
    /\ Genesis \in [Account -> [amount : Nat, slot : Int]]
    /\ \A a, b \in Account :
          (Genesis[a].slot = Genesis[b].slot /\ Genesis[a].slot \in Slot) => a = b

VARIABLES
    height,       \* blocks closed
    balance,      \* Portfolio.balance, as the block under assembly left it
    leaseIn,      \* LeaseInfo.leaseIn
    leaseOut,     \* LeaseInfo.leaseOut
    opening,      \* the portfolios when the block under assembly was begun
    lease,        \* the lease transactions stored, and leaseState
    slotAddress,  \* slotids: who holds a slot
    addressSlot,  \* addToSlot: the slot recorded for an address
    slotSize,     \* effectiveSlotAddressSize: a counter, moved by Diff.slotNum
    snapshots,    \* balanceSnapshots: [Account -> heights -> Snapshot]
    lastUpdate,   \* lastUpdateHeight, 0 for None
    lastWeighted, \* lastUpdateWeightedBalance, 0 for None
    txs,          \* transactions in the block under assembly
    minted        \* whether it has its minting transaction

portfolios == <<balance, leaseIn, leaseOut>>
slots == <<slotAddress, addressSlot, slotSize>>
closed == <<height, opening, snapshots, lastUpdate, lastWeighted>>
vars == <<height, balance, leaseIn, leaseOut, opening, lease, slotAddress, addressSlot,
          slotSize, snapshots, lastUpdate, lastWeighted, txs, minted>>

Nobody == [a \in Account |-> 0]
NoSnapshot == [prev |-> 0, balance |-> 0, effective |-> 0, weighted |-> 0]

Effective(a) == balance[a] + leaseIn[a] - leaseOut[a]

Occupied == {k \in Slot : slotAddress[k] # None}

(* Contended for and lost: the address keeps its record, another holds the slot. *)
Evicted(a) == addressSlot[a] # None /\ slotAddress[addressSlot[a]] # a

Init ==
    /\ height = 0 /\ txs = 0 /\ minted = FALSE
    /\ balance = Nobody /\ leaseIn = Nobody /\ leaseOut = Nobody
    /\ opening = [balance |-> Nobody, effective |-> Nobody]
    /\ lease = [l \in Lease |-> None]
    /\ slotAddress = [k \in Slot |-> None]
    /\ addressSlot = [a \in Account |-> None]
    /\ slotSize = 0
    /\ snapshots = [a \in Account |-> <<>>]
    /\ lastUpdate = Nobody /\ lastWeighted = Nobody

-----------------------------------------------------------------------------
AcceptableUnleased(b, in, out, touched) ==
    \A a \in touched : b[a] >= 0 /\ b[a] + in[a] - out[a] >= 0

(* BalanceDiffValidation over the accounts a transaction touches. *)
Acceptable(b, in, out, touched) ==
    \A a \in touched : b[a] >= 0 /\ b[a] + in[a] - out[a] >= 0 /\ b[a] >= out[a]

Charged(a) == [balance EXCEPT ![a] = @ - Fee]

(* A transaction inside a block: its new portfolios are checked and kept. *)
Apply(b, in, out, touched) ==
    /\ height > 0 /\ height < MaxHeight
    /\ txs < MaxTxs /\ txs' = txs + 1
    /\ Acceptable(b, in, out, touched)
    /\ balance' = b /\ leaseIn' = in /\ leaseOut' = out
    /\ UNCHANGED closed /\ UNCHANGED minted

(* GenesisTransactionDiff, for each of the genesis transactions in turn. *)
GenesisTransaction(a) ==
    /\ height = 0 /\ balance[a] = 0 /\ Genesis[a].amount > 0
    /\ balance' = [balance EXCEPT ![a] = @ + Genesis[a].amount]
    /\ IF Genesis[a].slot \in Slot
       THEN /\ slotAddress' = [slotAddress EXCEPT ![Genesis[a].slot] = a]
            /\ addressSlot' = [addressSlot EXCEPT ![a] = Genesis[a].slot]
            /\ slotSize' = slotSize + 1
       ELSE UNCHANGED slots
    /\ UNCHANGED <<height, leaseIn, leaseOut, opening, lease, snapshots, lastUpdate,
                   lastWeighted, txs, minted>>

PaymentFeeKept(from, to, amount) ==
    /\ balance[from] >= amount + Fee
    /\ Apply([[balance EXCEPT ![to] = @ + amount] EXCEPT ![from] = @ - amount],
             leaseIn, leaseOut, {from, to})
    /\ UNCHANGED <<lease, slotAddress, addressSlot, slotSize>>

(* PaymentTransactionDiff *)
Payment(from, to, amount) ==
    /\ balance[from] >= amount + Fee
    /\ Apply([[balance EXCEPT ![to] = @ + amount] EXCEPT ![from] = @ - amount - Fee],
             leaseIn, leaseOut, {from, to})
    /\ UNCHANGED <<lease, slotAddress, addressSlot, slotSize>>

(* LeaseTransactionsDiff.lease; disallowDuplicateIds keeps ids apart. *)
LeaseTransaction(l, from, to, amount) ==
    /\ lease[l] = None
    /\ from # to
    /\ balance[from] - leaseOut[from] >= amount
    /\ Apply(Charged(from), [leaseIn EXCEPT ![to] = @ + amount],
             [leaseOut EXCEPT ![from] = @ + amount], {from, to})
    /\ lease' = [lease EXCEPT ![l] = [from |-> from, to |-> to, amount |-> amount, active |-> TRUE]]
    /\ UNCHANGED slots

LeaseCancelAgain(l) ==
    /\ lease[l] # None
    /\ LET from == lease[l].from
           to == lease[l].to
           amount == lease[l].amount
       IN  Apply(Charged(from), [leaseIn EXCEPT ![to] = @ - amount],
                 [leaseOut EXCEPT ![from] = @ - amount], {from, to})
    /\ lease' = [lease EXCEPT ![l].active = FALSE]
    /\ UNCHANGED slots

(* LeaseTransactionsDiff.leaseCancel, by the lease's sender. *)
LeaseCancel(l) ==
    /\ lease[l] # None /\ lease[l].active
    /\ LET from == lease[l].from
           to == lease[l].to
           amount == lease[l].amount
       IN  Apply(Charged(from), [leaseIn EXCEPT ![to] = @ - amount],
                 [leaseOut EXCEPT ![from] = @ - amount], {from, to})
    /\ lease' = [lease EXCEPT ![l].active = FALSE]
    /\ UNCHANGED slots

(* MintingTransactionDiff; Coordinator admits exactly one in a block, for  *)
(* any recipient the minter names.                                         *)
Minting(to) ==
    /\ height > 0 /\ height < MaxHeight /\ ~minted
    /\ minted' = TRUE
    /\ balance' = [balance EXCEPT ![to] = @ + MintingReward]
    /\ UNCHANGED <<leaseIn, leaseOut, lease, slotAddress, addressSlot, slotSize, txs>>
    /\ UNCHANGED closed

-----------------------------------------------------------------------------
MinBySnapshotShort(a, atHeight, confirmations) ==
    LET bottom == atHeight - confirmations
        visited[h \in {0} \cup DOMAIN snapshots[a]] ==
            IF h = 0 THEN {IF 1 \in DOMAIN snapshots[a] THEN snapshots[a][1] ELSE NoSnapshot}
            ELSE LET s == snapshots[a][h]
                 IN  {s} \cup (IF s.prev <= bottom THEN {} ELSE visited[s.prev])
        found == IF lastUpdate[a] = 0 THEN {0}
                 ELSE IF lastUpdate[a] < bottom THEN {Effective(a)}
                 ELSE {s.effective : s \in visited[lastUpdate[a]]}
    IN  Min(found)

(* StateReader.minBySnapshot: the least effective balance between          *)
(* atHeight - confirmations and atHeight, walking snapshots by prevHeight. *)
MinBySnapshot(a, atHeight, confirmations) ==
    LET bottom == atHeight - confirmations
        visited[h \in {0} \cup DOMAIN snapshots[a]] ==
            IF h = 0 THEN {IF 1 \in DOMAIN snapshots[a] THEN snapshots[a][1] ELSE NoSnapshot}
            ELSE LET s == snapshots[a][h]
                 IN  (IF h > atHeight /\ s.prev > atHeight THEN {} ELSE {s})
                     \cup (IF h <= bottom THEN {} ELSE visited[s.prev])
        found == IF lastUpdate[a] = 0 THEN {0}
                 ELSE IF lastUpdate[a] < bottom THEN {Effective(a)}
                 ELSE {s.effective : s \in visited[lastUpdate[a]]}
    IN  Min(found)

(* SPoSCalc.mintingBalance *)
MintingBalance(a, atHeight) ==
    IF lastUpdate[a] = atHeight
    THEN lastWeighted[a]
    ELSE WeightedBalance(atHeight - lastUpdate[a], MinBySnapshot(a, lastUpdate[a], 0),
                         lastWeighted[a], Effective(a))

ValidSlot(k) == k \in Slot /\ k % SlotGap = 0

(* ContendSlotsTransactionDiff: the fee is charged even when the contender *)
(* loses; the loser of the slot keeps its addToSlot record.                *)
Wins(a, k) ==
    /\ Effective(a) - Fee >= MinContender
    /\ MintingBalance(a, height + 1) >
          IF slotAddress[k] = None THEN 0 ELSE MintingBalance(slotAddress[k], height + 1)

ContendAlwaysCounted(a, k) ==
    /\ addressSlot[a] = None /\ ValidSlot(k) /\ Wins(a, k)
    /\ Apply(Charged(a), leaseIn, leaseOut, {a})
    /\ slotSize' = slotSize + 1
    /\ slotAddress' = [slotAddress EXCEPT ![k] = a]
    /\ addressSlot' = [addressSlot EXCEPT ![a] = k]
    /\ UNCHANGED lease

Contend(a, k) ==
    /\ addressSlot[a] = None /\ ValidSlot(k) /\ Wins(a, k)
    /\ Apply(Charged(a), leaseIn, leaseOut, {a})
    /\ slotSize' = IF slotAddress[k] = None THEN slotSize + 1 ELSE slotSize
    /\ slotAddress' = [slotAddress EXCEPT ![k] = a]
    /\ addressSlot' = [addressSlot EXCEPT ![a] = k]
    /\ UNCHANGED lease

ContendFailed(a, k) ==
    /\ addressSlot[a] = None /\ ValidSlot(k) /\ ~Wins(a, k)
    /\ Apply(Charged(a), leaseIn, leaseOut, {a})
    /\ UNCHANGED <<lease, slotAddress, addressSlot, slotSize>>

ReleaseRecorded(a, k) ==
    /\ ValidSlot(k)
    /\ slotSize > MinimalSlotNumber
    /\ addressSlot[a] = k
    /\ Apply(Charged(a), leaseIn, leaseOut, {a})
    /\ slotAddress' = [slotAddress EXCEPT ![k] = None]
    /\ addressSlot' = [addressSlot EXCEPT ![a] = None]
    /\ slotSize' = slotSize - 1
    /\ UNCHANGED lease

(* ReleaseSlotsTransactionDiff *)
Release(a, k) ==
    /\ ValidSlot(k)
    /\ slotSize > MinimalSlotNumber
    /\ slotAddress[k] = a
    /\ Apply(Charged(a), leaseIn, leaseOut, {a})
    /\ slotAddress' = [slotAddress EXCEPT ![k] = None]
    /\ addressSlot' = [addressSlot EXCEPT ![a] = None]
    /\ slotSize' = slotSize - 1
    /\ UNCHANGED lease

-----------------------------------------------------------------------------
(* BlockDiffer.apply, after the last transaction: a snapshot for every     *)
(* account whose balance or effective balance the block changed.           *)
MovedBalance == {a \in Account : balance[a] # opening.balance[a]}
Moved == {a \in Account : balance[a] # opening.balance[a] \/ Effective(a) # opening.effective[a]}

Snapshot(a) ==
    [prev |-> lastUpdate[a], balance |-> balance[a], effective |-> Effective(a),
     weighted |-> WeightedBalance(height + 1 - lastUpdate[a], opening.effective[a],
                                  lastWeighted[a], Effective(a))]

CloseBlock ==
    /\ height < MaxHeight
    /\ IF height = 0
       THEN \A a \in Account : balance[a] = Genesis[a].amount
       ELSE minted
    /\ height' = height + 1 /\ txs' = 0 /\ minted' = FALSE
    /\ snapshots' = [a \in Account |->
          IF a \in Moved
          THEN [h \in DOMAIN snapshots[a] \cup {height + 1} |->
                   IF h = height + 1 THEN Snapshot(a) ELSE snapshots[a][h]]
          ELSE snapshots[a]]
    /\ lastUpdate' = [a \in Account |-> IF a \in Moved THEN height + 1 ELSE lastUpdate[a]]
    /\ lastWeighted' = [a \in Account |-> IF a \in Moved THEN Snapshot(a).weighted ELSE lastWeighted[a]]
    /\ opening' = [balance |-> balance, effective |-> [a \in Account |-> Effective(a)]]
    /\ UNCHANGED <<balance, leaseIn, leaseOut, lease, slotAddress, addressSlot, slotSize>>

Transaction ==
    \/ \E a \in Account : GenesisTransaction(a)
    \/ \E a \in Account : Minting(a)
    \/ \E from, to \in Account, amount \in Amounts : Payment(from, to, amount)
    \/ \E l \in Lease, from, to \in Account, amount \in Amounts : LeaseTransaction(l, from, to, amount)
    \/ \E l \in Lease : LeaseCancel(l)
    \/ \E a \in Account, k \in Slot : Contend(a, k) \/ ContendFailed(a, k) \/ Release(a, k)

Next == Transaction \/ CloseBlock

Spec == Init /\ [][Next]_vars

-----------------------------------------------------------------------------
(* Properties *)

ActiveLeases == {l \in Lease : lease[l] # None /\ lease[l].active}
Leased(ls) == MapThenSumSet(LAMBDA l : lease[l].amount, ls)

(* leaseIn and leaseOut are running totals in two portfolios, the leases   *)
(* are records with a flag: they agree after every lease and cancellation, *)
(* whoever cancels what and in which order (LeaseTransactionsDiff).        *)
LeasesAddUp ==
    \A a \in Account :
        /\ leaseOut[a] = Leased({l \in ActiveLeases : lease[l].from = a})
        /\ leaseIn[a] = Leased({l \in ActiveLeases : lease[l].to = a})

(* What is leased out stays in the account that leased it, although fees,  *)
(* payments and later leases all draw on the same balance.                 *)
NeverOverLeased == \A a \in Account : leaseOut[a] <= balance[a] /\ Effective(a) >= 0

(* The two slot maps agree: whoever holds a slot has that slot on record,  *)
(* so nobody holds two (contention, release and eviction write them apart).*)
SlotsExclusive ==
    \A k \in Slot : slotAddress[k] # None => addressSlot[slotAddress[k]] = k

(* The counter a release consults is the number of slots held.             *)
SlotsCounted == slotSize = Cardinality(Occupied)

Types ==
    /\ height \in Nat
    /\ balance \in [Account -> Int] /\ leaseIn \in [Account -> Int]
    /\ leaseOut \in [Account -> Int]
    /\ lease \in [Lease -> LeaseRecord \cup {None}]
    /\ slotAddress \in [Slot -> Account \cup {None}]
    /\ addressSlot \in [Account -> Slot \cup {None}]
    /\ slotSize \in Int

(* While the genesis block is assembled every slot held is the one its     *)
(* holder's own genesis transaction names, and that holder has been paid.  *)
GenesisSlots ==
    height = 0 =>
        /\ \A k \in Slot : slotAddress[k] # None => Genesis[slotAddress[k]].slot = k
        /\ \A a \in Account : addressSlot[a] # None => balance[a] # 0

(* The slots stay consistent over genesis, contention, eviction and        *)
(* release: the two maps and the counter, written by three kinds of        *)
(* transactions, never drift apart, and an eviction changes no count.      *)
SlotsInv == Types /\ GenesisSlots /\ SlotsExclusive /\ SlotsCounted

(* So a step that takes a minter away leaves at least MinimalSlotNumber    *)
(* (ReleaseSlotsTransactionDiff).                                          *)
MintersRemain ==
    [][Cardinality(Occupied') < Cardinality(Occupied)
            => Cardinality(Occupied') >= MinimalSlotNumber]_vars

(* A minter that lost its slot to a contender keeps a record nothing       *)
(* clears: it can neither release nor contend again, on any slot.          *)
EvictedForGood == [][\A a \in Account : Evicted(a) => Evicted(a)']_vars

(* At a block's end every account's newest snapshot says what its          *)
(* portfolio says, and following prevHeight down never meets a missing     *)
(* snapshot or a loop: minBySnapshot's two exceptions never come.          *)
SnapshotsCurrent ==
    \A a \in Account :
        /\ \A h \in DOMAIN snapshots[a] :
              /\ snapshots[a][h].prev < h
              /\ snapshots[a][h].prev \in DOMAIN snapshots[a] \cup {0}
        /\ IF lastUpdate[a] = 0
           THEN opening.balance[a] = 0 /\ opening.effective[a] = 0
           ELSE /\ lastUpdate[a] \in DOMAIN snapshots[a]
                /\ LET s == snapshots[a][lastUpdate[a]]
                   IN  /\ s.balance = opening.balance[a]
                       /\ s.effective = opening.effective[a]
                       /\ s.weighted = lastWeighted[a]

(* No coin counts twice: over all accounts the weights that contend for    *)
(* slots and score blocks add up to no more than there is, wherever coins  *)
(* were sent or leased since the last snapshot.                            *)
WeightsWithinSupply ==
    MapThenSumSet(LAMBDA a : MintingBalance(a, height + 1), Account) <= SumFunction(balance)
=============================================================================
