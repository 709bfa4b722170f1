-------------------------- MODULE Ledger_proofs ---------------------------
(* Theorems about Ledger for every set of accounts, leases and slots, every  *)
(* genesis and every amount: the types, the sums over finite sets the rest   *)
(* is stated with, the chain of snapshots, the walk of the minimum along it, *)
(* the leases, the coins, and that the walk returns the least balance held.  *)
EXTENDS LedgerAudit, FiniteSetTheorems, SequenceTheorems, WellFoundedInduction,
        TLAPS

-----------------------------------------------------------------------------
(* Types *)

(* What a block transaction needs to keep the portfolios integers.          *)
LEMMA ApplyTypes ==
    ASSUME Types, NEW b \in [Account -> Int], NEW in \in [Account -> Int],
           NEW out \in [Account -> Int], NEW touched, Apply(b, in, out, touched)
    PROVE  /\ height' = height /\ height > 0
           /\ balance' \in [Account -> Int] /\ leaseIn' \in [Account -> Int]
           /\ leaseOut' \in [Account -> Int]
  BY DEF Types, Apply, closed

LEMMA AmountTypes ==
    /\ Fee \in Nat /\ Amounts \subseteq Nat /\ MintingReward \in Nat
    /\ \A a \in Account : Genesis[a].amount \in Nat
    /\ Slot \subseteq Int
  BY LedgerAssumption DEF Slot

LEMMA TypesInit == Init => Types
  BY DEF Init, Types, Nobody

LEMMA TypesStep ==
    ASSUME Types, [Next]_vars
    PROVE  Types'
<1>1. ASSUME NEW a \in Account, GenesisTransaction(a) PROVE Types'
  <2>1. Genesis[a].amount \in Int
    BY LedgerAssumption
  <2>2. balance' \in [Account -> Int]
    BY <1>1, <2>1 DEF GenesisTransaction, Types
  <2>3. /\ slotAddress' \in [Slot -> Account \cup {None}]
        /\ addressSlot' \in [Account -> Slot \cup {None}]
        /\ slotSize' \in Int
    <3>1. CASE Genesis[a].slot \in Slot
      BY <1>1, <3>1 DEF GenesisTransaction, Types
    <3>2. CASE Genesis[a].slot \notin Slot
      BY <1>1, <3>2 DEF GenesisTransaction, Types, slots
    <3> QED BY <3>1, <3>2
  <2> QED BY <1>1, <2>2, <2>3 DEF GenesisTransaction, Types
<1>2. ASSUME NEW a \in Account, Minting(a) PROVE Types'
  BY <1>2, AmountTypes DEF Minting, Types, closed
<1>3. ASSUME NEW from \in Account, NEW to \in Account, NEW amount \in Amounts,
             Payment(from, to, amount)
      PROVE  Types'
  <2>1. [[balance EXCEPT ![to] = @ + amount] EXCEPT ![from] = @ - amount - Fee] \in [Account -> Int]
    <3>1. Fee \in Int /\ amount \in Int
      BY AmountTypes
    <3>2. [balance EXCEPT ![to] = @ + amount] \in [Account -> Int]
      BY <3>1 DEF Types
    <3> QED BY <3>1, <3>2
  <2> QED BY <1>3, <2>1, ApplyTypes DEF Payment, Types
<1>4. ASSUME NEW l \in Lease, NEW from \in Account, NEW to \in Account, NEW amount \in Amounts,
             LeaseTransaction(l, from, to, amount)
      PROVE  Types'
  <2>1. /\ Charged(from) \in [Account -> Int]
        /\ [leaseIn EXCEPT ![to] = @ + amount] \in [Account -> Int]
        /\ [leaseOut EXCEPT ![from] = @ + amount] \in [Account -> Int]
    BY AmountTypes DEF Types, Charged
  <2>2. lease' \in [Lease -> LeaseRecord \cup {None}]
    BY <1>4, AmountTypes DEF LeaseTransaction, Types, LeaseRecord
  <2> QED BY <1>4, <2>1, <2>2, ApplyTypes DEF LeaseTransaction, Types, slots
<1>5. ASSUME NEW l \in Lease, LeaseCancel(l) PROVE Types'
  <2>1. lease[l] \in LeaseRecord
    BY <1>5 DEF LeaseCancel, Types
  <2> DEFINE f == lease[l].from
             t == lease[l].to
             n == lease[l].amount
  <2>2. f \in Account /\ t \in Account /\ n \in Nat
    BY <2>1 DEF LeaseRecord
  <2> HIDE DEF f, t, n
  <2>3. /\ Charged(f) \in [Account -> Int]
        /\ [leaseIn EXCEPT ![t] = @ - n] \in [Account -> Int]
        /\ [leaseOut EXCEPT ![f] = @ - n] \in [Account -> Int]
    BY <2>2, AmountTypes DEF Types, Charged
  <2>4. Apply(Charged(f), [leaseIn EXCEPT ![t] = @ - n], [leaseOut EXCEPT ![f] = @ - n], {f, t})
    BY <1>5 DEF LeaseCancel, f, t, n
  <2>5. lease' \in [Lease -> LeaseRecord \cup {None}]
    BY <1>5, <2>1 DEF LeaseCancel, Types, LeaseRecord
  <2> QED BY <1>5, <2>3, <2>4, <2>5, ApplyTypes DEF LeaseCancel, Types, slots
<1>6. ASSUME NEW a \in Account, NEW k \in Slot,
             Contend(a, k) \/ ContendFailed(a, k) \/ Release(a, k)
      PROVE  Types'
  <2>1. Charged(a) \in [Account -> Int] /\ leaseIn \in [Account -> Int] /\ leaseOut \in [Account -> Int]
    BY AmountTypes DEF Types, Charged
  <2>2. Apply(Charged(a), leaseIn, leaseOut, {a}) /\ lease' = lease
    BY <1>6 DEF Contend, ContendFailed, Release
  <2>3. /\ slotAddress' \in [Slot -> Account \cup {None}]
        /\ addressSlot' \in [Account -> Slot \cup {None}]
        /\ slotSize' \in Int
    <3>1. CASE Contend(a, k)
      BY <3>1 DEF Contend, Types
    <3>2. CASE ContendFailed(a, k)
      BY <3>2 DEF ContendFailed, Types
    <3>3. CASE Release(a, k)
      BY <3>3 DEF Release, Types
    <3> QED BY <1>6, <3>1, <3>2, <3>3
  <2> QED BY <2>1, <2>2, <2>3, ApplyTypes DEF Types
<1>7. ASSUME CloseBlock PROVE Types'
  BY <1>7 DEF CloseBlock, Types
<1>8. ASSUME UNCHANGED vars PROVE Types'
  BY <1>8 DEF vars, Types
<1> QED BY <1>1, <1>2, <1>3, <1>4, <1>5, <1>6, <1>7, <1>8 DEF Next, Transaction

(* BalanceDiffValidation looks at the accounts a transaction touches only;  *)
(* the others must be left as they are for it to be enough.                 *)
LEMMA LeasedStep ==
    ASSUME Types, NeverOverLeased, [Next]_vars
    PROVE  NeverOverLeased'
<1>0. Types'
  BY TypesStep
<1> SUFFICES ASSUME NEW x \in Account
             PROVE  leaseOut'[x] <= balance'[x] /\ balance'[x] + leaseIn'[x] - leaseOut'[x] >= 0
  BY DEF NeverOverLeased, Effective
<1>x. /\ balance[x] \in Int /\ leaseIn[x] \in Int /\ leaseOut[x] \in Int
      /\ balance'[x] \in Int /\ leaseIn'[x] \in Int /\ leaseOut'[x] \in Int
      /\ leaseOut[x] <= balance[x] /\ balance[x] + leaseIn[x] - leaseOut[x] >= 0
  BY <1>0 DEF Types, NeverOverLeased, Effective
<1>1. ASSUME NEW a \in Account, GenesisTransaction(a) \/ Minting(a)
      PROVE  leaseOut'[x] <= balance'[x] /\ balance'[x] + leaseIn'[x] - leaseOut'[x] >= 0
  <2>1. leaseIn' = leaseIn /\ leaseOut' = leaseOut
    BY <1>1 DEF GenesisTransaction, Minting
  <2>2. PICK n \in Nat : balance' = [balance EXCEPT ![a] = @ + n]
    BY <1>1, AmountTypes DEF GenesisTransaction, Minting
  <2>3. balance'[x] >= balance[x]
    BY <2>2, <1>x DEF Types
  <2> QED BY <2>1, <2>3, <1>x
<1>2. ASSUME NEW from \in Account, NEW to \in Account, NEW amount \in Amounts,
             Payment(from, to, amount)
      PROVE  leaseOut'[x] <= balance'[x] /\ balance'[x] + leaseIn'[x] - leaseOut'[x] >= 0
  <2>1. CASE x \in {from, to}
    BY <1>2, <2>1 DEF Payment, Apply, Acceptable
  <2>2. CASE x \notin {from, to}
    <3>1. balance'[x] = balance[x] /\ leaseIn'[x] = leaseIn[x] /\ leaseOut'[x] = leaseOut[x]
      BY <1>2, <2>2 DEF Payment, Apply, Types
    <3> QED BY <3>1, <1>x
  <2> QED BY <2>1, <2>2
<1>3. ASSUME NEW l \in Lease, NEW from \in Account, NEW to \in Account, NEW amount \in Amounts,
             LeaseTransaction(l, from, to, amount)
      PROVE  leaseOut'[x] <= balance'[x] /\ balance'[x] + leaseIn'[x] - leaseOut'[x] >= 0
  <2>1. CASE x \in {from, to}
    BY <1>3, <2>1 DEF LeaseTransaction, Apply, Acceptable
  <2>2. CASE x \notin {from, to}
    <3>1. balance'[x] = balance[x] /\ leaseIn'[x] = leaseIn[x] /\ leaseOut'[x] = leaseOut[x]
      BY <1>3, <2>2 DEF LeaseTransaction, Apply, Types, Charged
    <3> QED BY <3>1, <1>x
  <2> QED BY <2>1, <2>2
<1>4. ASSUME NEW l \in Lease, LeaseCancel(l)
      PROVE  leaseOut'[x] <= balance'[x] /\ balance'[x] + leaseIn'[x] - leaseOut'[x] >= 0
  <2>1. CASE x \in {lease[l].from, lease[l].to}
    BY <1>4, <2>1 DEF LeaseCancel, Apply, Acceptable
  <2>2. CASE x \notin {lease[l].from, lease[l].to}
    <3>1. balance'[x] = balance[x] /\ leaseIn'[x] = leaseIn[x] /\ leaseOut'[x] = leaseOut[x]
      BY <1>4, <2>2 DEF LeaseCancel, Apply, Types, Charged
    <3> QED BY <3>1, <1>x
  <2> QED BY <2>1, <2>2
<1>5. ASSUME NEW a \in Account, NEW k \in Slot,
             Contend(a, k) \/ ContendFailed(a, k) \/ Release(a, k)
      PROVE  leaseOut'[x] <= balance'[x] /\ balance'[x] + leaseIn'[x] - leaseOut'[x] >= 0
  <2>0. Apply(Charged(a), leaseIn, leaseOut, {a})
    BY <1>5 DEF Contend, ContendFailed, Release
  <2>1. CASE x = a
    BY <2>0, <2>1 DEF Apply, Acceptable
  <2>2. CASE x # a
    <3>1. balance'[x] = balance[x] /\ leaseIn'[x] = leaseIn[x] /\ leaseOut'[x] = leaseOut[x]
      BY <2>0, <2>2 DEF Apply, Types, Charged
    <3> QED BY <3>1, <1>x
  <2> QED BY <2>1, <2>2
<1>6. CASE CloseBlock \/ UNCHANGED vars
  <2>1. UNCHANGED portfolios
    BY <1>6 DEF CloseBlock, vars, portfolios
  <2> QED BY <2>1, <1>x DEF portfolios
<1> QED BY <1>1, <1>2, <1>3, <1>4, <1>5, <1>6 DEF Next, Transaction

-----------------------------------------------------------------------------
(* Slots *)

(* Every step but those of slots leaves the slots alone, and none of them   *)
(* but the genesis block's happens at height 0.                             *)
LEMMA SlotSteps ==
    ASSUME Types, [Next]_vars
    PROVE  \/ \E a \in Account : GenesisTransaction(a)
           \/ \E a \in Account, k \in Slot : Contend(a, k) \/ Release(a, k)
           \/ UNCHANGED slots /\ (height' = 0 => UNCHANGED <<height, balance>>)
<1>0. height \in Nat
  BY DEF Types
<1>1. ASSUME NEW a \in Account, Minting(a) PROVE UNCHANGED slots /\ height' # 0
  BY <1>0, <1>1 DEF Minting, slots, closed
<1>2. ASSUME NEW b, NEW in, NEW out, NEW touched, Apply(b, in, out, touched) PROVE height' # 0
  BY <1>0, <1>2 DEF Apply, closed
<1>3. ASSUME NEW from \in Account, NEW to \in Account, NEW amount \in Amounts,
             Payment(from, to, amount)
      PROVE  UNCHANGED slots /\ height' # 0
  BY <1>2, <1>3 DEF Payment, slots
<1>4. ASSUME NEW l \in Lease, NEW from \in Account, NEW to \in Account, NEW amount \in Amounts,
             LeaseTransaction(l, from, to, amount)
      PROVE  UNCHANGED slots /\ height' # 0
  BY <1>2, <1>4 DEF LeaseTransaction, slots
<1>5. ASSUME NEW l \in Lease, LeaseCancel(l) PROVE UNCHANGED slots /\ height' # 0
  BY <1>2, <1>5 DEF LeaseCancel, slots
<1>6. ASSUME NEW a \in Account, NEW k \in Slot, ContendFailed(a, k)
      PROVE  UNCHANGED slots /\ height' # 0
  BY <1>2, <1>6 DEF ContendFailed, slots
<1>7. CASE CloseBlock
  BY <1>0, <1>7 DEF CloseBlock, slots
<1>8. CASE UNCHANGED vars
  BY <1>8 DEF vars, slots
<1> QED BY <1>1, <1>3, <1>4, <1>5, <1>6, <1>7, <1>8 DEF Next, Transaction

LEMMA GenesisSlotsStep ==
    ASSUME SlotsInv, [Next]_vars
    PROVE  GenesisSlots'
<1>0. Types /\ Types' /\ GenesisSlots
  BY TypesStep DEF SlotsInv
<1>1. ASSUME NEW a \in Account, GenesisTransaction(a) PROVE GenesisSlots'
  <2>1. /\ balance' = [balance EXCEPT ![a] = @ + Genesis[a].amount]
        /\ balance[a] = 0 /\ Genesis[a].amount > 0 /\ height = 0
    BY <1>1 DEF GenesisTransaction
  <2>2. ASSUME NEW b \in Account, addressSlot'[b] # None PROVE balance'[b] # 0
    <3>1. CASE b = a
      BY <3>1, <2>1, <1>0, AmountTypes DEF Types
    <3>2. CASE b # a
      BY <3>2, <2>1, <2>2, <1>0, <1>1 DEF Types, GenesisSlots, GenesisTransaction, slots
    <3> QED BY <3>1, <3>2
  <2>3. ASSUME NEW k \in Slot, slotAddress'[k] # None PROVE Genesis[slotAddress'[k]].slot = k
    BY <2>1, <2>3, <1>0, <1>1 DEF Types, GenesisSlots, GenesisTransaction, slots
  <2> QED BY <2>2, <2>3 DEF GenesisSlots
<1>2. ASSUME NEW a \in Account, NEW k \in Slot, Contend(a, k) \/ Release(a, k)
      PROVE  GenesisSlots'
  BY <1>2, <1>0 DEF Contend, Release, Apply, closed, Types, GenesisSlots
<1>3. CASE UNCHANGED slots /\ (height' = 0 => UNCHANGED <<height, balance>>)
  BY <1>3, <1>0 DEF GenesisSlots, slots
<1> QED BY <1>0, <1>1, <1>2, <1>3, SlotSteps

(* The genesis transaction of an account finds its slot free and the        *)
(* account without one: no two accounts name the same slot.                 *)
LEMMA GenesisFindsSlotFree ==
    ASSUME SlotsInv, NEW a \in Account, GenesisTransaction(a)
    PROVE  /\ addressSlot[a] = None
           /\ \A k \in Slot : slotAddress[k] # a
           /\ Genesis[a].slot \in Slot => slotAddress[Genesis[a].slot] = None
<1>0. height = 0 /\ balance[a] = 0
  BY DEF GenesisTransaction
<1>1. addressSlot[a] = None
  BY <1>0 DEF SlotsInv, GenesisSlots
<1>2. ASSUME NEW k \in Slot, slotAddress[k] = a PROVE FALSE
  BY <1>1, <1>2, LedgerAssumption DEF SlotsInv, SlotsExclusive
<1>3. ASSUME Genesis[a].slot \in Slot, slotAddress[Genesis[a].slot] # None PROVE FALSE
  <2> DEFINE b == slotAddress[Genesis[a].slot]
  <2>1. b \in Account /\ Genesis[b].slot = Genesis[a].slot
    BY <1>0, <1>3 DEF SlotsInv, GenesisSlots, Types
  <2>2. b = a
    BY <1>3, <2>1, LedgerAssumption
  <2> QED BY <1>2, <1>3, <2>2
<1> QED BY <1>1, <1>2, <1>3

LEMMA SlotsExclusiveStep ==
    ASSUME SlotsInv, [Next]_vars
    PROVE  SlotsExclusive'
<1>0. Types /\ Types' /\ SlotsExclusive /\ None \notin Slot /\ None \notin Account
  BY TypesStep, LedgerAssumption DEF SlotsInv
<1>1. ASSUME NEW a \in Account, GenesisTransaction(a) PROVE SlotsExclusive'
  <2>1. CASE Genesis[a].slot \in Slot
    <3>1. SUFFICES ASSUME NEW k \in Slot, slotAddress'[k] # None
                   PROVE  addressSlot'[slotAddress'[k]] = k
      BY DEF SlotsExclusive
    <3>2. /\ slotAddress' = [slotAddress EXCEPT ![Genesis[a].slot] = a]
          /\ addressSlot' = [addressSlot EXCEPT ![a] = Genesis[a].slot]
      BY <1>1, <2>1 DEF GenesisTransaction
    <3>3. CASE k = Genesis[a].slot
      BY <3>2, <3>3, <1>0 DEF Types
    <3>4. CASE k # Genesis[a].slot
      <4>1. slotAddress'[k] = slotAddress[k] /\ slotAddress[k] \in Account /\ slotAddress[k] # a
        BY <1>0, <1>1, <3>1, <3>2, <3>4, GenesisFindsSlotFree DEF Types
      <4> QED BY <4>1, <3>1, <3>2, <1>0 DEF SlotsExclusive, Types
    <3> QED BY <3>3, <3>4
  <2>2. CASE Genesis[a].slot \notin Slot
    BY <1>1, <2>2, <1>0 DEF GenesisTransaction, slots, SlotsExclusive
  <2> QED BY <2>1, <2>2
<1>2. ASSUME NEW a \in Account, NEW k \in Slot, Contend(a, k) PROVE SlotsExclusive'
  <2>1. /\ addressSlot[a] = None
        /\ slotAddress' = [slotAddress EXCEPT ![k] = a]
        /\ addressSlot' = [addressSlot EXCEPT ![a] = k]
    BY <1>2 DEF Contend
  <2>2. ASSUME NEW j \in Slot, slotAddress'[j] # None PROVE addressSlot'[slotAddress'[j]] = j
    <3>1. CASE j = k
      BY <2>1, <3>1, <1>0 DEF Types
    <3>2. CASE j # k
      <4>1. slotAddress'[j] = slotAddress[j] /\ slotAddress[j] \in Account
            /\ addressSlot[slotAddress[j]] = j
        BY <2>1, <2>2, <3>2, <1>0 DEF Types, SlotsExclusive
      <4>2. slotAddress[j] # a
        BY <4>1, <2>1, <1>0
      <4> QED BY <4>1, <4>2, <2>1, <1>0 DEF Types
    <3> QED BY <3>1, <3>2
  <2> QED BY <2>2 DEF SlotsExclusive
<1>3. ASSUME NEW a \in Account, NEW k \in Slot, Release(a, k) PROVE SlotsExclusive'
  <2>1. /\ slotAddress[k] = a
        /\ slotAddress' = [slotAddress EXCEPT ![k] = None]
        /\ addressSlot' = [addressSlot EXCEPT ![a] = None]
    BY <1>3 DEF Release
  <2>2. ASSUME NEW j \in Slot, slotAddress'[j] # None PROVE addressSlot'[slotAddress'[j]] = j
    <3>1. j # k
      BY <2>1, <2>2, <1>0 DEF Types
    <3>2. slotAddress'[j] = slotAddress[j] /\ slotAddress[j] \in Account
          /\ addressSlot[slotAddress[j]] = j
      BY <2>1, <2>2, <3>1, <1>0 DEF Types, SlotsExclusive
    <3>3. addressSlot[a] = k
      BY <2>1, <1>0 DEF SlotsExclusive
    <3> QED BY <2>1, <3>1, <3>2, <3>3, <1>0 DEF Types
  <2> QED BY <2>2 DEF SlotsExclusive
<1>4. CASE UNCHANGED slots
  BY <1>4, <1>0 DEF slots, SlotsExclusive
<1> QED BY <1>0, <1>1, <1>2, <1>3, <1>4, SlotSteps

-----------------------------------------------------------------------------
(* The number of slots held *)

LEMMA OccupiedFinite == IsFiniteSet(Occupied)
<1>1. IsFiniteSet(Slot)
  BY FS_Interval, LedgerAssumption DEF Slot
<1> QED BY <1>1, FS_Subset DEF Occupied

(* How many slots are held before and after a step that writes slots.       *)
LEMMA OccupiedStep ==
    ASSUME Types, None \notin Account, NEW k \in Slot, NEW x \in Account \cup {None},
           slotAddress' = [slotAddress EXCEPT ![k] = x]
    PROVE  /\ Cardinality(Occupied) \in Nat
           /\ Cardinality(Occupied') =
                 IF (x = None) = (slotAddress[k] = None) THEN Cardinality(Occupied)
                 ELSE IF x = None THEN Cardinality(Occupied) - 1
                 ELSE Cardinality(Occupied) + 1
<1>1. \A j \in Slot : slotAddress'[j] = IF j = k THEN x ELSE slotAddress[j]
  BY DEF Types
<1>2. IsFiniteSet(Occupied) /\ Cardinality(Occupied) \in Nat
  BY OccupiedFinite, FS_CardinalityType
<1>3. CASE x = None
  <2>1. Occupied' = Occupied \ {k}
    BY <1>1, <1>3 DEF Occupied
  <2>2. k \in Occupied <=> slotAddress[k] # None
    BY DEF Occupied
  <2> QED BY <1>2, <1>3, <2>1, <2>2, FS_RemoveElement
<1>4. CASE x # None
  <2>1. Occupied' = Occupied \cup {k}
    BY <1>1, <1>4 DEF Occupied
  <2>2. k \in Occupied <=> slotAddress[k] # None
    BY DEF Occupied
  <2> QED BY <1>2, <1>4, <2>1, <2>2, FS_AddElement
<1> QED BY <1>3, <1>4

LEMMA SlotsCountedStep ==
    ASSUME SlotsInv, [Next]_vars
    PROVE  /\ SlotsCounted'
           /\ Cardinality(Occupied) \in Nat /\ Cardinality(Occupied') \in Nat
           /\ Cardinality(Occupied') < Cardinality(Occupied) => Cardinality(Occupied') >= MinimalSlotNumber
<1>0. /\ Types /\ slotSize = Cardinality(Occupied) /\ None \notin Account
      /\ Cardinality(Occupied) \in Nat /\ MinimalSlotNumber \in Nat
  BY LedgerAssumption, OccupiedFinite, FS_CardinalityType DEF SlotsInv, SlotsCounted
<1> DEFINE Goal == /\ SlotsCounted' /\ Cardinality(Occupied') \in Nat
                   /\ Cardinality(Occupied') < Cardinality(Occupied)
                         => Cardinality(Occupied') >= MinimalSlotNumber
<1>1. ASSUME UNCHANGED slots PROVE Goal
  <2>1. Occupied' = Occupied /\ slotSize' = slotSize
    BY <1>1 DEF Occupied, slots
  <2> QED BY <2>1, <1>0 DEF SlotsCounted
<1>2. ASSUME NEW a \in Account, GenesisTransaction(a) PROVE Goal
  <2>1. CASE Genesis[a].slot \in Slot
    <3>1. /\ slotAddress' = [slotAddress EXCEPT ![Genesis[a].slot] = a]
          /\ slotSize' = slotSize + 1
      BY <1>2, <2>1 DEF GenesisTransaction
    <3>2. slotAddress[Genesis[a].slot] = None /\ a # None
      BY <1>0, <1>2, <2>1, GenesisFindsSlotFree
    <3>3. Cardinality(Occupied') = Cardinality(Occupied) + 1
      BY <1>0, <2>1, <3>1, <3>2, OccupiedStep
    <3> QED BY <1>0, <3>1, <3>3 DEF SlotsCounted
  <2>2. CASE Genesis[a].slot \notin Slot
    BY <1>1, <1>2, <2>2 DEF GenesisTransaction
  <2> QED BY <2>1, <2>2
<1>3. ASSUME NEW a \in Account, NEW k \in Slot, Contend(a, k) PROVE Goal
  <2>1. /\ slotAddress' = [slotAddress EXCEPT ![k] = a]
        /\ slotSize' = IF slotAddress[k] = None THEN slotSize + 1 ELSE slotSize
        /\ a # None
    BY <1>0, <1>3 DEF Contend
  <2>2. Cardinality(Occupied') = IF slotAddress[k] = None THEN Cardinality(Occupied) + 1
                                 ELSE Cardinality(Occupied)
    BY <1>0, <2>1, OccupiedStep
  <2> QED BY <1>0, <2>1, <2>2 DEF SlotsCounted
<1>4. ASSUME NEW a \in Account, NEW k \in Slot, Release(a, k) PROVE Goal
  <2>1. /\ slotAddress' = [slotAddress EXCEPT ![k] = None]
        /\ slotSize' = slotSize - 1 /\ slotSize > MinimalSlotNumber
        /\ slotAddress[k] # None
    BY <1>0, <1>4 DEF Release
  <2>2. Cardinality(Occupied') = Cardinality(Occupied) - 1
    BY <1>0, <2>1, OccupiedStep
  <2> QED BY <1>0, <2>1, <2>2 DEF SlotsCounted
<1> QED BY <1>0, <1>1, <1>2, <1>3, <1>4, SlotSteps

-----------------------------------------------------------------------------
(* An evicted minter *)

LEMMA EvictedStep ==
    ASSUME SlotsInv, [Next]_vars, NEW x \in Account, Evicted(x)
    PROVE  Evicted(x)'
<1> DEFINE j == addressSlot[x]
<1>0. /\ Types /\ SlotsExclusive /\ None \notin Slot /\ None \notin Account
      /\ j \in Slot /\ slotAddress[j] # x /\ addressSlot[x] # None
  BY LedgerAssumption DEF SlotsInv, Types, Evicted
<1>1. ASSUME addressSlot'[x] = j, slotAddress'[j] # x PROVE Evicted(x)'
  BY <1>0, <1>1 DEF Evicted
<1>2. ASSUME NEW a \in Account, GenesisTransaction(a) PROVE Evicted(x)'
  <2>1. a # x
    BY <1>0, <1>2, GenesisFindsSlotFree
  <2> QED BY <1>0, <1>1, <1>2, <2>1 DEF GenesisTransaction, slots, Types
<1>3. ASSUME NEW a \in Account, NEW k \in Slot, Contend(a, k) PROVE Evicted(x)'
  <2>1. a # x
    BY <1>0, <1>3 DEF Contend
  <2> QED BY <1>0, <1>1, <1>3, <2>1 DEF Contend, Types
<1>4. ASSUME NEW a \in Account, NEW k \in Slot, Release(a, k) PROVE Evicted(x)'
  <2>1. a # x
    BY <1>0, <1>4 DEF Release, SlotsExclusive
  <2> QED BY <1>0, <1>1, <1>4, <2>1 DEF Release, Types
<1>5. CASE UNCHANGED slots
  BY <1>0, <1>1, <1>5 DEF slots
<1> QED BY <1>0, <1>2, <1>3, <1>4, <1>5, SlotSteps

-----------------------------------------------------------------------------
(* Theorems *)

LEMMA SlotsInvInit == Init => SlotsInv /\ NeverOverLeased
<1> SUFFICES ASSUME Init PROVE SlotsInv /\ NeverOverLeased
  OBVIOUS
<1>1. Types
  BY TypesInit
<1>2. \A k \in Slot : slotAddress[k] = None
  BY DEF Init
<1>3. \A a \in Account : addressSlot[a] = None
  BY DEF Init
<1>4. Occupied = {}
  BY <1>2 DEF Occupied
<1>5. SlotsCounted
  BY <1>4, FS_EmptySet DEF SlotsCounted, Init
<1>6. NeverOverLeased
  BY DEF NeverOverLeased, Effective, Init, Nobody
<1> QED BY <1>1, <1>2, <1>3, <1>5, <1>6 DEF SlotsInv, GenesisSlots, SlotsExclusive

LEMMA SlotsInvStep == SlotsInv /\ [Next]_vars => SlotsInv'
<1> SUFFICES ASSUME SlotsInv, [Next]_vars PROVE SlotsInv'
  OBVIOUS
<1>1. Types
  BY DEF SlotsInv
<1> QED BY <1>1, TypesStep, GenesisSlotsStep, SlotsExclusiveStep, SlotsCountedStep DEF SlotsInv

(* The inductive invariant of the slots: GenesisSlots carries the one part  *)
(* the others cannot, that the genesis block never gives a slot twice.      *)
THEOREM SlotsInvariant == Spec => []SlotsInv
<1>1. Init => SlotsInv
  BY SlotsInvInit
<1>2. SlotsInv /\ [Next]_vars => SlotsInv'
  BY SlotsInvStep
<1> QED BY <1>1, <1>2, PTL DEF Spec

(* Whoever holds a slot has it on record, so nobody holds two, whatever     *)
(* contentions, releases and evictions the blocks carry.                    *)
THEOREM SlotsExclusiveAlways == Spec => []SlotsExclusive
<1>1. SlotsInv => SlotsExclusive
  BY DEF SlotsInv
<1> QED BY <1>1, SlotsInvariant, PTL

(* The counter that ReleaseSlotsTransactionDiff consults counts the slots.  *)
THEOREM SlotsCountedAlways == Spec => []SlotsCounted
<1>1. SlotsInv => SlotsCounted
  BY DEF SlotsInv
<1> QED BY <1>1, SlotsInvariant, PTL

(* What an account leased out stays in it: BalanceDiffValidation, which     *)
(* looks at the touched accounts only, is enough.                           *)
THEOREM NeverOverLeasedAlways == Spec => []NeverOverLeased
<1>1. Init => NeverOverLeased
  BY SlotsInvInit
<1>2. Types /\ NeverOverLeased /\ [Next]_vars => NeverOverLeased'
  BY LeasedStep
<1>3. SlotsInv => Types
  BY DEF SlotsInv
<1> QED BY <1>1, <1>2, <1>3, SlotsInvariant, PTL DEF Spec

(* A block never leaves fewer minters than ReleaseSlotsTransactionDiff's    *)
(* minimum by taking one away.                                              *)
THEOREM MintersRemainAlways == Spec => MintersRemain
<1>1. SlotsInv /\ [Next]_vars =>
         [Cardinality(Occupied') < Cardinality(Occupied)
              => Cardinality(Occupied') >= MinimalSlotNumber]_vars
  BY SlotsCountedStep
<1> QED BY <1>1, SlotsInvariant, PTL DEF Spec, MintersRemain

(* Nothing ever clears the record of a minter that lost its slot.           *)
THEOREM EvictedForGoodAlways == Spec => EvictedForGood
<1>1. SlotsInv /\ [Next]_vars => [\A a \in Account : Evicted(a) => Evicted(a)']_vars
  BY EvictedStep
<1> QED BY <1>1, SlotsInvariant, PTL DEF Spec, EvictedForGood

-----------------------------------------------------------------------------
(* Sums over finite sets *)

(* A set of numbers that is not empty has a least one: induction, as a      *)
(* statement the provers can use.                                           *)
LEMMA LeastNumber ==
    ASSUME NEW T, T \subseteq Nat, T # {}
    PROVE  \E x \in T : \A y \in T : x <= y
<1> DEFINE R == {ss \in Nat \X Nat : ss[1] < ss[2]}
<1>1. IsWellFoundedOn(R, Nat)
  BY NatLessThanWellFounded DEF OpToRel
<1>2. PICK x \in T : \A y \in T : ~(<<y, x>> \in R)
  <2> HIDE DEF R
  <2> QED BY <1>1, WFMin
<1>3. ASSUME NEW y \in T PROVE x <= y
  <2>1. x \in Nat /\ y \in Nat
    OBVIOUS
  <2>2. ~(<<y, x>> \in R)
    BY <1>2
  <2>3. ~(y < x)
    BY <2>1, <2>2
  <2> QED BY <2>1, <2>3
<1> QED BY <1>3

(* The sums the properties are stated with, as one operator.                *)
Total(f, S) ==
    LET iter[s \in SUBSET S] ==
          IF s = {} THEN 0
          ELSE LET x == CHOOSE x \in s : TRUE
               IN  f[x] + iter[s \ {x}]
    IN  iter[S]

LEMMA TotalOfSet ==
    ASSUME NEW ls
    PROVE  Leased(ls) = Total([l \in ls |-> lease[l].amount], ls)
  BY DEF Leased, MapThenSumSet, MapThenFoldSet, Total

LEMMA TotalOfFunction ==
    ASSUME NEW f
    PROVE SumFunction(f) = Total(f, DOMAIN f)
  BY DEF SumFunction, SumFunctionOnSet, FoldFunctionOnSet, MapThenFoldSet, Total

Addends(f, S) == \A x \in S : f[x] \in Int

Chosen(T) == CHOOSE x \in T : TRUE
Step(f, g, T) == IF T = {} THEN 0 ELSE f[Chosen(T)] + g[T \ {Chosen(T)}]

(* g tells the sum of f over every subset of S of at most n elements.       *)
SumsUpTo(f, S, n) ==
    \E g \in [SUBSET S -> Int] : \A T \in SUBSET S : Cardinality(T) <= n => g[T] = Step(f, g, T)

LEMMA ChosenIn == ASSUME NEW T, T # {} PROVE Chosen(T) \in T
  BY DEF Chosen

LEMMA Smaller ==
    ASSUME NEW S, IsFiniteSet(S), NEW T \in SUBSET S, NEW x \in T
    PROVE  /\ T \ {x} \in SUBSET S
           /\ Cardinality(T) \in Nat /\ Cardinality(T \ {x}) \in Nat
           /\ Cardinality(T \ {x}) = Cardinality(T) - 1
<1>1. IsFiniteSet(T)
  BY FS_Subset
<1> QED BY <1>1, FS_RemoveElement, FS_CardinalityType

LEMMA SumsBase ==
    ASSUME NEW f, NEW S, IsFiniteSet(S)
    PROVE  SumsUpTo(f, S, 0)
<1> DEFINE g == [T \in SUBSET S |-> 0]
<1>1. g \in [SUBSET S -> Int]
  OBVIOUS
<1>2. ASSUME NEW T \in SUBSET S, Cardinality(T) <= 0 PROVE g[T] = Step(f, g, T)
  <2>1. IsFiniteSet(T) /\ Cardinality(T) \in Nat
    BY FS_Subset, FS_CardinalityType
  <2>2. T = {}
    BY <1>2, <2>1, FS_EmptySet
  <2> QED BY <2>2 DEF Step
<1> HIDE DEF g
<1> QED BY <1>1, <1>2 DEF SumsUpTo

LEMMA SumsMore ==
    ASSUME NEW f, NEW S, IsFiniteSet(S), Addends(f, S), NEW n \in Nat, SumsUpTo(f, S, n)
    PROVE  SumsUpTo(f, S, n + 1)
<1>1. PICK g \in [SUBSET S -> Int] :
         \A T \in SUBSET S : Cardinality(T) <= n => g[T] = Step(f, g, T)
  BY DEF SumsUpTo
<1> DEFINE h == [T \in SUBSET S |-> Step(f, g, T)]
<1>2. h \in [SUBSET S -> Int]
  <2>1. ASSUME NEW T \in SUBSET S PROVE Step(f, g, T) \in Int
    <3>1. CASE T = {}
      BY <3>1 DEF Step
    <3>2. CASE T # {}
      <4>1. Chosen(T) \in S /\ T \ {Chosen(T)} \in SUBSET S
        BY <3>2, ChosenIn
      <4>2. f[Chosen(T)] \in Int /\ g[T \ {Chosen(T)}] \in Int
        BY <4>1 DEF Addends
      <4> QED BY <3>2, <4>2 DEF Step
    <3> QED BY <3>1, <3>2
  <2> QED BY <2>1
<1>3. ASSUME NEW T \in SUBSET S, Cardinality(T) <= n + 1 PROVE h[T] = Step(f, h, T)
  <2>1. CASE T = {}
    BY <2>1 DEF Step
  <2>2. CASE T # {}
    <3> DEFINE U == T \ {Chosen(T)}
    <3>1. Chosen(T) \in T
      BY <2>2, ChosenIn
    <3>2. U \in SUBSET S /\ Cardinality(T) \in Nat /\ Cardinality(U) \in Nat
          /\ Cardinality(U) = Cardinality(T) - 1
      BY <3>1, Smaller
    <3>3. Cardinality(U) <= n
      BY <1>3, <3>2
    <3>4. h[U] = g[U]
      BY <1>1, <3>2, <3>3
    <3> QED BY <2>2, <3>2, <3>4 DEF Step
  <2> QED BY <2>1, <2>2
<1> HIDE DEF h
<1> QED BY <1>2, <1>3 DEF SumsUpTo

LEMMA SumsAll ==
    ASSUME NEW f, NEW S, IsFiniteSet(S), Addends(f, S)
    PROVE  \A n \in Nat : SumsUpTo(f, S, n)
<1> DEFINE T == {n \in Nat : ~SumsUpTo(f, S, n)}
<1>1. SUFFICES ASSUME T # {} PROVE FALSE
  OBVIOUS
<1>2. PICK m \in T : \A y \in T : m <= y
  BY <1>1, LeastNumber
<1>3. m # 0
  BY SumsBase
<1>4. m - 1 \in Nat /\ m - 1 \notin T
  BY <1>2, <1>3
<1>5. SumsUpTo(f, S, m - 1 + 1)
  BY <1>4, SumsMore
<1>6. m - 1 + 1 = m
  BY <1>4
<1> QED BY <1>5, <1>6


Recursion(f, g, S) == \A T \in SUBSET S : g[T] = Step(f, g, T)
Sums(f, g, S) == g \in [SUBSET S -> Int] /\ Recursion(f, g, S)

(* What a sum is depends on the addends of its set and on nothing else.     *)
LEMMA OneSum ==
    ASSUME NEW f, NEW S, NEW g, Recursion(f, g, S),
           NEW e, NEW R, NEW h, Recursion(e, h, R),
           NEW U, U \subseteq S, U \subseteq R, IsFiniteSet(U), \A x \in U : f[x] = e[x]
    PROVE  g[U] = h[U]
<1> DEFINE Wrong(T) == T \in SUBSET U /\ g[T] # h[T]
           N == {Cardinality(T) : T \in {V \in SUBSET U : g[V] # h[V]}}
<1>1. SUFFICES ASSUME Wrong(U) PROVE FALSE
  OBVIOUS
<1>2. N \subseteq Nat /\ N # {}
  <2>1. \A T \in SUBSET U : Cardinality(T) \in Nat
    BY FS_Subset, FS_CardinalityType
  <2> QED BY <1>1, <2>1
<1>3. PICK m \in N : \A y \in N : m <= y
  <2> HIDE DEF N
  <2> QED BY <1>2, LeastNumber
<1>4. PICK T \in SUBSET U : g[T] # h[T] /\ m = Cardinality(T)
  BY <1>3
<1>5. g[T] = Step(f, g, T) /\ h[T] = Step(e, h, T)
  <2>1. T \in SUBSET S /\ T \in SUBSET R
    OBVIOUS
  <2> QED BY <2>1 DEF Recursion
<1>6. T # {}
  BY <1>4, <1>5 DEF Step
<1> DEFINE V == T \ {Chosen(T)}
<1>7. Chosen(T) \in T
  BY <1>6, ChosenIn
<1>8. /\ V \in SUBSET U /\ Cardinality(T) \in Nat /\ Cardinality(V) \in Nat
      /\ Cardinality(V) = Cardinality(T) - 1
  BY <1>7, Smaller
<1>9. g[V] = h[V]
  <2>1. Cardinality(V) \notin N
    <3> HIDE DEF N, V
    <3> QED BY <1>3, <1>4, <1>8
  <2> HIDE DEF V
  <2> QED BY <2>1, <1>8
<1>10. f[Chosen(T)] = e[Chosen(T)]
  BY <1>7
<1> QED BY <1>4, <1>5, <1>6, <1>9, <1>10 DEF Step

(* The recursion that Total is defined by has a solution on a finite set.   *)
LEMMA TotalSums ==
    ASSUME NEW f, NEW S, IsFiniteSet(S), Addends(f, S)
    PROVE  \E g : Sums(f, g, S) /\ Total(f, S) = g[S]
<1>1. Cardinality(S) \in Nat
  BY FS_CardinalityType
<1>2. SumsUpTo(f, S, Cardinality(S))
  BY <1>1, SumsAll
<1>3. PICK g \in [SUBSET S -> Int] :
         \A T \in SUBSET S : Cardinality(T) <= Cardinality(S) => g[T] = Step(f, g, T)
  BY <1>2 DEF SumsUpTo
<1>4. Recursion(f, g, S)
  BY <1>3, FS_Subset DEF Recursion
<1> DEFINE Solves(h) == h = [T \in SUBSET S |->
                               IF T = {} THEN 0
                               ELSE LET x == CHOOSE x \in T : TRUE IN f[x] + h[T \ {x}]]
           it == CHOOSE h : Solves(h)
<1>5. Solves(g)
  BY <1>4 DEF Recursion, Step, Chosen
<1>6. Solves(it)
  <2> HIDE DEF Solves
  <2> QED BY <1>5
<1>7. Total(f, S) = it[S]
  BY DEF Total
<1>8. Recursion(f, it, S)
  <2> HIDE DEF it
  <2> QED BY <1>6 DEF Recursion, Step, Chosen
<1> HIDE DEF it
<1>9. it[S] = g[S]
  BY <1>4, <1>8, OneSum
<1>10. Sums(f, g, S) /\ Total(f, S) = g[S]
  BY <1>4, <1>7, <1>9 DEF Sums
<1> QED BY <1>10

LEMMA TotalInt ==
    ASSUME NEW f, NEW S, IsFiniteSet(S), Addends(f, S)
    PROVE  Total(f, S) \in Int
<1>1. PICK g : Sums(f, g, S) /\ Total(f, S) = g[S]
  BY TotalSums
<1> QED BY <1>1 DEF Sums

LEMMA TotalEmpty == ASSUME NEW f PROVE Total(f, {}) = 0
<1>1. IsFiniteSet({}) /\ Addends(f, {})
  BY FS_EmptySet DEF Addends
<1>2. PICK g : Sums(f, g, {}) /\ Total(f, {}) = g[{}]
  BY <1>1, TotalSums
<1> QED BY <1>2 DEF Sums, Recursion, Step

LEMMA TotalSame ==
    ASSUME NEW S, IsFiniteSet(S), NEW f, Addends(f, S), NEW e, \A x \in S : f[x] = e[x]
    PROVE  Total(f, S) = Total(e, S)
<1>1. Addends(e, S)
  BY DEF Addends
<1>2. PICK g : Sums(f, g, S) /\ Total(f, S) = g[S]
  BY TotalSums
<1>3. PICK h : Sums(e, h, S) /\ Total(e, S) = h[S]
  BY <1>1, TotalSums
<1> QED BY <1>2, <1>3, OneSum DEF Sums

(* A sum solves its recursion at any element, not only at the chosen one.   *)
LEMMA AnyElement ==
    ASSUME NEW S, IsFiniteSet(S), NEW f, Addends(f, S), NEW g, Sums(f, g, S), NEW y \in S
    PROVE  g[S] = f[y] + g[S \ {y}]
<1> DEFINE Bad(T) == \E z \in T : g[T] # f[z] + g[T \ {z}]
           N == {Cardinality(T) : T \in {V \in SUBSET S : Bad(V)}}
<1>0. g \in [SUBSET S -> Int] /\ Recursion(f, g, S)
  BY DEF Sums
<1>1. SUFFICES ASSUME Bad(S) PROVE FALSE
  OBVIOUS
<1>2. N \subseteq Nat /\ N # {}
  <2>1. \A T \in SUBSET S : Cardinality(T) \in Nat
    BY FS_Subset, FS_CardinalityType
  <2> HIDE DEF Bad
  <2> QED BY <1>1, <2>1
<1>3. PICK m \in N : \A x \in N : m <= x
  <2> HIDE DEF N
  <2> QED BY <1>2, LeastNumber
<1>4. PICK T \in SUBSET S : Bad(T) /\ m = Cardinality(T)
  <2> HIDE DEF Bad
  <2> QED BY <1>3
<1>5. PICK z \in T : g[T] # f[z] + g[T \ {z}]
  BY <1>4
<1> DEFINE c == Chosen(T)
           V == T \ {z}
           W == T \ {c}
<1>6. c \in T /\ T # {}
  BY <1>5, ChosenIn
<1>7. g[T] = f[c] + g[W]
  BY <1>0, <1>6 DEF Recursion, Step
<1>8. c # z
  BY <1>5, <1>7
<1>9. /\ V \in SUBSET S /\ W \in SUBSET S
      /\ Cardinality(V) \in Nat /\ Cardinality(V) = Cardinality(T) - 1
      /\ Cardinality(W) \in Nat /\ Cardinality(W) = Cardinality(T) - 1
      /\ Cardinality(T) \in Nat
  BY <1>6, Smaller
<1>10. ~Bad(V) /\ ~Bad(W)
  <2>1. Cardinality(V) \notin N /\ Cardinality(W) \notin N
    <3> HIDE DEF N, V, W
    <3> QED BY <1>3, <1>4, <1>9
  <2> HIDE DEF V, W, Bad
  <2> QED BY <2>1, <1>9
<1>11. c \in V /\ z \in W
  BY <1>6, <1>8
<1>12. g[V] = f[c] + g[V \ {c}] /\ g[W] = f[z] + g[W \ {z}]
  <2> HIDE DEF V, W, c
  <2> QED BY <1>10, <1>11
<1>13. V \ {c} = W \ {z}
  OBVIOUS
<1>14. f[c] \in Int /\ f[z] \in Int /\ g[V \ {c}] \in Int
  <2>1. c \in S /\ z \in S /\ V \ {c} \in SUBSET S
    BY <1>6
  <2> QED BY <1>0, <2>1 DEF Addends
<1>15. g[T] # f[z] + g[V]
  BY <1>5
<1> DEFINE r == g[V \ {c}]
<1>16. r \in Int /\ g[V] = f[c] + r /\ g[W] = f[z] + r
  BY <1>12, <1>13, <1>14
<1> HIDE DEF r, V, W, c
<1> QED BY <1>7, <1>14, <1>15, <1>16

LEMMA TotalRemove ==
    ASSUME NEW S, IsFiniteSet(S), NEW f, Addends(f, S), NEW y \in S
    PROVE  Total(f, S) = f[y] + Total(f, S \ {y})
<1>1. PICK g : Sums(f, g, S) /\ Total(f, S) = g[S]
  BY TotalSums
<1>2. IsFiniteSet(S \ {y}) /\ Addends(f, S \ {y})
  BY FS_Subset DEF Addends
<1>3. PICK h : Sums(f, h, S \ {y}) /\ Total(f, S \ {y}) = h[S \ {y}]
  BY <1>2, TotalSums
<1>4. g[S \ {y}] = h[S \ {y}]
  BY <1>1, <1>2, <1>3, OneSum DEF Sums
<1>5. g[S] = f[y] + g[S \ {y}]
  BY <1>1, AnyElement
<1> QED BY <1>1, <1>3, <1>4, <1>5

(* One addend changed. *)
LEMMA TotalChange ==
    ASSUME NEW S, IsFiniteSet(S), NEW f, Addends(f, S), NEW e, NEW y \in S, e[y] \in Int,
           \A x \in S \ {y} : e[x] = f[x]
    PROVE  Total(e, S) = Total(f, S) - f[y] + e[y]
<1>1. Addends(e, S) /\ IsFiniteSet(S \ {y}) /\ Addends(f, S \ {y}) /\ f[y] \in Int
  BY FS_Subset DEF Addends
<1>2. Total(f, S \ {y}) = Total(e, S \ {y}) /\ Total(f, S \ {y}) \in Int
  BY <1>1, TotalSame, TotalInt
<1>3. Total(f, S) = f[y] + Total(f, S \ {y})
  BY TotalRemove
<1>4. Total(e, S) = e[y] + Total(e, S \ {y})
  BY <1>1, TotalRemove
<1> QED BY <1>1, <1>2, <1>3, <1>4

(* Sums are added and compared addend by addend. *)
LEMMA TotalTogether ==
    ASSUME NEW S, IsFiniteSet(S), NEW f, Addends(f, S), NEW e, Addends(e, S),
           NEW h, Addends(h, S), NEW k, Addends(k, S),
           \A x \in S : h[x] + k[x] <= f[x] + e[x]
    PROVE  Total(h, S) + Total(k, S) <= Total(f, S) + Total(e, S)
<1> DEFINE Bad(T) == ~(Total(h, T) + Total(k, T) <= Total(f, T) + Total(e, T))
           N == {Cardinality(T) : T \in {V \in SUBSET S : Bad(V)}}
<1>1. SUFFICES ASSUME Bad(S) PROVE FALSE
  OBVIOUS
<1>2. N \subseteq Nat /\ N # {}
  <2>1. \A T \in SUBSET S : Cardinality(T) \in Nat
    BY FS_Subset, FS_CardinalityType
  <2> HIDE DEF Bad
  <2> QED BY <1>1, <2>1
<1>3. PICK m \in N : \A x \in N : m <= x
  <2> HIDE DEF N
  <2> QED BY <1>2, LeastNumber
<1>4. PICK T \in SUBSET S : Bad(T) /\ m = Cardinality(T)
  <2> HIDE DEF Bad
  <2> QED BY <1>3
<1>5. IsFiniteSet(T) /\ Addends(f, T) /\ Addends(e, T) /\ Addends(h, T) /\ Addends(k, T)
  BY FS_Subset DEF Addends
<1>6. T # {}
  <2> SUFFICES ASSUME T = {} PROVE FALSE
    OBVIOUS
  <2>1. Total(f, T) = 0 /\ Total(e, T) = 0 /\ Total(h, T) = 0 /\ Total(k, T) = 0
    BY TotalEmpty
  <2> QED BY <1>4, <2>1
<1>7. PICK y \in T : TRUE
  BY <1>6
<1> DEFINE V == T \ {y}
<1>8. /\ V \in SUBSET S /\ Cardinality(V) \in Nat /\ Cardinality(T) \in Nat
      /\ Cardinality(V) = Cardinality(T) - 1
  BY Smaller
<1>9. ~Bad(V)
  <2>1. Cardinality(V) \notin N
    <3> HIDE DEF N, V
    <3> QED BY <1>3, <1>4, <1>8
  <2> HIDE DEF V, Bad
  <2> QED BY <2>1, <1>8
<1>10. /\ Total(f, T) = f[y] + Total(f, V) /\ Total(e, T) = e[y] + Total(e, V)
       /\ Total(h, T) = h[y] + Total(h, V) /\ Total(k, T) = k[y] + Total(k, V)
  BY <1>5, TotalRemove
<1>11. IsFiniteSet(V) /\ Addends(f, V) /\ Addends(e, V) /\ Addends(h, V) /\ Addends(k, V)
  BY <1>8, FS_Subset DEF Addends
<1>12. Total(f, V) \in Int /\ Total(e, V) \in Int /\ Total(h, V) \in Int /\ Total(k, V) \in Int
  BY <1>11, TotalInt
<1>13. /\ f[y] \in Int /\ e[y] \in Int /\ h[y] \in Int /\ k[y] \in Int
       /\ h[y] + k[y] <= f[y] + e[y]
  BY DEF Addends
<1> HIDE DEF V
<1> QED BY <1>4, <1>9, <1>10, <1>12, <1>13

LEMMA TotalZero ==
    ASSUME NEW S, IsFiniteSet(S), NEW f, \A x \in S : f[x] = 0
    PROVE  Total(f, S) = 0
<1> DEFINE N == {Cardinality(T) : T \in {V \in SUBSET S : Total(f, V) # 0}}
<1>1. SUFFICES ASSUME Total(f, S) # 0 PROVE FALSE
  OBVIOUS
<1>2. N \subseteq Nat /\ N # {}
  <2>1. \A T \in SUBSET S : Cardinality(T) \in Nat
    BY FS_Subset, FS_CardinalityType
  <2> QED BY <1>1, <2>1
<1>3. PICK m \in N : \A x \in N : m <= x
  <2> HIDE DEF N
  <2> QED BY <1>2, LeastNumber
<1>4. PICK T \in SUBSET S : Total(f, T) # 0 /\ m = Cardinality(T)
  BY <1>3
<1>5. IsFiniteSet(T) /\ Addends(f, T)
  BY FS_Subset DEF Addends
<1>6. PICK y \in T : TRUE
  BY <1>4, TotalEmpty
<1> DEFINE V == T \ {y}
<1>7. /\ V \in SUBSET S /\ Cardinality(V) \in Nat /\ Cardinality(T) \in Nat
      /\ Cardinality(V) = Cardinality(T) - 1
  BY Smaller
<1>8. Total(f, V) = 0
  <2>1. Cardinality(V) \notin N
    <3> HIDE DEF N, V
    <3> QED BY <1>3, <1>4, <1>7
  <2> HIDE DEF V
  <2> QED BY <2>1, <1>7
<1>9. Total(f, T) = f[y] + Total(f, V)
  BY <1>5, TotalRemove
<1>10. f[y] = 0
  OBVIOUS
<1> HIDE DEF V
<1> QED BY <1>4, <1>8, <1>9, <1>10

(* What SumAssumption of ContractExecution asks of SumOf is true of the sum *)
(* of the holdings, however many accounts there are: a sum is zero of       *)
(* zeros, bounds each of its terms, and moves by what one term moves by.    *)
THEOREM TotalIsTheSum ==
    ASSUME NEW S, IsFiniteSet(S), NEW L, L \subseteq Nat
    PROVE  /\ Total([a \in S |-> 0], S) = 0
           /\ \A f \in [S -> L] : \A a \in S :
                 /\ f[a] <= Total(f, S)
                 /\ \A n \in L : Total([f EXCEPT ![a] = n], S) = Total(f, S) - f[a] + n
<1>0. \A f \in [S -> L] : Addends(f, S) /\ \A x \in S : f[x] \in Nat
  <2>1. \A f \in [S -> L] : \A x \in S : f[x] \in Nat
    OBVIOUS
  <2> QED BY <2>1 DEF Addends
<1>1. Total([a \in S |-> 0], S) = 0
  BY TotalZero
<1>2. ASSUME NEW f \in [S -> L], NEW a \in S PROVE f[a] <= Total(f, S)
  <2> DEFINE R == S \ {a}
             z == [x \in R |-> 0]
  <2>1. Addends(f, S) /\ Addends(f, R) /\ IsFiniteSet(R) /\ f[a] \in Nat
    BY <1>0, FS_Subset DEF Addends
  <2>2. Total(f, S) = f[a] + Total(f, R) /\ Total(f, R) \in Int
    BY <2>1, TotalRemove, TotalInt
  <2>3. Total(z, R) = 0 /\ Addends(z, R)
    BY <2>1, TotalZero DEF Addends
  <2>4. \A x \in R : z[x] + z[x] <= f[x] + z[x]
    <3>1. \A x \in R : z[x] = 0 /\ f[x] \in Nat
      BY <1>0
    <3> HIDE DEF z, R
    <3> QED BY <3>1
  <2> HIDE DEF R, z
  <2>5. Total(z, R) + Total(z, R) <= Total(f, R) + Total(z, R)
    BY <2>1, <2>3, <2>4, TotalTogether
  <2> QED BY <2>1, <2>2, <2>3, <2>5
<1>3. ASSUME NEW f \in [S -> L], NEW a \in S, NEW n \in L
      PROVE  Total([f EXCEPT ![a] = n], S) = Total(f, S) - f[a] + n
  <2>1. Addends(f, S) /\ L \subseteq Int
    BY <1>0
  <2> DEFINE e == [f EXCEPT ![a] = n]
  <2>2. e[a] = n /\ e[a] \in Int /\ \A x \in S \ {a} : e[x] = f[x]
    OBVIOUS
  <2> HIDE DEF e
  <2>3. Total(e, S) = Total(f, S) - f[a] + e[a]
    BY <2>1, <2>2, TotalChange
  <2> QED BY <2>2, <2>3 DEF e
<1> QED BY <1>1, <1>2, <1>3

-----------------------------------------------------------------------------
(* Snapshots *)

(* Every snapshot is of a block closed, and the newest of an account is the *)
(* one lastUpdate names.                                                    *)
SnapshotsPlaced ==
    \A a \in Account :
        /\ lastUpdate[a] \in Nat /\ lastUpdate[a] <= height
        /\ DOMAIN snapshots[a] \subseteq 1 .. height
        /\ \A h \in DOMAIN snapshots[a] : h <= lastUpdate[a]

(* SnapshotsCurrent, one account at a time. *)
ChainOf(a) ==
    \A h \in DOMAIN snapshots[a] :
        snapshots[a][h].prev < h /\ snapshots[a][h].prev \in DOMAIN snapshots[a] \cup {0}

NewestOf(a) ==
    IF lastUpdate[a] = 0
    THEN opening.balance[a] = 0 /\ opening.effective[a] = 0
    ELSE /\ lastUpdate[a] \in DOMAIN snapshots[a]
         /\ snapshots[a][lastUpdate[a]].balance = opening.balance[a]
         /\ snapshots[a][lastUpdate[a]].effective = opening.effective[a]
         /\ snapshots[a][lastUpdate[a]].weighted = lastWeighted[a]

SnapInv == height \in Nat /\ SnapshotsPlaced /\ SnapshotsCurrent

LEMMA CurrentParts == SnapshotsCurrent <=> \A a \in Account : ChainOf(a) /\ NewestOf(a)
  BY DEF SnapshotsCurrent, ChainOf, NewestOf

LEMMA SnapInvInit == Init => SnapInv
<1> SUFFICES ASSUME Init PROVE SnapInv
  OBVIOUS
<1>1. \A a \in Account : snapshots[a] = <<>> /\ lastUpdate[a] = 0
  BY DEF Init, Nobody
<1>2. DOMAIN <<>> = {}
  OBVIOUS
<1>3. \A a \in Account : DOMAIN snapshots[a] = {}
  BY <1>1, <1>2
<1>4. SnapshotsPlaced /\ height \in Nat
  BY <1>1, <1>3 DEF Init, SnapshotsPlaced
<1>5. \A a \in Account : opening.balance[a] = 0 /\ opening.effective[a] = 0
  BY DEF Init, Nobody
<1>6. ASSUME NEW a \in Account PROVE ChainOf(a) /\ NewestOf(a)
  BY <1>1, <1>3, <1>5 DEF ChainOf, NewestOf
<1> QED BY <1>4, <1>6, CurrentParts DEF SnapInv

(* Only the end of a block writes snapshots.                                *)
LEMMA ClosedSteps ==
    ASSUME [Next]_vars
    PROVE  CloseBlock \/ UNCHANGED closed
<1>1. ASSUME NEW a \in Account, GenesisTransaction(a) PROVE UNCHANGED closed
  BY <1>1 DEF GenesisTransaction, closed
<1>2. ASSUME NEW a \in Account, Minting(a) PROVE UNCHANGED closed
  BY <1>2 DEF Minting
<1>3. ASSUME NEW from \in Account, NEW to \in Account, NEW amount \in Amounts,
             Payment(from, to, amount)
      PROVE  UNCHANGED closed
  BY <1>3 DEF Payment, Apply
<1>4. ASSUME NEW l \in Lease, NEW from \in Account, NEW to \in Account, NEW amount \in Amounts,
             LeaseTransaction(l, from, to, amount)
      PROVE  UNCHANGED closed
  BY <1>4 DEF LeaseTransaction, Apply
<1>5. ASSUME NEW l \in Lease, LeaseCancel(l) PROVE UNCHANGED closed
  BY <1>5 DEF LeaseCancel, Apply
<1>6. ASSUME NEW a \in Account, NEW k \in Slot,
             Contend(a, k) \/ ContendFailed(a, k) \/ Release(a, k)
      PROVE  UNCHANGED closed
  BY <1>6 DEF Contend, ContendFailed, Release, Apply
<1>7. ASSUME UNCHANGED vars PROVE UNCHANGED closed
  BY <1>7 DEF vars, closed
<1> QED BY <1>1, <1>2, <1>3, <1>4, <1>5, <1>6, <1>7 DEF Next, Transaction

(* What the end of a block does to one account.                             *)
LEMMA ClosedAccount ==
    ASSUME CloseBlock, NEW a \in Account
    PROVE  /\ height' = height + 1
           /\ opening'.balance[a] = balance[a] /\ opening'.effective[a] = Effective(a)
           /\ a \in Moved =>
                 /\ DOMAIN (snapshots'[a]) = DOMAIN snapshots[a] \cup {height + 1}
                 /\ snapshots'[a][height + 1] = Snapshot(a)
                 /\ \A h \in DOMAIN snapshots[a] : h # height + 1 => snapshots'[a][h] = snapshots[a][h]
                 /\ lastUpdate'[a] = height + 1 /\ lastWeighted'[a] = Snapshot(a).weighted
           /\ a \notin Moved =>
                 /\ snapshots'[a] = snapshots[a] /\ lastUpdate'[a] = lastUpdate[a]
                 /\ lastWeighted'[a] = lastWeighted[a]
                 /\ balance[a] = opening.balance[a] /\ Effective(a) = opening.effective[a]
<1>1. opening' = [balance |-> balance, effective |-> [x \in Account |-> Effective(x)]]
  BY DEF CloseBlock
<1>2. a \in Moved => snapshots'[a] = [h \in DOMAIN snapshots[a] \cup {height + 1} |->
                        IF h = height + 1 THEN Snapshot(a) ELSE snapshots[a][h]]
  BY DEF CloseBlock
<1>3. a \notin Moved => snapshots'[a] = snapshots[a]
  BY DEF CloseBlock
<1>4. a \notin Moved => balance[a] = opening.balance[a] /\ Effective(a) = opening.effective[a]
  BY DEF Moved
<1>5. /\ height' = height + 1
      /\ lastUpdate'[a] = IF a \in Moved THEN height + 1 ELSE lastUpdate[a]
      /\ lastWeighted'[a] = IF a \in Moved THEN Snapshot(a).weighted ELSE lastWeighted[a]
  BY DEF CloseBlock
<1> HIDE DEF Moved, Snapshot
<1> QED BY <1>1, <1>2, <1>3, <1>4, <1>5

LEMMA PrevOfSnapshot ==
    ASSUME NEW a \in Account
    PROVE  /\ Snapshot(a).prev = lastUpdate[a] /\ Snapshot(a).balance = balance[a]
           /\ Snapshot(a).effective = Effective(a)
  BY DEF Snapshot

LEMMA SnapInvStep == SnapInv /\ [Next]_vars => SnapInv'
<1> SUFFICES ASSUME SnapInv, [Next]_vars PROVE SnapInv'
  OBVIOUS
<1>0. height \in Nat /\ SnapshotsPlaced /\ \A a \in Account : ChainOf(a) /\ NewestOf(a)
  BY CurrentParts DEF SnapInv
<1>1. CASE UNCHANGED closed
  BY <1>1 DEF SnapInv, SnapshotsPlaced, SnapshotsCurrent, closed
<1>2. CASE CloseBlock
  <2>1. height' \in Nat /\ height' = height + 1
    BY <1>0, <1>2 DEF CloseBlock
  <2>2. ASSUME NEW a \in Account
        PROVE  /\ lastUpdate'[a] \in Nat /\ lastUpdate'[a] <= height'
               /\ DOMAIN (snapshots'[a]) \subseteq 1 .. height'
               /\ \A h \in DOMAIN (snapshots'[a]) : h <= lastUpdate'[a]
               /\ ChainOf(a)' /\ NewestOf(a)'
    <3>1. /\ lastUpdate[a] \in Nat /\ lastUpdate[a] <= height
          /\ DOMAIN snapshots[a] \subseteq 1 .. height
          /\ \A h \in DOMAIN snapshots[a] : h <= lastUpdate[a]
          /\ ChainOf(a) /\ NewestOf(a)
      BY <1>0 DEF SnapshotsPlaced
    <3>2. CASE a \notin Moved
      BY <1>0, <1>2, <2>1, <3>1, <3>2, ClosedAccount DEF ChainOf, NewestOf
    <3>3. CASE a \in Moved
      <4>1. /\ DOMAIN (snapshots'[a]) = DOMAIN snapshots[a] \cup {height + 1}
            /\ snapshots'[a][height + 1] = Snapshot(a)
            /\ \A h \in DOMAIN snapshots[a] : h \in 1 .. height /\ snapshots'[a][h] = snapshots[a][h]
            /\ lastUpdate'[a] = height + 1 /\ lastWeighted'[a] = Snapshot(a).weighted
            /\ opening'.balance[a] = balance[a] /\ opening'.effective[a] = Effective(a)
        <5>1. \A h \in DOMAIN snapshots[a] : h \in 1 .. height /\ h # height + 1
          BY <1>0, <3>1
        <5> QED BY <1>2, <3>3, <5>1, ClosedAccount
      <4>2. lastUpdate[a] \in DOMAIN snapshots[a] \cup {0}
        BY <3>1 DEF NewestOf
      <4>3. ChainOf(a)'
        <5>1. ASSUME NEW h \in DOMAIN (snapshots'[a])
              PROVE  /\ snapshots'[a][h].prev < h
                     /\ snapshots'[a][h].prev \in DOMAIN (snapshots'[a]) \cup {0}
          <6>1. CASE h = height + 1
            BY <1>0, <3>1, <4>1, <4>2, <6>1, PrevOfSnapshot
          <6>2. CASE h # height + 1
            <7>1. h \in DOMAIN snapshots[a]
              BY <4>1, <6>2
            <7> QED BY <3>1, <4>1, <7>1 DEF ChainOf
          <6> QED BY <6>1, <6>2
        <5> QED BY <5>1 DEF ChainOf
      <4>4. NewestOf(a)'
        BY <1>0, <4>1, PrevOfSnapshot DEF NewestOf
      <4>5. DOMAIN (snapshots'[a]) \subseteq 1 .. height + 1
        BY <1>0, <3>1, <4>1
      <4>6. \A h \in DOMAIN (snapshots'[a]) : h <= height + 1
        BY <1>0, <4>5
      <4> QED BY <1>0, <2>1, <4>1, <4>3, <4>4, <4>5, <4>6
    <3> QED BY <3>2, <3>3
  <2>3. SnapshotsPlaced'
    BY <2>2 DEF SnapshotsPlaced
  <2>4. SnapshotsCurrent'
    BY <2>2 DEF SnapshotsCurrent, ChainOf, NewestOf
  <2> QED BY <2>1, <2>3, <2>4 DEF SnapInv
<1> QED BY <1>1, <1>2, ClosedSteps

(* A block's end takes every snapshot that is due: the newest one of each   *)
(* account is what its portfolio says, and the walk by prevHeight goes down *)
(* from snapshot to snapshot.                                               *)
THEOREM SnapshotsCurrentAlways == Spec => []SnapshotsCurrent
<1>1. SnapInv => SnapshotsCurrent
  BY DEF SnapInv
<1> QED BY <1>1, SnapInvInit, SnapInvStep, PTL DEF Spec

-----------------------------------------------------------------------------
(* The walk over the snapshots *)

Heights(a) == {0} \cup DOMAIN snapshots[a]

(* One step of minBySnapshot: the snapshots seen from height h down.        *)
Seen(a, atHeight, bottom, g, h) ==
    IF h = 0 THEN {IF 1 \in DOMAIN snapshots[a] THEN snapshots[a][1] ELSE NoSnapshot}
    ELSE (IF h > atHeight /\ snapshots[a][h].prev > atHeight THEN {} ELSE {snapshots[a][h]})
         \cup (IF h <= bottom THEN {} ELSE g[snapshots[a][h].prev])

Walks(a, atHeight, bottom, g) == \A h \in Heights(a) : g[h] = Seen(a, atHeight, bottom, g, h)

WalkUpTo(a, atHeight, bottom, n) ==
    \E g : \A h \in Heights(a) : h <= n => g[h] = Seen(a, atHeight, bottom, g, h)

LEMMA HeightsPlaced ==
    ASSUME SnapInv, NEW a \in Account
    PROVE  /\ height \in Nat /\ Heights(a) \subseteq Nat
           /\ \A h \in Heights(a) : h <= height
           /\ \A h \in Heights(a) : h # 0 =>
                 h \in DOMAIN snapshots[a] /\ snapshots[a][h].prev \in Heights(a) /\ snapshots[a][h].prev < h
           /\ lastUpdate[a] \in Heights(a)
<1>1. ChainOf(a) /\ NewestOf(a) /\ height \in Nat
  BY CurrentParts DEF SnapInv
<1>2. DOMAIN snapshots[a] \subseteq 1 .. height
  BY DEF SnapInv, SnapshotsPlaced
<1> QED BY <1>1, <1>2 DEF ChainOf, NewestOf, Heights

LEMMA WalkMore ==
    ASSUME SnapInv, NEW a \in Account, NEW atHeight, NEW bottom, NEW n \in Nat,
           WalkUpTo(a, atHeight, bottom, n)
    PROVE  WalkUpTo(a, atHeight, bottom, n + 1)
<1>1. PICK g : \A h \in Heights(a) : h <= n => g[h] = Seen(a, atHeight, bottom, g, h)
  BY DEF WalkUpTo
<1> DEFINE k == [h \in Heights(a) |-> Seen(a, atHeight, bottom, g, h)]
<1>2. ASSUME NEW h \in Heights(a), h <= n + 1 PROVE k[h] = Seen(a, atHeight, bottom, k, h)
  <2>1. CASE h = 0
    BY <2>1 DEF Seen
  <2>2. CASE h # 0
    <3> DEFINE p == snapshots[a][h].prev
    <3>1. h \in Nat /\ p \in Nat /\ p \in Heights(a) /\ p < h
      BY <2>2, HeightsPlaced
    <3>2. p <= n
      BY <1>2, <3>1
    <3>3. k[p] = g[p]
      BY <1>1, <3>1, <3>2
    <3> QED BY <2>2, <3>3 DEF Seen
  <2> QED BY <2>1, <2>2
<1> HIDE DEF k
<1> QED BY <1>2 DEF WalkUpTo

LEMMA WalkBase ==
    ASSUME SnapInv, NEW a \in Account, NEW atHeight, NEW bottom
    PROVE  WalkUpTo(a, atHeight, bottom, 0)
<1> DEFINE k == [h \in Heights(a) |-> Seen(a, atHeight, bottom, <<>>, h)]
<1>1. ASSUME NEW h \in Heights(a), h <= 0 PROVE k[h] = Seen(a, atHeight, bottom, k, h)
  <2>1. h = 0
    BY <1>1, HeightsPlaced
  <2> QED BY <2>1 DEF Seen
<1> HIDE DEF k
<1> QED BY <1>1 DEF WalkUpTo

LEMMA WalkExists ==
    ASSUME SnapInv, NEW a \in Account, NEW atHeight, NEW bottom
    PROVE  \E g : Walks(a, atHeight, bottom, g)
<1> DEFINE T == {n \in Nat : ~WalkUpTo(a, atHeight, bottom, n)}
<1>1. T = {}
  <2>1. SUFFICES ASSUME T # {} PROVE FALSE
    OBVIOUS
  <2>2. PICK m \in T : \A y \in T : m <= y
    BY <2>1, LeastNumber
  <2>3. m # 0
    BY WalkBase
  <2>4. m - 1 \in Nat /\ m - 1 \notin T
    BY <2>2, <2>3
  <2>5. WalkUpTo(a, atHeight, bottom, m - 1 + 1)
    BY <2>4, WalkMore
  <2>6. m - 1 + 1 = m
    BY <2>4
  <2> QED BY <2>5, <2>6
<1>2. height \in Nat
  BY DEF SnapInv
<1>3. WalkUpTo(a, atHeight, bottom, height)
  BY <1>1, <1>2
<1>4. PICK g : \A h \in Heights(a) : h <= height => g[h] = Seen(a, atHeight, bottom, g, h)
  BY <1>3 DEF WalkUpTo
<1> QED BY <1>4, HeightsPlaced DEF Walks

(* The effective balances minBySnapshot takes the least of.                 *)
Found(a, bottom, g) ==
    IF lastUpdate[a] = 0 THEN {0}
    ELSE IF lastUpdate[a] < bottom THEN {Effective(a)}
    ELSE {s.effective : s \in g[lastUpdate[a]]}

LEMMA MinBySnapshotWalks ==
    ASSUME SnapInv, NEW a \in Account, NEW atHeight, NEW confirmations
    PROVE  \E g : /\ Walks(a, atHeight, atHeight - confirmations, g)
                  /\ MinBySnapshot(a, atHeight, confirmations)
                     = Min(Found(a, atHeight - confirmations, g))
<1> DEFINE bottom == atHeight - confirmations
           Solves(g) == g = [h \in {0} \cup DOMAIN snapshots[a] |->
             IF h = 0 THEN {IF 1 \in DOMAIN snapshots[a] THEN snapshots[a][1] ELSE NoSnapshot}
             ELSE LET s == snapshots[a][h]
                  IN  (IF h > atHeight /\ s.prev > atHeight THEN {} ELSE {s})
                      \cup (IF h <= bottom THEN {} ELSE g[s.prev])]
           visited == CHOOSE g : Solves(g)
<1>1. PICK g : Walks(a, atHeight, bottom, g)
  BY WalkExists
<1>2. Solves([h \in Heights(a) |-> g[h]])
  <2> DEFINE k == [h \in Heights(a) |-> g[h]]
  <2>1. ASSUME NEW h \in Heights(a) PROVE k[h] = Seen(a, atHeight, bottom, k, h)
    <3>1. CASE h = 0
      BY <1>1, <3>1 DEF Walks, Seen
    <3>2. CASE h # 0
      <4>1. snapshots[a][h].prev \in Heights(a)
        BY <3>2, HeightsPlaced
      <4> QED BY <1>1, <3>2, <4>1 DEF Walks, Seen
    <3> QED BY <3>1, <3>2
  <2>2. k = [h \in Heights(a) |-> Seen(a, atHeight, bottom, k, h)]
    BY <2>1
  <2> HIDE DEF k
  <2> QED BY <2>2 DEF Heights, Seen, k
<1>3. Solves(visited)
  <2> HIDE DEF Solves
  <2> QED BY <1>2
<1>4. Walks(a, atHeight, bottom, visited)
  <2> HIDE DEF visited
  <2> QED BY <1>3 DEF Walks, Seen, Heights
<1>5. MinBySnapshot(a, atHeight, confirmations) = Min(Found(a, bottom, visited))
  BY DEF MinBySnapshot, Found
<1> HIDE DEF visited, Solves
<1> QED BY <1>4, <1>5

(* At the height of the newest snapshot, as mintingBalance asks: that       *)
(* snapshot's own.                                                          *)
LEMMA NewestMinimum ==
    ASSUME SnapInv, NEW a \in Account, opening.effective[a] \in Int
    PROVE  MinBySnapshot(a, lastUpdate[a], 0) = opening.effective[a]
<1>1. lastUpdate[a] \in Nat /\ NewestOf(a) /\ lastUpdate[a] - 0 = lastUpdate[a]
  BY CurrentParts DEF SnapInv, SnapshotsPlaced
<1>2. PICK g : /\ Walks(a, lastUpdate[a], lastUpdate[a], g)
               /\ MinBySnapshot(a, lastUpdate[a], 0) = Min(Found(a, lastUpdate[a], g))
  BY <1>1, MinBySnapshotWalks
<1>3. lastUpdate[a] \in Heights(a)
  BY HeightsPlaced
<1>4. Found(a, lastUpdate[a], g) = {opening.effective[a]}
  <2>1. CASE lastUpdate[a] = 0
    BY <1>1, <2>1 DEF Found, NewestOf
  <2>2. CASE lastUpdate[a] # 0
    <3>1. g[lastUpdate[a]] = {snapshots[a][lastUpdate[a]]}
      <4> DEFINE n == lastUpdate[a]
      <4>1. g[n] = Seen(a, n, n, g, n)
        BY <1>2, <1>3 DEF Walks
      <4>2. n \in Nat /\ n # 0
        BY <1>1, <2>2
      <4> HIDE DEF n
      <4>3. ~(n > n) /\ n <= n
        BY <4>2
      <4>4. Seen(a, n, n, g, n) = {snapshots[a][n]} \cup {}
        BY <4>2, <4>3 DEF Seen
      <4> QED BY <4>1, <4>4 DEF n
    <3> QED BY <1>1, <2>2, <3>1 DEF Found, NewestOf
  <2> QED BY <2>1, <2>2
<1>5. Min({opening.effective[a]}) = opening.effective[a]
  BY DEF Min
<1> QED BY <1>2, <1>4, <1>5

-----------------------------------------------------------------------------
(* Leases *)

(* The steps that move what is leased.                                      *)
Leasing(l, from, to, amount) ==
    /\ lease[l] = None
    /\ leaseIn' = [leaseIn EXCEPT ![to] = @ + amount]
    /\ leaseOut' = [leaseOut EXCEPT ![from] = @ + amount]
    /\ lease' = [lease EXCEPT ![l] = [from |-> from, to |-> to, amount |-> amount, active |-> TRUE]]

Cancelling(l, from, to, amount) ==
    /\ lease[l] # None /\ lease[l].active
    /\ lease[l].from = from /\ lease[l].to = to /\ lease[l].amount = amount
    /\ leaseIn' = [leaseIn EXCEPT ![to] = @ - amount]
    /\ leaseOut' = [leaseOut EXCEPT ![from] = @ - amount]
    /\ lease' = [lease EXCEPT ![l].active = FALSE]

LEMMA LeaseSteps ==
    ASSUME Types, [Next]_vars
    PROVE  \/ UNCHANGED <<leaseIn, leaseOut, lease>>
           \/ \E l \in Lease, from, to \in Account, amount \in Nat :
                 Leasing(l, from, to, amount) \/ Cancelling(l, from, to, amount)
<1> DEFINE Goal == \/ UNCHANGED <<leaseIn, leaseOut, lease>>
                   \/ \E l \in Lease, from, to \in Account, amount \in Nat :
                         Leasing(l, from, to, amount) \/ Cancelling(l, from, to, amount)
<1>1. ASSUME NEW a \in Account, GenesisTransaction(a) \/ Minting(a) PROVE Goal
  BY <1>1 DEF GenesisTransaction, Minting
<1>2. ASSUME NEW from \in Account, NEW to \in Account, NEW amount \in Amounts,
             Payment(from, to, amount)
      PROVE  Goal
  BY <1>2 DEF Payment, Apply
<1>3. ASSUME NEW l \in Lease, NEW from \in Account, NEW to \in Account, NEW amount \in Amounts,
             LeaseTransaction(l, from, to, amount)
      PROVE  Goal
  <2>1. amount \in Nat
    BY AmountTypes
  <2>2. Leasing(l, from, to, amount)
    BY <1>3 DEF LeaseTransaction, Apply, Leasing
  <2> QED BY <2>1, <2>2
<1>4. ASSUME NEW l \in Lease, LeaseCancel(l) PROVE Goal
  <2>1. lease[l] \in LeaseRecord
    BY <1>4 DEF LeaseCancel, Types
  <2>2. lease[l].from \in Account /\ lease[l].to \in Account /\ lease[l].amount \in Nat
    BY <2>1 DEF LeaseRecord
  <2>3. Cancelling(l, lease[l].from, lease[l].to, lease[l].amount)
    BY <1>4 DEF LeaseCancel, Apply, Cancelling
  <2> QED BY <2>2, <2>3
<1>5. ASSUME NEW a \in Account, NEW k \in Slot,
             Contend(a, k) \/ ContendFailed(a, k) \/ Release(a, k)
      PROVE  Goal
  BY <1>5 DEF Contend, ContendFailed, Release, Apply
<1>6. CASE CloseBlock \/ UNCHANGED vars
  BY <1>6 DEF CloseBlock, vars
<1> QED BY <1>1, <1>2, <1>3, <1>4, <1>5, <1>6 DEF Next, Transaction

(* What is leased out is leased in.                                         *)
LeasesBalance == Total(leaseIn, Account) = Total(leaseOut, Account)

LEMMA LeasesBalanceStep ==
    ASSUME Types, LeasesBalance, [Next]_vars
    PROVE  LeasesBalance'
<1>0. IsFiniteSet(Account)
  BY LedgerAssumption
<1>1. CASE UNCHANGED <<leaseIn, leaseOut, lease>>
  BY <1>1 DEF LeasesBalance, Total
<1>2. ASSUME NEW l \in Lease, NEW from \in Account, NEW to \in Account, NEW amount \in Nat,
             Leasing(l, from, to, amount) \/ Cancelling(l, from, to, amount)
      PROVE  LeasesBalance'
  <2>1. PICK n \in Int : /\ leaseIn' = [leaseIn EXCEPT ![to] = @ + n]
                         /\ leaseOut' = [leaseOut EXCEPT ![from] = @ + n]
    <3>1. CASE Leasing(l, from, to, amount)
      <4>1. amount \in Int
        OBVIOUS
      <4>2. leaseIn' = [leaseIn EXCEPT ![to] = @ + amount]
            /\ leaseOut' = [leaseOut EXCEPT ![from] = @ + amount]
        BY <3>1 DEF Leasing
      <4> QED BY <4>1, <4>2
    <3>2. CASE Cancelling(l, from, to, amount)
      <4>1. -amount \in Int
        OBVIOUS
      <4>2. leaseIn' = [leaseIn EXCEPT ![to] = @ + (-amount)]
        BY <3>2 DEF Types, Cancelling
      <4>3. leaseOut' = [leaseOut EXCEPT ![from] = @ + (-amount)]
        BY <3>2 DEF Types, Cancelling
      <4> QED BY <4>1, <4>2, <4>3
    <3> QED BY <1>2, <3>1, <3>2
  <2>2. Addends(leaseIn, Account) /\ Addends(leaseOut, Account)
    BY DEF Types, Addends
  <2>3. /\ leaseIn'[to] = leaseIn[to] + n /\ leaseIn[to] \in Int
        /\ \A x \in Account \ {to} : leaseIn'[x] = leaseIn[x]
        /\ leaseOut'[from] = leaseOut[from] + n /\ leaseOut[from] \in Int
        /\ \A x \in Account \ {from} : leaseOut'[x] = leaseOut[x]
    BY <2>1 DEF Types
  <2>4. Total(leaseIn', Account) = Total(leaseIn, Account) - leaseIn[to] + leaseIn'[to]
    BY <1>0, <2>2, <2>3, TotalChange
  <2>5. Total(leaseOut', Account) = Total(leaseOut, Account) - leaseOut[from] + leaseOut'[from]
    BY <1>0, <2>2, <2>3, TotalChange
  <2>6. Total(leaseIn, Account) \in Int /\ Total(leaseOut, Account) \in Int
    BY <1>0, <2>2, TotalInt
  <2>7. Total(leaseIn', Account) = Total(leaseOut', Account)
    BY <2>3, <2>4, <2>5, <2>6 DEF LeasesBalance
  <2> QED BY <2>7 DEF LeasesBalance, Total
<1> QED BY <1>1, <1>2, LeaseSteps

-----------------------------------------------------------------------------
(* Weights *)

WeightTypes == \A a \in Account : opening.effective[a] \in Int /\ lastWeighted[a] \in Int

WeightInv == Types /\ SnapInv /\ WeightTypes /\ LeasesBalance

LEMMA WeightedBounded ==
    ASSUME NEW h \in Int, NEW e \in Int, NEW w \in Int, NEW now \in Int
    PROVE  WeightedBalance(h, e, w, now) \in Int /\ WeightedBalance(h, e, w, now) <= now
<1> DEFINE age == AtMost(MaxUpdateBlocks, h)
           n == (e \div MaxUpdateBlocks) * age + (w \div MaxUpdateBlocks) * (MaxUpdateBlocks - age)
<1>1. MaxUpdateBlocks \in Nat \ {0}
  BY MaxUpdateBlocksAssumption
<1>2. age \in Int
  BY <1>1 DEF AtMost
<1>3. e \div MaxUpdateBlocks \in Int /\ w \div MaxUpdateBlocks \in Int
  BY <1>1
<1>4. n \in Int
  <2> HIDE DEF age
  <2> QED BY <1>1, <1>2, <1>3
<1>5. WeightedBalance(h, e, w, now) = AtMost(now, n)
  BY DEF WeightedBalance
<1> HIDE DEF n
<1> QED BY <1>4, <1>5 DEF AtMost

LEMMA EffectiveInt ==
    ASSUME Types, NEW a \in Account
    PROVE  /\ balance[a] \in Int /\ leaseIn[a] \in Int /\ leaseOut[a] \in Int
           /\ Effective(a) \in Int /\ Effective(a) = balance[a] + leaseIn[a] - leaseOut[a]
  BY DEF Types, Effective

LEMMA MintingBounded ==
    ASSUME WeightInv, NEW a \in Account
    PROVE  MintingBalance(a, height + 1) \in Int /\ MintingBalance(a, height + 1) <= Effective(a)
<1>1. /\ height \in Nat /\ lastUpdate[a] \in Nat /\ lastUpdate[a] <= height
      /\ opening.effective[a] \in Int /\ lastWeighted[a] \in Int
  BY DEF WeightInv, WeightTypes, SnapInv, SnapshotsPlaced
<1>2. Effective(a) \in Int
  BY EffectiveInt DEF WeightInv
<1>3. MinBySnapshot(a, lastUpdate[a], 0) = opening.effective[a]
  BY <1>1, NewestMinimum DEF WeightInv
<1>4. lastUpdate[a] # height + 1 /\ (height + 1) - lastUpdate[a] \in Int
  BY <1>1
<1>5. MintingBalance(a, height + 1)
      = WeightedBalance((height + 1) - lastUpdate[a], MinBySnapshot(a, lastUpdate[a], 0),
                        lastWeighted[a], Effective(a))
  BY <1>4 DEF MintingBalance
<1>6. MintingBalance(a, height + 1)
      = WeightedBalance((height + 1) - lastUpdate[a], opening.effective[a],
                        lastWeighted[a], Effective(a))
  BY <1>3, <1>5
<1> DEFINE d == (height + 1) - lastUpdate[a]
<1>7. d \in Int /\ MintingBalance(a, height + 1)
                   = WeightedBalance(d, opening.effective[a], lastWeighted[a], Effective(a))
  BY <1>4, <1>6
<1> HIDE DEF d
<1>8. /\ WeightedBalance(d, opening.effective[a], lastWeighted[a], Effective(a)) \in Int
      /\ WeightedBalance(d, opening.effective[a], lastWeighted[a], Effective(a)) <= Effective(a)
  BY <1>1, <1>2, <1>7, WeightedBounded
<1> QED BY <1>7, <1>8

LEMMA WeightsTotal ==
    MapThenSumSet(LAMBDA a : MintingBalance(a, height + 1), Account)
    = Total([a \in Account |-> MintingBalance(a, height + 1)], Account)
  BY DEF MapThenSumSet, MapThenFoldSet, Total

LEMMA BalanceTotal ==
    ASSUME Types
    PROVE  SumFunction(balance) = Total(balance, Account)
<1>1. DOMAIN balance = Account
  BY DEF Types
<1> QED BY <1>1, TotalOfFunction

LEMMA WeightsBounded == WeightInv => WeightsWithinSupply
<1> SUFFICES ASSUME WeightInv PROVE WeightsWithinSupply
  OBVIOUS
<1> DEFINE weight == [a \in Account |-> MintingBalance(a, height + 1)]
<1>0. Types /\ IsFiniteSet(Account) /\ LeasesBalance
  BY LedgerAssumption DEF WeightInv
<1>1. ASSUME NEW a \in Account
      PROVE  weight[a] \in Int /\ weight[a] + leaseOut[a] <= balance[a] + leaseIn[a]
  <2>1. weight[a] \in Int /\ weight[a] <= Effective(a)
    BY MintingBounded
  <2> HIDE DEF weight
  <2> QED BY <1>0, <2>1, EffectiveInt
<1>2. /\ Addends(weight, Account) /\ Addends(balance, Account)
      /\ Addends(leaseIn, Account) /\ Addends(leaseOut, Account)
  BY <1>0, <1>1, EffectiveInt DEF Addends
<1> HIDE DEF weight
<1>3. Total(weight, Account) + Total(leaseOut, Account)
      <= Total(balance, Account) + Total(leaseIn, Account)
  BY <1>0, <1>1, <1>2, TotalTogether
<1>4. /\ Total(weight, Account) \in Int /\ Total(balance, Account) \in Int
      /\ Total(leaseIn, Account) \in Int /\ Total(leaseOut, Account) \in Int
  BY <1>0, <1>2, TotalInt
<1>5. Total(weight, Account) <= Total(balance, Account)
  BY <1>0, <1>3, <1>4 DEF LeasesBalance
<1> QED BY <1>0, <1>5, WeightsTotal, BalanceTotal DEF WeightsWithinSupply, weight

LEMMA WeightInvInit == Init => WeightInv
<1> SUFFICES ASSUME Init PROVE WeightInv
  OBVIOUS
<1>1. leaseIn = leaseOut
  BY DEF Init
<1>2. WeightTypes
  BY DEF Init, Nobody, WeightTypes
<1> QED BY <1>1, <1>2, TypesInit, SnapInvInit DEF WeightInv, LeasesBalance

LEMMA WeightInvStep == WeightInv /\ [Next]_vars => WeightInv'
<1> SUFFICES ASSUME WeightInv, [Next]_vars PROVE WeightInv'
  OBVIOUS
<1>0. Types /\ SnapInv /\ WeightTypes /\ LeasesBalance
  BY DEF WeightInv
<1>1. Types' /\ SnapInv' /\ LeasesBalance'
  BY <1>0, TypesStep, SnapInvStep, LeasesBalanceStep
<1>2. WeightTypes'
  <2>1. CASE UNCHANGED closed
    BY <1>0, <2>1 DEF WeightTypes, closed
  <2>2. CASE CloseBlock
    <3>1. ASSUME NEW a \in Account PROVE opening'.effective[a] \in Int /\ lastWeighted'[a] \in Int
      <4>1. Effective(a) \in Int /\ opening.effective[a] \in Int /\ lastWeighted[a] \in Int
            /\ height + 1 - lastUpdate[a] \in Int
        BY <1>0, EffectiveInt DEF WeightTypes, SnapInv, SnapshotsPlaced
      <4>2. Snapshot(a).weighted \in Int
        BY <4>1, WeightedBounded DEF Snapshot
      <4>3. opening'.effective[a] = Effective(a)
        BY <2>2, ClosedAccount
      <4>4. lastWeighted'[a] = Snapshot(a).weighted \/ lastWeighted'[a] = lastWeighted[a]
        BY <2>2, ClosedAccount
      <4> QED BY <4>1, <4>2, <4>3, <4>4
    <3> QED BY <3>1 DEF WeightTypes
  <2> QED BY <2>1, <2>2, ClosedSteps
<1> QED BY <1>1, <1>2 DEF WeightInv

(* The weights of all accounts together are no more than the coins there    *)
(* are: a weight never exceeds its account's effective balance, and what    *)
(* leases add to one account they take from another.                        *)
THEOREM WeightsWithinSupplyAlways == Spec => []WeightsWithinSupply
<1> QED BY WeightsBounded, WeightInvInit, WeightInvStep, PTL DEF Spec

-----------------------------------------------------------------------------
(* What the leases add up to *)

(* The sums of LeasesAddUp, over any record of the leases.                  *)
Held(r, ls) == Total([l \in ls |-> r[l].amount], ls)
OutOf(r, a) == {l \in {k \in Lease : r[k] # None /\ r[k].active} : r[l].from = a}
InTo(r, a) == {l \in {k \in Lease : r[k] # None /\ r[k].active} : r[l].to = a}

AddUp(r, in, out) ==
    \A a \in Account : out[a] = Held(r, OutOf(r, a)) /\ in[a] = Held(r, InTo(r, a))

Records == [Lease -> LeaseRecord \cup {None}]
Active(r) == {l \in Lease : r[l] # None /\ r[l].active}

LEMMA LeasedNow ==
    ASSUME NEW a
    PROVE  /\ Leased({l \in ActiveLeases : lease[l].from = a}) = Held(lease, OutOf(lease, a))
           /\ Leased({l \in ActiveLeases : lease[l].to = a}) = Held(lease, InTo(lease, a))
<1>1. Leased({l \in ActiveLeases : lease[l].from = a})
      = Held(lease, {l \in ActiveLeases : lease[l].from = a})
  BY ZenonT(40) DEF Leased, MapThenSumSet, MapThenFoldSet, Total, Held
<1>2. Leased({l \in ActiveLeases : lease[l].to = a})
      = Held(lease, {l \in ActiveLeases : lease[l].to = a})
  BY ZenonT(40) DEF Leased, MapThenSumSet, MapThenFoldSet, Total, Held
<1> QED BY <1>1, <1>2 DEF OutOf, InTo, ActiveLeases

LEMMA LeasedNext ==
    ASSUME NEW a
    PROVE  /\ Leased({l \in ActiveLeases : lease[l].from = a})' = Held(lease', OutOf(lease', a))
           /\ Leased({l \in ActiveLeases : lease[l].to = a})' = Held(lease', InTo(lease', a))
<1>1. Leased({l \in ActiveLeases : lease[l].from = a})'
      = Held(lease', {l \in ActiveLeases' : lease'[l].from = a})
  BY ZenonT(40) DEF Leased, MapThenSumSet, MapThenFoldSet, Total, Held
<1>2. Leased({l \in ActiveLeases : lease[l].to = a})'
      = Held(lease', {l \in ActiveLeases' : lease'[l].to = a})
  BY ZenonT(40) DEF Leased, MapThenSumSet, MapThenFoldSet, Total, Held
<1> QED BY <1>1, <1>2 DEF OutOf, InTo, ActiveLeases

LEMMA AddUpNow == LeasesAddUp <=> AddUp(lease, leaseIn, leaseOut)
  BY LeasedNow DEF LeasesAddUp, AddUp

LEMMA AddUpNext == LeasesAddUp' <=> AddUp(lease', leaseIn', leaseOut')
  BY LeasedNext DEF LeasesAddUp, AddUp

LEMMA HeldTotal ==
    ASSUME NEW r \in Records, NEW ls, ls \subseteq Active(r)
    PROVE  /\ Held(r, ls) = Total([l \in Lease |-> r[l].amount], ls)
           /\ IsFiniteSet(ls) /\ Addends([l \in Lease |-> r[l].amount], ls)
           /\ Held(r, ls) \in Int
<1> DEFINE f == [l \in Lease |-> r[l].amount]
           e == [l \in ls |-> r[l].amount]
<1>1. Held(r, ls) = Total(e, ls)
  BY DEF Held
<1>2. ls \subseteq Lease /\ IsFiniteSet(ls)
  BY LedgerAssumption, FS_Subset DEF Active
<1>3. ASSUME NEW l \in ls PROVE r[l].amount \in Int /\ f[l] = e[l] /\ f[l] = r[l].amount
  BY <1>2 DEF Records, LeaseRecord, Active
<1>4. Addends(f, ls)
  BY <1>3 DEF Addends
<1> HIDE DEF f, e
<1>5. Total(f, ls) = Total(e, ls)
  BY <1>2, <1>3, <1>4, TotalSame
<1>6. Total(f, ls) \in Int
  BY <1>2, <1>4, TotalInt
<1> QED BY <1>1, <1>2, <1>4, <1>5, <1>6 DEF f

(* A lease more, and the same leases in two records.                        *)
Gains(r, q, ls, l) ==
    /\ r \in Records /\ q \in Records
    /\ ls \subseteq Active(r) /\ l \notin ls /\ ls \cup {l} \subseteq Active(q)
    /\ \A x \in ls : q[x] = r[x]

Alike(r, q, ls) ==
    /\ r \in Records /\ q \in Records
    /\ ls \subseteq Active(r) /\ ls \subseteq Active(q)
    /\ \A x \in ls : q[x] = r[x]

LEMMA HeldMore ==
    ASSUME NEW r, NEW q, NEW ls, NEW l, Gains(r, q, ls, l)
    PROVE  Held(q, ls \cup {l}) = Held(r, ls) + q[l].amount
<1>0. /\ r \in Records /\ q \in Records
      /\ ls \subseteq Active(r) /\ l \notin ls /\ ls \cup {l} \subseteq Active(q)
      /\ \A x \in ls : q[x] = r[x]
  BY DEF Gains
<1> DEFINE f == [x \in Lease |-> r[x].amount]
           e == [x \in Lease |-> q[x].amount]
           U == ls \cup {l}
<1>1. U \subseteq Lease /\ l \in Lease /\ ls \subseteq Lease
  BY <1>0 DEF Active
<1>2. Held(q, U) = Total(e, U) /\ IsFiniteSet(U) /\ Addends(e, U)
  BY <1>0, HeldTotal
<1>3. Held(r, ls) = Total(f, ls) /\ IsFiniteSet(ls) /\ Addends(f, ls) /\ Held(r, ls) \in Int
  BY <1>0, HeldTotal
<1>4. \A x \in ls : f[x] = e[x]
  BY <1>0, <1>1
<1>5. e[l] = q[l].amount /\ e[l] \in Int
  BY <1>1, <1>2 DEF Addends
<1>6. U \ {l} = ls /\ l \in U
  BY <1>0
<1> HIDE DEF f, e, U
<1>7. Total(e, U) = e[l] + Total(e, ls)
  BY <1>2, <1>6, TotalRemove
<1>8. Total(f, ls) = Total(e, ls)
  BY <1>3, <1>4, TotalSame
<1>9. Held(q, U) = Held(r, ls) + q[l].amount
  BY <1>2, <1>3, <1>5, <1>7, <1>8
<1> QED BY <1>9 DEF U

LEMMA HeldAlike ==
    ASSUME NEW r, NEW q, NEW ls, Alike(r, q, ls)
    PROVE  Held(q, ls) = Held(r, ls)
<1> DEFINE f == [x \in Lease |-> r[x].amount]
           e == [x \in Lease |-> q[x].amount]
<1>0. /\ r \in Records /\ q \in Records
      /\ ls \subseteq Active(r) /\ ls \subseteq Active(q) /\ \A x \in ls : q[x] = r[x]
  BY DEF Alike
<1>1. Held(q, ls) = Total(e, ls) /\ Held(r, ls) = Total(f, ls)
      /\ IsFiniteSet(ls) /\ Addends(f, ls)
  BY <1>0, HeldTotal
<1>2. \A x \in ls : f[x] = e[x]
  BY <1>0 DEF Active
<1> HIDE DEF f, e
<1> QED BY <1>1, <1>2, TotalSame

(* A new lease, and a cancelled one, seen from one account.                 *)
Added(r, q, l, from, to, amount) ==
    /\ r \in Records /\ r[l] = None
    /\ q = [r EXCEPT ![l] = [from |-> from, to |-> to, amount |-> amount, active |-> TRUE]]

Removed(r, q, l) ==
    /\ r \in Records /\ r[l] # None /\ r[l].active
    /\ q = [r EXCEPT ![l].active = FALSE]

LEMMA LeaseAdded ==
    ASSUME NEW l \in Lease, NEW from \in Account, NEW to \in Account, NEW amount \in Nat,
           NEW r, NEW q, Added(r, q, l, from, to, amount), NEW a
    PROVE  /\ Held(q, OutOf(q, a)) = Held(r, OutOf(r, a)) + (IF a = from THEN amount ELSE 0)
           /\ Held(q, InTo(q, a)) = Held(r, InTo(r, a)) + (IF a = to THEN amount ELSE 0)
<1>0. /\ r \in Records /\ r[l] = None
      /\ q = [r EXCEPT ![l] = [from |-> from, to |-> to, amount |-> amount, active |-> TRUE]]
  BY DEF Added
<1>1. q \in Records /\ q[l].from = from /\ q[l].to = to /\ q[l].amount = amount /\ q[l].active
      /\ q[l] # None
  <2>1. [from |-> from, to |-> to, amount |-> amount, active |-> TRUE] \in LeaseRecord
    BY DEF LeaseRecord
  <2>2. q[l] = [from |-> from, to |-> to, amount |-> amount, active |-> TRUE]
    BY <1>0 DEF Records
  <2>3. None \notin LeaseRecord
    BY LedgerAssumption
  <2> QED BY <1>0, <2>1, <2>2, <2>3 DEF Records
<1>2. \A x \in Lease \ {l} : q[x] = r[x]
  BY <1>0 DEF Records
<1>3. OutOf(r, a) \subseteq Active(r) /\ InTo(r, a) \subseteq Active(r)
      /\ OutOf(q, a) \subseteq Active(q) /\ InTo(q, a) \subseteq Active(q)
  BY DEF OutOf, InTo, Active
<1>4. l \notin OutOf(r, a) /\ l \notin InTo(r, a)
  BY <1>0 DEF OutOf, InTo
<1>5. OutOf(q, a) = IF a = from THEN OutOf(r, a) \cup {l} ELSE OutOf(r, a)
  BY <1>1, <1>2, <1>4 DEF OutOf
<1>6. InTo(q, a) = IF a = to THEN InTo(r, a) \cup {l} ELSE InTo(r, a)
  BY <1>1, <1>2, <1>4 DEF InTo
<1>7. \A x \in Active(r) : x # l => q[x] = r[x]
  BY <1>2 DEF Active
<1>8. Held(r, OutOf(r, a)) \in Int /\ Held(r, InTo(r, a)) \in Int
  BY <1>0, <1>3, HeldTotal
<1>9. Held(q, OutOf(q, a)) = Held(r, OutOf(r, a)) + (IF a = from THEN amount ELSE 0)
  <2>1. \A x \in OutOf(r, a) : q[x] = r[x]
    BY <1>3, <1>4, <1>7
  <2>2. CASE a = from
    <3>1. OutOf(q, a) = OutOf(r, a) \cup {l}
      BY <1>5, <2>2
    <3>2. Held(q, OutOf(r, a) \cup {l}) = Held(r, OutOf(r, a)) + q[l].amount
      <4>1. Gains(r, q, OutOf(r, a), l)
        BY <1>0, <1>1, <1>3, <1>4, <2>1, <3>1 DEF Gains
      <4> QED BY <4>1, HeldMore
    <3> QED BY <1>1, <2>2, <3>1, <3>2
  <2>3. CASE a # from
    <3>1. OutOf(q, a) = OutOf(r, a)
      BY <1>5, <2>3
    <3>2. Held(q, OutOf(r, a)) = Held(r, OutOf(r, a))
      <4>1. Alike(r, q, OutOf(r, a))
        BY <1>0, <1>1, <1>3, <2>1, <3>1 DEF Alike
      <4> QED BY <4>1, HeldAlike
    <3> QED BY <1>8, <2>3, <3>1, <3>2
  <2> QED BY <2>2, <2>3
<1>10. Held(q, InTo(q, a)) = Held(r, InTo(r, a)) + (IF a = to THEN amount ELSE 0)
  <2>1. \A x \in InTo(r, a) : q[x] = r[x]
    BY <1>3, <1>4, <1>7
  <2>2. CASE a = to
    <3>1. InTo(q, a) = InTo(r, a) \cup {l}
      BY <1>6, <2>2
    <3>2. Held(q, InTo(r, a) \cup {l}) = Held(r, InTo(r, a)) + q[l].amount
      <4>1. Gains(r, q, InTo(r, a), l)
        BY <1>0, <1>1, <1>3, <1>4, <2>1, <3>1 DEF Gains
      <4> QED BY <4>1, HeldMore
    <3> QED BY <1>1, <2>2, <3>1, <3>2
  <2>3. CASE a # to
    <3>1. InTo(q, a) = InTo(r, a)
      BY <1>6, <2>3
    <3>2. Held(q, InTo(r, a)) = Held(r, InTo(r, a))
      <4>1. Alike(r, q, InTo(r, a))
        BY <1>0, <1>1, <1>3, <2>1, <3>1 DEF Alike
      <4> QED BY <4>1, HeldAlike
    <3> QED BY <1>8, <2>3, <3>1, <3>2
  <2> QED BY <2>2, <2>3
<1> QED BY <1>9, <1>10

LEMMA LeaseRemoved ==
    ASSUME NEW l \in Lease, NEW r, NEW q, Removed(r, q, l), NEW a
    PROVE  /\ Held(q, OutOf(q, a)) = Held(r, OutOf(r, a)) - (IF a = r[l].from THEN r[l].amount ELSE 0)
           /\ Held(q, InTo(q, a)) = Held(r, InTo(r, a)) - (IF a = r[l].to THEN r[l].amount ELSE 0)
<1>0. /\ r \in Records /\ r[l] # None /\ r[l].active
      /\ q = [r EXCEPT ![l].active = FALSE]
  BY DEF Removed
<1>1. q \in Records /\ ~q[l].active /\ r[l].amount \in Nat
  BY <1>0 DEF Records, LeaseRecord
<1>2. \A x \in Lease \ {l} : q[x] = r[x]
  BY <1>0 DEF Records
<1>3. OutOf(r, a) \subseteq Active(r) /\ InTo(r, a) \subseteq Active(r)
      /\ OutOf(q, a) \subseteq Active(q) /\ InTo(q, a) \subseteq Active(q)
  BY DEF OutOf, InTo, Active
<1>4. l \notin OutOf(q, a) /\ l \notin InTo(q, a)
  BY <1>1 DEF OutOf, InTo
<1>5. OutOf(r, a) = IF a = r[l].from THEN OutOf(q, a) \cup {l} ELSE OutOf(q, a)
  BY <1>0, <1>2, <1>4 DEF OutOf
<1>6. InTo(r, a) = IF a = r[l].to THEN InTo(q, a) \cup {l} ELSE InTo(q, a)
  BY <1>0, <1>2, <1>4 DEF InTo
<1>7. \A x \in Active(q) : x # l => r[x] = q[x]
  BY <1>2 DEF Active
<1>8. Held(q, OutOf(q, a)) \in Int /\ Held(q, InTo(q, a)) \in Int
  BY <1>1, <1>3, HeldTotal
<1>9. Held(q, OutOf(q, a)) = Held(r, OutOf(r, a)) - (IF a = r[l].from THEN r[l].amount ELSE 0)
  <2>1. \A x \in OutOf(q, a) : r[x] = q[x]
    BY <1>3, <1>4, <1>7
  <2>2. CASE a = r[l].from
    <3>1. OutOf(r, a) = OutOf(q, a) \cup {l}
      BY <1>5, <2>2
    <3>2. Held(r, OutOf(q, a) \cup {l}) = Held(q, OutOf(q, a)) + r[l].amount
      <4>1. Gains(q, r, OutOf(q, a), l)
        BY <1>0, <1>1, <1>3, <1>4, <2>1, <3>1 DEF Gains
      <4> QED BY <4>1, HeldMore
    <3> QED BY <1>1, <1>8, <2>2, <3>1, <3>2
  <2>3. CASE a # r[l].from
    <3>1. OutOf(r, a) = OutOf(q, a)
      BY <1>5, <2>3
    <3>2. Held(r, OutOf(q, a)) = Held(q, OutOf(q, a))
      <4>1. Alike(q, r, OutOf(q, a))
        BY <1>0, <1>1, <1>3, <2>1, <3>1 DEF Alike
      <4> QED BY <4>1, HeldAlike
    <3> QED BY <1>8, <2>3, <3>1, <3>2
  <2> QED BY <2>2, <2>3
<1>10. Held(q, InTo(q, a)) = Held(r, InTo(r, a)) - (IF a = r[l].to THEN r[l].amount ELSE 0)
  <2>1. \A x \in InTo(q, a) : r[x] = q[x]
    BY <1>3, <1>4, <1>7
  <2>2. CASE a = r[l].to
    <3>1. InTo(r, a) = InTo(q, a) \cup {l}
      BY <1>6, <2>2
    <3>2. Held(r, InTo(q, a) \cup {l}) = Held(q, InTo(q, a)) + r[l].amount
      <4>1. Gains(q, r, InTo(q, a), l)
        BY <1>0, <1>1, <1>3, <1>4, <2>1, <3>1 DEF Gains
      <4> QED BY <4>1, HeldMore
    <3> QED BY <1>1, <1>8, <2>2, <3>1, <3>2
  <2>3. CASE a # r[l].to
    <3>1. InTo(r, a) = InTo(q, a)
      BY <1>6, <2>3
    <3>2. Held(r, InTo(q, a)) = Held(q, InTo(q, a))
      <4>1. Alike(q, r, InTo(q, a))
        BY <1>0, <1>1, <1>3, <2>1, <3>1 DEF Alike
      <4> QED BY <4>1, HeldAlike
    <3> QED BY <1>8, <2>3, <3>1, <3>2
  <2> QED BY <2>2, <2>3
<1> QED BY <1>9, <1>10

LEMMA LeasesAddUpInit == Init => LeasesAddUp
<1> SUFFICES ASSUME Init PROVE LeasesAddUp
  OBVIOUS
<1>1. lease \in Records /\ \A l \in Lease : lease[l] = None
  BY DEF Init, Records
<1>2. ASSUME NEW a \in Account PROVE OutOf(lease, a) = {} /\ InTo(lease, a) = {}
  BY <1>1 DEF OutOf, InTo
<1>3. Held(lease, {}) = 0
  BY <1>1, HeldTotal, TotalEmpty
<1>4. \A a \in Account : leaseOut[a] = 0 /\ leaseIn[a] = 0
  BY DEF Init, Nobody
<1>5. AddUp(lease, leaseIn, leaseOut)
  BY <1>2, <1>3, <1>4 DEF AddUp
<1> QED BY <1>5, AddUpNow

LEMMA LeasesAddUpStep == Types /\ LeasesAddUp /\ [Next]_vars => LeasesAddUp'
<1> SUFFICES ASSUME Types, LeasesAddUp, [Next]_vars PROVE LeasesAddUp'
  OBVIOUS
<1>0. AddUp(lease, leaseIn, leaseOut) /\ lease \in Records
  BY AddUpNow DEF Types, Records
<1>1. CASE UNCHANGED <<leaseIn, leaseOut, lease>>
  BY <1>0, <1>1, AddUpNext
<1>2. ASSUME NEW l \in Lease, NEW from \in Account, NEW to \in Account, NEW amount \in Nat,
             Leasing(l, from, to, amount)
      PROVE  LeasesAddUp'
  <2>1. /\ lease[l] = None
        /\ lease' = [lease EXCEPT ![l] = [from |-> from, to |-> to, amount |-> amount, active |-> TRUE]]
    BY <1>2 DEF Leasing
  <2>2. ASSUME NEW a \in Account
        PROVE  leaseOut'[a] = Held(lease', OutOf(lease', a)) /\ leaseIn'[a] = Held(lease', InTo(lease', a))
    <3>1. /\ leaseOut'[a] = leaseOut[a] + (IF a = from THEN amount ELSE 0)
          /\ leaseIn'[a] = leaseIn[a] + (IF a = to THEN amount ELSE 0)
      BY <1>2 DEF Leasing, Types
    <3>2. leaseOut[a] = Held(lease, OutOf(lease, a)) /\ leaseIn[a] = Held(lease, InTo(lease, a))
      BY <1>0 DEF AddUp
    <3>3. /\ Held(lease', OutOf(lease', a)) = Held(lease, OutOf(lease, a)) + (IF a = from THEN amount ELSE 0)
          /\ Held(lease', InTo(lease', a)) = Held(lease, InTo(lease, a)) + (IF a = to THEN amount ELSE 0)
      <4>1. Added(lease, lease', l, from, to, amount)
        BY <1>0, <2>1 DEF Added
      <4> QED BY <4>1, LeaseAdded
    <3> QED BY <3>1, <3>2, <3>3
  <2> QED BY <2>2, AddUpNext DEF AddUp
<1>3. ASSUME NEW l \in Lease, NEW from \in Account, NEW to \in Account, NEW amount \in Nat,
             Cancelling(l, from, to, amount)
      PROVE  LeasesAddUp'
  <2>1. /\ lease[l] # None /\ lease[l].active
        /\ lease[l].from = from /\ lease[l].to = to /\ lease[l].amount = amount
        /\ lease' = [lease EXCEPT ![l].active = FALSE]
    BY <1>3 DEF Cancelling
  <2>2. ASSUME NEW a \in Account
        PROVE  leaseOut'[a] = Held(lease', OutOf(lease', a)) /\ leaseIn'[a] = Held(lease', InTo(lease', a))
    <3>1. /\ leaseOut'[a] = leaseOut[a] - (IF a = from THEN amount ELSE 0)
          /\ leaseIn'[a] = leaseIn[a] - (IF a = to THEN amount ELSE 0)
      BY <1>3 DEF Cancelling, Types
    <3>2. leaseOut[a] = Held(lease, OutOf(lease, a)) /\ leaseIn[a] = Held(lease, InTo(lease, a))
      BY <1>0 DEF AddUp
    <3>3. /\ Held(lease', OutOf(lease', a)) = Held(lease, OutOf(lease, a)) - (IF a = from THEN amount ELSE 0)
          /\ Held(lease', InTo(lease', a)) = Held(lease, InTo(lease, a)) - (IF a = to THEN amount ELSE 0)
      <4>1. Removed(lease, lease', l)
        BY <1>0, <2>1 DEF Removed
      <4> QED BY <2>1, <4>1, LeaseRemoved
    <3> QED BY <3>1, <3>2, <3>3
  <2> QED BY <2>2, AddUpNext DEF AddUp
<1> QED BY <1>1, <1>2, <1>3, LeaseSteps

(* The running totals of the two portfolios are the sums of the leases that *)
(* are active, however leases and cancellations follow one another.         *)
THEOREM LeasesAddUpAlways == Spec => []LeasesAddUp
<1>1. WeightInv => Types
  BY DEF WeightInv
<1> QED BY <1>1, LeasesAddUpInit, LeasesAddUpStep, WeightInvInit, WeightInvStep, PTL DEF Spec

-----------------------------------------------------------------------------
(* Coins *)

Coins(b) == Total(b, Account)

LEMMA CoinsInt ==
    ASSUME NEW b \in [Account -> Int]
    PROVE  SumFunction(b) = Coins(b) /\ Coins(b) \in Int /\ Addends(b, Account)
           /\ IsFiniteSet(Account)
<1>1. DOMAIN b = Account /\ Addends(b, Account) /\ IsFiniteSet(Account)
  BY LedgerAssumption DEF Addends
<1>2. SumFunction(b) = Total(b, Account)
  BY <1>1, TotalOfFunction
<1> QED BY <1>1, <1>2, TotalInt DEF Coins

(* An amount paid in or out of one account. *)
LEMMA CoinsMoved ==
    ASSUME NEW b \in [Account -> Int], NEW a \in Account, NEW n \in Int
    PROVE  /\ [b EXCEPT ![a] = @ + n] \in [Account -> Int]
           /\ Coins([b EXCEPT ![a] = @ + n]) = Coins(b) + n
<1> DEFINE e == [b EXCEPT ![a] = @ + n]
<1>1. e \in [Account -> Int] /\ b[a] \in Int /\ e[a] = b[a] + n
      /\ \A x \in Account \ {a} : e[x] = b[x]
  OBVIOUS
<1>2. IsFiniteSet(Account) /\ Addends(b, Account) /\ Coins(b) \in Int /\ e[a] \in Int
  BY <1>1, CoinsInt
<1> HIDE DEF e
<1>3. Total(e, Account) = Total(b, Account) - b[a] + e[a]
  BY <1>1, <1>2, TotalChange
<1>4. e \in [Account -> Int] /\ Coins(e) = Coins(b) + n
  BY <1>1, <1>2, <1>3 DEF Coins
<1> QED BY <1>4 DEF e

CoinsInv == Types /\ txs \in Nat /\ CoinsConserved

LEMMA TxsStep ==
    ASSUME txs \in Nat, [Next]_vars
    PROVE  txs' \in Nat
<1>1. ASSUME NEW b, NEW in, NEW out, NEW touched, Apply(b, in, out, touched) PROVE txs' \in Nat
  BY <1>1 DEF Apply
<1>2. ASSUME NEW a \in Account, GenesisTransaction(a) \/ Minting(a) PROVE txs' \in Nat
  BY <1>2 DEF GenesisTransaction, Minting
<1>3. ASSUME NEW from \in Account, NEW to \in Account, NEW amount \in Amounts,
             Payment(from, to, amount)
      PROVE  txs' \in Nat
  BY <1>1, <1>3 DEF Payment
<1>4. ASSUME NEW l \in Lease, NEW from \in Account, NEW to \in Account, NEW amount \in Amounts,
             LeaseTransaction(l, from, to, amount)
      PROVE  txs' \in Nat
  BY <1>1, <1>4 DEF LeaseTransaction
<1>5. ASSUME NEW l \in Lease, LeaseCancel(l) PROVE txs' \in Nat
  BY <1>1, <1>5 DEF LeaseCancel
<1>6. ASSUME NEW a \in Account, NEW k \in Slot,
             Contend(a, k) \/ ContendFailed(a, k) \/ Release(a, k)
      PROVE  txs' \in Nat
  BY <1>1, <1>6 DEF Contend, ContendFailed, Release
<1>7. CASE CloseBlock \/ UNCHANGED vars
  BY <1>7 DEF CloseBlock, vars
<1> QED BY <1>2, <1>3, <1>4, <1>5, <1>6, <1>7 DEF Next, Transaction

(* A block transaction pays its fee, and nothing else is issued.            *)
LEMMA FeeIssued ==
    ASSUME Types, txs \in Nat, NEW b, NEW in, NEW out, NEW touched, Apply(b, in, out, touched)
    PROVE  balance' = b /\ Issued = -Fee
<1>1. /\ height' = height /\ height # 0 /\ minted' = minted
      /\ txs' = txs + 1 /\ txs' > txs /\ balance' = b
  BY DEF Apply, closed, Types
<1>2. ~(height = 0 /\ height' = 0) /\ ~(minted' /\ ~minted)
  BY <1>1
<1> QED BY <1>1, <1>2 DEF Issued

LEMMA CoinsStep ==
    ASSUME CoinsInv, Next
    PROVE  Coins(balance') = Coins(balance) + Issued
<1>0. /\ Types /\ txs \in Nat /\ balance \in [Account -> Int] /\ balance' \in [Account -> Int]
      /\ height \in Nat
  BY TypesStep DEF CoinsInv, Types
<1>i. /\ SumFunction(balance) = Coins(balance) /\ Coins(balance) \in Int
      /\ SumFunction(balance') = Coins(balance') /\ Coins(balance') \in Int
  BY <1>0, CoinsInt
<1>n. /\ Fee \in Int /\ -Fee \in Int /\ MintingReward \in Int
      /\ \A n \in Amounts : n \in Int /\ -n - Fee \in Int
  <2>1. Fee \in Nat /\ MintingReward \in Nat /\ Amounts \subseteq Nat
    BY AmountTypes
  <2>2. ASSUME NEW n \in Amounts PROVE n \in Int /\ -n - Fee \in Int
    <3>1. n \in Nat
      BY <2>1
    <3> QED BY <2>1, <3>1
  <2> QED BY <2>1, <2>2
<1>c. ASSUME NEW a \in Account
      PROVE  Charged(a) = [balance EXCEPT ![a] = @ + (-Fee)]
  BY <1>0, <1>n DEF Charged
<1>f. ASSUME NEW a \in Account PROVE Coins(Charged(a)) = Coins(balance) + (-Fee)
  BY <1>0, <1>n, <1>c, CoinsMoved
<1>1. ASSUME NEW a \in Account, GenesisTransaction(a)
      PROVE  Coins(balance') = Coins(balance) + Issued
  <2>1. height = 0 /\ height' = 0
    BY <1>1 DEF GenesisTransaction
  <2> DEFINE d == SumFunction(balance') - SumFunction(balance)
  <2>2. Issued = CASE height = 0 /\ height' = 0 -> d
                   [] minted' /\ ~minted -> MintingReward
                   [] txs' > txs -> -Fee
                   [] OTHER -> 0
    BY DEF Issued
  <2>3. d \in Int /\ Coins(balance') = Coins(balance) + d
    BY <1>i
  <2>4. ~(minted' /\ ~minted) /\ ~(txs' > txs)
    BY <1>0, <1>1 DEF GenesisTransaction
  <2> HIDE DEF d
  <2>5. Issued = d
    BY <2>1, <2>2, <2>4
  <2> QED BY <2>3, <2>5
<1>2. ASSUME NEW a \in Account, Minting(a)
      PROVE  Coins(balance') = Coins(balance) + Issued
  <2>1. /\ height # 0 /\ minted' /\ ~minted /\ txs' = txs
        /\ balance' = [balance EXCEPT ![a] = @ + MintingReward]
    BY <1>0, <1>2 DEF Minting
  <2>2. Issued = MintingReward
    BY <1>0, <2>1 DEF Issued
  <2> QED BY <1>0, <1>n, <2>1, <2>2, CoinsMoved, ZenonT(60)
<1>3. ASSUME NEW from \in Account, NEW to \in Account, NEW amount \in Amounts,
             Payment(from, to, amount)
      PROVE  Coins(balance') = Coins(balance) + Issued
  <2> DEFINE paid == [balance EXCEPT ![to] = @ + amount]
             n == -amount - Fee
             b == [paid EXCEPT ![from] = @ + n]
             c == [paid EXCEPT ![from] = @ - amount - Fee]
  <2>1. paid \in [Account -> Int] /\ Coins(paid) = Coins(balance) + amount
    BY <1>0, <1>n, CoinsMoved
  <2>2. b = c
    <3>1. n \in Int /\ amount \in Int /\ Fee \in Int
      BY <1>n
    <3>3. paid[from] \in Int
      BY <2>1
    <3> HIDE DEF paid
    <3>4. paid[from] + n = paid[from] - amount - Fee
      BY <3>1, <3>3
    <3> QED BY <3>4
  <2>3. n \in Int
    BY <1>n
  <2>4. Coins(b) = Coins(paid) + n
    <3> HIDE DEF paid, n
    <3> QED BY <2>1, <2>3, CoinsMoved, ZenonT(60)
  <2>5. balance' = c /\ Issued = -Fee
    BY <1>0, <1>3, FeeIssued DEF Payment
  <2>6. amount \in Int /\ Fee \in Int
    BY <1>n
  <2> HIDE DEF b, c, paid
  <2> QED BY <1>i, <2>1, <2>2, <2>4, <2>5, <2>6
<1>4. ASSUME NEW l \in Lease, NEW from \in Account, NEW to \in Account, NEW amount \in Amounts,
             LeaseTransaction(l, from, to, amount)
      PROVE  Coins(balance') = Coins(balance) + Issued
  <2>1. balance' = Charged(from) /\ Issued = -Fee
    BY <1>0, <1>4, FeeIssued DEF LeaseTransaction
  <2> QED BY <1>f, <2>1
<1>5. ASSUME NEW l \in Lease, LeaseCancel(l)
      PROVE  Coins(balance') = Coins(balance) + Issued
  <2>1. lease[l].from \in Account
    BY <1>0, <1>5 DEF LeaseCancel, Types, LeaseRecord
  <2>2. balance' = Charged(lease[l].from) /\ Issued = -Fee
    BY <1>0, <1>5, FeeIssued DEF LeaseCancel
  <2> QED BY <1>f, <2>1, <2>2
<1>6. ASSUME NEW a \in Account, NEW k \in Slot,
             Contend(a, k) \/ ContendFailed(a, k) \/ Release(a, k)
      PROVE  Coins(balance') = Coins(balance) + Issued
  <2>1. Apply(Charged(a), leaseIn, leaseOut, {a})
    BY <1>6 DEF Contend, ContendFailed, Release
  <2>2. balance' = Charged(a) /\ Issued = -Fee
    BY <1>0, <2>1, FeeIssued
  <2> QED BY <1>f, <2>2
<1>7. ASSUME CloseBlock PROVE Coins(balance') = Coins(balance) + Issued
  <2>1. height' = height + 1 /\ ~minted' /\ txs' = 0 /\ balance' = balance
    BY <1>7 DEF CloseBlock
  <2>2. ~(height = 0 /\ height' = 0) /\ ~(txs' > txs)
    BY <1>0, <2>1
  <2>3. Issued = 0
    BY <2>1, <2>2 DEF Issued
  <2> QED BY <1>i, <2>1, <2>3
<1> QED BY <1>1, <1>2, <1>3, <1>4, <1>5, <1>6, <1>7 DEF Next, Transaction

LEMMA CoinsInvInit == AuditInit => CoinsInv
<1> SUFFICES ASSUME AuditInit PROVE CoinsInv
  OBVIOUS
<1>1. Types /\ Init /\ supply = 0
  BY TypesInit DEF AuditInit
<1>2. balance \in [Account -> Int] /\ \A a \in Account : balance[a] = 0
  BY <1>1 DEF Types, Init, Nobody
<1>3. Coins(balance) = 0 /\ SumFunction(balance) = Coins(balance)
  BY <1>2, CoinsInt, TotalZero DEF Coins
<1> QED BY <1>1, <1>3 DEF CoinsInv, CoinsConserved, Init

LEMMA CoinsInvStep == CoinsInv /\ [AuditNext]_auditVars => CoinsInv'
<1> SUFFICES ASSUME CoinsInv, [AuditNext]_auditVars PROVE CoinsInv'
  OBVIOUS
<1>1. [Next]_vars
  BY DEF AuditNext, auditVars
<1>2. Types' /\ txs' \in Nat
  BY <1>1, TypesStep, TxsStep DEF CoinsInv
<1>3. SumFunction(balance') = supply'
  <2>1. CASE AuditNext
    <3>1. Coins(balance') = Coins(balance) + Issued
      BY <2>1, CoinsStep DEF AuditNext
    <3>2. supply' = supply + Issued
      BY <2>1 DEF AuditNext
    <3>3. SumFunction(balance) = supply
      BY DEF CoinsInv, CoinsConserved
    <3>4. balance \in [Account -> Int] /\ balance' \in [Account -> Int]
      BY <1>2 DEF CoinsInv, Types
    <3> QED BY <3>1, <3>2, <3>3, <3>4, CoinsInt
  <2>2. CASE UNCHANGED auditVars
    BY <2>2 DEF auditVars, vars, CoinsInv, CoinsConserved
  <2> QED BY <2>1, <2>2
<1> QED BY <1>2, <1>3 DEF CoinsInv, CoinsConserved

(* The coins there are, at every moment, are those the genesis block and    *)
(* the minting transactions issued less the fees.                           *)
THEOREM CoinsConservedAlways == AuditSpec => []CoinsConserved
<1>1. CoinsInv => CoinsConserved
  BY DEF CoinsInv
<1> QED BY <1>1, CoinsInvInit, CoinsInvStep, PTL DEF AuditSpec

-----------------------------------------------------------------------------
(* The least effective balance *)

Level(s, p) == IF p = 0 THEN 0 ELSE s[p].effective

(* No snapshot is between one and its predecessor, and from one snapshot to *)
(* the next the effective balance was what the first says.                  *)
LinkOf(a) ==
    \A h, k \in DOMAIN snapshots[a] : ~(snapshots[a][h].prev < k /\ k < h)

KeptOf(a) ==
    /\ \A h \in DOMAIN snapshots[a] : past[h][a] = snapshots[a][h].effective
    /\ \A h \in DOMAIN snapshots[a], j \in 1 .. height :
          snapshots[a][h].prev <= j /\ j < h => past[j][a] = Level(snapshots[a], snapshots[a][h].prev)
    /\ \A j \in 1 .. height :
          lastUpdate[a] <= j => past[j][a] = Level(snapshots[a], lastUpdate[a])

(* Between two blocks the portfolios are as the last one left them.         *)
Resting ==
    (height > 0 /\ txs = 0 /\ ~minted) => \A a \in Account : Effective(a) = opening.effective[a]

PastType == past \in Seq([Account -> Int]) /\ Len(past) = height

PastInv ==
    /\ Types /\ txs \in Nat /\ SnapInv /\ PastType /\ Resting
    /\ \A a \in Account : LinkOf(a) /\ KeptOf(a)

LEMMA PastInvInit == AuditInit => PastInv
<1> SUFFICES ASSUME AuditInit PROVE PastInv
  OBVIOUS
<1>1. Init /\ past = <<>> /\ Types /\ SnapInv
  BY TypesInit, SnapInvInit DEF AuditInit
<1>2. height = 0 /\ txs = 0 /\ \A a \in Account : snapshots[a] = <<>>
  BY <1>1 DEF Init
<1>3. DOMAIN <<>> = {}
  OBVIOUS
<1>4. \A a \in Account : DOMAIN snapshots[a] = {}
  BY <1>2, <1>3
<1>5. PastType
  BY <1>1, <1>2 DEF PastType
<1>6. Resting
  BY <1>2 DEF Resting
<1>7. \A j : j \notin 1 .. height
  BY <1>2
<1>8. \A a \in Account : LinkOf(a) /\ KeptOf(a)
  BY <1>4, <1>7 DEF LinkOf, KeptOf
<1> QED BY <1>1, <1>2, <1>5, <1>6, <1>8 DEF PastInv

LEMMA RestingStep ==
    ASSUME Types, txs \in Nat, Resting, [Next]_vars
    PROVE  Resting'
<1>0. height \in Nat
  BY DEF Types
<1>1. ASSUME NEW b, NEW in, NEW out, NEW touched, Apply(b, in, out, touched) PROVE Resting'
  <2>1. txs' # 0
    BY <1>1 DEF Apply
  <2> QED BY <2>1 DEF Resting
<1>2. ASSUME NEW a \in Account, GenesisTransaction(a) PROVE Resting'
  <2>1. ~(height' > 0)
    BY <1>2 DEF GenesisTransaction
  <2> QED BY <2>1 DEF Resting
<1>3. ASSUME NEW a \in Account, Minting(a) PROVE Resting'
  BY <1>3 DEF Minting, Resting
<1>4. ASSUME NEW from \in Account, NEW to \in Account, NEW amount \in Amounts,
             Payment(from, to, amount)
      PROVE  Resting'
  BY <1>1, <1>4 DEF Payment
<1>5. ASSUME NEW l \in Lease, NEW from \in Account, NEW to \in Account, NEW amount \in Amounts,
             LeaseTransaction(l, from, to, amount)
      PROVE  Resting'
  BY <1>1, <1>5 DEF LeaseTransaction
<1>6. ASSUME NEW l \in Lease, LeaseCancel(l) PROVE Resting'
  BY <1>1, <1>6 DEF LeaseCancel
<1>7. ASSUME NEW a \in Account, NEW k \in Slot,
             Contend(a, k) \/ ContendFailed(a, k) \/ Release(a, k)
      PROVE  Resting'
  BY <1>1, <1>7 DEF Contend, ContendFailed, Release
<1>8. ASSUME CloseBlock PROVE Resting'
  <2>1. ASSUME NEW a \in Account PROVE Effective(a)' = opening'.effective[a]
    <3>1. opening'.effective[a] = Effective(a)
      BY <1>8, ClosedAccount
    <3>2. UNCHANGED <<balance, leaseIn, leaseOut>>
      BY <1>8 DEF CloseBlock
    <3> QED BY <3>1, <3>2 DEF Effective
  <2> QED BY <2>1 DEF Resting
<1>9. CASE UNCHANGED vars
  BY <1>9 DEF vars, Resting, Effective
<1> QED BY <1>2, <1>3, <1>4, <1>5, <1>6, <1>7, <1>8, <1>9 DEF Next, Transaction

(* What the end of a block adds to the past.                                *)
LEMMA PastStep ==
    ASSUME PastInv, CloseBlock, AuditNext
    PROVE  /\ PastType'
           /\ \A j \in 1 .. height : past'[j] = past[j]
           /\ past'[height + 1] = opening'.effective
<1>0. height \in Nat /\ past \in Seq([Account -> Int]) /\ Len(past) = height /\ Types
  BY DEF PastInv, PastType, Types
<1>1. height' = height + 1 /\ height' > height
  BY <1>0 DEF CloseBlock
<1> DEFINE e == opening'.effective
<1>2. e \in [Account -> Int]
  <2>1. e = [a \in Account |-> Effective(a)]
    BY DEF CloseBlock
  <2>2. \A a \in Account : Effective(a) \in Int
    BY <1>0, EffectiveInt
  <2> HIDE DEF e
  <2> QED BY <2>1, <2>2
<1>3. past' = Append(past, e)
  BY <1>1 DEF AuditNext
<1> HIDE DEF e
<1>4. /\ past' \in Seq([Account -> Int]) /\ Len(past') = height + 1
      /\ \A j \in 1 .. height : past'[j] = past[j]
      /\ past'[height + 1] = e
  BY <1>0, <1>2, <1>3, AppendProperties
<1> QED BY <1>1, <1>4 DEF PastType, e

LEMMA PastInvStep == PastInv /\ [AuditNext]_auditVars => PastInv'
<1> SUFFICES ASSUME PastInv, [AuditNext]_auditVars PROVE PastInv'
  OBVIOUS
<1>0. [Next]_vars
  BY DEF AuditNext, auditVars
<1>1. Types' /\ txs' \in Nat /\ SnapInv' /\ Resting'
  BY <1>0, TypesStep, TxsStep, SnapInvStep, RestingStep DEF PastInv
<1>2. CASE UNCHANGED closed
  <2>1. past' = past
    <3>1. height' = height /\ height \in Nat
      BY <1>2 DEF closed, PastInv, Types
    <3>2. ~(height' > height)
      BY <3>1
    <3> QED BY <3>2 DEF AuditNext, auditVars
  <2>2. PastType' /\ \A a \in Account : LinkOf(a)' /\ KeptOf(a)'
    BY <1>2, <2>1 DEF PastInv, PastType, LinkOf, KeptOf, closed
  <2> QED BY <1>1, <2>2 DEF PastInv
<1>3. CASE CloseBlock /\ AuditNext
  <2>1. /\ PastType' /\ \A j \in 1 .. height : past'[j] = past[j]
        /\ past'[height + 1] = opening'.effective
    BY <1>3, PastStep
  <2>2. ASSUME NEW a \in Account PROVE LinkOf(a)' /\ KeptOf(a)'
    <3>1. /\ height \in Nat /\ height' = height + 1
          /\ lastUpdate[a] \in Nat /\ lastUpdate[a] <= height
          /\ DOMAIN snapshots[a] \subseteq 1 .. height
          /\ \A h \in DOMAIN snapshots[a] : h <= lastUpdate[a]
          /\ ChainOf(a) /\ NewestOf(a) /\ LinkOf(a) /\ KeptOf(a)
      BY <1>3, CurrentParts DEF PastInv, SnapInv, SnapshotsPlaced, CloseBlock
    <3>2. opening'.effective[a] = Effective(a) /\ past'[height + 1][a] = Effective(a)
      BY <1>3, <2>1, ClosedAccount
    <3>3. CASE a \notin Moved
      <4>1. /\ snapshots'[a] = snapshots[a] /\ lastUpdate'[a] = lastUpdate[a]
            /\ Effective(a) = opening.effective[a]
        BY <1>3, <3>3, ClosedAccount
      <4>2. Effective(a) = Level(snapshots[a], lastUpdate[a])
        BY <3>1, <4>1 DEF NewestOf, Level
      <4>3. LinkOf(a)'
        BY <3>1, <4>1 DEF LinkOf
      <4>4. \A h \in DOMAIN (snapshots'[a]) : past'[h][a] = snapshots'[a][h].effective
        BY <2>1, <3>1, <4>1 DEF KeptOf
      <4>5. ASSUME NEW h \in DOMAIN (snapshots'[a]), NEW j \in 1 .. height',
                   snapshots'[a][h].prev <= j, j < h
            PROVE  past'[j][a] = Level(snapshots'[a], snapshots'[a][h].prev)
        <5>1. j \in 1 .. height /\ h \in DOMAIN snapshots[a]
          BY <3>1, <4>1, <4>5
        <5> QED BY <2>1, <3>1, <4>1, <4>5, <5>1 DEF KeptOf
      <4>6. ASSUME NEW j \in 1 .. height', lastUpdate'[a] <= j
            PROVE  past'[j][a] = Level(snapshots'[a], lastUpdate'[a])
        <5>1. CASE j = height + 1
          BY <3>2, <4>1, <4>2, <5>1
        <5>2. CASE j # height + 1
          <6>1. j \in 1 .. height
            BY <3>1, <5>2
          <6> QED BY <2>1, <3>1, <4>1, <4>6, <6>1 DEF KeptOf
        <5> QED BY <5>1, <5>2
      <4> QED BY <4>3, <4>4, <4>5, <4>6 DEF KeptOf
    <3>4. CASE a \in Moved
      <4> DEFINE n == height + 1
                 s == snapshots[a]
                 t == snapshots'[a]
      <4>1. /\ DOMAIN t = DOMAIN s \cup {n} /\ t[n] = Snapshot(a)
            /\ \A h \in DOMAIN s : h \in 1 .. height /\ t[h] = s[h]
            /\ lastUpdate'[a] = n
        <5>1. \A h \in DOMAIN snapshots[a] : h \in 1 .. height /\ h # height + 1
          BY <3>1
        <5> QED BY <1>3, <3>4, <5>1, ClosedAccount
      <4>2. t[n].prev = lastUpdate[a] /\ t[n].effective = Effective(a)
        BY <4>1, PrevOfSnapshot
      <4>3. n \in Nat /\ n > height /\ height' = n
        BY <3>1
      <4> HIDE DEF n, s, t
      <4>l. \A p : p \in DOMAIN s \cup {0} => Level(t, p) = Level(s, p)
        BY <4>1 DEF Level
      <4>p. \A h \in DOMAIN s : s[h].prev \in DOMAIN s \cup {0} /\ s[h].prev < h
        BY <3>1 DEF ChainOf, s
      <4>u. lastUpdate[a] \in DOMAIN s \cup {0}
        BY <3>1 DEF NewestOf, s
      <4>4. ASSUME NEW h \in DOMAIN t, NEW k \in DOMAIN t PROVE ~(t[h].prev < k /\ k < h)
        <5>1. CASE h = n
          BY <3>1, <4>1, <4>2, <4>3, <5>1 DEF s
        <5>2. CASE h # n
          <6>1. h \in DOMAIN s /\ t[h] = s[h] /\ h \in Nat /\ h < n
            BY <3>1, <4>1, <4>3, <5>2
          <6>2. CASE k = n
            BY <4>3, <6>1, <6>2
          <6>3. CASE k # n
            BY <3>1, <4>1, <6>1, <6>3 DEF LinkOf, s
          <6> QED BY <6>2, <6>3
        <5> QED BY <5>1, <5>2
      <4>5. ASSUME NEW h \in DOMAIN t PROVE past'[h][a] = t[h].effective
        <5>1. CASE h = n
          BY <3>2, <4>2, <5>1 DEF n
        <5>2. CASE h # n
          <6>1. h \in DOMAIN s /\ t[h] = s[h] /\ h \in 1 .. height
            BY <4>1, <5>2
          <6> QED BY <2>1, <3>1, <6>1 DEF KeptOf, s
        <5> QED BY <5>1, <5>2
      <4>6. ASSUME NEW h \in DOMAIN t, NEW j \in 1 .. height', t[h].prev <= j, j < h
            PROVE  past'[j][a] = Level(t, t[h].prev)
        <5>1. CASE h = n
          <6>1. j \in 1 .. height /\ lastUpdate[a] <= j
            BY <4>2, <4>6, <3>1, <5>1 DEF n
          <6>2. past[j][a] = Level(s, lastUpdate[a])
            BY <3>1, <6>1 DEF KeptOf, s
          <6> QED BY <2>1, <4>2, <4>l, <4>u, <5>1, <6>1, <6>2
        <5>2. CASE h # n
          <6>1. h \in DOMAIN s /\ t[h] = s[h] /\ h \in 1 .. height
            BY <4>1, <5>2
          <6>2. j \in 1 .. height /\ s[h].prev <= j
            BY <3>1, <4>3, <4>6, <6>1
          <6>3. past[j][a] = Level(s, s[h].prev)
            BY <3>1, <4>6, <6>1, <6>2 DEF KeptOf, s
          <6>4. Level(t, s[h].prev) = Level(s, s[h].prev)
            BY <4>l, <4>p, <6>1
          <6> QED BY <2>1, <6>1, <6>2, <6>3, <6>4
        <5> QED BY <5>1, <5>2
      <4>7. ASSUME NEW j \in 1 .. height', lastUpdate'[a] <= j
            PROVE  past'[j][a] = Level(t, lastUpdate'[a])
        <5>1. j = n /\ n # 0
          BY <3>1, <4>1, <4>3, <4>7
        <5>2. past'[n][a] = Effective(a)
          BY <3>2 DEF n
        <5> QED BY <4>1, <4>2, <5>1, <5>2 DEF Level
      <4> QED BY <4>4, <4>5, <4>6, <4>7 DEF LinkOf, KeptOf, t
    <3> QED BY <3>3, <3>4
  <2> QED BY <1>1, <2>1, <2>2 DEF PastInv
<1>4. (CloseBlock /\ AuditNext) \/ UNCHANGED closed
  <2>1. CASE UNCHANGED auditVars
    BY <2>1 DEF auditVars, vars, closed
  <2>2. CASE AuditNext
    BY <1>0, <2>2, ClosedSteps
  <2> QED BY <2>1, <2>2
<1> QED BY <1>2, <1>3, <1>4

Bottom(b) == IF b < 1 THEN 1 ELSE b
Over(a, i, j) == {past[x][a] : x \in i .. j}
Effs(g, h) == {s.effective : s \in g[h]}

(* What the walk finds from h down is what was the case from the bottom up  *)
(* to the last height before the effective balance changed again.           *)
WalkFinds(a, b, g, h) ==
    \A e \in h .. height :
        (e >= Bottom(b) /\ \A x \in h .. e : past[x][a] = past[h][a])
            => Effs(g, h) = Over(a, Bottom(b), e)

LEMMA PastFacts ==
    ASSUME PastInv, NEW a \in Account, NEW h \in DOMAIN snapshots[a]
    PROVE  /\ height \in Nat /\ h \in 1 .. height
           /\ past[h][a] = snapshots[a][h].effective
           /\ snapshots[a][h].prev \in Nat /\ snapshots[a][h].prev < h
           /\ snapshots[a][h].prev \in DOMAIN snapshots[a] \cup {0}
           /\ \A k \in DOMAIN snapshots[a] : ~(snapshots[a][h].prev < k /\ k < h)
           /\ \A j \in 1 .. height : snapshots[a][h].prev <= j /\ j < h =>
                 past[j][a] = Level(snapshots[a], snapshots[a][h].prev)
<1>1. /\ height \in Nat /\ DOMAIN snapshots[a] \subseteq 1 .. height
      /\ ChainOf(a) /\ LinkOf(a) /\ KeptOf(a)
  BY CurrentParts DEF PastInv, SnapInv, SnapshotsPlaced
<1> QED BY <1>1 DEF ChainOf, LinkOf, KeptOf

LEMMA WalkFindsMore ==
    ASSUME PastInv, NEW a \in Account, NEW b \in Int, NEW g, Walks(a, height, b, g),
           NEW h \in DOMAIN snapshots[a],
           \A k \in DOMAIN snapshots[a] : k < h => WalkFinds(a, b, g, k)
    PROVE  WalkFinds(a, b, g, h)
<1> DEFINE s == snapshots[a]
           p == s[h].prev
           low == Bottom(b)
<1>1. /\ height \in Nat /\ h \in 1 .. height
      /\ past[h][a] = s[h].effective
      /\ p \in Nat /\ p < h /\ p \in DOMAIN s \cup {0}
      /\ \A k \in DOMAIN s : ~(p < k /\ k < h)
      /\ \A j \in 1 .. height : p <= j /\ j < h => past[j][a] = Level(s, p)
  BY PastFacts
<1>2. low \in Nat /\ low >= 1 /\ (b >= 1 => low = b) /\ (b < 1 => low = 1)
  BY DEF Bottom
<1>3. SUFFICES ASSUME NEW e \in h .. height, e >= low, \A x \in h .. e : past[x][a] = past[h][a]
               PROVE  Effs(g, h) = Over(a, low, e)
  BY DEF WalkFinds
<1>4. g[h] = {s[h]} \cup (IF h <= b THEN {} ELSE g[p])
  <2>1. g[h] = Seen(a, height, b, g, h)
    BY DEF Walks, Heights
  <2>2. ~(h > height) /\ h # 0
    BY <1>1
  <2> QED BY <2>1, <2>2 DEF Seen
<1> HIDE DEF low
<1>5. CASE h <= b
  <2>1. low = b /\ h <= low
    BY <1>1, <1>2, <1>5
  <2>2. Effs(g, h) = {past[h][a]}
    BY <1>1, <1>4, <1>5 DEF Effs
  <2>3. \A x \in low .. e : past[x][a] = past[h][a]
    BY <1>1, <1>2, <1>3, <2>1
  <2>4. low \in low .. e
    BY <1>1, <1>2, <1>3
  <2> QED BY <2>2, <2>3, <2>4 DEF Over
<1>6. CASE h > b /\ p = 0
  <2> DEFINE v == IF 1 \in DOMAIN s THEN s[1] ELSE NoSnapshot
  <2>1. g[p] = {v}
    BY <1>6 DEF Walks, Heights, Seen
  <2>2. Effs(g, h) = {past[h][a], v.effective}
    <3>1. g[h] = {s[h], v}
      BY <1>4, <1>6, <1>1, <2>1
    <3> HIDE DEF v
    <3> QED BY <3>1, <1>1 DEF Effs
  <2>3. CASE 1 \in DOMAIN s
    <3>1. h = 1 /\ low = 1
      BY <1>1, <1>2, <1>6, <2>3
    <3>2. Effs(g, h) = {past[h][a]}
      BY <1>1, <2>2, <2>3, <3>1
    <3>3. h \in low .. e /\ \A x \in low .. e : past[x][a] = past[h][a]
      BY <1>1, <1>3, <3>1
    <3> QED BY <3>2, <3>3 DEF Over
  <2>4. CASE 1 \notin DOMAIN s
    <3>1. h >= 2 /\ low <= h - 1
      BY <1>1, <1>2, <1>6, <2>4
    <3>2. v.effective = 0
      BY <2>4 DEF NoSnapshot
    <3>3. \A x \in low .. e : past[x][a] = IF x < h THEN 0 ELSE past[h][a]
      <4>1. ASSUME NEW x \in low .. e, x < h PROVE past[x][a] = 0
        BY <1>1, <1>2, <1>6, <4>1 DEF Level
      <4>2. ASSUME NEW x \in low .. e, ~(x < h) PROVE past[x][a] = past[h][a]
        BY <1>1, <1>2, <1>3, <4>2
      <4> QED BY <4>1, <4>2
    <3>4. h \in low .. e /\ h - 1 \in low .. e /\ h - 1 < h /\ ~(h < h)
      BY <1>1, <1>2, <3>1
    <3>5. Over(a, low, e) = {past[h][a], 0}
      BY <3>3, <3>4 DEF Over
    <3> QED BY <2>2, <3>2, <3>5
  <2> QED BY <2>3, <2>4
<1>7. CASE h > b /\ p # 0
  <2>1. p \in DOMAIN s /\ p < h /\ p \in 1 .. height
    BY <1>1, <1>7
  <2>2. WalkFinds(a, b, g, p)
    BY <2>1
  <2>3. h - 1 \in p .. height /\ h - 1 >= low
    BY <1>1, <1>2, <1>7, <2>1
  <2>4. past[p][a] = s[p].effective
    BY <2>1, PastFacts
  <2>5. \A x \in p .. h - 1 : past[x][a] = past[p][a]
    <3>1. ASSUME NEW x \in p .. h - 1 PROVE past[x][a] = past[p][a]
      <4>1. x \in 1 .. height /\ p <= x /\ x < h
        BY <1>1, <2>1
      <4>2. past[x][a] = Level(s, p)
        BY <1>1, <4>1
      <4> QED BY <1>7, <2>4, <4>2 DEF Level
    <3> QED BY <3>1
  <2>6. Effs(g, p) = Over(a, low, h - 1)
    BY <2>2, <2>3, <2>5 DEF WalkFinds, low
  <2>7. Effs(g, h) = {past[h][a]} \cup Effs(g, p)
    <3>1. g[h] = {s[h]} \cup g[p]
      BY <1>1, <1>4, <1>7
    <3> HIDE DEF p, s
    <3> QED BY <1>1, <3>1 DEF Effs
  <2>8. Over(a, low, e) = Over(a, low, h - 1) \cup {past[h][a]}
    <3>1. low .. e = (low .. h - 1) \cup (h .. e)
      BY <1>1, <1>2, <2>3
    <3>2. h \in h .. e
      BY <1>1
    <3> QED BY <1>3, <3>1, <3>2 DEF Over
  <2> QED BY <2>6, <2>7, <2>8
<1> QED BY <1>1, <1>5, <1>6, <1>7

LEMMA WalkFindsAll ==
    ASSUME PastInv, NEW a \in Account, NEW b \in Int, NEW g, Walks(a, height, b, g),
           NEW h \in DOMAIN snapshots[a]
    PROVE  WalkFinds(a, b, g, h)
<1> DEFINE N == {k \in DOMAIN snapshots[a] : ~WalkFinds(a, b, g, k)}
<1>1. SUFFICES ASSUME N # {} PROVE FALSE
  OBVIOUS
<1>2. \A k \in DOMAIN snapshots[a] : k \in Nat
  BY PastFacts
<1>3. PICK m \in N : \A y \in N : m <= y
  <2>1. N \subseteq Nat
    BY <1>2
  <2> HIDE DEF N
  <2> QED BY <1>1, <2>1, LeastNumber
<1>4. ASSUME NEW k \in DOMAIN snapshots[a], k < m PROVE WalkFinds(a, b, g, k)
  <2>1. k \notin N
    <3>1. k \in Nat /\ m \in Nat
      BY <1>2
    <3> HIDE DEF N
    <3> QED BY <1>3, <1>4, <3>1
  <2> QED BY <2>1
<1>5. WalkFinds(a, b, g, m)
  BY <1>4, WalkFindsMore
<1> QED BY <1>3, <1>5

LEMMA FoundIsPast ==
    ASSUME PastInv, height > 0, txs = 0, ~minted, NEW a \in Account,
           NEW b \in Int, b <= height, NEW g, Walks(a, height, b, g)
    PROVE  Found(a, b, g) = Over(a, Bottom(b), height)
<1> DEFINE s == snapshots[a]
           low == Bottom(b)
           n == lastUpdate[a]
<1>1. /\ height \in Nat /\ n \in Nat /\ n <= height
      /\ NewestOf(a) /\ KeptOf(a) /\ Effective(a) = opening.effective[a]
  BY CurrentParts DEF PastInv, SnapInv, SnapshotsPlaced, Resting
<1>2. low \in 1 .. height /\ (b >= 1 => low = b)
  BY <1>1 DEF Bottom
<1>3. \A j \in 1 .. height : n <= j => past[j][a] = Level(s, n)
  BY <1>1 DEF KeptOf
<1> HIDE DEF low
<1>4. CASE n = 0
  <2>1. \A j \in low .. height : past[j][a] = 0
    BY <1>1, <1>2, <1>3, <1>4 DEF Level
  <2>2. low \in low .. height
    BY <1>2
  <2>3. Over(a, low, height) = {0}
    BY <2>1, <2>2 DEF Over
  <2> QED BY <1>4, <2>3 DEF Found, low
<1>5. CASE n # 0 /\ n < b
  <2>1. low = b
    BY <1>1, <1>2, <1>5
  <2>2. Level(s, n) = Effective(a)
    BY <1>1, <1>5 DEF Level, NewestOf
  <2>3. \A j \in low .. height : past[j][a] = Effective(a)
    BY <1>1, <1>2, <1>3, <1>5, <2>1, <2>2
  <2>4. low \in low .. height
    BY <1>2
  <2>5. Over(a, low, height) = {Effective(a)}
    BY <2>3, <2>4 DEF Over
  <2> QED BY <1>5, <2>5 DEF Found, low
<1>6. CASE n # 0 /\ ~(n < b)
  <2>1. n \in DOMAIN s
    BY <1>1, <1>6 DEF NewestOf
  <2>2. WalkFinds(a, b, g, n)
    BY <2>1, WalkFindsAll
  <2>3. height \in n .. height /\ height >= Bottom(b)
    BY <1>1, <1>2 DEF low
  <2>4. \A x \in n .. height : past[x][a] = past[n][a]
    BY <1>1, <1>3, <1>6
  <2>5. Effs(g, n) = Over(a, Bottom(b), height)
    BY <2>2, <2>3, <2>4 DEF WalkFinds
  <2> QED BY <1>6, <2>5 DEF Found, Effs
<1> QED BY <1>4, <1>5, <1>6

LEMMA PastImplies == PastInv => MinBySnapshotIsMinimum
<1> SUFFICES ASSUME PastInv, height > 0, txs = 0, ~minted,
                    NEW a \in Account, NEW confirmations \in 0 .. MaxHeight
             PROVE  MinBySnapshot(a, height, confirmations)
                    = Min({past[h][a] : h \in
                             (IF height - confirmations < 1 THEN 1 ELSE height - confirmations) .. height})
  BY DEF MinBySnapshotIsMinimum
<1> DEFINE b == height - confirmations
<1>1. b \in Int /\ b <= height
  BY DEF PastInv, Types
<1>2. PICK g : /\ Walks(a, height, b, g)
               /\ MinBySnapshot(a, height, confirmations) = Min(Found(a, b, g))
  BY MinBySnapshotWalks DEF PastInv
<1> HIDE DEF b
<1>3. Found(a, b, g) = Over(a, Bottom(b), height)
  BY <1>1, <1>2, FoundIsPast
<1> QED BY <1>2, <1>3 DEF Over, Bottom, b

(* The walk over the few snapshots an account has answers what a search     *)
(* through its effective balance at every height would.                     *)
THEOREM MinBySnapshotIsMinimumAlways == AuditSpec => []MinBySnapshotIsMinimum
<1> QED BY PastImplies, PastInvInit, PastInvStep, PTL DEF AuditSpec
=============================================================================
