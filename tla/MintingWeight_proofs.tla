------------------------ MODULE MintingWeight_proofs ------------------------
(* Theorems about MintingWeight for every length of the day and every        *)
(* balance.                                                                  *)
EXTENDS MintingWeight, TLAPS

M == MaxUpdateBlocks

(* What a block adds to the weight, for a balance and for an old weight.    *)
Full == effective \div M
Started == start \div M
Old == weighted \div M

LEMMA Division ==
    ASSUME NEW m \in Nat \ {0}, NEW x \in Nat
    PROVE  x \div m \in Nat /\ (x \div m) * m <= x /\ x < (x \div m) * m + m
  OBVIOUS

LEMMA DivisionMonotone ==
    ASSUME NEW m \in Nat \ {0}, NEW x \in Nat, NEW y \in Nat, x <= y
    PROVE  x \div m <= y \div m
<1> DEFINE p == x \div m
           q == y \div m
<1>1. /\ p \in Nat /\ p * m <= x /\ q \in Nat /\ y < q * m + m
  BY Division
<1> HIDE DEF p, q
<1>2. ASSUME p >= q + 1 PROVE FALSE
  <2>1. p * m >= (q + 1) * m
    BY <1>1, <1>2
  <2>2. (q + 1) * m = q * m + m
    BY <1>1
  <2> QED BY <1>1, <2>1, <2>2
<1> QED BY <1>1, <1>2 DEF p, q

(* What two factors that shrink by one lose: the larger product stays the   *)
(* larger when the second factor is the smaller one.                        *)
LEMMA OneBlockLess ==
    ASSUME NEW a \in Nat, NEW b \in Nat, NEW p \in Nat \ {0}, NEW q \in Nat \ {0},
           p >= q, a * p >= b * q
    PROVE  a * (p - 1) >= b * (q - 1)
<1>1. a * (p - 1) = a * p - a /\ b * (q - 1) = b * q - b
  OBVIOUS
<1>2. CASE a >= b
  <2>1. a * (p - 1) >= b * (p - 1)
    BY <1>2
  <2>2. b * (p - 1) >= b * (q - 1)
    OBVIOUS
  <2>3. a * (p - 1) \in Int /\ b * (p - 1) \in Int /\ b * (q - 1) \in Int
    OBVIOUS
  <2> QED BY <2>1, <2>2, <2>3
<1>3. CASE a < b
  <2>1. a * p \in Int /\ b * q \in Int
    OBVIOUS
  <2> QED BY <1>1, <1>3, <2>1
<1> QED BY <1>2, <1>3

(* The cap by the balance now binds nothing while the balance stands still. *)
LEMMA Uncapped ==
    ASSUME NEW e \in Nat, NEW w \in Nat, w <= e, NEW h \in 0 .. M
    PROVE  /\ WeightedBalance(h, e, w, e) = (e \div M) * M - (e \div M - w \div M) * (M - h)
           /\ WeightedBalance(h, e, w, e) \in 0 .. e
           /\ e \div M \in Nat /\ w \div M \in Nat /\ w \div M <= e \div M
<1> DEFINE f == e \div M
           g == w \div M
<1>0. M \in Nat \ {0} /\ h \in Nat /\ M - h \in Nat
  BY MaxUpdateBlocksAssumption DEF M
<1>1. f \in Nat /\ f * M <= e /\ g \in Nat
  BY <1>0, Division
<1>2. g <= f
  BY <1>0, DivisionMonotone
<1>3. AtMost(MaxUpdateBlocks, h) = h
  BY <1>0 DEF AtMost, M
<1>4. WeightedBalance(h, e, w, e) = AtMost(e, f * h + g * (M - h))
  BY <1>3 DEF WeightedBalance, M
<1> HIDE DEF f, g
<1>5. f * h + g * (M - h) = f * M - (f - g) * (M - h)
  BY <1>0, <1>1
<1>6. (f - g) * (M - h) >= 0
  BY <1>0, <1>1, <1>2
<1>7. f * h >= 0 /\ g * (M - h) >= 0
  BY <1>0, <1>1
<1>8. f * h \in Int /\ g * (M - h) \in Int /\ f * M \in Int /\ (f - g) * (M - h) \in Int
  BY <1>0, <1>1
<1>9. f * h + g * (M - h) <= e /\ f * h + g * (M - h) >= 0
  BY <1>1, <1>5, <1>6, <1>7, <1>8
<1>10. AtMost(e, f * h + g * (M - h)) = f * h + g * (M - h)
  BY <1>8, <1>9 DEF AtMost
<1> QED BY <1>1, <1>2, <1>4, <1>5, <1>8, <1>9, <1>10 DEF f, g

(* The inductive invariant.  What the weight lacks of the full one is, at   *)
(* every moment, at least what a stake left alone would lack; a snapshot    *)
(* taken this very block answers with its rounded value, and lacks no less. *)
ChurnInv ==
    /\ TypeOK
    /\ (Full - Old) * (M - since) >= (Full - Started) * (M - age)
    /\ since = 0 /\ age > 0 => weighted <= Full * M - (Full - Started) * (M - age)

LEMMA ChurnTypes ==
    ASSUME TypeOK
    PROVE  /\ M \in Nat \ {0} /\ effective \in Nat /\ start \in Nat /\ weighted \in Nat
           /\ age \in Nat /\ since \in Nat /\ since <= age /\ age <= M
           /\ start <= effective /\ weighted <= effective
           /\ Full \in Nat /\ Old \in Nat /\ Started \in Nat
           /\ Old <= Full /\ Started <= Full
<1>1. /\ M \in Nat \ {0} /\ effective \in Nat /\ start \in Nat /\ weighted \in Nat
      /\ age \in Nat /\ since \in Nat /\ since <= age /\ age <= M
      /\ start <= effective /\ weighted <= effective
  BY MaxUpdateBlocksAssumption, MaxBalanceAssumption DEF TypeOK, M
<1> QED BY <1>1, Division, DivisionMonotone DEF Full, Old, Started

LEMMA ChurnInit == Init => ChurnInv
<1> SUFFICES ASSUME Init PROVE ChurnInv
  OBVIOUS
<1>1. TypeOK
  BY MaxUpdateBlocksAssumption, MaxBalanceAssumption DEF Init, TypeOK
<1>2. Old = Started /\ since = 0 /\ age = 0
  BY DEF Init, Old, Started
<1> QED BY <1>1, <1>2, ChurnTypes DEF ChurnInv

LEMMA ChurnImplied == ChurnInv => ChurnNeverPays /\ FullAfterADay
<1> SUFFICES ASSUME ChurnInv PROVE ChurnNeverPays /\ FullAfterADay
  OBVIOUS
<1>t. /\ M \in Nat \ {0} /\ effective \in Nat /\ start \in Nat /\ weighted \in Nat
      /\ age \in Nat /\ since \in Nat /\ since <= age /\ age <= M
      /\ start <= effective /\ weighted <= effective
      /\ Full \in Nat /\ Old \in Nat /\ Started \in Nat
      /\ Old <= Full /\ Started <= Full
  BY ChurnTypes DEF ChurnInv
<1>a. WeightedBalance(age, effective, start, effective) = Full * M - (Full - Started) * (M - age)
  <2>1. age \in 0 .. M /\ effective \in Nat /\ start \in Nat /\ start <= effective
    BY <1>t
  <2>2. WeightedBalance(age, effective, start, effective)
        = (effective \div M) * M - (effective \div M - start \div M) * (M - age)
    BY <2>1, Uncapped
  <2> QED BY <2>2 DEF Full, Started
<1>s. WeightedBalance(since, effective, weighted, effective) = Full * M - (Full - Old) * (M - since)
  <2>1. since \in 0 .. M /\ effective \in Nat /\ weighted \in Nat /\ weighted <= effective
    BY <1>t
  <2>2. WeightedBalance(since, effective, weighted, effective)
        = (effective \div M) * M - (effective \div M - weighted \div M) * (M - since)
    BY <2>1, Uncapped
  <2> QED BY <2>2 DEF Full, Old
<1>i. /\ Full * M \in Int /\ (Full - Started) * (M - age) \in Int
      /\ (Full - Old) * (M - since) \in Int
  BY <1>t
<1>1. ChurnNeverPays
  <2>1. CASE since = 0
    BY <2>1, <1>a DEF ChurnInv, ChurnNeverPays, Weight
  <2>2. CASE since # 0
    <3>1. Full * M - (Full - Old) * (M - since) <= Full * M - (Full - Started) * (M - age)
      BY <1>i DEF ChurnInv
    <3> QED BY <2>2, <3>1, <1>a, <1>s DEF ChurnNeverPays, Weight
  <2> QED BY <2>1, <2>2
<1>2. ASSUME since >= MaxUpdateBlocks
      PROVE  Weight = (effective \div MaxUpdateBlocks) * MaxUpdateBlocks
  <2>1. since = M /\ since # 0
    BY <1>2, <1>t DEF M
  <2>2. (Full - Old) * (M - since) = 0
    BY <2>1, <1>t
  <2>3. Weight = Full * M
    BY <2>1, <2>2, <1>s, <1>i DEF Weight
  <2> QED BY <2>3 DEF Full, M
<1> QED BY <1>1, <1>2 DEF FullAfterADay

LEMMA ChurnStep == ChurnInv /\ [Next]_vars => ChurnInv'
<1> SUFFICES ASSUME ChurnInv, [Next]_vars PROVE ChurnInv'
  OBVIOUS
<1>t. /\ M \in Nat \ {0} /\ effective \in Nat /\ start \in Nat /\ weighted \in Nat
      /\ age \in Nat /\ since \in Nat /\ since <= age /\ age <= M
      /\ start <= effective /\ weighted <= effective
      /\ Full \in Nat /\ Old \in Nat /\ Started \in Nat
      /\ Old <= Full /\ Started <= Full
  BY ChurnTypes DEF ChurnInv
<1> DEFINE a == Full - Old
           b == Full - Started
           next == AtMost(M, age + 1)
<1>c. a \in Nat /\ b \in Nat
  BY <1>t
<1>k. a * (M - since) >= b * (M - age)
  BY DEF ChurnInv
<1>n. next \in Nat /\ next <= M /\ (age < M => next = age + 1) /\ (age = M => next = M)
  BY <1>t DEF AtMost
<1> HIDE DEF a, b, next
(* One more block without a snapshot. *)
<1>1. ASSUME NEW t \in Nat, t = AtMost(M, since + 1)
      PROVE  t <= next /\ a * (M - t) >= b * (M - next)
  <2>1. CASE age < M
    <3>1. t = since + 1 /\ next = age + 1
      BY <1>1, <1>t, <1>n, <2>1 DEF AtMost
    <3> DEFINE p == M - since
               q == M - age
    <3>2. p \in Nat \ {0} /\ q \in Nat \ {0} /\ p >= q
      BY <1>t, <2>1
    <3>3. M - t = p - 1 /\ M - next = q - 1
      BY <1>t, <3>1
    <3>4. a * p >= b * q
      BY <1>k
    <3> HIDE DEF p, q
    <3>5. a * (p - 1) >= b * (q - 1)
      BY <1>c, <3>2, <3>4, OneBlockLess
    <3> QED BY <1>t, <3>1, <3>3, <3>5
  <2>2. CASE age = M
    <3>1. next = M /\ t <= M
      BY <1>1, <1>t, <1>n, <2>2 DEF AtMost
    <3>2. b * (M - next) = 0 /\ a * (M - t) >= 0
      BY <1>t, <1>c, <3>1
    <3> QED BY <3>1, <3>2
  <2> QED BY <1>t, <2>1, <2>2
<1>2. CASE Pass
  <2>1. /\ age' = next /\ since' = AtMost(M, since + 1)
        /\ Full' = Full /\ Old' = Old /\ Started' = Started
        /\ effective' = effective /\ start' = start /\ weighted' = weighted
    BY <1>2 DEF Pass, next, Full, Old, Started, M
  <2>2. since' \in Nat /\ since' # 0 /\ since' <= M
    BY <2>1, <1>t DEF AtMost
  <2>3. since' <= age' /\ (Full' - Old') * (M - since') >= (Full' - Started') * (M - age')
    BY <1>1, <2>1, <2>2 DEF a, b
  <2>4. TypeOK'
    BY <1>t, <1>n, <2>1, <2>2, <2>3 DEF ChurnInv, TypeOK, M
  <2> QED BY <2>2, <2>3, <2>4 DEF ChurnInv, M
<1>3. CASE Touch
  <2> DEFINE t == AtMost(M, since + 1)
             w == Full * M - a * (M - t)
  <2>1. /\ age' = next /\ since' = 0 /\ weighted' = NextWeight
        /\ Full' = Full /\ Started' = Started
        /\ effective' = effective /\ start' = start
    BY <1>3 DEF Touch, next, Full, Started, M
  <2>2. t \in Nat /\ t \in 0 .. M
    BY <1>t DEF AtMost
  <2>3. NextWeight = WeightedBalance(t, effective, weighted, effective)
    BY <1>t, <2>2 DEF NextWeight, WeightedBalance, AtMost, M
  <2>4. NextWeight = w /\ NextWeight \in 0 .. effective
    <3>1. effective \in Nat /\ weighted \in Nat /\ weighted <= effective
      BY <1>t
    <3> HIDE DEF t
    <3>2. /\ NextWeight = (effective \div M) * M - (effective \div M - weighted \div M) * (M - t)
          /\ NextWeight \in 0 .. effective
      BY <2>2, <2>3, <3>1, Uncapped
    <3> QED BY <3>2 DEF Full, Old, a
  <2>5. t <= next /\ a * (M - t) >= b * (M - next)
    BY <1>1, <2>2
  <2>6. w <= Full * M - b * (M - next)
    <3>1. a * (M - t) \in Int /\ b * (M - next) \in Int /\ Full * M \in Int
      BY <1>t, <1>c, <1>n, <2>2
    <3> HIDE DEF t
    <3> QED BY <2>5, <3>1
  <2> HIDE DEF t, w
  <2>7. weighted' \in Nat /\ weighted' <= effective /\ weighted' <= Full * M - b * (M - next)
    BY <1>t, <2>1, <2>4, <2>6
  <2>8. Old' \in Nat /\ Old' * M <= weighted' /\ Old' <= Full
    <3>1. Old' = weighted' \div M
      BY DEF Old, M
    <3> QED BY <1>t, <2>7, <3>1, Division, DivisionMonotone DEF Full
  <2>9. (Full - Old') * M >= b * (M - next)
    <3>1. (Full - Old') * M = Full * M - Old' * M
      BY <1>t, <2>8
    <3>2. Full * M \in Int /\ Old' * M \in Int /\ b * (M - next) \in Int
      BY <1>t, <1>c, <1>n, <2>8
    <3> QED BY <2>7, <2>8, <3>1, <3>2
  <2>10. TypeOK'
    BY <1>t, <1>n, <2>1, <2>7 DEF ChurnInv, TypeOK, M
  <2>11. (Full' - Old') * (M - since') >= (Full' - Started') * (M - age')
    <3>1. M - since' = M /\ Full' - Started' = b
      BY <1>t, <2>1 DEF b
    <3> QED BY <2>1, <2>9, <3>1
  <2>12. weighted' <= Full' * M - (Full' - Started') * (M - age')
    BY <2>1, <2>7 DEF b
  <2> QED BY <2>10, <2>11, <2>12 DEF ChurnInv, M
<1>4. CASE UNCHANGED vars
  BY <1>4 DEF vars, ChurnInv, TypeOK, Full, Old, Started, M
<1> QED BY <1>2, <1>3, <1>4 DEF Next

-----------------------------------------------------------------------------
(* Theorems *)

LEMMA ChurnInvariant == Spec => []ChurnInv
<1> QED BY ChurnInit, ChurnStep, PTL DEF Spec

(* No pattern of snapshots makes a standing balance weigh more than leaving *)
(* it alone does, the two integer divisions included.                       *)
THEOREM ChurnNeverPaysAlways == Spec => []ChurnNeverPays
<1> QED BY ChurnInvariant, ChurnImplied, PTL

(* A day without a snapshot gives the full weight.                          *)
THEOREM FullAfterADayAlways == Spec => []FullAfterADay
<1> QED BY ChurnInvariant, ChurnImplied, PTL
=============================================================================
