--------------------------- MODULE MintingWeight ---------------------------
(***************************************************************************)
(* The weight of one stake over many blocks, in some of which the account  *)
(* is touched: a balance change that nets to nothing in effective balance, *)
(* or a fee paid and received back, makes BlockDiffer take a snapshot and  *)
(* with it restart the clock of weightedBalaceCalc.                        *)
(***************************************************************************)
EXTENDS SPoSCalc

CONSTANT MaxBalance     \* bound on the effective balance

ASSUME MaxBalanceAssumption == MaxBalance \in Nat

VARIABLES
    effective,  \* the effective balance, the same all along
    start,      \* the weight when we began to watch
    age,        \* blocks since; what comes after a day is a day
    weighted,   \* Snapshot.weightedBalance of the newest snapshot
    since       \* blocks since the newest snapshot, up to a day

vars == <<effective, start, age, weighted, since>>

TypeOK ==
    /\ effective \in 0 .. MaxBalance /\ start \in 0 .. effective
    /\ age \in 0 .. MaxUpdateBlocks /\ since \in 0 .. age
    /\ weighted \in 0 .. effective

(* A weight never exceeds the balance it was capped by. *)
Init ==
    /\ effective \in 0 .. MaxBalance
    /\ start \in 0 .. effective
    /\ age = 0 /\ since = 0 /\ weighted = start

(* mintingBalance: a snapshot of this very block answers for itself. *)
Weight ==
    IF since = 0 THEN weighted ELSE WeightedBalance(since, effective, weighted, effective)

NextWeightAnew == WeightedBalance(age + 1, effective, Weight, effective)
NextWeight == WeightedBalance(since + 1, effective, weighted, effective)

(* A block without a change to the account. *)
Pass ==
    /\ age' = AtMost(MaxUpdateBlocks, age + 1)
    /\ since' = AtMost(MaxUpdateBlocks, since + 1)
    /\ UNCHANGED <<effective, start, weighted>>

(* A block that touches it. *)
Touch ==
    /\ age' = AtMost(MaxUpdateBlocks, age + 1) /\ since' = 0
    /\ weighted' = NextWeight
    /\ UNCHANGED <<effective, start>>

Next == Pass \/ Touch

Spec == Init /\ [][Next]_vars

-----------------------------------------------------------------------------
(* However often the account is touched, it weighs no more than if it had  *)
(* been left alone: churning a balance buys no minting right.              *)
ChurnNeverPays ==
    age > 0 => Weight <= WeightedBalance(age, effective, start, effective)

(* A day untouched is enough for the full weight, less what the division   *)
(* by the day drops, whatever the weight was.                              *)
FullAfterADay ==
    since >= MaxUpdateBlocks =>
        Weight = (effective \div MaxUpdateBlocks) * MaxUpdateBlocks
=============================================================================
