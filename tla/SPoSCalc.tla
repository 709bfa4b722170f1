------------------------------ MODULE SPoSCalc ------------------------------
(***************************************************************************)
(* The weight of a stake (SPoSCalc.weightedBalaceCalc).  A stake gains its *)
(* weight over MaxUpdateBlocks blocks; the weight decides who may take a   *)
(* minting slot and is the score of a block.                               *)
(***************************************************************************)
EXTENDS Integers

CONSTANT MaxUpdateBlocks    \* blocks in a day: 24 * 60 * 60 / mintingSpeed

ASSUME MaxUpdateBlocksAssumption == MaxUpdateBlocks \in Nat \ {0}

AtMost(limit, n) == IF n < limit THEN n ELSE limit

WeightedBalanceUncapped(heightDiff, lastEffective, lastWeighted, effective) ==
    LET age == AtMost(MaxUpdateBlocks, heightDiff)
    IN  (lastEffective \div MaxUpdateBlocks) * age
        + (lastWeighted \div MaxUpdateBlocks) * (MaxUpdateBlocks - age)

WeightedBalanceKept(heightDiff, lastEffective, lastWeighted, effective) ==
    LET age == AtMost(MaxUpdateBlocks, heightDiff)
    IN  AtMost(effective,
               (lastEffective \div MaxUpdateBlocks) * age
               + lastWeighted)

(* The old weight decays as the balance of the last update gains its own;  *)
(* what is left of the balance now is the limit.                           *)
WeightedBalance(heightDiff, lastEffective, lastWeighted, effective) ==
    LET age == AtMost(MaxUpdateBlocks, heightDiff)
    IN  AtMost(effective,
               (lastEffective \div MaxUpdateBlocks) * age
               + (lastWeighted \div MaxUpdateBlocks) * (MaxUpdateBlocks - age))
=============================================================================
