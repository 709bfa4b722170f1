------------------------------- MODULE MCNode -------------------------------
(* A tree of blocks with two branches, own blocks on both of them, and two  *)
(* transactions of which the second spends what the first brings.           *)
EXTENDS Node

CONSTANTS g, b1, b2, b3, c1, c2, o0, o1, o2, oc, t1, t2

MCReference == (g :> NoBlock) @@ (b1 :> g) @@ (b2 :> b1) @@ (b3 :> b2)
               @@ (c1 :> g) @@ (c2 :> c1) @@ (o0 :> g) @@ (o1 :> b1) @@ (o2 :> o1) @@ (oc :> c1)
MCValid == Block \ {b3}
MCOwn == {o0, o1, o2, oc}
MCTimestamp == [b \in Block |-> IF b \in {g, b1} THEN 0 ELSE IF b = c1 THEN 1 ELSE 2]
MCContent == [b \in Block |-> IF b \in {b1, c2} THEN {t1} ELSE IF b = b2 THEN {t2} ELSE {}]
MCNeeds == (t1 :> {}) @@ (t2 :> {t1})

Always == [b \in Block |-> "own"]
Lost == [b \in Block |-> CASE b = b2 -> "empty" [] b = c1 -> "none" [] OTHER -> "own"]

(* What validation says of a block when another block is last: it sees no  *)
(* change, or, after b2, ends in an exception.                              *)
Lax == [p \in Block \X Block |-> IF p[1] = o2 THEN "invalid" ELSE "ok"]
Throwing == [p \in Block \X Block |->
                IF p[2] = b2 THEN "throws" ELSE IF p[1] = o2 THEN "invalid" ELSE "ok"]

BlockJob(b) == [kind |-> "block", blocks |-> <<b>>]
ForkJob(s) == [kind |-> "fork", blocks |-> s]
Forks == {BlockJob(b1), BlockJob(b2), ForkJob(<<b1, b2, b3>>), ForkJob(<<c1, c2>>)}
FewForks == {BlockJob(b1), ForkJob(<<c1, c2>>)}

MinersAlike == Permutations(Miners)
=============================================================================
