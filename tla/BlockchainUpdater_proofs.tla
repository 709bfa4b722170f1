---------------------- MODULE BlockchainUpdater_proofs ----------------------
(* Theorems about BlockchainUpdater, and about the reads that StateReaders   *)
(* puts beside it, for every tree of blocks and every                        *)
(* minimumInMemoryDiffSize.                                                  *)
EXTENDS StateReaders, FiniteSetTheorems, SequenceTheorems, WellFoundedInduction,
        TLAPS

-----------------------------------------------------------------------------
(* Sequences of blocks. *)

(* A range of heights of a chain is a sequence of its blocks. *)
LEMMA SubSeqType ==
    ASSUME NEW s \in Seq(Block), NEW m \in Nat, NEW n \in Int, 1 <= m, n <= Len(s)
    PROVE  /\ SubSeq(s, m, n) \in Seq(Block)
           /\ Len(SubSeq(s, m, n)) = IF m <= n THEN n - m + 1 ELSE 0
           /\ \A i \in 1 .. n - m + 1 : SubSeq(s, m, n)[i] = s[m + i - 1]
<1>1. \A i \in m .. n : s[i] \in Block
  BY LenProperties, ElementOfSeq
<1> QED BY <1>1, SubSeqProperties

(* discardBlock shortens the chain by its last block. *)
LEMMA FrontType ==
    ASSUME NEW s \in Seq(Block), s # <<>>
    PROVE  Front(s) \in Seq(Block) /\ Len(Front(s)) = Len(s) - 1
<1>1. Len(s) \in Nat \ {0}
  BY EmptySeq
<1> DEFINE n == Len(s) - 1
<1>2. n \in Nat /\ n <= Len(s)
  BY <1>1
<1>3. SubSeq(s, 1, n) \in Seq(Block) /\ Len(SubSeq(s, 1, n)) = IF 1 <= n THEN n - 1 + 1 ELSE 0
  BY <1>2, SubSeqType
<1>4. Front(s) = SubSeq(s, 1, n)
  BY DEF Front
<1> HIDE DEF n
<1>5. Front(s) \in Seq(Block) /\ Len(Front(s)) = n
  BY <1>2, <1>3, <1>4
<1> QED BY <1>5 DEF n

LEMMA RangeConcat ==
    ASSUME NEW s \in Seq(Block), NEW t \in Seq(Block)
    PROVE  Range(s \o t) = Range(s) \cup Range(t)
<1> DEFINE u == s \o t
<1>1. /\ u \in Seq(Block) /\ Len(u) = Len(s) + Len(t) /\ Len(s) \in Nat /\ Len(t) \in Nat
      /\ \A i \in 1 .. Len(s) + Len(t) : u[i] = IF i <= Len(s) THEN s[i] ELSE t[i - Len(s)]
      /\ DOMAIN u = 1 .. Len(u) /\ DOMAIN s = 1 .. Len(s) /\ DOMAIN t = 1 .. Len(t)
  BY ConcatProperties, LenProperties
<1> HIDE DEF u
<1>2. ASSUME NEW x \in Range(u) PROVE x \in Range(s) \cup Range(t)
  <2>1. PICK i \in 1 .. Len(s) + Len(t) : x = u[i]
    BY <1>1 DEF Range
  <2>2. CASE i <= Len(s)
    BY <2>1, <2>2, <1>1 DEF Range
  <2>3. CASE i > Len(s)
    <3>1. x = t[i - Len(s)] /\ i - Len(s) \in 1 .. Len(t)
      BY <2>1, <2>3, <1>1
    <3> QED BY <3>1, <1>1 DEF Range
  <2> QED BY <2>2, <2>3, <1>1
<1>3. ASSUME NEW x \in Range(s) PROVE x \in Range(u)
  BY <1>1 DEF Range
<1>4. ASSUME NEW x \in Range(t) PROVE x \in Range(u)
  <2>1. PICK i \in 1 .. Len(t) : x = t[i]
    BY <1>1 DEF Range
  <2>2. /\ Len(s) + i \in 1 .. Len(s) + Len(t)
        /\ u[Len(s) + i] = t[i]
    BY <1>1, <2>1
  <2> QED BY <2>1, <2>2, <1>1 DEF Range
<1> QED BY <1>2, <1>3, <1>4 DEF u

LEMMA RangeEmpty == Range(<<>>) = {}
  BY DEF Range

LEMMA RangeAppend ==
    ASSUME NEW s \in Seq(Block), NEW b \in Block
    PROVE  Range(Append(s, b)) = Range(s) \cup {b}
<1>1. Append(s, b) = s \o <<b>>
  BY AppendIsConcat
<1>2. Range(<<b>>) = {b} /\ <<b>> \in Seq(Block)
  BY DEF Range
<1> QED BY <1>1, <1>2, RangeConcat

LEMMA RangeMember ==
    ASSUME NEW s \in Seq(Block)
    PROVE  \A x : x \in Range(s) <=> \E i \in 1 .. Len(s) : s[i] = x
  BY LenProperties DEF Range

(* If a chain was cut at n, above the blocks p, then p and the blocks of the *)
(* chain from Len(p) + 1 on make up the whole chain: the layers removeAfter  *)
(* recomputes.                                                               *)
LEMMA CutAbove ==
    ASSUME NEW p \in Seq(Block), NEW q \in Seq(Block), NEW n \in Nat,
           Len(p) <= n, n <= Len(p \o q)
    PROVE  p \o SubSeq(SubSeq(p \o q, 1, n), Len(p) + 1, n) = SubSeq(p \o q, 1, n)
<1> DEFINE w == p \o q
           h == SubSeq(w, 1, n)
           r == SubSeq(h, Len(p) + 1, n)
<1>1. /\ w \in Seq(Block) /\ Len(w) = Len(p) + Len(q) /\ Len(p) \in Nat /\ Len(q) \in Nat
      /\ \A i \in 1 .. Len(p) + Len(q) : w[i] = IF i <= Len(p) THEN p[i] ELSE q[i - Len(p)]
  BY ConcatProperties, LenProperties
<1> HIDE DEF w
<1>2. /\ h \in Seq(Block) /\ Len(h) = n
      /\ \A i \in 1 .. n : h[i] = w[i]
  BY <1>1, SubSeqType DEF w
<1> HIDE DEF h
<1>3. /\ r \in Seq(Block) /\ Len(r) = n - Len(p)
      /\ \A i \in 1 .. n - Len(p) : r[i] = h[Len(p) + i]
  <2>1. /\ r \in Seq(Block) /\ Len(r) = IF Len(p) + 1 <= n THEN n - (Len(p) + 1) + 1 ELSE 0
        /\ \A i \in 1 .. n - (Len(p) + 1) + 1 : r[i] = h[Len(p) + 1 + i - 1]
    BY <1>1, <1>2, SubSeqType
  <2> QED BY <2>1, <1>1
<1> HIDE DEF r
<1>4. /\ p \o r \in Seq(Block) /\ Len(p \o r) = n
      /\ \A i \in 1 .. n : (p \o r)[i] = IF i <= Len(p) THEN p[i] ELSE r[i - Len(p)]
  <2>1. /\ p \o r \in Seq(Block) /\ Len(p \o r) = Len(p) + Len(r)
        /\ \A i \in 1 .. Len(p) + Len(r) : (p \o r)[i] = IF i <= Len(p) THEN p[i] ELSE r[i - Len(p)]
    BY <1>3, ConcatProperties
  <2> QED BY <2>1, <1>1, <1>3
<1>5. ASSUME NEW i \in 1 .. n PROVE (p \o r)[i] = h[i]
  <2>1. CASE i <= Len(p)
    BY <2>1, <1>1, <1>2, <1>4
  <2>2. CASE i > Len(p)
    <3>1. i - Len(p) \in 1 .. n - Len(p) /\ Len(p) + (i - Len(p)) = i
      BY <2>2, <1>1
    <3>2. r[i - Len(p)] = h[i]
      BY <3>1, <1>3
    <3>3. (p \o r)[i] = r[i - Len(p)]
      BY <2>2, <1>1, <1>4
    <3> QED BY <3>2, <3>3
  <2>3. i <= Len(p) \/ i > Len(p)
    BY <1>1
  <2> QED BY <2>1, <2>2, <2>3, Zenon
<1>6. p \o r = h
  BY <1>2, <1>4, <1>5, SeqEqual
<1> QED BY <1>6 DEF r, h, w

(* A chain cut within the blocks p was cut out of p. *)
LEMMA CutWithin ==
    ASSUME NEW p \in Seq(Block), NEW q \in Seq(Block), NEW n \in Nat, n <= Len(p)
    PROVE  SubSeq(p \o q, 1, n) = SubSeq(p, 1, n)
<1>1. CASE n = 0
  BY <1>1, SubSeqEmpty
<1>2. CASE n # 0
  BY <1>2, LenProperties, SubSeqOfConcat1
<1> QED BY <1>1, <1>2

LEMMA CutTwice ==
    ASSUME NEW s \in Seq(Block), NEW n \in Nat, NEW m \in Nat, m <= n, n <= Len(s)
    PROVE  SubSeq(SubSeq(s, 1, n), 1, m) = SubSeq(s, 1, m)
<1>1. SubSeq(s, 1, n) \in Seq(Block) /\ Len(SubSeq(s, 1, n)) = n
      /\ \A i \in 1 .. n : SubSeq(s, 1, n)[i] = s[i]
  BY SubSeqType, LenProperties
<1>2. SubSeq(s, 1, m) \in Seq(Block) /\ Len(SubSeq(s, 1, m)) = m
      /\ \A i \in 1 .. m : SubSeq(s, 1, m)[i] = s[i]
  BY SubSeqType, LenProperties
<1> DEFINE u == SubSeq(s, 1, n)
<1> HIDE DEF u
<1>3. SubSeq(u, 1, m) \in Seq(Block) /\ Len(SubSeq(u, 1, m)) = m
      /\ \A i \in 1 .. m : SubSeq(u, 1, m)[i] = u[i]
  BY <1>1, SubSeqType DEF u
<1> QED BY <1>1, <1>2, <1>3, SeqEqual DEF u

LEMMA PrefixNoRepeat ==
    ASSUME NEW s \in Seq(Block), NoRepeat(s), NEW n \in Nat, n <= Len(s)
    PROVE  NoRepeat(SubSeq(s, 1, n))
<1>1. Len(SubSeq(s, 1, n)) = n /\ \A i \in 1 .. n : SubSeq(s, 1, n)[i] = s[i]
  BY SubSeqType, LenProperties
<1> QED BY <1>1, LenProperties DEF NoRepeat

LEMMA ConcatPrefix ==
    ASSUME NEW s \in Seq(Block), NEW t \in Seq(Block)
    PROVE  SubSeq(s \o t, 1, Len(s)) = s
<1>1. SubSeq(s \o t, 1, Len(s)) = SubSeq(s, 1, Len(s))
  BY CutWithin, LenProperties
<1> QED BY <1>1, SubSeqFull

LEMMA AppendNoRepeat ==
    ASSUME NEW s \in Seq(Block), NoRepeat(s), NEW b \in Block, b \notin Range(s)
    PROVE  NoRepeat(Append(s, b))
<1>1. /\ Len(Append(s, b)) = Len(s) + 1 /\ Len(s) \in Nat
      /\ Append(s, b)[Len(s) + 1] = b
      /\ \A i \in 1 .. Len(s) : Append(s, b)[i] = s[i]
  BY AppendProperties, LenProperties
<1>2. \A i \in 1 .. Len(s) : s[i] # b
  BY RangeMember
<1> QED BY <1>1, <1>2 DEF NoRepeat

-----------------------------------------------------------------------------
(* The inductive invariant, one lemma per group of steps. *)

LEMMA InitInv == Init => Inv
<1> SUFFICES ASSUME Init PROVE Inv
  OBVIOUS
<1>1. Range(<<>>) = {} /\ SubSeq(<<>>, 1, 0) = <<>> /\ Len(<<>>) = 0 /\ <<>> \in Seq(Block)
  BY RangeEmpty, SubSeqEmpty, EmptySeq
<1>2. TypeOK
  BY <1>1 DEF Init, TypeOK, Ops, Stages
<1>3. OnChain
  BY <1>1 DEF Init, OnChain, Clean
<1>4. NoRepeat(history) /\ NoRepeat(applied) /\ Len(bottom) <= MinDiff /\ Len(top) <= MinDiff
  BY <1>1, MinDiffAssumption DEF Init, NoRepeat
<1>5. LayersInv
  <2>1. pc = "down" /\ op = "none" /\ bottom = <<>> /\ top = <<>>
    BY <1>1 DEF Init
  <2> QED BY <1>3, <1>4, <2>1 DEF LayersInv
<1> QED BY <1>2, <1>5 DEF Inv

(* applyBlockDiff, transactions. *)
LEMMA StoreTransactionsInv == ASSUME Inv, StoreTransactions PROVE Inv'
<1>1. PICK b \in Range(diff) \ storedTxs : storedTxs' = storedTxs \cup {b}
  BY DEF StoreTransactions
<1>2. b \in Block
  <2>1. diff \in Seq(Block) /\ b \in Range(diff)
    BY <1>1 DEF Inv, TypeOK
  <2>2. PICK i \in 1 .. Len(diff) : diff[i] = b
    BY <2>1, RangeMember
  <2> QED BY ONLY <2>1, <2>2, ElementOfSeq
<1>3. TypeOK'
  BY <1>1, <1>2 DEF Inv, StoreTransactions, TypeOK
<1>4. Applying'
  BY DEF Inv, LayersInv, StoreTransactions, Applying, BlocksOf, PersistUpTo, ChunkEnd
<1>5. LayersInv'
  BY <1>1, <1>4 DEF Inv, LayersInv, StoreTransactions, Composite, NoRepeat
<1> QED BY <1>3, <1>5 DEF Inv

(* The bounds of a chunk to persist. *)
LEMMA ChunkBounds ==
    ASSUME TypeOK, height + 1 < PersistUpTo
    PROVE  /\ ChunkEnd(height + 1, PersistUpTo) \in Nat
           /\ height + 1 < ChunkEnd(height + 1, PersistUpTo)
           /\ ChunkEnd(height + 1, PersistUpTo) <= PersistUpTo
           /\ PersistUpTo \in Nat /\ PersistUpTo <= Len(history)
<1>1. Len(history) \in Nat /\ height \in Nat
  BY LenProperties DEF TypeOK
<1> QED BY <1>1, MinDiffAssumption DEF ChunkEnd, PersistUpTo

(* What is persisted and what is being persisted make up a prefix. *)
LEMMA ApplyingPrefix ==
    ASSUME TypeOK, Applying
    PROVE  /\ SubSeq(history, 1, height) \o diff = SubSeq(history, 1, height + Len(diff))
           /\ height + Len(diff) <= Len(history)
           /\ Len(diff) \in Nat
<1>0. /\ Len(history) \in Nat /\ height \in Nat /\ height <= Len(history) /\ history \in Seq(Block)
      /\ Len(diff) \in Nat
  BY LenProperties DEF TypeOK, Applying
<1>a. SubSeq(history, 1, height) \in Seq(Block)
  BY <1>0, SubSeqType
<1>1. CASE diff = <<>>
  <2>1. Len(diff) = 0 /\ SubSeq(history, 1, height) \o diff = SubSeq(history, 1, height)
    BY <1>a, <1>1, ConcatEmptySeq
  <2> QED BY <2>1, <1>0
<1>2. CASE diff # <<>>
  <2> DEFINE e == ChunkEnd(height + 1, PersistUpTo)
  <2>1. height + 1 < PersistUpTo /\ diff = SubSeq(history, height + 1, e - 1)
    BY <1>2 DEF Applying, BlocksOf
  <2>2. e \in Nat /\ height + 1 < e /\ e <= Len(history)
    BY <2>1, <1>0, ChunkBounds
  <2> HIDE DEF e
  <2>3. Len(diff) = e - 1 - height
    <3>1. Len(SubSeq(history, height + 1, e - 1))
             = IF height + 1 <= e - 1 THEN e - 1 - (height + 1) + 1 ELSE 0
      BY <2>2, <1>0, SubSeqType
    <3> QED BY <3>1, <2>1, <2>2, <1>0
  <2>4. SubSeq(history, 1, height) \o SubSeq(history, height + 1, e - 1) = SubSeq(history, 1, e - 1)
    BY <2>2, <1>0, ConcatAdjacentSubSeq
  <2> QED BY <2>1, <2>2, <2>3, <2>4, <1>0
<1> QED BY <1>1, <1>2

(* applyBlockDiff, everything between the transactions and the height. *)
LEMMA ApplyRestInv == ASSUME Inv, ApplyRest PROVE Inv'
<1>1. /\ pc = "store" /\ pc' = "height" /\ Range(diff) \subseteq storedTxs
      /\ applied' = applied \o diff
      /\ UNCHANGED <<history, storedTxs, height, bottom, top, op, block, target, diff>>
  BY DEF ApplyRest
<1>2. TypeOK /\ LayersInv /\ Applying
  BY <1>1 DEF Inv, LayersInv
<1>3. /\ height = Len(applied) /\ applied = SubSeq(history, 1, height)
      /\ Range(applied) \subseteq storedTxs /\ storedTxs \subseteq Range(applied) \cup Range(diff)
      /\ op = "process" => Composite = history
      /\ NoRepeat(history)
  BY <1>1, <1>2 DEF LayersInv
<1>4. applied' \in Seq(Block) /\ Len(applied') = Len(applied) + Len(diff)
  BY <1>1, <1>2, ConcatProperties DEF TypeOK
<1>5. TypeOK'
  BY <1>1, <1>2, <1>4 DEF TypeOK, Stages
<1>6. Range(applied') = Range(applied) \cup Range(diff)
  BY <1>1, <1>2, RangeConcat DEF TypeOK
<1>7. NoRepeat(applied')
  <2>1. /\ history \in Seq(Block) /\ height + Len(diff) \in Nat /\ height + Len(diff) <= Len(history)
        /\ applied' = SubSeq(history, 1, height + Len(diff))
    BY <1>1, <1>2, <1>3, ApplyingPrefix DEF TypeOK
  <2> QED BY <2>1, <1>3, PrefixNoRepeat
<1>8. Applying'
  BY <1>1, <1>2 DEF Applying, BlocksOf, PersistUpTo, ChunkEnd
<1>9. op = "process" => applied' \o top = history
  BY <1>1, <1>2, <1>3 DEF Applying, Composite
<1>10. LayersInv'
  BY <1>1, <1>2, <1>3, <1>4, <1>6, <1>7, <1>8, <1>9 DEF LayersInv
<1> QED BY <1>5, <1>10 DEF Inv

(* applyBlockDiff, the last put. *)
LEMMA SetHeightInv == ASSUME Inv, SetHeight PROVE Inv'
<1>1. /\ pc = "height" /\ height' = height + Len(diff) /\ diff' = <<>>
      /\ pc' = IF op = "process" THEN "shift" ELSE "rebuild"
      /\ UNCHANGED <<history, storedTxs, applied, bottom, top, op, block, target>>
  BY DEF SetHeight
<1>2. TypeOK /\ LayersInv /\ Applying
  BY <1>1 DEF Inv, LayersInv
<1>3. /\ storedTxs = Range(applied) /\ height + Len(diff) = Len(applied)
      /\ applied = SubSeq(history, 1, height) \o diff
      /\ op = "process" => applied \o top = history
  BY <1>1, <1>2 DEF LayersInv
<1>4. applied = SubSeq(history, 1, height') /\ height' <= Len(history) /\ height' \in Nat
  BY <1>1, <1>2, <1>3, ApplyingPrefix DEF TypeOK
<1>5. TypeOK'
  BY <1>1, <1>2, <1>4 DEF TypeOK, Stages
<1>6. Clean' /\ OnChain'
  BY <1>1, <1>3, <1>4 DEF Clean, OnChain
<1>7. op \in {"process", "boot", "rollback"}
  BY <1>2 DEF TypeOK, Ops, Applying
<1>8. /\ op = "boot" => bottom = <<>> /\ top = <<>>
      /\ op = "process" => block \in Block
  BY <1>2 DEF Applying
<1>9. LayersInv'
  BY <1>1, <1>2, <1>3, <1>6, <1>7, <1>8 DEF LayersInv
<1> QED BY <1>5, <1>9 DEF Inv

-----------------------------------------------------------------------------
(* processBlock *)

(* Where the layers lie in the history they are the state of. *)
LEMMA LayersOfHistory ==
    ASSUME TypeOK, Clean, Composite = history
    PROVE  /\ OnChain
           /\ Len(history) = height + Len(bottom) + Len(top)
           /\ bottom # <<>> => bottom = BlocksOf(height + 1, height + Len(bottom) + 1)
           /\ NoRepeat(history) => NoRepeat(applied)
<1> DEFINE ab == applied \o bottom
<1>1. /\ applied \in Seq(Block) /\ bottom \in Seq(Block) /\ top \in Seq(Block)
      /\ history \in Seq(Block) /\ height \in Nat /\ height = Len(applied)
      /\ Len(bottom) \in Nat /\ Len(top) \in Nat
  BY LenProperties DEF TypeOK, Clean
<1>2. ab \in Seq(Block) /\ Len(ab) = height + Len(bottom) /\ history = ab \o top
  BY <1>1, ConcatProperties DEF Composite
<1> HIDE DEF ab
<1>3. Len(history) = height + Len(bottom) + Len(top)
  BY <1>1, <1>2, ConcatProperties
<1>4. applied = SubSeq(history, 1, height)
  <2>1. SubSeq(ab \o top, 1, height) = SubSeq(ab, 1, height)
    BY <1>1, <1>2, CutWithin
  <2>2. SubSeq(ab, 1, height) = applied
    BY <1>1, ConcatPrefix DEF ab
  <2> QED BY <2>1, <2>2, <1>2
<1>5. ASSUME bottom # <<>> PROVE bottom = BlocksOf(height + 1, height + Len(bottom) + 1)
  <2> DEFINE m == height + 1
             n == height + Len(bottom)
  <2>1. Len(bottom) \in Nat \ {0}
    BY <1>1, <1>5, EmptySeq
  <2>2. m \in 1 .. Len(ab) /\ n \in 1 .. Len(ab) /\ m \in Nat /\ n \in Nat
    BY <1>1, <1>2, <2>1
  <2>3. SubSeq(ab \o top, m, n) = SubSeq(ab, m, n)
    BY <1>1, <1>2, <2>2, SubSeqOfConcat1
  <2>4. m \in Len(applied) + 1 .. Len(applied) + Len(bottom)
        /\ n \in Len(applied) + 1 .. Len(applied) + Len(bottom)
    BY <1>1, <2>1
  <2>5. SubSeq(applied \o bottom, m, n) = SubSeq(bottom, m - Len(applied), n - Len(applied))
    BY <1>1, <2>4, SubSeqOfConcat2
  <2>6. m - Len(applied) = 1 /\ n - Len(applied) = Len(bottom) /\ height + Len(bottom) + 1 - 1 = n
    BY <1>1
  <2>7. SubSeq(bottom, 1, Len(bottom)) = bottom
    BY <1>1, SubSeqFull
  <2>8. SubSeq(ab, m, n) = bottom
    BY <2>5, <2>6, <2>7 DEF ab
  <2>9. BlocksOf(height + 1, height + Len(bottom) + 1) = SubSeq(history, m, n)
    <3>1. BlocksOf(height + 1, height + Len(bottom) + 1)
            = SubSeq(history, height + 1, (height + Len(bottom) + 1) - 1)
      BY DEF BlocksOf
    <3>2. (height + Len(bottom) + 1) - 1 = n
      BY <1>1
    <3> HIDE DEF n
    <3> QED BY <3>1, <3>2
  <2> QED BY <2>3, <2>8, <2>9, <1>2
<1>6. height <= Len(history)
  BY <1>1, <1>3
<1>7. NoRepeat(history) => NoRepeat(applied)
  BY <1>1, <1>4, <1>6, PrefixNoRepeat
<1> QED BY <1>3, <1>4, <1>5, <1>6, <1>7 DEF OnChain

LEMMA ProcessBlockInv ==
    ASSUME Inv, NEW b \in Block, ProcessBlock(b), history = <<>> => b = Genesis PROVE Inv'
<1>1. /\ pc = "idle" /\ op' = "process" /\ block' = b
      /\ UNCHANGED <<history, storedTxs, applied, height, bottom, top, target>>
      /\ IF Len(top) >= MinDiff
         THEN pc' = "store" /\ diff' = bottom
         ELSE pc' = "append" /\ UNCHANGED diff
  BY DEF ProcessBlock, StartApply
<1>2. TypeOK /\ LayersInv
  BY DEF Inv
<1>3. Clean /\ Composite = history /\ Len(bottom) <= MinDiff /\ Len(top) <= MinDiff
  BY <1>1, <1>2 DEF LayersInv
<1>4. TypeOK'
  BY <1>1, <1>2 DEF TypeOK, Ops, Stages
<1>5. /\ Len(top) \in Nat /\ Len(bottom) \in Nat /\ height \in Nat /\ Len(history) \in Nat
      /\ MinDiff \in Nat \ {0}
  BY <1>2, LenProperties, MinDiffAssumption DEF TypeOK
<1>6. Clean' /\ (Composite = history)'
  BY <1>1, <1>3 DEF Clean, Composite
<1>7. CASE Len(top) >= MinDiff
  <2>1. pc' = "store" /\ diff' = bottom /\ Len(top) = MinDiff
    BY <1>1, <1>3, <1>5, <1>7
  <2>2. ASSUME bottom # <<>>
        PROVE  /\ height + 1 < PersistUpTo
               /\ ChunkEnd(height + 1, PersistUpTo) = height + Len(bottom) + 1
    <3>1. Len(bottom) > 0
      BY <1>2, <1>5, <2>2, EmptySeq DEF TypeOK
    <3>2. PersistUpTo = height + Len(bottom) + 1
      BY <1>2, <1>3, <1>5, <2>1, LayersOfHistory DEF PersistUpTo
    <3> QED BY <3>1, <3>2, <1>3, <1>5 DEF ChunkEnd
  <2>3. Applying'
    BY <1>1, <1>2, <1>3, <2>1, <2>2, LayersOfHistory
       DEF Applying, BlocksOf, PersistUpTo, ChunkEnd, OnChain
  <2>4. /\ height = Len(applied) /\ applied = SubSeq(history, 1, height)
        /\ storedTxs = Range(applied)
    BY <1>2, <1>3, LayersOfHistory DEF Clean, OnChain
  <2> QED BY <1>1, <1>2, <1>4, <1>6, <2>1, <2>3, <2>4 DEF Inv, LayersInv
<1>8. CASE ~(Len(top) >= MinDiff)
  <2>1. pc' = "append" /\ Len(top) < MinDiff
    BY <1>1, <1>5, <1>8
  <2> QED BY <1>1, <1>2, <1>4, <1>6, <2>1 DEF Inv, LayersInv
<1> QED BY <1>7, <1>8

LEMMA ShiftTopInv == ASSUME Inv, ShiftTop PROVE Inv'
<1>1. /\ pc = "shift" /\ pc' = "clearTop" /\ bottom' = top
      /\ UNCHANGED <<history, storedTxs, applied, height, top, op, block, target, diff>>
  BY DEF ShiftTop
<1>2. TypeOK'
  BY <1>1 DEF Inv, TypeOK, Stages
<1>3. LayersInv'
  BY <1>1 DEF Inv, LayersInv, Clean
<1> QED BY <1>2, <1>3 DEF Inv

LEMMA ClearTopInv == ASSUME Inv, ClearTop PROVE Inv'
<1>1. /\ pc = "clearTop" /\ pc' = "append" /\ top' = <<>>
      /\ UNCHANGED <<history, storedTxs, applied, height, bottom, op, block, target, diff>>
  BY DEF ClearTop
<1>2. TypeOK'
  BY <1>1 DEF Inv, TypeOK, Stages
<1>3. Clean' /\ Len(top') = 0
  BY <1>1 DEF Inv, LayersInv, Clean
<1>4. Composite' = history'
  <2>1. applied \o bottom \in Seq(Block) /\ applied \o bottom = history
    BY <1>1, ConcatProperties DEF Inv, TypeOK, LayersInv
  <2> QED BY <2>1, <1>1, ConcatEmptySeq DEF Composite
<1>5. LayersInv'
  BY <1>1, <1>3, <1>4, MinDiffAssumption DEF Inv, LayersInv
<1> QED BY <1>2, <1>5 DEF Inv

LEMMA AppendBlockInv == ASSUME Inv, AppendBlock PROVE Inv'
<1>1. /\ pc = "append" /\ pc' = "combine" /\ history' = Append(history, block)
      /\ block \notin storedTxs \cup Range(bottom) \cup Range(top)
      /\ UNCHANGED <<storedTxs, applied, height, bottom, top, op, block, target, diff>>
  BY DEF AppendBlock, Acceptable
<1>2. /\ TypeOK /\ LayersInv /\ block \in Block
      /\ Clean /\ Composite = history /\ Len(top) < MinDiff /\ NoRepeat(history)
  BY <1>1 DEF Inv, LayersInv
<1>3. TypeOK'
  BY <1>1, <1>2, AppendProperties DEF TypeOK, Stages
<1>4. Range(history) = storedTxs \cup Range(bottom) \cup Range(top)
  <2>1. /\ applied \in Seq(Block) /\ bottom \in Seq(Block) /\ top \in Seq(Block)
        /\ applied \o bottom \in Seq(Block)
    BY <1>2, ConcatProperties DEF TypeOK
  <2>2. Range(history) = Range(applied \o bottom) \cup Range(top)
    BY <1>2, <2>1, RangeConcat DEF Composite
  <2>3. Range(applied \o bottom) = Range(applied) \cup Range(bottom)
    BY <2>1, RangeConcat
  <2> QED BY <2>2, <2>3, <1>2 DEF Clean
<1>5. NoRepeat(history')
  BY <1>1, <1>2, <1>4, AppendNoRepeat DEF TypeOK
<1>6. Clean' /\ Append(Composite, block)' = history'
  BY <1>1, <1>2 DEF Clean, Composite
<1>7. LayersInv'
  BY <1>1, <1>2, <1>5, <1>6 DEF LayersInv
<1> QED BY <1>3, <1>7 DEF Inv

LEMMA RejectBlockInv == ASSUME Inv, RejectBlock PROVE Inv'
<1>1. /\ pc = "append" /\ pc' = "idle" /\ op' = "none" /\ block' = NoBlock
      /\ target' = 0 /\ diff' = <<>>
      /\ UNCHANGED <<history, storedTxs, applied, height, bottom, top>>
  BY DEF RejectBlock, Finish
<1>2. TypeOK'
  BY <1>1 DEF Inv, TypeOK, Stages, Ops
<1>3. Clean' /\ Composite' = history'
  BY <1>1 DEF Inv, LayersInv, Clean, Composite
<1>4. LayersInv'
  BY <1>1, <1>3 DEF Inv, LayersInv
<1> QED BY <1>2, <1>4 DEF Inv

LEMMA CombineTopInv == ASSUME Inv, CombineTop PROVE Inv'
<1>1. /\ pc = "combine" /\ pc' = "idle" /\ op' = "none" /\ block' = NoBlock
      /\ target' = 0 /\ diff' = <<>> /\ top' = Append(top, block)
      /\ UNCHANGED <<history, storedTxs, applied, height, bottom>>
  BY DEF CombineTop, Finish
<1>2. TypeOK /\ LayersInv /\ block \in Block /\ Clean /\ Len(top) < MinDiff
      /\ Append(Composite, block) = history
  BY <1>1 DEF Inv, LayersInv
<1>3. top' \in Seq(Block) /\ Len(top') = Len(top) + 1 /\ Len(top) \in Nat
  BY <1>1, <1>2, AppendProperties, LenProperties DEF TypeOK
<1>4. TypeOK'
  BY <1>1, <1>2, <1>3 DEF TypeOK, Stages, Ops
<1>5. Composite' = history'
  <2> DEFINE ab == applied \o bottom
  <2>1. ab \in Seq(Block) /\ top \in Seq(Block) /\ <<block>> \in Seq(Block) /\ ab \o top \in Seq(Block)
    BY <1>2, ConcatProperties DEF TypeOK
  <2> HIDE DEF ab
  <2>2. ab \o (top \o <<block>>) = (ab \o top) \o <<block>>
    BY <2>1, ConcatAssociative
  <2>3. Append(top, block) = top \o <<block>> /\ Append(ab \o top, block) = (ab \o top) \o <<block>>
    BY <1>2, <2>1, AppendIsConcat
  <2>4. Composite' = ab \o Append(top, block) /\ Composite = ab \o top
    BY <1>1 DEF Composite, ab
  <2> QED BY <2>2, <2>3, <2>4, <1>1, <1>2
<1>6. Clean' /\ Len(top') <= MinDiff
  BY <1>1, <1>2, <1>3, MinDiffAssumption DEF Clean
<1>7. LayersInv'
  BY <1>1, <1>2, <1>5, <1>6 DEF LayersInv
<1> QED BY <1>4, <1>7 DEF Inv

-----------------------------------------------------------------------------
(* removeAfter *)

LEMMA RemoveAfterInv ==
    ASSUME Inv, NEW h \in 1 .. Len(history), RemoveAfter(h) PROVE Inv'
<1>1. /\ pc = "idle" /\ h < Len(history) /\ op' = "rollback" /\ target' = h /\ pc' = "discard"
      /\ UNCHANGED <<history, storedTxs, applied, height, bottom, top, block, diff>>
  BY DEF RemoveAfter
<1>2. TypeOK /\ LayersInv /\ Clean /\ Composite = history /\ Len(history) \in Nat
  BY <1>1, LenProperties DEF Inv, LayersInv, TypeOK
<1>3. TypeOK'
  BY <1>1, <1>2 DEF TypeOK, Stages, Ops
<1>4. history = SubSeq(history, 1, Len(history))
  BY <1>2, SubSeqFull DEF TypeOK
<1>5. Clean' /\ Composite' = history'
  BY <1>1, <1>2 DEF Clean, Composite
<1>6. Cutting(Composite)'
  BY <1>1, <1>2, <1>4, <1>5 DEF Cutting
<1>7. LayersInv'
  BY <1>1, <1>2, <1>6 DEF LayersInv
<1> QED BY <1>3, <1>7 DEF Inv

LEMMA CompositeType ==
    ASSUME TypeOK
    PROVE  /\ applied \o bottom \in Seq(Block) /\ Composite \in Seq(Block)
           /\ Len(applied \o bottom) = Len(applied) + Len(bottom)
           /\ Len(Composite) = Len(applied) + Len(bottom) + Len(top)
<1> DEFINE ab == applied \o bottom
<1>1. ab \in Seq(Block) /\ Len(ab) = Len(applied) + Len(bottom)
  BY ConcatProperties DEF TypeOK
<1> HIDE DEF ab
<1>2. ab \o top \in Seq(Block) /\ Len(ab \o top) = Len(ab) + Len(top)
  BY <1>1, ConcatProperties DEF TypeOK
<1> QED BY <1>1, <1>2 DEF ab, Composite

LEMMA DiscardBlockInv == ASSUME Inv, DiscardBlock PROVE Inv'
<1>1. /\ pc = "discard" /\ Len(history) > target /\ history' = Front(history)
      /\ UNCHANGED <<storedTxs, applied, height, bottom, top, pc, op, block, target, diff>>
  BY DEF DiscardBlock
<1>2. TypeOK /\ LayersInv /\ Cutting(Composite)
  BY <1>1 DEF Inv, LayersInv
<1>3. /\ Len(history) \in Nat /\ target \in Nat /\ 1 <= target
      /\ history \in Seq(Block) /\ history # <<>>
      /\ Len(Composite) \in Nat /\ Len(history) <= Len(Composite) /\ Composite \in Seq(Block)
      /\ history = SubSeq(Composite, 1, Len(history))
  BY <1>1, <1>2, CompositeType, LenProperties, EmptySeq DEF TypeOK, Cutting
<1>4. history' \in Seq(Block) /\ Len(history') = Len(history) - 1
      /\ history' = SubSeq(history, 1, Len(history) - 1)
  BY <1>1, <1>3, FrontType DEF Front
<1>5. TypeOK'
  BY <1>1, <1>2, <1>4 DEF TypeOK
<1>6. history' = SubSeq(Composite, 1, Len(history'))
  <2> DEFINE n == Len(history)
             m == Len(history) - 1
  <2>1. SubSeq(SubSeq(Composite, 1, n), 1, m) = SubSeq(Composite, 1, m)
    BY <1>1, <1>3, CutTwice
  <2> QED BY <2>1, <1>3, <1>4
<1>7. Cutting(Composite)'
  <2>1. Composite' = Composite /\ (Clean' <=> Clean)
    BY <1>1 DEF Composite, Clean
  <2>2. target < Len(Composite) /\ Clean
    BY <1>2 DEF Cutting
  <2> QED BY <1>1, <1>3, <1>4, <1>6, <2>1, <2>2 DEF Cutting
<1>8. NoRepeat(history')
  <2>1. NoRepeat(history) /\ Len(history) - 1 \in Nat /\ Len(history) - 1 <= Len(history)
    BY <1>1, <1>2, <1>3 DEF LayersInv
  <2> QED BY <2>1, <1>3, <1>4, PrefixNoRepeat
<1>9. LayersInv'
  BY <1>1, <1>2, <1>7, <1>8 DEF LayersInv
<1> QED BY <1>5, <1>9 DEF Inv

LEMMA DiscardedAllInv == ASSUME Inv, DiscardedAll PROVE Inv'
<1>1. /\ pc = "discard" /\ pc' = "discarded" /\ Len(history) = target
      /\ UNCHANGED <<history, storedTxs, applied, height, bottom, top, op, block, target, diff>>
  BY DEF DiscardedAll
<1>2. TypeOK'
  BY <1>1 DEF Inv, TypeOK, Stages
<1>3. Cutting(Composite)'
  BY <1>1 DEF Inv, LayersInv, Cutting, Clean, Composite
<1>4. LayersInv'
  BY <1>1, <1>3 DEF Inv, LayersInv
<1> QED BY <1>2, <1>4 DEF Inv

(* persisted.clear() leaves the empty prefix of any history. *)
LEMMA Cleared ==
    ASSUME TypeOK, ClearPersisted, UNCHANGED history
    PROVE  OnChain' /\ NoRepeat(applied') /\ applied' \in Seq(Block)
<1>1. storedTxs' = {} /\ applied' = <<>> /\ height' = 0 /\ history' = history
  BY DEF ClearPersisted
<1>2. SubSeq(history, 1, 0) = <<>> /\ Len(<<>>) = 0 /\ Range(<<>>) = {} /\ <<>> \in Seq(Block)
      /\ Len(history) \in Nat
  BY SubSeqEmpty, RangeEmpty, LenProperties DEF TypeOK
<1>3. NoRepeat(<<>>)
  BY DEF NoRepeat
<1> QED BY <1>1, <1>2, <1>3 DEF OnChain, Clean

LEMMA RebuildAllInv == ASSUME Inv, RebuildAll PROVE Inv'
<1>1. /\ pc = "discarded" /\ pc' = "rebuild" /\ ClearPersisted
      /\ UNCHANGED <<history, bottom, top, op, block, target, diff>>
  BY DEF RebuildAll
<1>2. OnChain' /\ NoRepeat(applied') /\ applied' \in Seq(Block)
  BY <1>1, Cleared DEF Inv
<1>3. TypeOK'
  BY <1>1, <1>2 DEF Inv, TypeOK, Stages, ClearPersisted
<1>4. LayersInv'
  BY <1>1, <1>2 DEF Inv, LayersInv
<1> QED BY <1>3, <1>4 DEF Inv

(* The in-memory branches: what is left of the layers is the cut history. *)
LEMMA CutTopInv == ASSUME Inv, CutTop PROVE Inv'
<1> DEFINE ab == applied \o bottom
           overBottom == height + Len(bottom)
<1>1. /\ pc = "discarded" /\ height <= target /\ bottom' = bottom
      /\ UNCHANGED <<history, storedTxs, applied, height, bottom>>
  BY DEF CutTop
<1>2. TypeOK /\ LayersInv /\ Cutting(Composite) /\ Len(history) = target
  BY <1>1 DEF Inv, LayersInv
<1>3. /\ ab \in Seq(Block) /\ Len(ab) = overBottom /\ top \in Seq(Block)
      /\ overBottom \in Nat /\ Len(bottom) \in Nat /\ Len(top) \in Nat /\ target \in Nat
      /\ history \in Seq(Block) /\ Clean
      /\ target < overBottom + Len(top) /\ 1 <= target
      /\ history = SubSeq(ab \o top, 1, target) /\ Len(ab \o top) = overBottom + Len(top)
      /\ Len(top) <= MinDiff /\ MinDiff \in Nat
  <2>1. /\ history \in Seq(Block) /\ target \in Nat /\ height \in Nat /\ top \in Seq(Block)
        /\ Len(bottom) \in Nat /\ Len(top) \in Nat /\ height = Len(applied) /\ Clean
    BY <1>2, LenProperties DEF TypeOK, Cutting, Clean
  <2>2. ab \in Seq(Block) /\ Len(ab) = overBottom /\ Composite = ab \o top
        /\ Len(Composite) = overBottom + Len(top)
    BY <1>2, <2>1, CompositeType DEF Composite
  <2>3. /\ target < Len(Composite) /\ 1 <= target
        /\ history = SubSeq(Composite, 1, target)
    BY <1>2 DEF Cutting
  <2>4. Len(top) <= MinDiff /\ MinDiff \in Nat
    BY <1>2, MinDiffAssumption DEF LayersInv
  <2>5. overBottom \in Nat
    BY <2>1
  <2> HIDE DEF ab, overBottom
  <2> QED BY <2>1, <2>2, <2>3, <2>4, <2>5
<1>4. Clean'
  BY <1>1, <1>3 DEF Clean
<1> HIDE DEF ab
<1>5. CASE target > overBottom /\ top' = BlocksOf(overBottom + 1, target + 1) /\ Finish
  <2>1. top' = SubSeq(history, overBottom + 1, target)
    <3>1. top' = SubSeq(history, overBottom + 1, (target + 1) - 1)
      BY <1>5 DEF BlocksOf
    <3>2. (target + 1) - 1 = target
      BY <1>3
    <3> HIDE DEF overBottom
    <3> QED BY <3>1, <3>2
  <2>2. top' \in Seq(Block) /\ Len(top') = target - overBottom
    <3>1. /\ SubSeq(history, overBottom + 1, target) \in Seq(Block)
          /\ Len(SubSeq(history, overBottom + 1, target))
               = IF overBottom + 1 <= target THEN target - (overBottom + 1) + 1 ELSE 0
      BY <1>2, <1>3, SubSeqType
    <3> QED BY <3>1, <2>1, <1>3, <1>5
  <2>3. ab \o top' = history
    <3>1. ab \o SubSeq(SubSeq(ab \o top, 1, target), Len(ab) + 1, target) = SubSeq(ab \o top, 1, target)
      <4>1. /\ ab \in Seq(Block) /\ top \in Seq(Block) /\ target \in Nat
            /\ Len(ab) <= target /\ target <= Len(ab \o top)
        BY <1>3, <1>5
      <4> QED BY <4>1, CutAbove
    <3>2. history = SubSeq(ab \o top, 1, target) /\ Len(ab) = overBottom
      BY <1>3
    <3> HIDE DEF overBottom
    <3> QED BY <2>1, <3>1, <3>2
  <2>4. Composite' = history'
    BY <2>3, <1>1 DEF Composite, ab
  <2>5. TypeOK'
    BY <2>2, <1>1, <1>2, <1>5 DEF TypeOK, Finish, Stages, Ops
  <2>6. Len(top') <= MinDiff
    BY <2>2, <1>3
  <2>7. LayersInv'
    BY <1>1, <1>2, <1>4, <1>5, <2>4, <2>6 DEF LayersInv, Finish
  <2> QED BY <2>5, <2>7 DEF Inv
<1>6. CASE target = overBottom /\ top' = <<>> /\ Finish
  <2>1. history = ab
    BY <1>3, <1>6, ConcatPrefix
  <2>2. Composite' = history'
    BY <2>1, <1>1, <1>3, <1>6, ConcatEmptySeq DEF Composite, ab
  <2>3. TypeOK'
    BY <1>1, <1>2, <1>6 DEF TypeOK, Finish, Stages, Ops
  <2>4. LayersInv'
    BY <1>1, <1>2, <1>3, <1>4, <1>6, <2>2, EmptySeq DEF LayersInv, Finish
  <2> QED BY <2>3, <2>4 DEF Inv
<1>7. CASE target < overBottom /\ top' = <<>> /\ pc' = "cutBottom" /\ UNCHANGED <<op, block, target, diff>>
  <2>1. history = SubSeq(ab, 1, target)
    BY <1>3, <1>7, CutWithin
  <2>2. TypeOK'
    BY <1>1, <1>2, <1>7 DEF TypeOK, Stages
  <2>3. Cutting(applied \o bottom)'
    BY <2>1, <1>1, <1>2, <1>3, <1>4, <1>7 DEF Cutting, ab
  <2>4. LayersInv'
    BY <1>1, <1>2, <1>3, <1>7, <2>3, EmptySeq DEF LayersInv
  <2> QED BY <2>2, <2>4 DEF Inv
<1> QED BY <1>5, <1>6, <1>7 DEF CutTop

LEMMA CutBottomInv == ASSUME Inv, CutBottom PROVE Inv'
<1>1. /\ pc = "cutBottom" /\ bottom' = BlocksOf(height + 1, target + 1)
      /\ pc' = "idle" /\ op' = "none" /\ block' = NoBlock /\ target' = 0 /\ diff' = <<>>
      /\ UNCHANGED <<history, storedTxs, applied, height, top>>
  BY DEF CutBottom, Finish
<1>2. /\ TypeOK /\ LayersInv /\ Cutting(applied \o bottom) /\ top = <<>>
      /\ height <= target /\ Len(history) = target
  BY <1>1 DEF Inv, LayersInv
<1>3. /\ applied \in Seq(Block) /\ bottom \in Seq(Block) /\ history \in Seq(Block)
      /\ height \in Nat /\ target \in Nat /\ height = Len(applied) /\ Clean
      /\ Len(bottom) \in Nat /\ Len(applied \o bottom) = height + Len(bottom)
      /\ target < height + Len(bottom) /\ history = SubSeq(applied \o bottom, 1, target)
      /\ Len(bottom) <= MinDiff /\ MinDiff \in Nat
  BY <1>2, CompositeType, LenProperties, MinDiffAssumption DEF TypeOK, Cutting, Clean, LayersInv
<1>4. bottom' = SubSeq(history, height + 1, target)
  <2>1. bottom' = SubSeq(history, height + 1, (target + 1) - 1)
    BY <1>1 DEF BlocksOf
  <2> QED BY <2>1, <1>3
<1>5. bottom' \in Seq(Block) /\ Len(bottom') <= MinDiff
  <2>1. /\ SubSeq(history, height + 1, target) \in Seq(Block)
        /\ Len(SubSeq(history, height + 1, target))
             = IF height + 1 <= target THEN target - (height + 1) + 1 ELSE 0
    BY <1>2, <1>3, SubSeqType
  <2>2. target - (height + 1) + 1 <= MinDiff /\ 0 <= MinDiff
    BY <1>3
  <2> QED BY <2>1, <2>2, <1>4
<1>6. applied \o bottom' = history
  <2>1. /\ applied \in Seq(Block) /\ bottom \in Seq(Block) /\ target \in Nat
        /\ Len(applied) <= target /\ target <= Len(applied \o bottom)
    BY <1>2, <1>3
  <2>2. applied \o SubSeq(SubSeq(applied \o bottom, 1, target), Len(applied) + 1, target)
          = SubSeq(applied \o bottom, 1, target)
    BY ONLY <2>1, CutAbove
  <2> QED BY <2>2, <1>3, <1>4
<1>7. Composite' = history' /\ Clean'
  BY <1>1, <1>2, <1>3, <1>6, ConcatEmptySeq DEF Composite, Clean
<1>8. TypeOK'
  BY <1>1, <1>2, <1>5 DEF TypeOK, Stages, Ops
<1>9. LayersInv'
  BY <1>1, <1>2, <1>5, <1>7 DEF LayersInv
<1> QED BY <1>8, <1>9 DEF Inv

-----------------------------------------------------------------------------
(* updatePersistedAndInMemory, starts and crashes *)

(* A range that does not throw: the persisted blocks are a prefix of the    *)
(* chain, in any rebuild.                                                   *)
LEMMA RebuildOnChain ==
    ASSUME Inv, pc = "rebuild", ~Throws(height + 1, FirstRangeEnd)
    PROVE  OnChain
BY DEF Inv, LayersInv, Torn

LEMMA PersistChunkInv == ASSUME Inv, PersistChunk PROVE Inv'
<1> DEFINE e == ChunkEnd(height + 1, PersistUpTo)
<1>1. /\ pc = "rebuild" /\ pc' = "store" /\ height + 1 < PersistUpTo
      /\ ~Throws(height + 1, e) /\ diff' = BlocksOf(height + 1, e)
      /\ UNCHANGED <<history, storedTxs, applied, height, bottom, top, op, block, target>>
  BY DEF PersistChunk, StartApply
<1>2. TypeOK /\ LayersInv
  BY DEF Inv
<1>3. OnChain
  BY <1>1, RebuildOnChain DEF FirstRangeEnd
<1>4. e \in Nat /\ height + 1 < e /\ e <= Len(history) /\ height \in Nat /\ Len(history) \in Nat
  BY <1>1, <1>2, ChunkBounds, LenProperties DEF TypeOK
<1>5. diff' \in Seq(Block)
  <2> HIDE DEF e
  <2>1. SubSeq(history, height + 1, e - 1) \in Seq(Block)
    BY <1>2, <1>4, SubSeqType DEF TypeOK
  <2> QED BY <2>1, <1>1 DEF BlocksOf
<1>6. TypeOK'
  BY <1>1, <1>2, <1>5 DEF TypeOK, Stages
<1>7. Applying'
  BY <1>1, <1>2, <1>3 DEF Applying, LayersInv, OnChain, BlocksOf, PersistUpTo, ChunkEnd
<1>8. LayersInv'
  BY <1>1, <1>2, <1>3, <1>7 DEF LayersInv, OnChain, Clean
<1> QED BY <1>6, <1>8 DEF Inv

LEMMA BuildInMemoryInv == ASSUME Inv, BuildInMemory PROVE Inv'
<1>1. /\ pc = "rebuild" /\ PersistUpTo <= height + 1 /\ ~Throws(height + 1, Len(history) + 1)
      /\ bottom' = BlocksOf(height + 1, Len(history) + 1) /\ top' = <<>>
      /\ pc' = "idle" /\ op' = "none" /\ block' = NoBlock /\ target' = 0 /\ diff' = <<>>
      /\ UNCHANGED <<history, storedTxs, applied, height>>
  BY DEF BuildInMemory, Finish
<1>2. /\ TypeOK /\ LayersInv /\ height \in Nat /\ Len(history) \in Nat /\ history \in Seq(Block)
      /\ MinDiff \in Nat
  BY LenProperties, MinDiffAssumption DEF Inv, TypeOK
<1>3. OnChain
  BY <1>1, <1>2, RebuildOnChain DEF FirstRangeEnd, PersistUpTo
<1>4. bottom' = SubSeq(history, height + 1, Len(history))
  <2>1. bottom' = SubSeq(history, height + 1, (Len(history) + 1) - 1)
    BY <1>1 DEF BlocksOf
  <2> QED BY <2>1, <1>2
<1>5. bottom' \in Seq(Block) /\ Len(bottom') <= MinDiff
  <2>1. /\ SubSeq(history, height + 1, Len(history)) \in Seq(Block)
        /\ Len(SubSeq(history, height + 1, Len(history)))
             = IF height + 1 <= Len(history) THEN Len(history) - (height + 1) + 1 ELSE 0
    BY <1>2, SubSeqType
  <2>2. Len(history) - height <= MinDiff
    BY <1>1, <1>2 DEF PersistUpTo
  <2> QED BY <2>1, <2>2, <1>2, <1>4
<1>6. applied \o bottom' = history
  <2>1. height <= Len(history) /\ applied = SubSeq(history, 1, height)
    BY <1>3 DEF OnChain
  <2>2. SubSeq(history, 1, height) \o SubSeq(history, height + 1, Len(history))
          = SubSeq(history, 1, Len(history))
    <3>1. 1 \in 1 .. Len(history) + 1 /\ height \in 1 - 1 .. Len(history)
          /\ Len(history) \in height .. Len(history)
      BY <2>1, <1>2
    <3> QED BY <3>1, <1>2, ConcatAdjacentSubSeq
  <2> QED BY <2>1, <2>2, <1>2, <1>4, SubSeqFull
<1>7. Composite' = history' /\ Clean'
  BY <1>1, <1>2, <1>3, <1>6, ConcatEmptySeq DEF Composite, Clean, OnChain
<1>8. TypeOK'
  BY <1>1, <1>2, <1>5 DEF TypeOK, Stages, Ops
<1>9. LayersInv'
  BY <1>1, <1>2, <1>5, <1>7, EmptySeq DEF LayersInv
<1> QED BY <1>8, <1>9 DEF Inv

LEMMA FailedStartInv == ASSUME Inv, FailedStart PROVE Inv'
<1>1. /\ pc = "rebuild" /\ op = "boot" /\ pc' = "down" /\ op' = "none"
      /\ bottom' = <<>> /\ top' = <<>>
      /\ UNCHANGED <<history, storedTxs, applied, height, block, target, diff>>
  BY DEF FailedStart
<1>2. TypeOK'
  BY <1>1 DEF Inv, TypeOK, Stages, Ops
<1>3. OnChain' \/ Torn'
  BY <1>1 DEF Inv, LayersInv, OnChain, Clean, Torn, Throws, FirstRangeEnd, ChunkEnd, PersistUpTo
<1>4. LayersInv'
  BY <1>1, <1>3, EmptySeq, MinDiffAssumption DEF Inv, LayersInv
<1> QED BY <1>2, <1>4 DEF Inv

LEMMA StartInv == ASSUME Inv, Start PROVE Inv'
<1>1. /\ pc = "down" /\ pc' = "rebuild" /\ op' = "boot"
      /\ UNCHANGED <<history, bottom, top, block, target, diff>>
      /\ IF height <= Len(history) THEN UNCHANGED <<storedTxs, applied, height>> ELSE ClearPersisted
  BY DEF Start, persisted
<1>2. TypeOK /\ LayersInv /\ height \in Nat /\ Len(history) \in Nat
  BY LenProperties DEF Inv, TypeOK
<1>3. CASE height <= Len(history)
  <2>1. TypeOK'
    BY <1>1, <1>2, <1>3 DEF TypeOK, Stages, Ops
  <2>2. OnChain \/ Torn
    BY <1>1, <1>2, <1>3 DEF LayersInv
  <2>3. OnChain' \/ Torn'
    <3>1. UNCHANGED <<history, storedTxs, applied, height>>
      BY <1>1, <1>3
    <3>2. CASE OnChain
      BY <3>1, <3>2 DEF OnChain, Clean
    <3>3. CASE Torn
      BY <3>1, <3>3 DEF Torn, Throws, FirstRangeEnd, ChunkEnd, PersistUpTo
    <3> QED BY <2>2, <3>2, <3>3
  <2>4. LayersInv'
    BY <2>3, <1>1, <1>2, <1>3 DEF LayersInv
  <2> QED BY <2>1, <2>4 DEF Inv
<1>4. CASE ~(height <= Len(history))
  <2>1. OnChain' /\ NoRepeat(applied') /\ applied' \in Seq(Block)
    BY <1>1, <1>2, <1>4, Cleared
  <2>2. TypeOK'
    BY <2>1, <1>1, <1>2, <1>4 DEF TypeOK, Stages, Ops, ClearPersisted
  <2>3. LayersInv'
    BY <2>1, <1>1, <1>2, <1>4 DEF LayersInv
  <2> QED BY <2>2, <2>3 DEF Inv
<1> QED BY <1>3, <1>4

(* While removeAfter shortens the history, a persisted state not above it   *)
(* stays a prefix of it.                                                    *)
LEMMA CuttingOnChain ==
    ASSUME Inv, pc \in {"discard", "discarded", "cutBottom"}, height <= Len(history)
    PROVE  OnChain
<1> DEFINE ab == applied \o bottom
           n == Len(history)
<1>1. /\ TypeOK /\ LayersInv /\ height \in Nat /\ n \in Nat /\ history \in Seq(Block)
      /\ applied \in Seq(Block) /\ bottom \in Seq(Block) /\ top \in Seq(Block)
      /\ Len(bottom) \in Nat /\ Len(top) \in Nat
      /\ ab \in Seq(Block) /\ Composite \in Seq(Block) /\ Composite = ab \o top
  BY CompositeType, LenProperties DEF Inv, TypeOK, Composite
<1>2. Clean /\ (Cutting(Composite) \/ Cutting(ab))
  BY <1>1 DEF LayersInv, Cutting
<1>3. /\ Len(ab) = height + Len(bottom) /\ Len(Composite) = height + Len(bottom) + Len(top)
      /\ SubSeq(ab, 1, height) = applied
  BY <1>1, <1>2, CompositeType, ConcatPrefix DEF Clean
<1>4. SubSeq(Composite, 1, height) = applied
  <2> HIDE DEF ab
  <2>1. SubSeq(ab \o top, 1, height) = SubSeq(ab, 1, height)
    BY <1>1, <1>3, CutWithin
  <2> QED BY <1>1, <1>3, <2>1
<1>5. ASSUME NEW s \in {ab, Composite}, Cutting(s) PROVE SubSeq(history, 1, height) = applied
  <2>1. s \in Seq(Block) /\ n <= Len(s) /\ history = SubSeq(s, 1, n) /\ SubSeq(s, 1, height) = applied
    BY <1>1, <1>3, <1>4, <1>5 DEF Cutting
  <2>2. SubSeq(SubSeq(s, 1, n), 1, height) = SubSeq(s, 1, height)
    BY <2>1, <1>1, CutTwice
  <2> QED BY <2>1, <2>2
<1> QED BY <1>2, <1>5 DEF OnChain

(* Wherever a crash falls, what LevelDB holds is a state of this chain, or  *)
(* one the next start drops, or one it notices.                             *)
LEMMA CrashInv == ASSUME Inv, Crash PROVE Inv'
<1>1. /\ pc # "down" /\ pc' = "down" /\ op' = "none"
      /\ block' = NoBlock /\ target' = 0 /\ diff' = <<>> /\ bottom' = <<>> /\ top' = <<>>
      /\ UNCHANGED <<history, storedTxs, applied, height>>
  BY DEF Crash, durable
<1>2. /\ TypeOK /\ LayersInv /\ height \in Nat /\ Len(history) \in Nat
      /\ applied \in Seq(Block) /\ diff \in Seq(Block) /\ history \in Seq(Block)
      /\ NoRepeat(history) /\ Len(diff) \in Nat
  BY LenProperties DEF Inv, TypeOK, LayersInv
<1>3. OnChain \/ Torn \/ (Clean /\ Len(history) < height)
  <2>1. CASE pc = "idle" \/ pc = "append"
    BY <2>1, <1>2, LayersOfHistory DEF LayersInv
  <2>2. CASE pc = "rebuild"
    BY <2>2, <1>2 DEF LayersInv
  <2>3. CASE pc \in {"store", "height"}
    <3>1. /\ Applying /\ height <= Len(history) /\ height <= Len(applied)
          /\ SubSeq(applied, 1, height) = SubSeq(history, 1, height)
          /\ storedTxs \subseteq Range(applied) \cup Range(diff)
          /\ Range(applied) \subseteq storedTxs
          /\ pc = "store" => height = Len(applied) /\ applied = SubSeq(history, 1, height)
          /\ pc = "height" =>
                height + Len(diff) = Len(applied) /\ applied = SubSeq(history, 1, height) \o diff
      <4>1. CASE pc = "store"
        <5>1. Applying /\ height = Len(applied) /\ applied = SubSeq(history, 1, height)
              /\ Range(applied) \subseteq storedTxs
              /\ storedTxs \subseteq Range(applied) \cup Range(diff) /\ height <= Len(history)
          BY <4>1, <1>2 DEF LayersInv, Applying
        <5>2. SubSeq(applied, 1, height) = SubSeq(history, 1, height)
          BY <5>1, <1>2, SubSeqFull
        <5> QED BY <4>1, <5>1, <5>2, <1>2
      <4>2. CASE pc = "height"
        <5>1. Applying /\ height + Len(diff) = Len(applied)
              /\ applied = SubSeq(history, 1, height) \o diff
              /\ storedTxs = Range(applied) /\ height <= Len(history)
          BY <4>2, <1>2 DEF LayersInv, Applying
        <5>2. SubSeq(history, 1, height) \in Seq(Block) /\ Len(SubSeq(history, 1, height)) = height
          BY <5>1, <1>2, SubSeqType
        <5>3. SubSeq(applied, 1, height) = SubSeq(history, 1, height)
          <6> DEFINE u == SubSeq(history, 1, height)
          <6>1. u \in Seq(Block) /\ Len(u) = height /\ applied = u \o diff
            BY <5>1, <5>2
          <6> HIDE DEF u
          <6>2. SubSeq(u \o diff, 1, Len(u)) = u
            BY <6>1, <1>2, ConcatPrefix
          <6>3. SubSeq(applied, 1, height) = u
            BY <6>1, <6>2
          <6> QED BY <6>3 DEF u
        <5> QED BY <4>2, <5>1, <5>3, <1>2
      <4> QED BY <2>3, <4>1, <4>2
    <3>2. CASE diff = <<>>
      <4>1. Len(diff) = 0 /\ Range(diff) = {}
        BY <3>2, RangeEmpty
      <4>2. storedTxs = Range(applied) /\ height = Len(applied)
        BY <2>3, <3>1, <4>1, <1>2
      <4>3. applied = SubSeq(history, 1, height)
        BY <3>1, <4>2, <1>2, SubSeqFull
      <4> QED BY <3>1, <4>2, <4>3 DEF OnChain, Clean
    <3>3. CASE diff # <<>> /\ storedTxs \cap Range(diff) # {}
      <4> DEFINE e == ChunkEnd(height + 1, PersistUpTo)
      <4>1. height + 1 < PersistUpTo /\ diff = SubSeq(history, height + 1, e - 1) /\ FirstRangeEnd = e
        BY <3>1, <3>3 DEF Applying, BlocksOf, FirstRangeEnd
      <4>2. e \in Nat /\ height + 1 < e /\ e <= Len(history)
        BY <4>1, <1>2, ChunkBounds
      <4> HIDE DEF e
      <4>3. PICK i \in 1 .. Len(diff) : diff[i] \in storedTxs
        BY <3>3, <1>2, RangeMember
      <4>4. /\ Len(diff) = IF height + 1 <= e - 1 THEN e - 1 - (height + 1) + 1 ELSE 0
            /\ \A j \in 1 .. e - 1 - (height + 1) + 1 : diff[j] = history[height + 1 + j - 1]
        BY <4>1, <4>2, <1>2, SubSeqType
      <4>5. height + i \in height + 1 .. e - 1 /\ diff[i] = history[height + i]
        <5>1. i \in 1 .. e - 1 - (height + 1) + 1 /\ height + 1 + i - 1 = height + i
          BY <4>2, <4>4, <1>2
        <5>2. diff[i] = history[height + 1 + i - 1]
          BY <4>4, <5>1
        <5> QED BY <5>1, <5>2, <4>2, <1>2
      <4>6. Throws(height + 1, FirstRangeEnd)
        BY <4>1, <4>3, <4>5 DEF Throws
      <4> QED BY <3>1, <4>6 DEF Torn
    <3>4. CASE diff # <<>> /\ storedTxs \cap Range(diff) = {}
      <4>1. storedTxs = Range(applied)
        BY <3>1, <3>4
      <4>2. pc = "store"
        <5>1. ASSUME pc = "height" PROVE FALSE
          <6> DEFINE u == SubSeq(history, 1, height)
          <6>1. u \in Seq(Block)
            BY <3>1, <1>2, SubSeqType
          <6>2. applied = u \o diff
            BY <3>1, <5>1
          <6> HIDE DEF u
          <6>3. Range(applied) = Range(u) \cup Range(diff)
            BY <6>1, <6>2, <1>2, RangeConcat
          <6>4. Len(diff) \in Nat \ {0}
            BY <3>4, <1>2, EmptySeq
          <6>5. diff[1] \in Range(diff)
            BY <6>4, <1>2, RangeMember
          <6> QED BY <6>3, <6>5, <4>1, <3>4
        <5> QED BY <5>1, <2>3
      <4> QED BY <3>1, <4>1, <4>2 DEF OnChain, Clean
    <3> QED BY <3>2, <3>3, <3>4
  <2>4. CASE pc \in {"shift", "clearTop"}
    <3>1. Clean /\ applied \o top = history /\ top \in Seq(Block)
      BY <2>4, <1>2 DEF LayersInv, TypeOK
    <3>2. SubSeq(history, 1, height) = applied /\ height <= Len(history)
      BY <3>1, <1>2, ConcatPrefix, ConcatProperties, LenProperties DEF Clean
    <3> QED BY <3>1, <3>2 DEF OnChain
  <2>5. CASE pc = "combine"
    <3> DEFINE u == Composite
    <3>1. Clean /\ Append(Composite, block) = history /\ block \in Block /\ Composite \in Seq(Block)
      BY <2>5, <1>2, CompositeType DEF LayersInv
    <3>2. SubSeq(Composite, 1, height) = applied /\ height <= Len(Composite) /\ Len(Composite) \in Nat
      <4> DEFINE ab == applied \o bottom
      <4>1. ab \in Seq(Block) /\ top \in Seq(Block) /\ bottom \in Seq(Block)
            /\ Len(ab) = height + Len(bottom) /\ Len(Composite) = height + Len(bottom) + Len(top)
            /\ Len(bottom) \in Nat /\ Len(top) \in Nat
        BY <3>1, <1>2, CompositeType, LenProperties DEF TypeOK, Clean
      <4>2. SubSeq(applied \o bottom, 1, height) = applied
        BY <4>1, <3>1, <1>2, ConcatPrefix DEF Clean
      <4> HIDE DEF ab
      <4>3. SubSeq(ab \o top, 1, height) = SubSeq(ab, 1, height)
        BY <4>1, <1>2, CutWithin
      <4> QED BY <4>1, <4>2, <4>3, <1>2 DEF Composite, ab
    <3>3. history = Composite \o <<block>> /\ <<block>> \in Seq(Block) /\ Len(history) = Len(Composite) + 1
      BY <3>1, <3>2, AppendIsConcat, AppendProperties
    <3> HIDE DEF Composite
    <3>4. SubSeq(history, 1, height) = SubSeq(Composite, 1, height)
      BY <3>1, <3>2, <3>3, <1>2, CutWithin
    <3> QED BY <3>1, <3>2, <3>3, <3>4, <1>2 DEF OnChain
  <2>6. CASE pc \in {"discard", "discarded", "cutBottom"}
    <3>1. height <= Len(history) => OnChain
      BY <2>6, CuttingOnChain
    <3> QED BY <2>6, <3>1, <1>2 DEF LayersInv, Cutting
  <2> QED BY <1>1, <1>2, <2>1, <2>2, <2>3, <2>4, <2>5, <2>6 DEF TypeOK, Stages
<1>4. OnChain' \/ Torn' \/ (Clean /\ Len(history) < height)'
  <2>1. CASE OnChain
    BY <2>1, <1>1 DEF OnChain, Clean
  <2>2. CASE Torn
    BY <2>2, <1>1 DEF Torn, Throws, FirstRangeEnd, ChunkEnd, PersistUpTo
  <2>3. CASE Clean /\ Len(history) < height
    BY <2>3, <1>1 DEF Clean
  <2> QED BY <1>3, <2>1, <2>2, <2>3
<1>5. TypeOK'
  BY <1>1, <1>2 DEF TypeOK, Stages, Ops
<1>6. LayersInv'
  BY <1>1, <1>2, <1>4, EmptySeq, MinDiffAssumption DEF LayersInv
<1> QED BY <1>5, <1>6 DEF Inv

-----------------------------------------------------------------------------
(* Every state of every behaviour of the node is well typed and satisfies   *)
(* the layer invariant.                                                     *)
THEOREM NextInv == Inv /\ [Next]_vars => Inv'
<1> SUFFICES ASSUME Inv, [Next]_vars PROVE Inv'
  OBVIOUS
<1>1. CASE Step
  BY <1>1, StoreTransactionsInv, ApplyRestInv, SetHeightInv, ShiftTopInv, ClearTopInv,
     AppendBlockInv, RejectBlockInv, CombineTopInv, DiscardBlockInv, DiscardedAllInv,
     RebuildAllInv, CutTopInv, CutBottomInv, PersistChunkInv, BuildInMemoryInv, FailedStartInv
     DEF Step
<1>2. CASE Call
  BY <1>2, BlockAssumption, ProcessBlockInv, RemoveAfterInv DEF Call, CheckGenesis
<1>3. CASE UNCHANGED vars
  <2>1. TypeOK'
    BY <1>3 DEF Inv, TypeOK, vars
  <2>2. (Clean' <=> Clean) /\ (OnChain' <=> OnChain) /\ Composite' = Composite
    BY <1>3 DEF vars, OnChain, Clean, Composite
  <2>3. Torn' <=> Torn
    BY <1>3 DEF vars, Torn, Throws, FirstRangeEnd, ChunkEnd, PersistUpTo
  <2>4. Applying' <=> Applying
    BY <1>3 DEF vars, Applying, ChunkEnd, PersistUpTo, BlocksOf
  <2>5. LayersInv'
    BY <1>3, <2>2, <2>3, <2>4 DEF Inv, vars, LayersInv, Cutting
  <2> QED BY <2>1, <2>5 DEF Inv
<1> QED BY <1>1, <1>2, <1>3, StartInv, CrashInv DEF Next

(* The inductive invariant holds at every write of every call. *)
THEOREM InvAlways == Spec => []Inv
<1> QED BY InitInv, NextInv, PTL DEF Spec

(* The variables keep their types: heights stay natural, every range that   *)
(* unsafeDiffByRange reads lies inside the history.                         *)
THEOREM TypeCorrect == Spec => []TypeOK
<1>1. Inv => TypeOK
  BY DEF Inv
<1> QED BY <1>1, InvAlways, PTL

(* The layer invariant, which the others follow from. *)
THEOREM LayersCorrect == Spec => []LayersInv
<1>1. Inv => LayersInv
  BY DEF Inv
<1> QED BY <1>1, InvAlways, PTL

(* Whoever gets the write lock finds the state of exactly the blocks of the *)
(* history, whatever calls, rejected blocks, crashes and starts came before. *)
THEOREM StateIsHistoryAlways == Spec => []StateIsHistory
<1>1. LayersInv => StateIsHistory
  BY DEF LayersInv, StateIsHistory, Clean
<1> QED BY <1>1, LayersCorrect, PTL

(* Neither memory layer outgrows minimumInMemoryDiffSize. *)
THEOREM MemoryBoundedAlways == Spec => []MemoryBounded
<1>1. LayersInv => MemoryBounded
  BY DEF LayersInv, MemoryBounded
<1> QED BY <1>1, LayersCorrect, PTL

(* No crash and no restart makes applyBlockDiff add a block's portfolios    *)
(* a second time.                                                           *)
THEOREM AppliedOnceAlways == Spec => []AppliedOnce
<1>1. LayersInv => AppliedOnce
  BY DEF LayersInv, AppliedOnce, NoRepeat
<1> QED BY <1>1, LayersCorrect, PTL

(* StorageFactory's comparison of heights tells a state of this chain from  *)
(* one of a chain that was rolled back.                                     *)
THEOREM KeptStateAlways == Spec => []KeptStateIsOfThisChain
<1>1. Inv => KeptStateIsOfThisChain
  <2> SUFFICES ASSUME Inv, pc = "down", height <= Len(history)
               PROVE  SubSeq(applied, 1, height) = SubSeq(history, 1, height)
    BY DEF KeptStateIsOfThisChain
  <2>1. height \in Nat /\ Len(history) \in Nat /\ applied \in Seq(Block) /\ history \in Seq(Block)
    BY LenProperties DEF Inv, TypeOK
  <2>2. OnChain \/ Torn
    BY <2>1 DEF Inv, LayersInv
  <2>3. CASE OnChain
    BY <2>1, <2>3, SubSeqFull DEF OnChain, Clean
  <2>4. CASE Torn
    BY <2>4 DEF Torn
  <2> QED BY <2>2, <2>3, <2>4
<1> QED BY <1>1, InvAlways, PTL

(* A state of a prefix of the chain holds no transaction of the rest.       *)
LEMMA OnChainNeverThrows ==
    ASSUME Inv, OnChain, NEW n \in Nat, n <= Len(history)
    PROVE  ~Throws(height + 1, n + 1)
<1>1. /\ height \in Nat /\ Len(history) \in Nat /\ history \in Seq(Block) /\ NoRepeat(history)
      /\ storedTxs = Range(applied) /\ applied \in Seq(Block) /\ Len(applied) = height
      /\ height <= Len(history) /\ applied = SubSeq(history, 1, height)
  BY LenProperties DEF Inv, TypeOK, LayersInv, OnChain, Clean
<1> SUFFICES ASSUME NEW i \in height + 1 .. (n + 1) - 1, history[i] \in storedTxs PROVE FALSE
  BY DEF Throws
<1>2. PICK j \in 1 .. Len(applied) : applied[j] = history[i]
  BY <1>1, RangeMember
<1>3. \A k \in 1 .. height : applied[k] = history[k]
  <2>1. \A k \in 1 .. height - 1 + 1 : SubSeq(history, 1, height)[k] = history[1 + k - 1]
    BY <1>1, SubSeqType
  <2> QED BY <2>1, <1>1
<1>4. i \in 1 .. Len(history) /\ j \in 1 .. Len(history) /\ i # j /\ history[j] = history[i]
  BY <1>1, <1>2, <1>3
<1> QED BY <1>1, <1>4 DEF NoRepeat

(* removeAfter never stops halfway, the history cut and the layers not: no  *)
(* range it recomputes holds a transaction of the state below it.           *)
THEOREM RollbackNeverThrowsAlways == Spec => []RollbackNeverThrows
<1>1. Inv => RollbackNeverThrows
  <2> SUFFICES ASSUME Inv PROVE RollbackNeverThrows
    OBVIOUS
  <2>1. ASSUME pc \in {"discarded", "cutBottom"}, height <= target
        PROVE  ~Throws(height + 1, target + 1)
    <3>1. target \in Nat /\ target = Len(history)
      BY <2>1 DEF Inv, LayersInv, TypeOK
    <3>2. OnChain
      BY <2>1, <3>1, CuttingOnChain
    <3> QED BY <3>1, <3>2, OnChainNeverThrows
  <2>2. ASSUME pc = "rebuild", op = "rollback"
        PROVE  ~Throws(height + 1, Len(history) + 1)
    BY <2>2, OnChainNeverThrows, LenProperties DEF Inv, LayersInv, TypeOK
  <2> QED BY <2>1, <2>2 DEF RollbackNeverThrows
<1> QED BY <1>1, InitInv, NextInv, PTL DEF Spec

-----------------------------------------------------------------------------
(* Why calls end.  What fairness adds to these three facts is only that a   *)
(* thread that can go on does.                                              *)

(* The puts of transactions that applyBlockDiff has left.                   *)
ToStore == Cardinality(Range(diff) \ storedTxs)

(* The steps of updatePersistedAndInMemory from height h on, four at most   *)
(* for each block: a chunk is chosen, stored, applied, its height set.      *)
RebuildFrom(h) == 1 + 4 * (Len(history) - h)

(* How many steps the call that holds the lock can still take.              *)
Work ==
    CASE pc \in {"idle", "down"} -> 0
      [] pc \in {"combine", "cutBottom"} -> 1
      [] pc = "append" -> 2
      [] pc = "clearTop" -> 3
      [] pc = "shift" -> 4
      [] pc = "height" -> IF op = "process" THEN 5 ELSE 1 + RebuildFrom(height + Len(diff))
      [] pc = "store" -> ToStore + (IF op = "process" THEN 6 ELSE 2 + RebuildFrom(height + Len(diff)))
      [] pc = "rebuild" -> RebuildFrom(height)
      [] pc = "discarded" -> 2 + 4 * target
      [] pc = "discard" -> 3 + 3 * target + Len(history)

(* Where the call stands, the guard of some step holds.                     *)
StepReady ==
    \/ pc \in {"store", "height", "shift", "clearTop", "append", "combine", "cutBottom"}
    \/ pc = "discard" /\ target <= Len(history)
    \/ pc = "discarded" /\ (target < height \/ CompositeHeight # target)
    \/ pc = "rebuild" /\ (op = "boot" \/ ~Throws(height + 1, FirstRangeEnd))

NeverStuck == pc \notin {"idle", "down"} => StepReady

(* A diff has no more transactions to put than blocks. *)
LEMMA ToStoreType ==
    ASSUME NEW d \in Seq(Block), NEW stored
    PROVE  /\ IsFiniteSet(Range(d) \ stored)
           /\ Cardinality(Range(d) \ stored) \in Nat
           /\ Cardinality(Range(d) \ stored) <= Len(d)
<1>1. Len(d) \in Nat /\ DOMAIN d = 1 .. Len(d) /\ d \in [1 .. Len(d) -> Block]
  BY LenProperties
<1>2. d \in Surjection(1 .. Len(d), Range(d))
  <2>1. \A i \in 1 .. Len(d) : d[i] \in Range(d)
    BY <1>1 DEF Range
  <2>2. d \in [1 .. Len(d) -> Range(d)]
    BY <1>1, <2>1
  <2>3. \A x \in Range(d) : \E i \in 1 .. Len(d) : d[i] = x
    BY <1>1 DEF Range
  <2> QED BY <2>2, <2>3 DEF Surjection
<1>3. IsFiniteSet(1 .. Len(d)) /\ Cardinality(1 .. Len(d)) = Len(d)
  BY <1>1, FS_Interval
<1>4. IsFiniteSet(Range(d)) /\ Cardinality(Range(d)) <= Len(d)
  BY <1>2, <1>3, FS_Surjection
<1>5. Range(d) \ stored \in SUBSET Range(d)
  OBVIOUS
<1>6. IsFiniteSet(Range(d) \ stored) /\ Cardinality(Range(d) \ stored) <= Cardinality(Range(d))
  BY <1>4, <1>5, FS_Subset
<1> QED BY <1>1, <1>4, <1>6, FS_CardinalityType

LEMMA WorkTypes ==
    ASSUME Inv
    PROVE  /\ Len(history) \in Nat /\ height \in Nat /\ target \in Nat /\ Len(diff) \in Nat
           /\ ToStore \in Nat
           /\ pc = "rebuild" => height <= Len(history)
           /\ pc \in {"store", "height"} => height + Len(diff) <= Len(history)
<1>1. Len(history) \in Nat /\ height \in Nat /\ target \in Nat /\ Len(diff) \in Nat
  BY LenProperties DEF Inv, TypeOK
<1>2. ToStore \in Nat
  BY ToStoreType DEF Inv, TypeOK, ToStore
<1>3. pc = "rebuild" => height <= Len(history)
  BY DEF Inv, LayersInv, OnChain, Torn
<1>4. pc \in {"store", "height"} => height + Len(diff) <= Len(history)
  <2> SUFFICES ASSUME pc \in {"store", "height"} PROVE height + Len(diff) <= Len(history)
    OBVIOUS
  <2>1. TypeOK /\ Applying
    BY DEF Inv, LayersInv
  <2> QED BY <2>1, ApplyingPrefix
<1> QED BY <1>1, <1>2, <1>3, <1>4

LEMMA WorkInNat == ASSUME Inv PROVE Work \in Nat
<1> DEFINE after == RebuildFrom(height + Len(diff))
           now == RebuildFrom(height)
<1>1. /\ pc \in {"store", "height"} => after \in Nat
      /\ pc = "rebuild" => now \in Nat
      /\ Len(history) \in Nat /\ target \in Nat /\ ToStore \in Nat
  BY WorkTypes DEF RebuildFrom
<1> HIDE DEF after, now
<1>2. /\ pc \in {"store", "height"} =>
            Work = (IF pc = "store" THEN ToStore ELSE 0) +
                   (IF op = "process" THEN (IF pc = "store" THEN 6 ELSE 5)
                                      ELSE (IF pc = "store" THEN 2 ELSE 1) + after)
      /\ pc = "rebuild" => Work = now
  BY <1>1 DEF Work, after, now
<1>3. CASE pc \in {"store", "height"}
  BY <1>1, <1>2, <1>3
<1>4. CASE pc = "rebuild"
  BY <1>1, <1>2, <1>4
<1>5. CASE pc \in Stages \ {"store", "height", "rebuild"}
  BY <1>1, <1>5 DEF Work, Stages
<1> QED BY <1>3, <1>4, <1>5 DEF Inv, TypeOK

(* applyBlockDiff *)
LEMMA StoreWork ==
    ASSUME Inv, StoreTransactions \/ ApplyRest \/ SetHeight PROVE Work' < Work
<1>0. /\ Len(history) \in Nat /\ height \in Nat /\ Len(diff) \in Nat /\ ToStore \in Nat
      /\ history' = history /\ op' = op
  BY WorkTypes DEF StoreTransactions, ApplyRest, SetHeight
<1>1. CASE StoreTransactions
  <2>1. PICK b \in Range(diff) \ storedTxs : storedTxs' = storedTxs \cup {b}
    BY <1>1 DEF StoreTransactions
  <2>2. Range(diff)' \ storedTxs' = (Range(diff) \ storedTxs) \ {b}
    BY <1>1, <2>1 DEF StoreTransactions
  <2>3. IsFiniteSet(Range(diff) \ storedTxs)
    BY ToStoreType DEF Inv, TypeOK
  <2>4. ToStore' = ToStore - 1
    BY <2>1, <2>2, <2>3, FS_RemoveElement DEF ToStore
  <2>5. pc = "store" /\ pc' = "store" /\ UNCHANGED <<height, diff>>
    BY <1>1 DEF StoreTransactions
  <2> QED BY <1>0, <2>4, <2>5 DEF Work, RebuildFrom
<1>2. CASE ApplyRest
  <2>1. pc = "store" /\ pc' = "height" /\ UNCHANGED <<height, diff>>
    BY <1>2 DEF ApplyRest
  <2> QED BY <1>0, <2>1 DEF Work, RebuildFrom
<1>3. CASE SetHeight
  <2>1. /\ pc = "height" /\ height' = height + Len(diff)
        /\ pc' = IF op = "process" THEN "shift" ELSE "rebuild"
    BY <1>3 DEF SetHeight
  <2> QED BY <1>0, <2>1 DEF Work, RebuildFrom
<1> QED BY <1>1, <1>2, <1>3

(* processBlock *)
LEMMA ProcessWork ==
    ASSUME Inv, ShiftTop \/ ClearTop \/ AppendBlock \/ RejectBlock \/ CombineTop
    PROVE  Work' < Work
<1>1. \/ pc = "shift" /\ pc' = "clearTop"
      \/ pc = "clearTop" /\ pc' = "append"
      \/ pc = "append" /\ pc' = "combine"
      \/ pc \in {"append", "combine"} /\ pc' = "idle"
  BY DEF ShiftTop, ClearTop, AppendBlock, RejectBlock, CombineTop, Finish
<1> QED BY <1>1 DEF Work

(* removeAfter *)
LEMMA RollbackWork ==
    ASSUME Inv, DiscardBlock \/ DiscardedAll \/ RebuildAll \/ CutTop \/ CutBottom
    PROVE  Work' < Work
<1>0. Len(history) \in Nat /\ height \in Nat /\ target \in Nat
  BY WorkTypes
<1>1. CASE DiscardBlock
  <2>1. pc = "discard" /\ pc' = "discard" /\ target' = target /\ history' = Front(history)
        /\ Len(history) > target
    BY <1>1 DEF DiscardBlock
  <2>2. Len(history') = Len(history) - 1
    <3>1. history \in Seq(Block) /\ history # <<>>
      BY <1>0, <2>1, EmptySeq DEF Inv, TypeOK
    <3> QED BY <2>1, <3>1, FrontType
  <2> QED BY <1>0, <2>1, <2>2 DEF Work
<1>2. CASE DiscardedAll
  <2>1. pc = "discard" /\ pc' = "discarded" /\ target' = target /\ Len(history) = target
    BY <1>2 DEF DiscardedAll
  <2> QED BY <1>0, <2>1 DEF Work
<1>3. CASE RebuildAll
  <2>1. /\ pc = "discarded" /\ pc' = "rebuild" /\ height' = 0 /\ history' = history
        /\ Len(history) = target
    BY <1>3 DEF RebuildAll, ClearPersisted, Inv, LayersInv
  <2> QED BY <1>0, <2>1 DEF Work, RebuildFrom
<1>4. CASE CutTop
  <2>1. pc = "discarded" /\ pc' \in {"idle", "cutBottom"}
    BY <1>4 DEF CutTop, Finish
  <2> QED BY <1>0, <2>1 DEF Work
<1>5. CASE CutBottom
  <2>1. pc = "cutBottom" /\ pc' = "idle"
    BY <1>5 DEF CutBottom, Finish
  <2> QED BY <2>1 DEF Work
<1> QED BY <1>1, <1>2, <1>3, <1>4, <1>5

(* updatePersistedAndInMemory: a chunk is not empty, so that each brings    *)
(* the height closer to that of the history.                                *)
LEMMA RebuildWork ==
    ASSUME Inv, PersistChunk \/ BuildInMemory \/ FailedStart PROVE Work' < Work
<1>0. Len(history) \in Nat /\ height \in Nat /\ height <= Len(history) /\ pc = "rebuild"
  BY WorkTypes DEF PersistChunk, BuildInMemory, FailedStart
<1>1. CASE PersistChunk
  <2> DEFINE e == ChunkEnd(height + 1, PersistUpTo)
  <2>1. /\ pc' = "store" /\ op' = op /\ op # "process" /\ height + 1 < PersistUpTo
        /\ diff' = BlocksOf(height + 1, e)
        /\ UNCHANGED <<history, storedTxs, height>>
    BY <1>0, <1>1 DEF PersistChunk, StartApply, Inv, LayersInv
  <2>2. e \in Nat /\ height + 1 < e /\ e <= Len(history)
    BY <2>1, ChunkBounds DEF Inv
  <2> HIDE DEF e
  <2>3. diff' \in Seq(Block) /\ Len(diff') = e - 1 - height
    <3>1. history \in Seq(Block) /\ height + 1 \in Nat /\ e - 1 \in Int
      BY <1>0, <2>2 DEF Inv, TypeOK
    <3>2. /\ SubSeq(history, height + 1, e - 1) \in Seq(Block)
          /\ Len(SubSeq(history, height + 1, e - 1))
               = IF height + 1 <= e - 1 THEN e - 1 - (height + 1) + 1 ELSE 0
      BY <1>0, <2>2, <3>1, SubSeqType
    <3> QED BY <1>0, <2>1, <2>2, <3>2 DEF BlocksOf
  <2>4. ToStore' \in Nat /\ ToStore' <= Len(diff')
    BY <2>3, ToStoreType DEF ToStore
  <2>5. Work' = ToStore' + (2 + (1 + 4 * (Len(history) - (height + Len(diff')))))
    BY <2>1 DEF Work, RebuildFrom
  <2>6. Work = 1 + 4 * (Len(history) - height)
    BY <1>0 DEF Work, RebuildFrom
  <2> QED BY <1>0, <2>2, <2>3, <2>4, <2>5, <2>6
<1>2. CASE BuildInMemory \/ FailedStart
  <2>1. pc' \in {"idle", "down"}
    BY <1>2 DEF BuildInMemory, FailedStart, Finish
  <2> QED BY <1>0, <2>1 DEF Work, RebuildFrom
<1> QED BY <1>1, <1>2

(* Each step of a call, whichever it is, leaves it less to do: the loops of *)
(* removeAfter, of updatePersistedAndInMemory and over the transactions of  *)
(* applyBlockDiff all end, for every history and every buffer size.         *)
THEOREM StepsAreFinite == Spec => [](Work \in Nat) /\ [][Step => Work' < Work]_vars
<1>1. ASSUME Inv, Step PROVE Work' < Work
  BY <1>1, StoreWork, ProcessWork, RollbackWork, RebuildWork DEF Step
<1>2. Inv => Work \in Nat
  BY WorkInNat
<1>3. Inv /\ [Next]_vars => [Step => Work' < Work]_vars
  BY <1>1
<1> QED BY <1>2, <1>3, InvAlways, PTL DEF Spec

(* A call that holds the lock is never without a step: removeAfter finds    *)
(* the history at its target after discarding, the layers above it, and a   *)
(* range it may recompute.                                                  *)
THEOREM NeverStuckAlways == Spec => []NeverStuck
<1>1. Inv /\ RollbackNeverThrows => NeverStuck
  <2> SUFFICES ASSUME Inv, RollbackNeverThrows, pc \notin {"idle", "down"} PROVE StepReady
    BY DEF NeverStuck
  <2>0. /\ TypeOK /\ LayersInv /\ Len(history) \in Nat /\ height \in Nat /\ target \in Nat
        /\ MinDiff \in Nat
    BY LenProperties, MinDiffAssumption DEF Inv, TypeOK
  <2>1. CASE pc = "discard"
    BY <2>0, <2>1 DEF LayersInv, Cutting, StepReady
  <2>2. CASE pc = "discarded"
    <3>1. Clean /\ target < Len(Composite)
      BY <2>0, <2>2 DEF LayersInv, Cutting
    <3>2. Len(Composite) = Len(applied) + Len(bottom) + Len(top)
      <4>1. /\ applied \o bottom \in Seq(Block) /\ Len(applied \o bottom) = Len(applied) + Len(bottom)
            /\ Len((applied \o bottom) \o top) = Len(applied \o bottom) + Len(top)
        BY <2>0, ConcatProperties DEF TypeOK
      <4> QED BY <4>1 DEF Composite
    <3>3. CompositeHeight = Len(Composite)
      BY <3>1, <3>2 DEF Clean, CompositeHeight
    <3> QED BY <2>0, <2>2, <3>1, <3>3 DEF StepReady
  <2>3. CASE pc = "rebuild"
    <3>1. CASE op = "boot"
      BY <2>3, <3>1 DEF StepReady
    <3>2. CASE op = "rollback"
      <4>1. ~Throws(height + 1, Len(history) + 1)
        BY <2>3, <3>2 DEF RollbackNeverThrows
      <4>2. FirstRangeEnd \in Int /\ FirstRangeEnd <= Len(history) + 1
        BY <2>0 DEF FirstRangeEnd, ChunkEnd, PersistUpTo
      <4>3. ~Throws(height + 1, FirstRangeEnd)
        BY <2>0, <4>1, <4>2 DEF Throws
      <4> QED BY <2>3, <4>3 DEF StepReady
    <3> QED BY <2>0, <2>3, <3>1, <3>2 DEF LayersInv
  <2>4. CASE pc \in {"store", "height", "shift", "clearTop", "append", "combine", "cutBottom"}
    BY <2>4 DEF StepReady
  <2> QED BY <2>0, <2>1, <2>2, <2>3, <2>4 DEF TypeOK, Stages
<1> QED BY <1>1, InvAlways, RollbackNeverThrowsAlways, PTL

(* The node fails to start only on a state that applyBlockDiff left torn:   *)
(* some transactions stored, their portfolios or their height not.          *)
THEOREM OnlyTornFailsToStart == Spec => [][FailedStart => ~Clean]_vars
<1>1. ASSUME Inv, FailedStart, Clean PROVE FALSE
  <2>1. /\ pc = "rebuild" /\ Throws(height + 1, FirstRangeEnd)
        /\ Len(history) \in Nat /\ height \in Nat /\ MinDiff \in Nat
        /\ OnChain \/ Torn
    BY <1>1, LenProperties, MinDiffAssumption DEF FailedStart, Inv, TypeOK, LayersInv
  <2>2. OnChain
    <3>1. CASE Torn
      BY <1>1, <2>1, <3>1, SubSeqFull DEF Torn, OnChain, Clean, Inv, TypeOK
    <3> QED BY <2>1, <3>1
  <2>3. FirstRangeEnd \in Int /\ FirstRangeEnd <= Len(history) + 1
    BY <2>1 DEF FirstRangeEnd, ChunkEnd, PersistUpTo
  <2>4. ~Throws(height + 1, Len(history) + 1)
    BY <1>1, <2>1, <2>2, OnChainNeverThrows
  <2> QED BY <2>1, <2>3, <2>4 DEF Throws
<1>2. Inv /\ [Next]_vars => [FailedStart => ~Clean]_vars
  BY <1>1
<1> QED BY <1>2, InvAlways, PTL DEF Spec

-----------------------------------------------------------------------------
(* The refinement. *)

LEMMA PhaseValue ==
    ASSUME TypeOK, LayersInv
    PROVE  /\ pc = "down" \/ op = "boot" => Phase = "down"
           /\ pc = "idle" => Phase = "open"
           /\ pc = "combine" => Phase = "extended"
           /\ op = "process" /\ pc # "combine" => Phase = "extending"
           /\ op = "rollback" => Phase = "retracting"
BY DEF TypeOK, Ops, Stages, LayersInv, Phase

(* BlockchainUpdater implements ChainState: each of its steps extends the   *)
(* chain by one valid child, retracts it by one block, gives the chain back *)
(* with the state of exactly that chain, or changes nothing a user sees.    *)
THEOREM Refinement == Spec => ImplementsChainState
<1>1. Init => Chain!Init
  BY DEF Init, Chain!Init, Phase
<1>2. Inv /\ Inv' /\ [Next]_vars => [Chain!Next]_Chain!vars
  <2> SUFFICES ASSUME Inv, Inv', [Next]_vars PROVE [Chain!Next]_Chain!vars
    OBVIOUS
  <2>0. TypeOK /\ LayersInv /\ TypeOK' /\ LayersInv'
    BY DEF Inv
  <2>p. /\ pc = "down" \/ op = "boot" => Phase = "down"
        /\ pc = "idle" => Phase = "open"
        /\ pc = "combine" => Phase = "extended"
        /\ op = "process" /\ pc # "combine" => Phase = "extending"
        /\ op = "rollback" => Phase = "retracting"
    BY <2>0, PhaseValue
  <2>q. /\ pc' = "down" \/ op' = "boot" => Phase' = "down"
        /\ pc' = "idle" => Phase' = "open"
        /\ pc' = "combine" => Phase' = "extended"
        /\ op' = "process" /\ pc' # "combine" => Phase' = "extending"
        /\ op' = "rollback" => Phase' = "retracting"
    BY <2>0 DEF TypeOK, Ops, Stages, LayersInv, Phase
  <2>o. /\ op \in {"process", "rollback", "boot"} <=> pc \notin {"idle", "down"}
        /\ op' \in {"process", "rollback", "boot"} <=> pc' \notin {"idle", "down"}
    BY <2>0 DEF TypeOK, LayersInv, Ops
  <2>s. ASSUME pc # "idle", pc' = "idle", history' = history PROVE Chain!Settle
    <3>1. Phase # "open" /\ Phase' = "open"
      BY <2>s, <2>0, <2>p, <2>q, <2>o
    <3>2. (IF pc = "idle" THEN Composite ELSE <<>>)' = history
      BY <2>s, <2>0 DEF LayersInv
    <3> QED BY <3>1, <3>2, <2>s DEF Chain!Settle
  <2>u. ASSUME pc # "idle", pc' # "idle", history' = history, Phase' = Phase PROVE UNCHANGED Chain!vars
    BY <2>u DEF Chain!vars
  <2>1. CASE Step
    <3>1. CASE StoreTransactions \/ ApplyRest \/ SetHeight \/ ShiftTop \/ ClearTop
               \/ DiscardedAll \/ RebuildAll \/ PersistChunk \/ FailedStart
      <4>1. pc # "idle" /\ pc' # "idle" /\ history' = history
        BY <3>1 DEF StoreTransactions, ApplyRest, SetHeight, ShiftTop, ClearTop, DiscardedAll,
                    RebuildAll, PersistChunk, FailedStart, StartApply
      <4>2. Phase' = Phase
        <5>1. CASE FailedStart
          BY <5>1, <2>p, <2>q DEF FailedStart
        <5>2. CASE ~FailedStart
          <6>1. op' = op /\ pc # "combine" /\ pc' # "combine" /\ pc \notin {"idle", "down"}
            BY <3>1, <5>2 DEF StoreTransactions, ApplyRest, SetHeight, ShiftTop, ClearTop,
                    DiscardedAll, RebuildAll, PersistChunk, StartApply
          <6> QED BY <6>1, <2>p, <2>q, <2>o
        <5> QED BY <5>1, <5>2
      <4> QED BY <4>1, <4>2, <2>u
    <3>2. CASE AppendBlock
      <4>1. /\ pc = "append" /\ pc' = "combine" /\ op = "process" /\ block \in Block
            /\ block \in Valid /\ history' = Append(history, block)
            /\ Len(history) = 0 \/ LastBlock = Reference[block]
            /\ history = <<>> => block = Genesis /\ history \in Seq(Block)
        BY <3>2, <2>0 DEF AppendBlock, Acceptable, LayersInv, TypeOK
      <4>2. IF history = <<>> THEN block = Genesis ELSE Reference[block] = Last(history)
        BY <4>1, <2>0, EmptySeq DEF LastBlock, TypeOK
      <4>3. Phase = "extending" /\ Phase' = "extended"
        BY <4>1, <2>p, <2>q
      <4>v. UNCHANGED (IF pc = "idle" THEN Composite ELSE <<>>)
        BY <4>1
      <4>4. Chain!Extend(block)
        BY <4>1, <4>2, <4>3, <4>v DEF Chain!Extend, Chain!Last, Last
      <4> QED BY <4>1, <4>4 DEF Chain!Next
    <3>3. CASE RejectBlock \/ CombineTop \/ CutBottom \/ BuildInMemory
      <4>1. pc # "idle" /\ pc' = "idle" /\ history' = history
        BY <3>3 DEF RejectBlock, CombineTop, CutBottom, BuildInMemory, Finish
      <4> QED BY <4>1, <2>s DEF Chain!Next
    <3>4. CASE CutTop
      <4>1. CASE pc' = "idle"
        BY <3>4, <4>1, <2>s DEF CutTop, Chain!Next
      <4>2. CASE pc' # "idle"
        <5>1. /\ pc = "discarded" /\ pc' = "cutBottom" /\ op' = op /\ history' = history
          BY <3>4, <4>2 DEF CutTop, Finish
        <5>2. Phase' = Phase
          BY <5>1, <2>0, <2>p, <2>q DEF LayersInv
        <5> QED BY <5>1, <5>2, <2>u
      <4> QED BY <4>1, <4>2
    <3>5. CASE DiscardBlock
      <4>1. /\ pc = "discard" /\ pc' = "discard" /\ op' = op /\ op = "rollback"
            /\ Len(history) > target /\ history' = Front(history) /\ 1 <= target
            /\ target \in Nat /\ Len(history) \in Nat
        BY <3>5, <2>0, LenProperties DEF DiscardBlock, LayersInv, Cutting, TypeOK
      <4>2. Phase = "retracting" /\ Phase' = "retracting" /\ Len(history) > 1
        BY <4>1, <2>p, <2>q
      <4>v. UNCHANGED (IF pc = "idle" THEN Composite ELSE <<>>)
        BY <4>1
      <4>3. Phase' = Phase
        BY <4>2
      <4>4. Chain!Retract
        BY <4>1, <4>2, <4>3, <4>v DEF Chain!Retract, Chain!Front, Front
      <4> QED BY <4>4 DEF Chain!Next
    <3> QED BY <2>1, <3>1, <3>2, <3>3, <3>4, <3>5 DEF Step
  <2>2. CASE Call
    <3>1. /\ pc = "idle" /\ pc' \notin {"idle", "down", "combine"} /\ history' = history
          /\ op' \in {"process", "rollback"}
      BY <2>2 DEF Call, CheckGenesis, ProcessBlock, RemoveAfter, StartApply
    <3>2. Phase = "open" /\ Phase' \in {"extending", "retracting"}
      BY <3>1, <2>p, <2>q
    <3>3. (IF pc = "idle" THEN Composite ELSE <<>>)' = <<>>
      BY <3>1
    <3> QED BY <3>1, <3>2, <3>3 DEF Chain!Take, Chain!Next
  <2>3. CASE Start
    <3>1. pc = "down" /\ pc' = "rebuild" /\ op' = "boot" /\ history' = history
      BY <2>3 DEF Start
    <3>2. Phase' = Phase
      BY <3>1, <2>p, <2>q
    <3> QED BY <3>1, <3>2, <2>u
  <2>4. CASE Crash
    <3>1. pc' = "down" /\ history' = history
      BY <2>4 DEF Crash, durable
    <3> QED BY <3>1, <2>q DEF Chain!Die, Chain!Next
  <2>5. CASE UNCHANGED vars
    BY <2>5 DEF vars, Chain!vars, Phase, Composite
  <2> QED BY <2>1, <2>2, <2>3, <2>4, <2>5 DEF Next
<1> QED BY <1>1, <1>2, InitInv, NextInv, PTL DEF Spec, ImplementsChainState, Chain!Spec

-----------------------------------------------------------------------------
(* Reads beside the node.  Between its three reads a reader holds no lock,   *)
(* so the argument is about where in the chain the blocks of each diff lie:  *)
(* the diff below was read later, and the boundaries between the layers only *)
(* move up the chain, so each diff read reaches down to the one under it.    *)

\* The blocks of s are those of the history that end at height e.
Placed(s, e) ==
    /\ Len(s) <= e /\ e <= Len(history)
    /\ \A i \in 1 .. Len(s) : s[i] = history[e - Len(s) + i]

\* The chain behind the layers: while appendBlock's block is not in the top yet, one less.
LayersEnd == IF pc = "combine" THEN Len(history) - 1 ELSE Len(history)

TopStart == LayersEnd - Len(top)

\* What the top read ends at, and that the bottom of the node reaches up to it.
TopRead(n) ==
    /\ Len(before) <= n /\ n <= LayersEnd
    /\ Placed(readTop, n) /\ n - Len(readTop) <= TopStart

BottomRead(n, e) ==
    /\ n - Len(readTop) <= e /\ e <= LayersEnd
    /\ Placed(readBottom, e) /\ e - Len(readBottom) <= Len(applied)

PersistedRead(e, p) ==
    /\ Placed(p, Len(p)) /\ e - Len(readBottom) <= Len(p)
    /\ answer = p \o readBottom \o readTop

\* No block of the chain is missing between the persisted value and a diff read before it.
ReadsPlaced ==
    /\ Placed(before, Len(before)) /\ Len(before) <= LayersEnd
    /\ at \in {2, 3, 4} =>
          \E n \in Nat :
             /\ TopRead(n)
             /\ at \in {3, 4} =>
                   \E e \in Nat :
                      /\ BottomRead(n, e)
                      /\ at = 4 => \E p \in Seq(Block) : PersistedRead(e, p)

\* Nor is one counted twice, if the layers stayed where they were.
ReadsExact ==
    /\ at \in {2, 3} => /\ IsPrefix(readTop, top)
                        /\ Len(before) <= Len(applied) + Len(bottom) + Len(readTop)
    /\ at = 3 => readBottom = bottom
    /\ at = 4 => Placed(answer, Len(answer)) /\ Len(before) <= Len(answer)

ReaderType ==
    /\ at \in 0 .. 4
    /\ readTop \in Seq(Block) /\ readBottom \in Seq(Block) /\ answer \in Seq(Block)
    /\ before \in Seq(Block)
    /\ shifted \in BOOLEAN /\ undone \in BOOLEAN

\* What a read sees of the operations that overlap it.
Overlaps ==
    at # 0 => /\ pc # "down" /\ op # "boot"
              /\ op = "rollback" => undone
              /\ Shifting => shifted

\* After the bottom has been persisted, and until the top takes its place.
BottomKept == pc = "shift" => Placed(bottom, Len(applied))

ReaderInv ==
    /\ Inv /\ ReaderType /\ Overlaps /\ BottomKept
    /\ at # 0 /\ ~undone => ReadsPlaced
    /\ at # 0 /\ ~undone /\ ~shifted => ReadsExact

-----------------------------------------------------------------------------
\* What every step of the node is, for the layers, while no rollback and no start runs.
Grows ==
    /\ Len(history) <= Len(history')
    /\ \A i \in 1 .. Len(history) : history'[i] = history[i]
    /\ LayersEnd <= LayersEnd' /\ TopStart <= TopStart'
    /\ Len(applied) <= Len(applied')

StaysPut == applied' = applied /\ bottom' = bottom /\ IsPrefix(top, top')

Running == pc # "down" /\ op \in {"none", "process"}

LEMMA NodeTypes ==
    ASSUME Inv
    PROVE  /\ history \in Seq(Block) /\ applied \in Seq(Block) /\ bottom \in Seq(Block)
           /\ top \in Seq(Block) /\ diff \in Seq(Block)
           /\ Len(history) \in Nat /\ Len(applied) \in Nat /\ Len(bottom) \in Nat
           /\ Len(top) \in Nat /\ Len(diff) \in Nat /\ height \in Nat
           /\ LayersEnd \in Int /\ TopStart \in Int
<1>1. /\ history \in Seq(Block) /\ applied \in Seq(Block) /\ bottom \in Seq(Block)
      /\ top \in Seq(Block) /\ diff \in Seq(Block) /\ height \in Nat
  BY DEF Inv, TypeOK
<1>2. /\ Len(history) \in Nat /\ Len(applied) \in Nat /\ Len(bottom) \in Nat
      /\ Len(top) \in Nat /\ Len(diff) \in Nat
  BY <1>1, LenProperties
<1> QED BY <1>1, <1>2 DEF LayersEnd, TopStart

LEMMA PrefixRefl == ASSUME NEW s PROVE IsPrefix(s, s)
  BY DEF IsPrefix

LEMMA AppendStep ==
    ASSUME NEW s \in Seq(Block), NEW b \in Block
    PROVE  /\ Append(s, b) \in Seq(Block) /\ Len(Append(s, b)) = Len(s) + 1
           /\ \A i \in 1 .. Len(s) : Append(s, b)[i] = s[i]
  BY AppendProperties

LEMMA PrefixPointwise ==
    ASSUME NEW s \in Seq(Block), NEW t \in Seq(Block)
    PROVE  IsPrefix(s, t) <=> Len(s) <= Len(t) /\ \A i \in 1 .. Len(s) : s[i] = t[i]
<1>1. Len(s) \in Nat /\ Len(t) \in Nat
  BY LenProperties
<1>2. /\ SubSeq(s, 1, Len(s)) \in Seq(Block) /\ Len(SubSeq(s, 1, Len(s))) = Len(s)
      /\ \A i \in 1 .. Len(s) : SubSeq(s, 1, Len(s))[i] = s[i]
  <2>1. /\ SubSeq(s, 1, Len(s)) \in Seq(Block)
        /\ Len(SubSeq(s, 1, Len(s))) = IF 1 <= Len(s) THEN Len(s) - 1 + 1 ELSE 0
        /\ \A i \in 1 .. Len(s) - 1 + 1 : SubSeq(s, 1, Len(s))[i] = s[1 + i - 1]
    BY <1>1, SubSeqType
  <2> QED BY <1>1, <2>1
<1>3. ASSUME Len(s) <= Len(t)
      PROVE  /\ SubSeq(t, 1, Len(s)) \in Seq(Block) /\ Len(SubSeq(t, 1, Len(s))) = Len(s)
             /\ \A i \in 1 .. Len(s) : SubSeq(t, 1, Len(s))[i] = t[i]
  <2>1. /\ SubSeq(t, 1, Len(s)) \in Seq(Block)
        /\ Len(SubSeq(t, 1, Len(s))) = IF 1 <= Len(s) THEN Len(s) - 1 + 1 ELSE 0
        /\ \A i \in 1 .. Len(s) - 1 + 1 : SubSeq(t, 1, Len(s))[i] = t[1 + i - 1]
    BY <1>1, <1>3, SubSeqType
  <2> QED BY <1>1, <2>1
<1>4. ASSUME IsPrefix(s, t) PROVE Len(s) <= Len(t) /\ \A i \in 1 .. Len(s) : s[i] = t[i]
  BY <1>2, <1>3, <1>4 DEF IsPrefix
<1>5. ASSUME Len(s) <= Len(t), \A i \in 1 .. Len(s) : s[i] = t[i] PROVE IsPrefix(s, t)
  <2>1. SubSeq(s, 1, Len(s)) = SubSeq(t, 1, Len(s))
    BY <1>2, <1>3, <1>5, SeqEqual
  <2> QED BY <1>5, <2>1 DEF IsPrefix
<1> QED BY <1>4, <1>5

LEMMA AppendPrefix ==
    ASSUME NEW s \in Seq(Block), NEW b \in Block PROVE IsPrefix(s, Append(s, b))
<1> DEFINE t == Append(s, b)
<1>1. Len(s) \in Nat
  BY LenProperties
<1>2. t \in Seq(Block) /\ Len(t) = Len(s) + 1 /\ \A i \in 1 .. Len(s) : s[i] = t[i]
  BY AppendStep
<1> HIDE DEF t
<1>3. IsPrefix(s, t)
  BY <1>1, <1>2, PrefixPointwise
<1> QED BY <1>3 DEF t

LEMMA TwoPlaced ==
    ASSUME NEW x \in Seq(Block), NEW y \in Seq(Block), history \in Seq(Block),
           Len(x \o y) <= Len(history),
           \A i \in 1 .. Len(x \o y) : (x \o y)[i] = history[i]
    PROVE  Placed(x, Len(x)) /\ Placed(y, Len(x) + Len(y)) /\ Len(x \o y) = Len(x) + Len(y)
<1>1. /\ Len(x) \in Nat /\ Len(y) \in Nat /\ Len(history) \in Nat
      /\ Len(x \o y) = Len(x) + Len(y)
      /\ \A i \in 1 .. Len(x) + Len(y) :
            (x \o y)[i] = IF i <= Len(x) THEN x[i] ELSE y[i - Len(x)]
  BY ConcatProperties, LenProperties
<1>2. Placed(x, Len(x))
  <2>1. ASSUME NEW i \in 1 .. Len(x) PROVE x[i] = history[Len(x) - Len(x) + i]
    <3>1. i \in 1 .. Len(x) + Len(y) /\ i <= Len(x) /\ Len(x) - Len(x) + i = i
      BY <1>1
    <3> QED BY <1>1, <3>1
  <2> QED BY <1>1, <2>1 DEF Placed
<1>3. Placed(y, Len(x) + Len(y))
  <2>1. ASSUME NEW i \in 1 .. Len(y) PROVE y[i] = history[Len(x) + Len(y) - Len(y) + i]
    <3> DEFINE j == Len(x) + i
    <3>1. /\ j \in 1 .. Len(x) + Len(y) /\ ~(j <= Len(x)) /\ j - Len(x) = i
          /\ Len(x) + Len(y) - Len(y) + i = j
      BY <1>1
    <3> HIDE DEF j
    <3> QED BY <1>1, <3>1
  <2> QED BY <1>1, <2>1 DEF Placed
<1> QED BY <1>1, <1>2, <1>3

LEMMA ThreePlaced ==
    ASSUME NEW x \in Seq(Block), NEW y \in Seq(Block), NEW z \in Seq(Block),
           history \in Seq(Block), Len(x \o y \o z) <= Len(history),
           \A i \in 1 .. Len(x \o y \o z) : (x \o y \o z)[i] = history[i]
    PROVE  /\ Len(x \o y \o z) = Len(x) + Len(y) + Len(z)
           /\ Placed(x, Len(x)) /\ Placed(y, Len(x) + Len(y))
           /\ Placed(z, Len(x) + Len(y) + Len(z))
<1> DEFINE w == x \o y
<1>1. w \in Seq(Block) /\ Len(w) = Len(x) + Len(y) /\ Len(w) \in Nat /\ Len(z) \in Nat
  BY ConcatProperties, LenProperties
<1>2. Len(w \o z) <= Len(history) /\ \A i \in 1 .. Len(w \o z) : (w \o z)[i] = history[i]
  OBVIOUS
<1> HIDE DEF w
<1>3. Placed(w, Len(w)) /\ Placed(z, Len(w) + Len(z)) /\ Len(w \o z) = Len(w) + Len(z)
  BY <1>1, <1>2, TwoPlaced
<1>4. Len(w) <= Len(history) /\ \A i \in 1 .. Len(w) : w[i] = history[i]
  <2>1. ASSUME NEW i \in 1 .. Len(w) PROVE w[i] = history[i]
    <3>1. Len(w) - Len(w) + i = i
      BY <1>1
    <3> QED BY <1>3, <3>1 DEF Placed
  <2> QED BY <1>3, <2>1 DEF Placed
<1>5. Placed(x, Len(x)) /\ Placed(y, Len(x) + Len(y))
  BY <1>4, TwoPlaced DEF w
<1> QED BY <1>1, <1>3, <1>5 DEF w

\* The layers lie one over another in the chain, but for a rotation that is under way.
LEMMA LayersPlaced ==
    ASSUME Inv, BottomKept, Running
    PROVE  /\ Placed(top, LayersEnd)
           /\ \E e \in Nat : /\ Placed(bottom, e) /\ TopStart <= e /\ e <= LayersEnd
                             /\ e - Len(bottom) <= Len(applied)
<1>1. /\ history \in Seq(Block) /\ applied \in Seq(Block) /\ bottom \in Seq(Block)
      /\ top \in Seq(Block) /\ diff \in Seq(Block)
      /\ Len(history) \in Nat /\ Len(applied) \in Nat /\ Len(bottom) \in Nat
      /\ Len(top) \in Nat /\ Len(diff) \in Nat /\ height \in Nat
      /\ LayersEnd \in Int /\ TopStart \in Int
  BY NodeTypes
<1>2. LayersInv
  BY DEF Inv
<1>3. pc \in {"idle", "store", "height", "shift", "clearTop", "append", "combine"}
  BY <1>2 DEF LayersInv, Running, Inv, TypeOK, Stages
<1>4. ASSUME NEW h \in Nat, h = LayersEnd, h <= Len(history), Composite \in Seq(Block),
             Len(Composite) = h, \A i \in 1 .. h : Composite[i] = history[i]
      PROVE  /\ Placed(top, LayersEnd)
             /\ \E e \in Nat : /\ Placed(bottom, e) /\ TopStart <= e /\ e <= LayersEnd
                               /\ e - Len(bottom) <= Len(applied)
  <2>1. /\ Len(Composite) = Len(applied) + Len(bottom) + Len(top)
        /\ Placed(bottom, Len(applied) + Len(bottom))
        /\ Placed(top, Len(applied) + Len(bottom) + Len(top))
    <3>1. /\ Len(Composite) <= Len(history)
          /\ \A i \in 1 .. Len(Composite) : Composite[i] = history[i]
      BY <1>4
    <3> QED BY <1>1, <3>1, ThreePlaced DEF Composite
  <2>2. Len(applied) + Len(bottom) = TopStart /\ Len(applied) + Len(bottom) \in Nat
        /\ TopStart <= LayersEnd /\ Len(applied) + Len(bottom) - Len(bottom) <= Len(applied)
        /\ Len(applied) + Len(bottom) + Len(top) = LayersEnd
    BY <1>1, <1>4, <2>1 DEF TopStart
  <2> QED BY <2>1, <2>2
<1>5. CASE pc \in {"idle", "store", "append"}
  <2>1. Composite = history
    BY <1>2, <1>5 DEF LayersInv, Running
  <2>2. LayersEnd = Len(history)
    BY <1>5 DEF LayersEnd
  <2> QED BY <1>1, <1>4, <2>1, <2>2
<1>6. CASE pc = "combine"
  <2>1. Append(Composite, block) = history /\ block \in Block
    BY <1>2, <1>6 DEF LayersInv
  <2>2. Composite \in Seq(Block) /\ Len(Composite) \in Nat
    BY <1>1, ConcatProperties, LenProperties DEF Composite
  <2>3. /\ Len(history) = Len(Composite) + 1
        /\ \A i \in 1 .. Len(Composite) : Composite[i] = history[i]
    BY <2>1, <2>2, AppendStep
  <2>4. Len(Composite) = LayersEnd
    BY <1>1, <1>6, <2>2, <2>3 DEF LayersEnd
  <2>5. LayersEnd \in Nat /\ LayersEnd <= Len(history)
    BY <1>1, <2>2, <2>3, <2>4
  <2> QED BY <1>4, <2>2, <2>3, <2>4, <2>5
<1>7. CASE pc \in {"height", "shift", "clearTop"}
  <2>1. applied \o top = history /\ LayersEnd = Len(history)
    <3>1. op = "process"
      BY <1>2, <1>7 DEF LayersInv, Running
    <3>2. applied \o top = history
      BY <1>2, <1>7, <3>1 DEF LayersInv
    <3>3. LayersEnd = Len(history)
      BY <1>7 DEF LayersEnd
    <3> QED BY <3>2, <3>3
  <2>2. /\ Len(history) = Len(applied) + Len(top)
        /\ Placed(applied, Len(applied)) /\ Placed(top, Len(applied) + Len(top))
    <3>1. /\ Len(applied \o top) <= Len(history)
          /\ \A i \in 1 .. Len(applied \o top) : (applied \o top)[i] = history[i]
      BY <1>1, <2>1
    <3>2. /\ Len(applied \o top) = Len(applied) + Len(top)
          /\ Placed(applied, Len(applied)) /\ Placed(top, Len(applied) + Len(top))
      BY <1>1, <3>1, TwoPlaced
    <3> QED BY <2>1, <3>2
  <2>3. TopStart = Len(applied) /\ Placed(top, LayersEnd) /\ TopStart <= LayersEnd
    BY <1>1, <2>1, <2>2 DEF TopStart
  <2>4. CASE pc = "height"
    <3>1. /\ applied = SubSeq(history, 1, height) \o bottom
          /\ height <= Len(history)
      BY <1>2, <2>4 DEF LayersInv, Applying, Running
    <3>2. SubSeq(history, 1, height) \in Seq(Block)
      BY <1>1, <3>1, SubSeqType
    <3>3. Len(applied) <= Len(history) /\ \A i \in 1 .. Len(applied) : applied[i] = history[i]
      <4>1. ASSUME NEW i \in 1 .. Len(applied) PROVE applied[i] = history[i]
        <5>1. Len(applied) - Len(applied) + i = i
          BY <1>1
        <5> QED BY <2>2, <5>1 DEF Placed
      <4> QED BY <2>2, <4>1 DEF Placed
    <3> DEFINE x == SubSeq(history, 1, height)
    <3> HIDE DEF x
    <3>4. /\ x \in Seq(Block) /\ applied = x \o bottom
      BY <3>1, <3>2 DEF x
    <3>5. Placed(bottom, Len(x) + Len(bottom)) /\ Len(x \o bottom) = Len(x) + Len(bottom)
      BY <1>1, <3>3, <3>4, TwoPlaced
    <3>6. Placed(bottom, Len(applied))
      BY <3>4, <3>5
    <3> QED BY <1>1, <2>3, <3>6
  <2>5. CASE pc = "shift"
    <3>1. Placed(bottom, Len(applied))
      BY <2>5 DEF BottomKept
    <3> QED BY <1>1, <2>3, <3>1
  <2>6. CASE pc = "clearTop"
    <3>1. bottom = top
      BY <1>2, <2>6 DEF LayersInv
    <3>2. LayersEnd \in Nat /\ LayersEnd - Len(bottom) <= Len(applied)
      BY <1>1, <2>1, <2>2, <3>1
    <3> QED BY <2>3, <3>1, <3>2
  <2> QED BY <1>7, <2>4, <2>5, <2>6
<1> QED BY <1>3, <1>5, <1>6, <1>7

-----------------------------------------------------------------------------
\* The steps that a read sees without a rollback, a start or a crash.
LEMMA RunningSteps ==
    ASSUME Inv, Next, Running, pc' # "down", op' # "rollback"
    PROVE  \/ StoreTransactions \/ ApplyRest \/ SetHeight \/ ShiftTop \/ ClearTop
           \/ AppendBlock \/ RejectBlock \/ CombineTop \/ \E b \in Block : ProcessBlock(b)
<1>1. LayersInv
  BY DEF Inv
<1>2. pc \notin {"down", "discard", "discarded", "cutBottom", "rebuild"}
  BY <1>1 DEF LayersInv, Running
<1>3. ~Start /\ ~Crash /\ ~(\E h \in 1 .. Len(history) : RemoveAfter(h))
  BY <1>2 DEF Start, Crash, RemoveAfter
<1>4. ~DiscardBlock /\ ~DiscardedAll /\ ~RebuildAll /\ ~CutTop /\ ~CutBottom
  BY <1>2 DEF DiscardBlock, DiscardedAll, RebuildAll, CutTop, CutBottom
<1>5. ~PersistChunk /\ ~BuildInMemory /\ ~FailedStart
  BY <1>2 DEF PersistChunk, BuildInMemory, FailedStart
<1> QED BY <1>3, <1>4, <1>5, BlockAssumption DEF Next, Step, Call, CheckGenesis

LEMMA BottomStaysKept == ASSUME Inv, BottomKept, Next PROVE BottomKept'
<1> SUFFICES ASSUME pc' = "shift" PROVE Placed(bottom, Len(applied))'
  BY DEF BottomKept
<1>1. TypeOK /\ LayersInv
  BY DEF Inv
<1>2. SetHeight
  <2>1. ~Start /\ ~Crash /\ ~(\E h \in 1 .. Len(history) : RemoveAfter(h))
    BY DEF Start, Crash, RemoveAfter
  <2>2. ~DiscardBlock /\ ~DiscardedAll /\ ~RebuildAll /\ ~CutTop /\ ~CutBottom
    BY DEF DiscardBlock, DiscardedAll, RebuildAll, CutTop, CutBottom, Finish
  <2>3. ~PersistChunk /\ ~BuildInMemory /\ ~FailedStart
    BY DEF PersistChunk, StartApply, BuildInMemory, FailedStart, Finish
  <2>4. ~StoreTransactions /\ ~ApplyRest /\ ~ShiftTop /\ ~ClearTop
    BY DEF StoreTransactions, ApplyRest, ShiftTop, ClearTop
  <2>5. ~AppendBlock /\ ~RejectBlock /\ ~CombineTop /\ \A b \in Block : ~ProcessBlock(b)
    BY DEF AppendBlock, RejectBlock, CombineTop, ProcessBlock, StartApply, Finish
  <2> QED BY <2>1, <2>2, <2>3, <2>4, <2>5, BlockAssumption DEF Next, Step, Call, CheckGenesis
<1>3. /\ pc = "height" /\ op = "process"
      /\ UNCHANGED <<history, applied, bottom>>
  BY <1>2 DEF SetHeight
<1>4. /\ applied \o top = history /\ applied = SubSeq(history, 1, height) \o bottom
      /\ height <= Len(history)
  BY <1>1, <1>3 DEF LayersInv, Applying
<1>5. /\ history \in Seq(Block) /\ applied \in Seq(Block) /\ bottom \in Seq(Block)
      /\ top \in Seq(Block) /\ height \in Nat
  BY NodeTypes
<1> DEFINE x == SubSeq(history, 1, height)
<1>6. x \in Seq(Block) /\ applied = x \o bottom
  BY <1>4, <1>5, SubSeqType
<1> HIDE DEF x
<1>7. Placed(applied, Len(applied))
  <2>1. /\ Len(applied \o top) <= Len(history)
        /\ \A i \in 1 .. Len(applied \o top) : (applied \o top)[i] = history[i]
    BY <1>4, <1>5, LenProperties
  <2> QED BY <1>5, <2>1, TwoPlaced
<1>8. Len(x \o bottom) <= Len(history) /\ \A i \in 1 .. Len(x \o bottom) : (x \o bottom)[i] = history[i]
  <2>1. ASSUME NEW i \in 1 .. Len(applied) PROVE applied[i] = history[i]
    <3>1. Len(applied) \in Nat /\ Len(applied) - Len(applied) + i = i
      BY <1>5, LenProperties
    <3> QED BY <1>7, <3>1 DEF Placed
  <2> QED BY <1>6, <1>7, <2>1 DEF Placed
<1>9. Placed(bottom, Len(applied))
  BY <1>5, <1>6, <1>8, TwoPlaced
<1> QED BY <1>3, <1>9 DEF Placed

\* While no rollback runs, the chain and the layers only move forward; while no
\* rotation runs either, only the top changes.
LEMMA RunningGrows ==
    ASSUME Inv, Next, Running, pc' # "down", op' # "rollback"
    PROVE  /\ Grows /\ op' # "boot"
           /\ ~Shifting /\ ~Shifting' => StaysPut
<1>1. /\ history \in Seq(Block) /\ applied \in Seq(Block) /\ bottom \in Seq(Block)
      /\ top \in Seq(Block) /\ diff \in Seq(Block)
      /\ Len(history) \in Nat /\ Len(applied) \in Nat /\ Len(bottom) \in Nat
      /\ Len(top) \in Nat /\ Len(diff) \in Nat /\ height \in Nat
      /\ LayersEnd \in Int /\ TopStart \in Int
  BY NodeTypes
<1>2. TypeOK /\ LayersInv
  BY DEF Inv
<1>3. IsPrefix(top, top)
  BY PrefixRefl
<1>4. CASE StoreTransactions
  <2>1. pc = "store" /\ pc' = pc /\ op' = op /\ UNCHANGED <<history, applied, bottom, top>>
    BY <1>4 DEF StoreTransactions
  <2> QED BY <1>1, <1>3, <2>1 DEF Grows, StaysPut, Running, LayersEnd, TopStart
<1>5. CASE ApplyRest
  <2>1. /\ pc = "store" /\ pc' = "height" /\ op' = op /\ UNCHANGED <<history, bottom, top>>
        /\ applied' = applied \o diff
    BY <1>5 DEF ApplyRest
  <2>2. Len(applied') = Len(applied) + Len(diff)
    BY <1>1, <2>1, ConcatProperties
  <2>3. Shifting
    BY <1>2, <2>1 DEF Shifting, LayersInv, Running
  <2> QED BY <1>1, <2>1, <2>2, <2>3 DEF Grows, Running, LayersEnd, TopStart
<1>6. CASE SetHeight
  <2>1. pc = "height" /\ op' = op /\ UNCHANGED <<history, applied, bottom, top>>
    BY <1>6 DEF SetHeight
  <2>2. op = "process"
    BY <1>2, <2>1 DEF LayersInv, Running
  <2>3. pc' = "shift"
    BY <1>6, <2>2 DEF SetHeight
  <2> QED BY <1>1, <1>3, <2>1, <2>2, <2>3 DEF Grows, StaysPut, LayersEnd, TopStart
<1>7. CASE ShiftTop
  <2>1. pc = "shift" /\ pc' = "clearTop" /\ op' = op /\ UNCHANGED <<history, applied, top>>
    BY <1>7 DEF ShiftTop
  <2>2. Shifting
    BY <1>2, <2>1 DEF Shifting, LayersInv, Running
  <2> QED BY <1>1, <2>1, <2>2 DEF Grows, Running, LayersEnd, TopStart
<1>8. CASE ClearTop
  <2>1. /\ pc = "clearTop" /\ pc' = "append" /\ op' = op /\ UNCHANGED <<history, applied>>
        /\ top' = <<>>
    BY <1>8 DEF ClearTop
  <2>2. Shifting
    BY <1>2, <2>1 DEF Shifting, LayersInv, Running
  <2>3. Len(top') = 0
    BY <2>1, EmptySeq
  <2> QED BY <1>1, <2>1, <2>2, <2>3 DEF Grows, Running, LayersEnd, TopStart
<1>9. CASE AppendBlock
  <2>1. /\ pc = "append" /\ pc' = "combine" /\ op' = op /\ UNCHANGED <<applied, bottom, top>>
        /\ history' = Append(history, block)
    BY <1>9 DEF AppendBlock
  <2>2. block \in Block
    BY <1>2, <2>1 DEF LayersInv
  <2>3. Len(history') = Len(history) + 1 /\ \A i \in 1 .. Len(history) : history'[i] = history[i]
    BY <1>1, <2>1, <2>2, AppendStep
  <2> QED BY <1>1, <1>3, <2>1, <2>3 DEF Grows, StaysPut, Running, LayersEnd, TopStart
<1>10. CASE RejectBlock
  <2>1. /\ pc = "append" /\ pc' = "idle" /\ op' = "none"
        /\ UNCHANGED <<history, applied, bottom, top>>
    BY <1>10 DEF RejectBlock, Finish
  <2> QED BY <1>1, <1>3, <2>1 DEF Grows, StaysPut, LayersEnd, TopStart
<1>11. CASE CombineTop
  <2>1. /\ pc = "combine" /\ pc' = "idle" /\ op' = "none" /\ UNCHANGED <<history, applied, bottom>>
        /\ top' = Append(top, block)
    BY <1>11 DEF CombineTop, Finish
  <2>2. block \in Block
    BY <1>2, <2>1 DEF LayersInv
  <2>3. Len(top') = Len(top) + 1 /\ IsPrefix(top, top')
    BY <1>1, <2>1, <2>2, AppendStep, AppendPrefix
  <2> QED BY <1>1, <2>1, <2>3 DEF Grows, StaysPut, LayersEnd, TopStart
<1>12. CASE \E b \in Block : ProcessBlock(b)
  <2>1. /\ pc = "idle" /\ pc' \in {"store", "append"} /\ op' = "process"
        /\ UNCHANGED <<history, applied, bottom, top>>
    BY <1>12 DEF ProcessBlock, StartApply
  <2> QED BY <1>1, <1>3, <2>1 DEF Grows, StaysPut, LayersEnd, TopStart
<1> QED
  BY <1>4, <1>5, <1>6, <1>7, <1>8, <1>9, <1>10, <1>11, <1>12, RunningSteps

-----------------------------------------------------------------------------
(* The reader's own steps, and a step of the node beside it. *)

LEMMA Orders ==
    /\ Done = 4 /\ DOMAIN ReadOrder = {1, 2, 3}
    /\ ReadOrder[1] = "top" /\ ReadOrder[2] = "bottom" /\ ReadOrder[3] = "persisted"
BY DEF Done, ReadOrder

LEMMA ReadingAt ==
    /\ Reading("top") => at = 1 /\ at' = 2
    /\ Reading("bottom") => at = 2 /\ at' = 3
    /\ Reading("persisted") => at = 3 /\ at' = 4
<1>1. ASSUME NEW layer, Reading(layer)
      PROVE  at \in {1, 2, 3} /\ ReadOrder[at] = layer /\ at' = at + 1
  BY <1>1, Orders DEF Reading
<1> QED BY <1>1, Orders

LEMMA TypesNext ==
    ASSUME Inv'
    PROVE  /\ history' \in Seq(Block) /\ Len(history') \in Nat /\ Len(applied') \in Nat
           /\ top' \in Seq(Block) /\ LayersEnd' \in Int /\ TopStart' \in Int
<1>1. history' \in Seq(Block) /\ applied' \in Seq(Block) /\ top' \in Seq(Block)
  BY DEF Inv, TypeOK
<1>2. Len(history') \in Nat /\ Len(applied') \in Nat /\ Len(top') \in Nat
  BY <1>1, LenProperties
<1> QED BY <1>1, <1>2 DEF LayersEnd, TopStart

LEMMA PlacedGrows ==
    ASSUME Inv, Inv', Grows, NEW s \in Seq(Block), NEW e \in Nat, Placed(s, e)
    PROVE  Placed(s, e)'
<1>1. Len(s) \in Nat /\ Len(history) \in Nat /\ Len(history') \in Nat
  BY NodeTypes, TypesNext, LenProperties
<1>2. Len(s) <= e /\ e <= Len(history) /\ Len(history) <= Len(history')
  BY DEF Placed, Grows
<1>3. ASSUME NEW i \in 1 .. Len(s) PROVE s[i] = history'[e - Len(s) + i]
  <2>1. e - Len(s) + i \in 1 .. Len(history)
    BY <1>1, <1>2
  <2>2. s[i] = history[e - Len(s) + i]
    BY DEF Placed
  <2> QED BY <2>1, <2>2 DEF Grows
<1> QED BY <1>1, <1>2, <1>3 DEF Placed

LEMMA PlacedStays ==
    ASSUME Inv, Inv', Grows, ReaderType, ReadsPlaced,
           UNCHANGED <<at, readTop, readBottom, answer, before>>
    PROVE  ReadsPlaced'
<1>1. /\ LayersEnd \in Int /\ TopStart \in Int /\ LayersEnd' \in Int /\ TopStart' \in Int
      /\ Len(applied) \in Nat /\ Len(applied') \in Nat
  BY NodeTypes, TypesNext
<1>2. /\ LayersEnd <= LayersEnd' /\ TopStart <= TopStart' /\ Len(applied) <= Len(applied')
  BY DEF Grows
<1>3. PICK b \in Seq(Block) : b = before /\ Len(b) \in Nat
  BY LenProperties DEF ReaderType
<1>4. PICK t \in Seq(Block) : t = readTop /\ Len(t) \in Nat
  BY LenProperties DEF ReaderType
<1>5. PICK o \in Seq(Block) : o = readBottom /\ Len(o) \in Nat
  BY LenProperties DEF ReaderType
<1>6. Placed(before, Len(before))' /\ (Len(before) <= LayersEnd)'
  <2>1. Placed(b, Len(b))'
    BY <1>3, PlacedGrows DEF ReadsPlaced
  <2>2. before' = b
    BY <1>3
  <2>3. Placed(before, Len(before))'
    BY <2>1, <2>2 DEF Placed
  <2>4. Len(b) <= LayersEnd'
    BY <1>1, <1>2, <1>3 DEF ReadsPlaced
  <2> QED BY <2>2, <2>3, <2>4
<1>7. ASSUME NEW n \in Nat, TopRead(n) PROVE TopRead(n)'
  <2>1. Placed(t, n)'
    BY <1>4, <1>7, PlacedGrows DEF TopRead
  <2>2. Placed(readTop, n)'
    BY <1>4, <2>1 DEF Placed
  <2>3. Len(before') <= n /\ n <= LayersEnd' /\ n - Len(readTop') <= TopStart'
    BY <1>1, <1>2, <1>3, <1>4, <1>7 DEF TopRead
  <2> QED BY <2>2, <2>3 DEF TopRead
<1>8. ASSUME NEW n \in Nat, NEW e \in Nat, BottomRead(n, e) PROVE BottomRead(n, e)'
  <2>1. Placed(o, e)'
    BY <1>5, <1>8, PlacedGrows DEF BottomRead
  <2>2. Placed(readBottom, e)'
    BY <1>5, <2>1 DEF Placed
  <2>3. n - Len(readTop') <= e /\ e <= LayersEnd' /\ e - Len(readBottom') <= Len(applied')
    BY <1>1, <1>2, <1>5, <1>8 DEF BottomRead
  <2> QED BY <2>2, <2>3 DEF BottomRead
<1>9. ASSUME NEW e \in Nat, NEW p \in Seq(Block), PersistedRead(e, p) PROVE PersistedRead(e, p)'
  <2>1. Len(p) \in Nat
    BY LenProperties
  <2>2. Placed(p, Len(p))'
    BY <1>9, <2>1, PlacedGrows DEF PersistedRead
  <2>3. e - Len(readBottom') <= Len(p) /\ answer' = p \o readBottom' \o readTop'
    BY <1>9 DEF PersistedRead
  <2> QED BY <2>2, <2>3 DEF PersistedRead
<1>10. CASE at \in {2, 3, 4}
  <2>1. PICK n \in Nat :
           /\ TopRead(n)
           /\ at \in {3, 4} => \E e \in Nat : /\ BottomRead(n, e)
                                              /\ at = 4 => \E p \in Seq(Block) : PersistedRead(e, p)
    BY <1>10 DEF ReadsPlaced
  <2>2. TopRead(n)'
    BY <1>7, <2>1
  <2>3. ASSUME at \in {3, 4}
        PROVE  \E e \in Nat : /\ BottomRead(n, e)'
                              /\ at' = 4 => \E p \in Seq(Block) : PersistedRead(e, p)'
    <3>1. PICK e \in Nat : /\ BottomRead(n, e)
                           /\ at = 4 => \E p \in Seq(Block) : PersistedRead(e, p)
      BY <2>1, <2>3
    <3>2. BottomRead(n, e)'
      BY <1>8, <3>1
    <3>3. at' = 4 => \E p \in Seq(Block) : PersistedRead(e, p)'
      BY <1>9, <3>1
    <3> QED BY <3>2, <3>3
  <2> QED BY <1>6, <2>2, <2>3 DEF ReadsPlaced
<1>11. CASE at \notin {2, 3, 4}
  BY <1>6, <1>11 DEF ReadsPlaced
<1> QED BY <1>10, <1>11

LEMMA ExactStays ==
    ASSUME Inv, Inv', Grows, StaysPut, ReaderType, ReadsExact,
           UNCHANGED <<at, readTop, readBottom, answer, before>>
    PROVE  ReadsExact'
<1>1. /\ readTop \in Seq(Block) /\ top \in Seq(Block) /\ top' \in Seq(Block)
      /\ Len(readTop) \in Nat /\ Len(top) \in Nat /\ Len(top') \in Nat
  BY NodeTypes, TypesNext, LenProperties DEF ReaderType
<1>2. ASSUME at \in {2, 3} PROVE IsPrefix(readTop, top')
  <2>1. /\ Len(readTop) <= Len(top) /\ \A i \in 1 .. Len(readTop) : readTop[i] = top[i]
    BY <1>1, <1>2, PrefixPointwise DEF ReadsExact
  <2>2. /\ Len(top) <= Len(top') /\ \A i \in 1 .. Len(top) : top[i] = top'[i]
    BY <1>1, PrefixPointwise DEF StaysPut
  <2>3. Len(readTop) <= Len(top') /\ \A i \in 1 .. Len(readTop) : readTop[i] = top'[i]
    BY <1>1, <2>1, <2>2
  <2> QED BY <1>1, <2>3, PrefixPointwise
<1>3. ASSUME at = 4 PROVE Placed(answer, Len(answer))'
  <2>1. PICK a \in Seq(Block) : a = answer /\ Len(a) \in Nat
    BY LenProperties DEF ReaderType
  <2>2. Placed(a, Len(a))'
    BY <1>3, <2>1, PlacedGrows DEF ReadsExact
  <2> QED BY <2>1, <2>2 DEF Placed
<1> QED BY <1>2, <1>3 DEF ReadsExact, StaysPut

\* At rest, or about to append: the layers make up the chain.
LEMMA AtRest ==
    ASSUME Inv, Running, ~Shifting
    PROVE  /\ Len(applied) + Len(bottom) + Len(top) = LayersEnd
           /\ Placed(applied, Len(applied)) /\ Placed(Composite, Len(Composite))
           /\ Len(Composite) = LayersEnd /\ Composite \in Seq(Block)
<1>1. /\ history \in Seq(Block) /\ applied \in Seq(Block) /\ bottom \in Seq(Block)
      /\ top \in Seq(Block) /\ Len(history) \in Nat
  BY NodeTypes
<1>2. LayersInv
  BY DEF Inv
<1>3. pc \in {"idle", "append", "combine"}
  BY <1>2 DEF LayersInv, Running, Shifting, Inv, TypeOK, Stages
<1>4. Composite \in Seq(Block) /\ Len(Composite) \in Nat
  BY <1>1, ConcatProperties, LenProperties DEF Composite
<1>5. /\ Len(Composite) = LayersEnd /\ Len(Composite) <= Len(history)
      /\ \A i \in 1 .. Len(Composite) : Composite[i] = history[i]
  <2>1. CASE pc = "combine"
    <3>1. Append(Composite, block) = history /\ block \in Block
      BY <1>2, <2>1 DEF LayersInv
    <3>2. /\ Len(history) = Len(Composite) + 1
          /\ \A i \in 1 .. Len(Composite) : Composite[i] = history[i]
      BY <1>4, <3>1, AppendStep
    <3> QED BY <1>4, <2>1, <3>2 DEF LayersEnd
  <2>2. CASE pc \in {"idle", "append"}
    <3>1. Composite = history
      BY <1>2, <2>2 DEF LayersInv
    <3> QED BY <1>1, <2>2, <3>1 DEF LayersEnd
  <2> QED BY <1>3, <2>1, <2>2
<1>6. /\ Len(Composite) = Len(applied) + Len(bottom) + Len(top)
      /\ Placed(applied, Len(applied))
  BY <1>1, <1>5, ThreePlaced DEF Composite
<1>7. Placed(Composite, Len(Composite))
  <2>1. ASSUME NEW i \in 1 .. Len(Composite)
        PROVE  Composite[i] = history[Len(Composite) - Len(Composite) + i]
    <3>1. Len(Composite) - Len(Composite) + i = i
      BY <1>4
    <3> QED BY <1>5, <3>1
  <2> QED BY <1>4, <1>5, <2>1 DEF Placed
<1> QED BY <1>4, <1>5, <1>6, <1>7

LEMMA BeginInv == ASSUME ReaderInv, Begin PROVE ReaderInv'
<1>1. /\ at' = 1 /\ pc # "down" /\ op # "boot" /\ shifted' = Shifting
      /\ undone' = (op = "rollback")
      /\ before' = IF pc = "combine" THEN Front(history) ELSE history
      /\ UNCHANGED <<readTop, readBottom, answer>>
      /\ UNCHANGED <<history, applied, bottom, top, pc, op>> /\ UNCHANGED vars
  BY DEF Begin, vars
<1>2. Inv'
  BY <1>1, NextInv DEF ReaderInv
<1>3. /\ history \in Seq(Block) /\ Len(history) \in Nat
  BY NodeTypes DEF ReaderInv
<1>4. /\ before' \in Seq(Block) /\ Len(before') \in Nat /\ Len(before') = LayersEnd
      /\ Len(before') <= Len(history) /\ \A i \in 1 .. Len(before') : before'[i] = history[i]
  <2>1. CASE pc = "combine"
    <3>1. Append(Composite, block) = history /\ block \in Block /\ Composite \in Seq(Block)
      <4>1. Append(Composite, block) = history /\ block \in Block
        BY <2>1 DEF ReaderInv, Inv, LayersInv
      <4> QED BY <4>1, NodeTypes, ConcatProperties DEF ReaderInv, Composite
    <3>2. Front(history) = Composite
      <4> DEFINE c == Composite
                 b == block
      <4>1. c \in Seq(Block) /\ b \in Block /\ Append(c, b) = history
        BY <3>1
      <4> HIDE DEF c, b
      <4>2. Len(c) \in Nat /\ Len(history) = Len(c) + 1 /\ \A i \in 1 .. Len(c) : history[i] = c[i]
        BY <4>1, AppendStep, LenProperties
      <4>3. /\ SubSeq(history, 1, Len(c)) \in Seq(Block) /\ Len(SubSeq(history, 1, Len(c))) = Len(c)
            /\ \A i \in 1 .. Len(c) : SubSeq(history, 1, Len(c))[i] = history[i]
        <5>1. /\ SubSeq(history, 1, Len(c)) \in Seq(Block)
              /\ Len(SubSeq(history, 1, Len(c))) = IF 1 <= Len(c) THEN Len(c) - 1 + 1 ELSE 0
              /\ \A i \in 1 .. Len(c) - 1 + 1 : SubSeq(history, 1, Len(c))[i] = history[1 + i - 1]
          BY <1>3, <4>2, SubSeqType
        <5> QED BY <4>2, <5>1
      <4>4. SubSeq(history, 1, Len(c)) = c
        BY <4>1, <4>2, <4>3, SeqEqual
      <4>5. Len(history) - 1 = Len(c)
        BY <4>2
      <4>6. Front(history) = c
        BY <4>4, <4>5 DEF Front
      <4> QED BY <4>6 DEF c
    <3>3. /\ Len(history) = Len(Composite) + 1 /\ Len(Composite) \in Nat
          /\ \A i \in 1 .. Len(Composite) : Composite[i] = history[i]
      BY <3>1, AppendStep, LenProperties
    <3>4. before' = Composite
      BY <1>1, <2>1, <3>2
    <3> QED BY <2>1, <3>1, <3>3, <3>4 DEF LayersEnd
  <2>2. CASE pc # "combine"
    BY <1>1, <1>3, <2>2 DEF LayersEnd
  <2> QED BY <2>1, <2>2
<1>5. ReaderType'
  BY <1>1, <1>4 DEF ReaderInv, ReaderType, Shifting
<1>6. Overlaps'
  BY <1>1 DEF Overlaps, Shifting
<1>7. BottomKept'
  BY <1>1 DEF ReaderInv, BottomKept, Placed
<1>8. ReadsPlaced'
  <2>1. Placed(before, Len(before))'
    <3>1. ASSUME NEW i \in 1 .. Len(before')
          PROVE  before'[i] = history'[Len(before') - Len(before') + i]
      <4>1. Len(before') - Len(before') + i = i
        BY <1>4
      <4> QED BY <1>1, <1>4, <4>1
    <3> QED BY <1>1, <1>4, <3>1 DEF Placed
  <2>2. LayersEnd' = LayersEnd
    BY <1>1 DEF LayersEnd
  <2>3. (Len(before) <= LayersEnd)'
    BY <1>4, <2>2
  <2> QED BY <1>1, <2>1, <2>3 DEF ReadsPlaced
<1>9. ReadsExact'
  BY <1>1 DEF ReadsExact
<1> QED BY <1>2, <1>5, <1>6, <1>7, <1>8, <1>9 DEF ReaderInv

\* What the reader's own steps leave alone.
LEMMA NodeStays ==
    ASSUME ReaderInv, UNCHANGED vars
    PROVE  /\ Inv' /\ BottomKept' /\ LayersEnd' = LayersEnd /\ TopStart' = TopStart
           /\ Shifting' = Shifting
           /\ UNCHANGED <<history, applied, bottom, top, pc, op>>
<1>1. UNCHANGED <<history, applied, bottom, top, pc, op>>
  BY DEF vars
<1>2. Inv'
  BY NextInv DEF ReaderInv
<1>3. BottomKept'
  BY <1>1 DEF ReaderInv, BottomKept, Placed
<1> QED BY <1>1, <1>2, <1>3 DEF LayersEnd, TopStart, Shifting

LEMMA ReadTopInv == ASSUME ReaderInv, ReadTop PROVE ReaderInv'
<1>1. /\ at = 1 /\ at' = 2 /\ readTop' = top
      /\ UNCHANGED vars /\ UNCHANGED <<readBottom, answer, before, shifted, undone>>
  BY ReadingAt DEF ReadTop
<1>2. /\ Inv' /\ BottomKept' /\ LayersEnd' = LayersEnd /\ TopStart' = TopStart
      /\ Shifting' = Shifting
      /\ UNCHANGED <<history, applied, bottom, top, pc, op>>
  BY <1>1, NodeStays
<1>3. ReaderType' /\ Overlaps'
  BY <1>1, <1>2, NodeTypes DEF ReaderInv, ReaderType, Overlaps
<1>4. /\ LayersEnd \in Int /\ TopStart \in Int /\ top \in Seq(Block) /\ Len(top) \in Nat
      /\ before \in Seq(Block) /\ Len(before) \in Nat
  BY NodeTypes, LenProperties DEF ReaderInv, ReaderType
<1>5. ASSUME ~undone PROVE ReadsPlaced'
  <2>1. Running
    BY <1>1, <1>5, NodeTypes DEF ReaderInv, Overlaps, Running, Inv, TypeOK, Ops
  <2>2. Placed(top, LayersEnd)
    BY <2>1, LayersPlaced DEF ReaderInv
  <2>3. /\ Placed(before, Len(before)) /\ Len(before) <= LayersEnd
    BY <1>1, <1>5 DEF ReaderInv, ReadsPlaced
  <2>4. LayersEnd \in Nat
    BY <1>4, <2>3
  <2>5. Placed(before, Len(before))' /\ (Len(before) <= LayersEnd)'
    BY <1>1, <1>2, <2>3 DEF Placed
  <2>6. TopRead(LayersEnd)'
    <3>1. Placed(top, LayersEnd)'
      BY <1>2, <2>2 DEF Placed
    <3>2. Placed(readTop, LayersEnd)'
      BY <1>1, <1>2, <3>1 DEF Placed
    <3>3. (LayersEnd - Len(readTop) <= TopStart)'
      BY <1>1, <1>2, <1>4 DEF TopStart
    <3> QED BY <1>4, <1>2, <2>5, <3>2, <3>3 DEF TopRead
  <2>7. \E n \in Nat : TopRead(n)'
    <3>1. PICK n \in Nat : n = LayersEnd
      BY <2>4
    <3>2. n = LayersEnd'
      BY <1>2, <3>1
    <3>3. TopRead(n)'
      BY <2>6, <3>2 DEF TopRead, Placed
    <3> QED BY <3>3
  <2> QED BY <1>1, <2>5, <2>7 DEF ReadsPlaced
<1>6. ASSUME ~undone, ~shifted PROVE ReadsExact'
  <2>1. Running /\ ~Shifting
    BY <1>1, <1>6 DEF ReaderInv, Overlaps, Running, Inv, TypeOK, Ops
  <2>2. Len(applied) + Len(bottom) + Len(top) = LayersEnd
    BY <2>1, AtRest DEF ReaderInv
  <2>3. Len(before) <= LayersEnd
    BY <1>1, <1>6 DEF ReaderInv, ReadsPlaced
  <2>4. IsPrefix(readTop', top')
    BY <1>1, <1>2, PrefixRefl
  <2> QED BY <1>1, <1>2, <2>2, <2>3, <2>4 DEF ReadsExact
<1> QED BY <1>1, <1>2, <1>3, <1>5, <1>6 DEF ReaderInv

LEMMA ReadBottomInv == ASSUME ReaderInv, ReadBottom PROVE ReaderInv'
<1>1. /\ at = 2 /\ at' = 3 /\ readBottom' = bottom
      /\ UNCHANGED vars /\ UNCHANGED <<readTop, answer, before, shifted, undone>>
  BY ReadingAt DEF ReadBottom
<1>2. /\ Inv' /\ BottomKept' /\ LayersEnd' = LayersEnd /\ TopStart' = TopStart
      /\ Shifting' = Shifting
      /\ UNCHANGED <<history, applied, bottom, top, pc, op>>
  BY <1>1, NodeStays
<1>3. ReaderType' /\ Overlaps'
  BY <1>1, <1>2, NodeTypes DEF ReaderInv, ReaderType, Overlaps
<1>4. /\ LayersEnd \in Int /\ TopStart \in Int /\ bottom \in Seq(Block) /\ Len(bottom) \in Nat
      /\ readTop \in Seq(Block) /\ Len(readTop) \in Nat
  BY NodeTypes, LenProperties DEF ReaderInv, ReaderType
<1>5. ASSUME ~undone PROVE ReadsPlaced'
  <2>1. Running
    BY <1>1, <1>5 DEF ReaderInv, Overlaps, Running, Inv, TypeOK, Ops
  <2>2. PICK e \in Nat : /\ Placed(bottom, e) /\ TopStart <= e /\ e <= LayersEnd
                         /\ e - Len(bottom) <= Len(applied)
    BY <2>1, LayersPlaced DEF ReaderInv
  <2>3. PICK n \in Nat : TopRead(n)
    BY <1>1, <1>5 DEF ReaderInv, ReadsPlaced
  <2>4. (Placed(before, Len(before)) /\ Len(before) <= LayersEnd)'
    BY <1>1, <1>2, <1>5 DEF ReaderInv, ReadsPlaced, Placed
  <2>5. TopRead(n)'
    BY <1>1, <1>2, <2>3 DEF TopRead, Placed
  <2>6. BottomRead(n, e)'
    <3>1. Placed(bottom, e)'
      BY <1>2, <2>2 DEF Placed
    <3>2. Placed(readBottom, e)'
      BY <1>1, <1>2, <3>1 DEF Placed
    <3>3. n - Len(readTop) <= e
      BY <1>4, <2>2, <2>3 DEF TopRead
    <3> QED BY <1>1, <1>2, <2>2, <3>2, <3>3 DEF BottomRead
  <2> QED BY <1>1, <2>4, <2>5, <2>6 DEF ReadsPlaced
<1>6. ASSUME ~undone, ~shifted PROVE ReadsExact'
  BY <1>1, <1>2, <1>6 DEF ReaderInv, ReadsExact
<1> QED BY <1>1, <1>2, <1>3, <1>5, <1>6 DEF ReaderInv

\* The diffs read are still the layers, but for what was appended to the top.
LEMMA OverlayPlaced ==
    ASSUME ReaderInv, pc = "idle", at = 3, ~undone, ~shifted
    PROVE  Placed(Overlay, Len(Overlay)) /\ Len(before) <= Len(Overlay)
<1> DEFINE w == applied \o bottom
           c == w \o top
           v == w \o readTop
<1>1. /\ applied \in Seq(Block) /\ bottom \in Seq(Block) /\ top \in Seq(Block)
      /\ readTop \in Seq(Block) /\ Len(history) \in Nat
  BY NodeTypes DEF ReaderInv, ReaderType
<1>2. /\ w \in Seq(Block) /\ Len(w) = Len(applied) + Len(bottom) /\ Len(w) \in Nat
      /\ Len(top) \in Nat /\ Len(readTop) \in Nat
  BY <1>1, ConcatProperties, LenProperties
<1>3. /\ Len(c) = Len(w) + Len(top)
      /\ \A i \in 1 .. Len(w) + Len(top) : c[i] = IF i <= Len(w) THEN w[i] ELSE top[i - Len(w)]
  BY <1>1, <1>2, ConcatProperties
<1>4. /\ Len(v) = Len(w) + Len(readTop)
      /\ \A i \in 1 .. Len(w) + Len(readTop) :
            v[i] = IF i <= Len(w) THEN w[i] ELSE readTop[i - Len(w)]
  BY <1>1, <1>2, ConcatProperties
<1>5. Running /\ ~Shifting
  BY DEF ReaderInv, Overlaps, Running, Inv, TypeOK, Ops
<1>6. Placed(c, Len(c))
  BY <1>5, AtRest DEF ReaderInv, Composite
<1>7. ReadsExact
  BY DEF ReaderInv
<1>8. Overlay = v /\ Len(before) <= Len(w) + Len(readTop)
  BY <1>2, <1>7 DEF ReadsExact, Overlay
<1>9. Len(readTop) <= Len(top) /\ \A i \in 1 .. Len(readTop) : readTop[i] = top[i]
  BY <1>1, <1>7, PrefixPointwise DEF ReadsExact
<1> HIDE DEF v, c, w
<1>10. Len(v) <= Len(c) /\ Len(c) <= Len(history)
  BY <1>2, <1>3, <1>4, <1>6, <1>9 DEF Placed
<1>11. ASSUME NEW i \in 1 .. Len(v) PROVE v[i] = history[Len(v) - Len(v) + i]
  <2>1. i \in 1 .. Len(c) /\ Len(v) - Len(v) + i = i /\ Len(c) - Len(c) + i = i
    BY <1>2, <1>3, <1>4, <1>10
  <2>2. c[i] = history[i]
    BY <1>6, <2>1 DEF Placed
  <2>3. v[i] = c[i]
    <3>1. CASE i <= Len(w)
      BY <1>2, <1>3, <1>4, <2>1, <3>1
    <3>2. CASE ~(i <= Len(w))
      <4>1. i - Len(w) \in 1 .. Len(readTop)
        BY <1>2, <1>4, <3>2
      <4>2. v[i] = readTop[i - Len(w)] /\ c[i] = top[i - Len(w)]
        BY <1>2, <1>3, <1>4, <2>1, <3>2
      <4> QED BY <1>9, <4>1, <4>2
    <3> QED BY <3>1, <3>2
  <2> QED BY <2>1, <2>2, <2>3
<1>12. Placed(v, Len(v))
  BY <1>1, <1>2, <1>3, <1>4, <1>10, <1>11 DEF Placed
<1> QED BY <1>4, <1>8, <1>12

LEMMA ReadPersistedInv == ASSUME ReaderInv, ReadPersisted PROVE ReaderInv'
<1>1. /\ at = 3 /\ at' = 4 /\ pc = "idle" /\ answer' = Overlay
      /\ UNCHANGED vars /\ UNCHANGED <<readTop, readBottom, before, shifted, undone>>
  BY ReadingAt DEF ReadPersisted
<1>2. /\ Inv' /\ BottomKept' /\ LayersEnd' = LayersEnd /\ TopStart' = TopStart
      /\ Shifting' = Shifting
      /\ UNCHANGED <<history, applied, bottom, top, pc, op>>
  BY <1>1, NodeStays
<1>3. /\ applied \in Seq(Block) /\ Len(applied) \in Nat
      /\ readBottom \in Seq(Block) /\ readTop \in Seq(Block)
  BY NodeTypes DEF ReaderInv, ReaderType
<1>4. Overlay \in Seq(Block)
  BY <1>3, ConcatProperties DEF Overlay
<1>5. ReaderType' /\ Overlaps'
  BY <1>1, <1>2, <1>4 DEF ReaderInv, ReaderType, Overlaps
<1>6. ASSUME ~undone PROVE ReadsPlaced'
  <2>1. Running /\ ~Shifting
    BY <1>1, <1>6 DEF ReaderInv, Overlaps, Running, Shifting, Inv, TypeOK, Ops
  <2>2. Placed(applied, Len(applied))
    BY <2>1, AtRest DEF ReaderInv
  <2>3. PICK n \in Nat : TopRead(n) /\ \E e \in Nat : BottomRead(n, e)
    BY <1>1, <1>6 DEF ReaderInv, ReadsPlaced
  <2>4. PICK e \in Nat : BottomRead(n, e)
    BY <2>3
  <2>5. (Placed(before, Len(before)) /\ Len(before) <= LayersEnd)'
    BY <1>1, <1>2, <1>6 DEF ReaderInv, ReadsPlaced, Placed
  <2>6. TopRead(n)' /\ BottomRead(n, e)'
    BY <1>1, <1>2, <2>3, <2>4 DEF TopRead, BottomRead, Placed
  <2>7. PICK p \in Seq(Block) : p = applied
    BY <1>3
  <2>8. PersistedRead(e, p)'
    <3>1. Placed(p, Len(p))'
      BY <1>2, <2>2, <2>7 DEF Placed
    <3>2. e - Len(readBottom) <= Len(p)
      BY <2>4, <2>7 DEF BottomRead
    <3>3. answer' = p \o readBottom' \o readTop'
      BY <1>1, <2>7 DEF Overlay
    <3> QED BY <1>1, <3>1, <3>2, <3>3 DEF PersistedRead
  <2> QED BY <1>1, <2>5, <2>6, <2>8 DEF ReadsPlaced
<1>7. ASSUME ~undone, ~shifted PROVE ReadsExact'
  <2>1. Placed(Overlay, Len(Overlay)) /\ Len(before) <= Len(Overlay)
    BY <1>1, <1>7, OverlayPlaced
  <2>2. PICK a : a = Overlay
    OBVIOUS
  <2>3. Placed(a, Len(a)) /\ Len(before) <= Len(a) /\ answer' = a
    BY <1>1, <2>1, <2>2
  <2>4. Placed(answer, Len(answer))'
    BY <1>2, <2>3 DEF Placed
  <2> QED BY <1>1, <2>3, <2>4 DEF ReadsExact
<1> QED BY <1>1, <1>2, <1>5, <1>6, <1>7 DEF ReaderInv

LEMMA NoBlocks == <<>> \in Seq(Block)
  BY EmptySeq

LEMMA ResetInv == ASSUME Inv', BottomKept', Reset PROVE ReaderInv'
<1>1. at' \in 0 .. 4 /\ ~(at' # 0)
  BY DEF Reset
<1>2. ReaderType'
  BY <1>1, NoBlocks, Zenon DEF Reset, ReaderType
<1> QED BY <1>1, <1>2, Zenon DEF ReaderInv, Overlaps

LEMMA NodeStepInv == ASSUME ReaderInv, NodeStep PROVE ReaderInv'
<1>1. Inv /\ BottomKept /\ Next
  BY DEF ReaderInv, NodeStep
<1>2. Inv' /\ BottomKept'
  BY <1>1, NextInv, BottomStaysKept
<1>3. CASE pc' = "down"
  <2>1. Reset
    BY <1>3 DEF NodeStep
  <2> QED BY <1>2, <2>1, ResetInv
<1>4. CASE pc' # "down"
  <2>1. /\ shifted' = (shifted \/ (at # 0 /\ Shifting'))
        /\ undone' = (undone \/ (at # 0 /\ op' = "rollback"))
        /\ UNCHANGED <<at, readTop, readBottom, answer, before>>
    BY <1>4 DEF NodeStep
  <2>2. ReaderType'
    BY <2>1 DEF ReaderInv, ReaderType, Shifting
  <2>3. ASSUME at # 0, ~undone'
        PROVE  Running /\ Grows /\ op' # "boot" /\ op' # "rollback" /\ ReadsPlaced
               /\ (~Shifting /\ ~Shifting' => StaysPut)
    <3>1. ~undone /\ op' # "rollback"
      BY <2>1, <2>3
    <3>2. Running /\ ReadsPlaced
      BY <2>3, <3>1 DEF ReaderInv, Overlaps, Running, Inv, TypeOK, Ops
    <3> QED BY <1>1, <1>4, <3>1, <3>2, RunningGrows
  <2>4. Overlaps'
    <3>1. ASSUME at # 0 PROVE op' # "boot"
      <4>1. pc # "down" /\ op # "boot"
        BY <3>1 DEF ReaderInv, Overlaps
      <4>2. ~Start
        BY <4>1 DEF Start
      <4>3. op' \in {op, "none", "process", "rollback"}
        BY <1>1, <4>2, BlockAssumption
           DEF Next, Step, Call, CheckGenesis, StoreTransactions, ApplyRest, SetHeight, ShiftTop,
               ClearTop, AppendBlock, RejectBlock, CombineTop, DiscardBlock, DiscardedAll,
               RebuildAll, CutTop, CutBottom, PersistChunk, BuildInMemory, FailedStart, Finish,
               ProcessBlock, RemoveAfter, Crash
      <4> QED BY <4>1, <4>3
    <3> QED BY <1>4, <2>1, <3>1 DEF Overlaps, ReaderInv
  <2>5. ASSUME at # 0, ~undone' PROVE ReadsPlaced'
    BY <1>1, <1>2, <2>1, <2>3, <2>5, PlacedStays DEF ReaderInv
  <2>6. ASSUME at # 0, ~undone', ~shifted' PROVE ReadsExact'
    <3>1. ~undone /\ ~shifted /\ ~Shifting'
      BY <2>1, <2>6 DEF ReaderInv, ReaderType
    <3>2. ~Shifting /\ ReadsExact
      BY <2>6, <3>1 DEF ReaderInv, Overlaps
    <3> QED BY <1>1, <1>2, <2>1, <2>3, <2>6, <3>1, <3>2, ExactStays DEF ReaderInv
  <2> QED BY <1>2, <2>1, <2>2, <2>4, <2>5, <2>6 DEF ReaderInv
<1> QED BY <1>3, <1>4

\* What holds of every read, at each of its steps and of the node's beside it.
THEOREM ReaderInvAlways == ReaderSpec => []ReaderInv
<1>1. ReaderInit => ReaderInv
  <2> SUFFICES ASSUME ReaderInit PROVE ReaderInv
    OBVIOUS
  <2>1. /\ Init /\ at = 0 /\ readTop = <<>> /\ readBottom = <<>> /\ answer = <<>>
        /\ before = <<>> /\ shifted = FALSE /\ undone = FALSE
    BY DEF ReaderInit
  <2>2. Inv
    BY <2>1, InitInv
  <2>3. ReaderType /\ Overlaps
    <3>1. at \in 0 .. 4 /\ ~(at # 0)
      BY <2>1
    <3> QED BY <2>1, <3>1, NoBlocks, Zenon DEF ReaderType, Overlaps
  <2>4. BottomKept
    BY <2>1 DEF Init, BottomKept
  <2> QED BY <2>1, <2>2, <2>3, <2>4 DEF ReaderInv
<1>2. ReaderInv /\ [ReaderNext]_allVars => ReaderInv'
  <2> SUFFICES ASSUME ReaderInv, [ReaderNext]_allVars PROVE ReaderInv'
    OBVIOUS
  <2>1. CASE Return
    <3>1. Reset /\ UNCHANGED vars
      BY <2>1 DEF Return
    <3> QED BY <3>1, NodeStays, ResetInv
  <2>2. CASE UNCHANGED allVars
    <3>1. /\ UNCHANGED vars /\ UNCHANGED <<at, readTop, readBottom, answer, before, shifted, undone>>
      BY <2>2 DEF allVars, vars
    <3>2. /\ Inv' /\ BottomKept' /\ LayersEnd' = LayersEnd /\ TopStart' = TopStart
          /\ Shifting' = Shifting
          /\ UNCHANGED <<history, applied, bottom, top, pc, op>>
      BY <3>1, NodeStays
    <3>3. ReaderType' /\ Overlaps'
      BY <3>1, <3>2 DEF ReaderInv, ReaderType, Overlaps
    <3>4. ReadsPlaced => ReadsPlaced'
      BY <3>1, <3>2 DEF ReadsPlaced, TopRead, BottomRead, PersistedRead, Placed
    <3>5. ReadsExact => ReadsExact'
      BY <3>1, <3>2 DEF ReadsExact, Placed
    <3> QED BY <3>1, <3>2, <3>3, <3>4, <3>5 DEF ReaderInv
  <2> QED
    BY <2>1, <2>2, BeginInv, ReadTopInv, ReadBottomInv, ReadPersistedInv, NodeStepInv
       DEF ReaderNext
<1> QED BY <1>1, <1>2, PTL DEF ReaderSpec

-----------------------------------------------------------------------------
(* Sums and lookups of a finished read. *)

\* Any set of naturals has a least element: induction, for what follows.
LEMMA LeastNumber ==
    ASSUME NEW T, T \subseteq Nat, T # {}
    PROVE  \E x \in T : \A y \in T : x <= y
<1> DEFINE R == {ss \in Nat \X Nat : ss[1] < ss[2]}
<1>1. IsWellFoundedOn(R, Nat)
  BY NatLessThanWellFounded DEF OpToRel
<1>2. PICK x \in T : \A y \in T : ~(<<y, x>> \in R)
  <2> HIDE DEF R
  <2> QED BY <1>1, WFMin
<1>3. ASSUME NEW y \in T PROVE x <= y
  <2>1. x \in Nat /\ y \in Nat
    OBVIOUS
  <2>2. ~(<<y, x>> \in R)
    BY <1>2
  <2>3. ~(y < x)
    BY <2>1, <2>2
  <2> QED BY <2>1, <2>3
<1> QED BY <1>3

LEMMA WriterAt ==
    ASSUME NEW s, Len(s) \in Nat, NEW key, NEW i \in 1 .. Len(s), s[i] \in key,
           \A j \in 1 .. Len(s) : j > i => s[j] \notin key
    PROVE  LastWriter(s, key) = s[i]
<1> DEFINE writes == {j \in 1 .. Len(s) : s[j] \in key}
<1>1. i \in writes /\ \A y \in writes : i >= y
  OBVIOUS
<1>2. ASSUME NEW x \in writes, \A y \in writes : x >= y PROVE x = i
  BY <1>1, <1>2
<1>3. Max(writes) = i
  <2> HIDE DEF writes
  <2> QED BY <1>1, <1>2 DEF Max
<1>4. writes # {}
  BY <1>1
<1> QED BY <1>3, <1>4 DEF LastWriter

LEMMA NoWriter ==
    ASSUME NEW s, NEW key, \A j \in 1 .. Len(s) : s[j] \notin key
    PROVE  LastWriter(s, key) = NoBlock
  BY DEF LastWriter

LEMMA LastWriteExists ==
    ASSUME NEW s, Len(s) \in Nat, NEW key, NEW k \in 1 .. Len(s), s[k] \in key
    PROVE  \E i \in 1 .. Len(s) : s[i] \in key /\ \A j \in 1 .. Len(s) : j > i => s[j] \notin key
<1> DEFINE T == {m \in Nat : \E i \in 1 .. Len(s) : s[i] \in key /\ m = Len(s) - i}
<1>1. T \subseteq Nat /\ T # {}
  <2>1. Len(s) - k \in Nat
    OBVIOUS
  <2>2. Len(s) - k \in T
    BY <2>1
  <2> QED BY <2>2
<1>2. PICK m \in T : \A y \in T : m <= y
  <2> HIDE DEF T
  <2> QED BY <1>1, LeastNumber
<1>3. PICK i \in 1 .. Len(s) : s[i] \in key /\ m = Len(s) - i
  BY <1>2
<1>4. ASSUME NEW j \in 1 .. Len(s), j > i PROVE s[j] \notin key
  <2>1. SUFFICES ASSUME s[j] \in key PROVE FALSE
    OBVIOUS
  <2>2. Len(s) - j \in Nat
    OBVIOUS
  <2>3. Len(s) - j \in T
    BY <2>1, <2>2
  <2>4. m <= Len(s) - j
    BY <1>2, <2>3
  <2> QED BY <1>3, <1>4, <2>4
<1> QED BY <1>3, <1>4

LEMMA PrefixWriter ==
    ASSUME NEW h \in Seq(Block), NEW n \in 0 .. Len(h), NEW key
    PROVE  /\ \A i \in 1 .. n :
                 h[i] \in key /\ (\A k \in 1 .. n : k > i => h[k] \notin key) =>
                    LastWriter(SubSeq(h, 1, n), key) = h[i]
           /\ (\A k \in 1 .. n : h[k] \notin key) => LastWriter(SubSeq(h, 1, n), key) = NoBlock
<1> DEFINE q == SubSeq(h, 1, n)
<1>1. Len(h) \in Nat /\ n \in Nat /\ n <= Len(h)
  BY LenProperties
<1>2. Len(q) = n /\ \A i \in 1 .. n : q[i] = h[i]
  <2>1. Len(q) = IF 1 <= n THEN n - 1 + 1 ELSE 0
    BY <1>1, SubSeqType
  <2>2. \A i \in 1 .. n - 1 + 1 : q[i] = h[1 + i - 1]
    BY <1>1, SubSeqType
  <2> QED BY <1>1, <2>1, <2>2
<1> HIDE DEF q
<1>3. ASSUME NEW i \in 1 .. n, h[i] \in key, \A k \in 1 .. n : k > i => h[k] \notin key
      PROVE  LastWriter(q, key) = h[i]
  <2>1. i \in 1 .. Len(q) /\ q[i] \in key /\ \A k \in 1 .. Len(q) : k > i => q[k] \notin key
    BY <1>1, <1>2, <1>3
  <2>2. LastWriter(q, key) = q[i]
    BY <1>1, <1>2, <2>1, WriterAt
  <2> QED BY <1>2, <2>2
<1>4. ASSUME \A k \in 1 .. n : h[k] \notin key PROVE LastWriter(q, key) = NoBlock
  BY <1>2, <1>4, NoWriter
<1> QED BY <1>3, <1>4 DEF q

\* The elements of s are those of h that end at e.
Lies(s, h, e) ==
    /\ Len(s) <= e /\ e <= Len(h)
    /\ \A i \in 1 .. Len(s) : s[i] = h[e - Len(s) + i]

\* What a lookup in v answers is what a chain of at least n blocks of h had.
Current(v, key, h, n) ==
    \E m \in n .. Len(h) : LastWriter(v, key) = LastWriter(SubSeq(h, 1, m), key)

\* A persisted value, a bottom diff that reaches down to it and a top diff that reaches down
\* to that one, each read later than the next: a lookup in them is one in some chain.
LEMMA LookupInChain ==
    ASSUME NEW h \in Seq(Block), NEW p \in Seq(Block), NEW b \in Seq(Block), NEW t \in Seq(Block),
           NEW n \in Nat, NEW e \in Nat, NEW key,
           Lies(p, h, Len(p)), Lies(b, h, e), Lies(t, h, n),
           e - Len(b) <= Len(p), n - Len(t) <= e
    PROVE  Current(p \o b \o t, key, h, n)
<1> DEFINE u == p \o b
           v == u \o t
           a == Len(p)
           x == Len(b)
           y == Len(t)
<1>1. /\ a \in Nat /\ x \in Nat /\ y \in Nat /\ Len(h) \in Nat
      /\ u \in Seq(Block) /\ Len(u) = a + x /\ Len(u) \in Nat
  BY ConcatProperties, LenProperties
<1>0. /\ \A i \in 1 .. a : p[i] = h[i]
      /\ \A i \in 1 .. x : b[i] = h[e - x + i]
      /\ \A i \in 1 .. y : t[i] = h[n - y + i]
  <2>1. ASSUME NEW i \in 1 .. a PROVE p[i] = h[i]
    <3>1. a - a + i = i
      BY <1>1
    <3> QED BY <3>1 DEF Lies
  <2> QED BY <2>1 DEF Lies
<1>2. \A i \in 1 .. a + x : u[i] = IF i <= a THEN p[i] ELSE b[i - a]
  BY ConcatProperties
<1> HIDE DEF u
<1>3. /\ Len(v) = a + x + y
      /\ \A i \in 1 .. a + x + y : v[i] = IF i <= a + x THEN u[i] ELSE t[i - (a + x)]
  <2>1. /\ Len(v) = Len(u) + y
        /\ \A i \in 1 .. Len(u) + y : v[i] = IF i <= Len(u) THEN u[i] ELSE t[i - Len(u)]
    <3>1. u \in Seq(Block) /\ t \in Seq(Block)
      BY <1>1
    <3> QED BY ONLY <3>1, ConcatProperties
  <2> HIDE DEF v
  <2> QED BY <1>1, <2>1
<1> HIDE DEF v
<1>4. ASSUME NEW k \in 1 .. a PROVE k \in 1 .. Len(v) /\ v[k] = h[k]
  <2>1. k \in 1 .. a + x + y /\ k <= a + x /\ k \in 1 .. a + x /\ k <= a
    BY <1>1
  <2>2. v[k] = u[k] /\ u[k] = p[k]
    BY <1>2, <1>3, <2>1
  <2> QED BY <1>0, <1>3, <2>1, <2>2
<1>5. ASSUME NEW k \in e - x + 1 .. e
      PROVE  a + (k - (e - x)) \in 1 .. Len(v) /\ v[a + (k - (e - x))] = h[k]
  <2> DEFINE i == a + (k - (e - x))
             j == k - (e - x)
  <2>1. i \in 1 .. a + x + y /\ i <= a + x /\ i \in 1 .. a + x /\ ~(i <= a) /\ i - a = j
        /\ j \in 1 .. x /\ e - x + j = k
    BY <1>1
  <2> HIDE DEF i, j
  <2>2. v[i] = u[i] /\ u[i] = b[j]
    BY <1>2, <1>3, <2>1
  <2>3. b[j] = h[k]
    BY <1>0, <2>1
  <2>4. i \in 1 .. Len(v) /\ v[i] = h[k]
    BY <1>3, <2>1, <2>2, <2>3
  <2> QED BY <2>4 DEF i
<1>6. ASSUME NEW k \in n - y + 1 .. n
      PROVE  a + x + (k - (n - y)) \in 1 .. Len(v) /\ v[a + x + (k - (n - y))] = h[k]
  <2> DEFINE i == a + x + (k - (n - y))
             j == k - (n - y)
  <2>1. i \in 1 .. a + x + y /\ ~(i <= a + x) /\ i - (a + x) = j /\ j \in 1 .. y /\ n - y + j = k
    BY <1>1
  <2> HIDE DEF i, j
  <2>2. v[i] = t[j]
    BY <1>3, <2>1
  <2>3. t[j] = h[k]
    BY <1>0, <2>1
  <2>4. i \in 1 .. Len(v) /\ v[i] = h[k]
    BY <1>3, <2>1, <2>2, <2>3
  <2> QED BY <2>4 DEF i
<1> HIDE DEF a, x, y
<1>7. e \in Nat /\ n \in Nat /\ e <= Len(h) /\ n <= Len(h) /\ a <= Len(h) /\ x <= e /\ e - x <= a /\ y <= n /\ n - y <= e
  BY DEF a, x, y, Lies
<1>8. CASE \A j \in 1 .. Len(v) : v[j] \notin key
  <2>1. LastWriter(v, key) = NoBlock
    BY <1>8, NoWriter
  <2>2. ASSUME NEW k \in 1 .. n PROVE h[k] \notin key
    <3>1. CASE k <= a
      <4>1. k \in 1 .. a
        BY <1>1, <3>1
      <4> QED BY <1>4, <1>8, <4>1
    <3>2. CASE k > a /\ k <= e
      <4>1. k \in e - x + 1 .. e
        BY <1>1, <1>7, <3>2
      <4> QED BY <1>5, <1>8, <4>1
    <3>3. CASE k > a /\ k > e
      <4>1. k \in n - y + 1 .. n
        BY <1>1, <1>7, <3>3
      <4> QED BY <1>6, <1>8, <4>1
    <3> QED BY <1>1, <3>1, <3>2, <3>3
  <2>3. n \in 0 .. Len(h) /\ n \in n .. Len(h)
    BY <1>1, <1>7
  <2>4. LastWriter(SubSeq(h, 1, n), key) = NoBlock
    BY <2>2, <2>3, PrefixWriter
  <2> QED BY <2>1, <2>3, <2>4 DEF Current, v, u
<1>9. CASE ~(\A j \in 1 .. Len(v) : v[j] \notin key)
  <2>1. Len(v) \in Nat
    BY <1>1, <1>3
  <2>2. PICK i \in 1 .. Len(v) : v[i] \in key /\ \A j \in 1 .. Len(v) : j > i => v[j] \notin key
    BY <1>9, <2>1, LastWriteExists
  <2>3. LastWriter(v, key) = v[i]
    BY <2>1, <2>2, WriterAt
  <2>4. SUFFICES \E m \in n .. Len(h) : \E pos \in 1 .. m :
                    /\ h[pos] = v[i]
                    /\ \A k \in 1 .. m : k > pos => h[k] \notin key
    <3>0. PICK m \in n .. Len(h) : \E pos \in 1 .. m :
             h[pos] = v[i] /\ \A k \in 1 .. m : k > pos => h[k] \notin key
      BY <2>4
    <3>1. PICK pos \in 1 .. m : h[pos] = v[i] /\ \A k \in 1 .. m : k > pos => h[k] \notin key
      BY <3>0
    <3>2. m \in 0 .. Len(h)
      BY <1>1
    <3>3. LastWriter(SubSeq(h, 1, m), key) = h[pos]
      BY <2>2, <3>1, <3>2, PrefixWriter
    <3> QED BY <2>3, <3>1, <3>3 DEF Current, v, u
  <2>5. CASE i <= a
    <3>1. PICK m \in Nat : m >= a /\ m >= e /\ m >= n /\ m <= Len(h) /\ m \in {a, e, n}
      <4>1. CASE a >= e /\ a >= n
        BY <1>1, <1>7, <4>1
      <4>2. CASE e >= a /\ e >= n
        BY <1>1, <1>7, <4>2
      <4>3. CASE n >= a /\ n >= e
        BY <1>1, <1>7, <4>3
      <4> QED BY <1>1, <1>7, <4>1, <4>2, <4>3
    <3>2. i \in 1 .. m /\ i \in 1 .. a /\ m \in n .. Len(h)
      BY <1>1, <2>1, <2>5, <3>1
    <3>3. h[i] = v[i]
      BY <1>4, <3>2
    <3>4. ASSUME NEW k \in 1 .. m, k > i PROVE h[k] \notin key
      <4>1. CASE k <= a
        <5>1. k \in 1 .. a
          BY <1>1, <4>1
        <5> QED BY <1>4, <2>2, <3>4, <5>1
      <4>2. CASE k > a /\ k <= e
        <5>1. k \in e - x + 1 .. e /\ a + (k - (e - x)) > i
          BY <1>1, <1>7, <2>5, <4>2
        <5> QED BY <1>5, <2>2, <5>1
      <4>3. CASE k > a /\ k > e
        <5>1. k \in n - y + 1 .. n /\ a + x + (k - (n - y)) > i
          BY <1>1, <1>7, <2>5, <3>1, <4>3
        <5> QED BY <1>6, <2>2, <5>1
      <4> QED BY <1>1, <1>7, <4>1, <4>2, <4>3
    <3> QED BY <3>2, <3>3, <3>4
  <2>6. CASE i > a /\ i <= a + x
    <3> DEFINE pos == e - x + (i - a)
    <3>1. PICK m \in Nat : m >= e /\ m >= n /\ m <= Len(h) /\ m \in {e, n}
      <4>1. CASE e >= n
        BY <1>1, <1>7, <4>1
      <4>2. CASE n >= e
        BY <1>1, <1>7, <4>2
      <4> QED BY <1>1, <1>7, <4>1, <4>2
    <3>2. /\ pos \in 1 .. m /\ pos \in e - x + 1 .. e /\ m \in n .. Len(h)
          /\ a + (pos - (e - x)) = i
      BY <1>1, <1>7, <2>1, <2>6, <3>1
    <3> HIDE DEF pos
    <3>3. h[pos] = v[i]
      BY <1>5, <3>2
    <3>4. ASSUME NEW k \in 1 .. m, k > pos PROVE h[k] \notin key
      <4>1. CASE k <= e
        <5>1. k \in e - x + 1 .. e /\ a + (k - (e - x)) > i
          BY <1>1, <1>7, <3>2, <3>4, <4>1
        <5> QED BY <1>5, <2>2, <5>1
      <4>2. CASE k > e
        <5>1. k \in n - y + 1 .. n /\ a + x + (k - (n - y)) > i
          BY <1>1, <1>7, <2>6, <3>1, <4>2
        <5> QED BY <1>6, <2>2, <5>1
      <4> QED BY <1>1, <1>7, <4>1, <4>2
    <3> QED BY <3>2, <3>3, <3>4
  <2>7. CASE i > a + x
    <3> DEFINE pos == n - y + (i - (a + x))
    <3>1. /\ pos \in 1 .. n /\ pos \in n - y + 1 .. n /\ n \in n .. Len(h)
          /\ a + x + (pos - (n - y)) = i
      BY <1>1, <1>3, <1>7, <2>1, <2>7
    <3> HIDE DEF pos
    <3>2. h[pos] = v[i]
      BY <1>6, <3>1
    <3>3. ASSUME NEW k \in 1 .. n, k > pos PROVE h[k] \notin key
      <4>1. k \in n - y + 1 .. n /\ a + x + (k - (n - y)) > i
        BY <1>1, <1>7, <3>1, <3>3
      <4> QED BY <1>6, <2>2, <4>1
    <3> QED BY <3>1, <3>2, <3>3
  <2> QED BY <1>1, <2>1, <2>5, <2>6, <2>7
<1> QED BY <1>8, <1>9

\* Without a rotation beside it, a read adds up the chain of some moment of the read: no diff
\* is missed or counted twice by the three reads of CompositeStateReader.Proxy.
THEOREM SumsExactAlways == ReaderSpec => []SumsExactWithoutShift
<1>1. ReaderInv => SumsExactWithoutShift
  <2> SUFFICES ASSUME ReaderInv, at = Done, ~undone, ~shifted
               PROVE  IsPrefix(before, answer) /\ IsPrefix(answer, history)
    BY DEF SumsExactWithoutShift
  <2>1. at = 4
    BY Orders
  <2>2. /\ Placed(before, Len(before))
        /\ Placed(answer, Len(answer)) /\ Len(before) <= Len(answer)
    BY <2>1 DEF ReaderInv, ReadsPlaced, ReadsExact
  <2>3. /\ before \in Seq(Block) /\ answer \in Seq(Block) /\ history \in Seq(Block)
        /\ Len(before) \in Nat /\ Len(answer) \in Nat
    BY NodeTypes, LenProperties DEF ReaderInv, ReaderType
  <2>4. ASSUME NEW s \in Seq(Block), Placed(s, Len(s))
        PROVE  Len(s) <= Len(history) /\ \A i \in 1 .. Len(s) : s[i] = history[i]
    <3>1. ASSUME NEW i \in 1 .. Len(s) PROVE s[i] = history[i]
      <4>1. Len(s) \in Nat /\ Len(s) - Len(s) + i = i
        BY LenProperties
      <4> QED BY <2>4, <4>1 DEF Placed
    <3> QED BY <2>4, <3>1 DEF Placed
  <2>5. /\ Len(before) <= Len(history) /\ \A i \in 1 .. Len(before) : before[i] = history[i]
        /\ Len(answer) <= Len(history) /\ \A i \in 1 .. Len(answer) : answer[i] = history[i]
    BY <2>2, <2>3, <2>4
  <2>6. \A i \in 1 .. Len(before) : before[i] = answer[i]
    BY <2>2, <2>3, <2>5
  <2> QED BY <2>2, <2>3, <2>5, <2>6, PrefixPointwise
<1> QED BY <1>1, ReaderInvAlways, PTL

\* A lookup of any key, under any number of rotations, is one in a chain between the start
\* and the end of the read: the newest layer read hides only what was read later.
THEOREM LookupsLinearizableAlways == ReaderSpec => []LookupsLinearizable
<1>1. ReaderInv => LookupsLinearizable
  <2> SUFFICES ASSUME ReaderInv, at = Done, ~undone, NEW key \in SUBSET Range(history)
               PROVE  \E n \in Len(before) .. Len(history) :
                         LastWriter(answer, key) = LastWriter(SubSeq(history, 1, n), key)
    BY DEF LookupsLinearizable
  <2>1. at = 4
    BY Orders
  <2>2. PICK n \in Nat : TopRead(n) /\ \E e \in Nat : /\ BottomRead(n, e)
                                                      /\ \E p \in Seq(Block) : PersistedRead(e, p)
    BY <2>1 DEF ReaderInv, ReadsPlaced
  <2>3. PICK e \in Nat : BottomRead(n, e) /\ \E p \in Seq(Block) : PersistedRead(e, p)
    BY <2>2
  <2>4. PICK p \in Seq(Block) : PersistedRead(e, p)
    BY <2>3
  <2>5. /\ history \in Seq(Block) /\ readTop \in Seq(Block) /\ readBottom \in Seq(Block)
        /\ Len(history) \in Nat /\ Len(before) \in Nat /\ LayersEnd \in Int
    BY NodeTypes, LenProperties DEF ReaderInv, ReaderType
  <2>6. n <= Len(history) /\ Len(before) <= n /\ answer = p \o readBottom \o readTop
    BY <2>2, <2>4 DEF TopRead, PersistedRead, Placed
  <2>7. \E m \in n .. Len(history) :
           LastWriter(p \o readBottom \o readTop, key) = LastWriter(SubSeq(history, 1, m), key)
    <3>1. PICK h \in Seq(Block) : h = history
      BY <2>5
    <3>2. PICK b \in Seq(Block) : b = readBottom
      BY <2>5
    <3>3. PICK t \in Seq(Block) : t = readTop
      BY <2>5
    <3>4. /\ Lies(p, h, Len(p)) /\ Lies(b, h, e) /\ Lies(t, h, n)
          /\ e - Len(b) <= Len(p) /\ n - Len(t) <= e
      BY <2>2, <2>3, <2>4, <3>1, <3>2, <3>3
         DEF TopRead, BottomRead, PersistedRead, Placed, Lies
    <3>5. Current(p \o b \o t, key, h, n)
      BY <3>4, LookupInChain
    <3> QED BY <3>1, <3>2, <3>3, <3>5 DEF Current
  <2>8. n .. Len(history) \subseteq Len(before) .. Len(history)
    BY <2>5, <2>6
  <2> QED BY <2>6, <2>7, <2>8
<1> QED BY <1>1, ReaderInvAlways, PTL

=============================================================================
