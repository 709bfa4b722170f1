---------------------------- MODULE Node_proofs ----------------------------
(* Theorems about Node, for every tree of blocks, every number of mining     *)
(* threads and everything that peers and the API may send.                   *)
EXTENDS Node, SequenceTheorems, TLAPS

(* What a thread holds at each of its stages. *)
Fine(t, p) ==
    /\ p.pc \in {"validate", "append", "clean"} => p.blk \in Block
    /\ t # Net => p.rest = <<>> /\ ~p.fork
    /\ t = Net /\ p.pc = "cut" => p.rest # <<>>
Held == \A t \in Thread : Fine(t, at[t])

Typed == TypeOK /\ Held

-----------------------------------------------------------------------------
(* Sequences of blocks. *)

LEMMA TipType ==
    ASSUME chain \in Seq(Block), chain # <<>>
    PROVE  /\ Len(chain) \in Nat \ {0} /\ DOMAIN chain = 1 .. Len(chain)
           /\ Tip = chain[Len(chain)] /\ Tip \in Block
           /\ \A i \in 1 .. Len(chain) : chain[i] \in Block
<1>1. Len(chain) \in Nat \ {0} /\ DOMAIN chain = 1 .. Len(chain)
  BY EmptySeq, LenProperties
<1>2. \A i \in 1 .. Len(chain) : chain[i] \in Block
  BY <1>1, ElementOfSeq
<1> QED BY <1>1, <1>2 DEF Tip, Last

(* removeAfter leaves a prefix that ends in the target. *)
LEMMA UpToType ==
    ASSUME chain \in Seq(Block), chain # <<>>, NEW b \in Block, InHistory(b)
    PROVE  \E n \in 1 .. Len(chain) :
              /\ chain[n] = b
              /\ UpTo(b) = SubSeq(chain, 1, n)
              /\ UpTo(b) \in Seq(Block) /\ Len(UpTo(b)) = n /\ UpTo(b) # <<>>
              /\ \A i \in 1 .. n : UpTo(b)[i] = chain[i]
<1>1. Len(chain) \in Nat \ {0} /\ DOMAIN chain = 1 .. Len(chain)
      /\ \A i \in 1 .. Len(chain) : chain[i] \in Block
  BY TipType
<1> DEFINE n == CHOOSE i \in DOMAIN chain : chain[i] = b
<1>2. n \in DOMAIN chain /\ chain[n] = b
  BY DEF InHistory, Range
<1>3. UpTo(b) = SubSeq(chain, 1, n)
  BY DEF UpTo
<1> HIDE DEF n
<1>4. n \in 1 .. Len(chain)
  BY <1>1, <1>2
<1>5. /\ SubSeq(chain, 1, n) \in Seq(Block) /\ Len(SubSeq(chain, 1, n)) = n
      /\ \A i \in 1 .. n : SubSeq(chain, 1, n)[i] = chain[i]
  BY <1>1, <1>4, SubSeqProperties
<1>6. SubSeq(chain, 1, n) # <<>>
  BY <1>4, <1>5, EmptySeq
<1> QED BY <1>2, <1>3, <1>4, <1>5, <1>6

LEMMA HeadTail ==
    ASSUME NEW s \in Seq(Block), s # <<>>
    PROVE  Head(s) \in Block /\ Tail(s) \in Seq(Block)
  BY HeadTailProperties

-----------------------------------------------------------------------------
(* Type correctness. *)

LEMMA MoveType ==
    ASSUME at \in [Thread -> Places], NEW t \in Thread, NEW p \in Places, Move(t, p)
    PROVE  /\ at' \in [Thread -> Places] /\ at'[t] = p
           /\ \A u \in Thread \ {t} : at'[u] = at[u]
  BY DEF Move

LEMMA IdleType == Idle \in Places
<1>1. <<>> \in Seq(Block)
  BY EmptySeq
<1> QED BY <1>1 DEF Idle, Places, Stages

LEMMA PutIfNewType ==
    ASSUME pool \subseteq Tx, known \in [Tx -> {"unknown", "good", "bad"}], NEW t \in Tx,
           PutIfNew(t)
    PROVE  pool' \subseteq Tx /\ known' \in [Tx -> {"unknown", "good", "bad"}]
  BY DEF PutIfNew, utx

LEMMA ContentType ==
    ASSUME \A b \in DOMAIN built : built[b] \subseteq Tx, NEW b \in Block
    PROVE  Txs(b) \subseteq Tx
  BY NodeAssumption DEF Txs

LEMMA MoveTyped ==
    ASSUME at \in [Thread -> Places], Held, NEW t \in Thread, NEW p \in Places, Fine(t, p),
           Move(t, p)
    PROVE  at' \in [Thread -> Places] /\ Held'
<1>1. /\ at' \in [Thread -> Places] /\ at'[t] = p
      /\ \A u \in Thread \ {t} : at'[u] = at[u]
  BY MoveType
<1>2. \A u \in Thread : Fine(u, at'[u])
  BY <1>1 DEF Held
<1> QED BY <1>1, <1>2 DEF Held, Fine

(* Places with another stage, and a block or none. *)
LEMMA PlaceType ==
    ASSUME NEW p \in Places, NEW stage \in Stages, NEW b \in Block \cup {NoBlock},
           NEW c \in Block \cup {NoBlock}
    PROVE  /\ [p EXCEPT !.pc = stage] \in Places
           /\ [p EXCEPT !.pc = stage, !.blk = b] \in Places
           /\ [p EXCEPT !.pc = stage, !.tip = c] \in Places
           /\ [p EXCEPT !.pc = stage, !.blk = b, !.tip = c] \in Places
  BY DEF Places

LEMMA IdleFine == \A t \in Thread : Fine(t, Idle)
  BY DEF Fine, Idle

LEMMA RefusedTyped ==
    ASSUME at \in [Thread -> Places], Held, NEW t \in Thread, Refused(t)
    PROVE  at' \in [Thread -> Places] /\ Held'
<1> DEFINE flag == [Idle EXCEPT !.pc = "flag"]
<1>1. flag \in Places
  BY IdleType, PlaceType DEF Stages
<1>2. Fine(t, flag)
  BY DEF Fine, Idle
<1>3. Move(t, flag) \/ Move(t, Idle)
  BY DEF Refused
<1> HIDE DEF flag
<1> QED BY <1>1, <1>2, <1>3, IdleType, IdleFine, MoveTyped

LEMMA GotoTyped ==
    ASSUME at \in [Thread -> Places], Held, NEW t \in Thread, NEW stage \in Stages,
           stage \notin {"validate", "append", "clean", "cut"}, Goto(t, stage)
    PROVE  at' \in [Thread -> Places] /\ Held'
<1> DEFINE p == [at[t] EXCEPT !.pc = stage, !.blk = NoBlock, !.tip = NoBlock]
<1>1. p \in Places
  BY PlaceType
<1>2. Fine(t, p)
  BY DEF Fine, Held, Places
<1>3. Move(t, p)
  BY DEF Goto
<1> HIDE DEF p
<1> QED BY <1>1, <1>2, <1>3, MoveTyped

LEMMA TypedInit == Init => Typed
<1> SUFFICES ASSUME Init PROVE Typed
  OBVIOUS
<1>1. chain \in Seq(Block) /\ chain # <<>>
  BY NodeAssumption DEF Init
<1>2. DOMAIN built \subseteq Own /\ \A b \in DOMAIN built : built[b] \subseteq Tx
  BY DEF Init
<1> DEFINE reading == [Idle EXCEPT !.pc = "read"]
<1>3. reading \in Places /\ \A t \in Thread : Fine(t, reading)
  BY IdleType, PlaceType DEF Stages, Fine, Idle
<1>4. at = [t \in Thread |-> IF t = Api THEN reading ELSE Idle]
  BY DEF Init
<1> HIDE DEF reading
<1>5. at \in [Thread -> Places] /\ Held
  BY <1>3, <1>4, IdleType, IdleFine DEF Held
<1>6. MaxHorizon \in Nat /\ MaxJobs \in Nat
  BY NodeAssumption
<1>7. horizon \in 0 .. MaxHorizon /\ jobs \in 0 .. MaxJobs
  BY <1>6 DEF Init
<1>8. pool \subseteq Tx /\ known \in [Tx -> {"unknown", "good", "bad"}]
  BY DEF Init
<1>9. attempt \in Block \cup {NoBlock} /\ live \subseteq Miners /\ discarding \in BOOLEAN
  BY DEF Init
<1> QED BY <1>1, <1>2, <1>5, <1>7, <1>8, <1>9 DEF Typed, TypeOK

(* One step of each action, on the chain and on the places of the threads. *)

(* What removeAfter leaves, and the transactions it returns. *)
LEMMA CutType ==
    ASSUME Typed, NEW to \in Block \cup {NoBlock}, InHistory(to)
    PROVE  /\ UpTo(to) \in Seq(Block) /\ UpTo(to) # <<>>
           /\ TxsOf(After(to)) \subseteq Tx
<1>1. to \in Block
  BY TipType DEF InHistory, Range, Typed, TypeOK
<1>2. PICK n \in 1 .. Len(chain) :
          UpTo(to) \in Seq(Block) /\ Len(UpTo(to)) = n /\ UpTo(to) # <<>>
  BY <1>1, UpToType DEF Typed, TypeOK
<1>3. Len(chain) \in Nat \ {0} /\ \A i \in 1 .. Len(chain) : chain[i] \in Block
  BY TipType DEF Typed, TypeOK
<1>4. After(to) \in Seq(Block)
  BY <1>2, <1>3, SubSeqProperties DEF After
<1>5. \A i \in DOMAIN After(to) : Txs(After(to)[i]) \subseteq Tx
  BY <1>4, ContentType, ElementOfSeq, LenProperties DEF Typed, TypeOK
<1> QED BY <1>2, <1>5 DEF TxsOf

LEMMA CutForkTyped == ASSUME Typed, CutFork PROVE Typed'
<1> DEFINE to == at[Net].blk
           p == [at[Net] EXCEPT !.pc = "validate", !.dropped = TxsOf(After(to)),
                                !.blk = Head(at[Net].rest), !.rest = Tail(@)]
<1>1. /\ Net \in Thread /\ at[Net] \in Places /\ to \in Block \cup {NoBlock}
      /\ at[Net].rest \in Seq(Block) /\ at[Net].rest # <<>>
  BY DEF Thread, Typed, TypeOK, Places, Held, Fine, CutFork
<1>2. CASE InHistory(to)
  <2>1. chain' = UpTo(to) /\ Move(Net, p)
    BY <1>2 DEF CutFork
  <2>2. chain' \in Seq(Block) /\ chain' # <<>> /\ TxsOf(After(to)) \subseteq Tx
    BY <2>1, <1>1, <1>2, CutType
  <2>3. Head(at[Net].rest) \in Block /\ Tail(at[Net].rest) \in Seq(Block)
    BY <1>1, HeadTail
  <2>4. p \in Places
    BY <1>1, <2>2, <2>3 DEF Places, Stages
  <2>5. Fine(Net, p)
    BY <1>1, <2>3 DEF Fine, Places
  <2> HIDE DEF p
  <2>6. at' \in [Thread -> Places] /\ Held'
    BY <1>1, <2>1, <2>4, <2>5, MoveTyped DEF Typed, TypeOK
  <2> QED BY <2>2, <2>6 DEF Typed, TypeOK, CutFork, utx, mining
<1>3. CASE ~InHistory(to)
  <2>1. Move(Net, Idle) /\ UNCHANGED chain
    BY <1>3 DEF CutFork
  <2>2. at' \in [Thread -> Places] /\ Held'
    BY <1>1, <2>1, IdleType, IdleFine, MoveTyped DEF Typed, TypeOK
  <2> QED BY <2>1, <2>2 DEF Typed, TypeOK, CutFork, utx, mining
<1> QED BY <1>2, <1>3

LEMMA CutApiTyped == ASSUME Typed, NEW back \in BOOLEAN, CutApi(back) PROVE Typed'
<1> DEFINE to == at[Api].blk
           p == [Idle EXCEPT !.pc = "return",
                             !.dropped = IF back THEN TxsOf(After(to)) ELSE {}]
<1>1. Api \in Thread /\ at[Api] \in Places /\ to \in Block \cup {NoBlock}
  BY DEF Thread, Typed, TypeOK, Places
<1>2. CASE InHistory(to)
  <2>1. chain' = UpTo(to) /\ Move(Api, p)
    BY <1>2 DEF CutApi
  <2>2. chain' \in Seq(Block) /\ chain' # <<>> /\ TxsOf(After(to)) \subseteq Tx
    BY <2>1, <1>1, <1>2, CutType
  <2>3. p \in Places
    BY <2>2, IdleType DEF Places, Stages
  <2>4. Fine(Api, p)
    BY DEF Fine, Idle
  <2> HIDE DEF p
  <2>5. at' \in [Thread -> Places] /\ Held'
    BY <1>1, <2>1, <2>3, <2>4, MoveTyped DEF Typed, TypeOK
  <2> QED BY <2>2, <2>5 DEF Typed, TypeOK, CutApi, utx, mining
<1>3. CASE ~InHistory(to)
  <2>1. Move(Api, Idle) /\ UNCHANGED chain
    BY <1>3 DEF CutApi
  <2>2. at' \in [Thread -> Places] /\ Held'
    BY <1>1, <2>1, IdleType, IdleFine, MoveTyped DEF Typed, TypeOK
  <2> QED BY <2>1, <2>2 DEF Typed, TypeOK, CutApi, utx, mining
<1> QED BY <1>2, <1>3

LEMMA ArriveTyped == ASSUME Typed, Arrive PROVE Typed'
<1>1. Net \in Thread /\ Api \in Thread
  BY DEF Thread
<1>2. CASE Age
  BY <1>2, NodeAssumption DEF Age, Typed, TypeOK, Held, utx, mining
<1>3. ASSUME NEW t \in Tx, Submit(t) PROVE Typed'
  BY <1>3, PutIfNewType DEF Submit, Typed, TypeOK, Held, mining
<1>4. ASSUME NEW b \in Block, ReceiveBlock(b) PROVE Typed'
  <2> DEFINE p == [Idle EXCEPT !.pc = "validate", !.blk = b]
  <2>1. p \in Places /\ Fine(Net, p) /\ Move(Net, p)
    BY <1>4, IdleType, PlaceType DEF ReceiveBlock, Stages, Fine, Idle
  <2> HIDE DEF p
  <2>2. at' \in [Thread -> Places] /\ Held'
    BY <1>1, <2>1, MoveTyped DEF Typed, TypeOK
  <2> QED BY <1>4, <2>2, NodeAssumption DEF ReceiveBlock, Typed, TypeOK, utx, mining
<1>5. ASSUME NEW f \in Seq(Block), ReceiveFork(f) PROVE Typed'
  <2>1. PICK n \in DOMAIN f :
            Move(Net, [Idle EXCEPT !.pc = "cut", !.blk = Reference[f[n]],
                                   !.rest = SubSeq(f, n, Len(f)), !.fork = TRUE])
    BY <1>5 DEF ReceiveFork
  <2> DEFINE p == [Idle EXCEPT !.pc = "cut", !.blk = Reference[f[n]],
                               !.rest = SubSeq(f, n, Len(f)), !.fork = TRUE]
  <2>2. Len(f) \in Nat /\ n \in 1 .. Len(f) /\ \A i \in 1 .. Len(f) : f[i] \in Block
    BY LenProperties, ElementOfSeq
  <2>3. SubSeq(f, n, Len(f)) \in Seq(Block) /\ Len(SubSeq(f, n, Len(f))) = Len(f) - n + 1
    BY <2>2, SubSeqProperties
  <2>4. SubSeq(f, n, Len(f)) # <<>>
    <3>1. Len(SubSeq(f, n, Len(f))) # 0
      BY <2>2, <2>3
    <3>2. Len(<<>>) = 0
      BY EmptySeq
    <3> QED BY <3>1, <3>2
  <2>5. Reference[f[n]] \in Block \cup {NoBlock}
    BY <2>2, NodeAssumption
  <2>6. p \in Places
    BY <2>3, <2>5, IdleType DEF Places, Stages
  <2>7. Fine(Net, p)
    BY <2>4, IdleType DEF Fine, Places
  <2> HIDE DEF p
  <2>8. at' \in [Thread -> Places] /\ Held'
    BY <1>1, <2>1, <2>6, <2>7, MoveTyped DEF Typed, TypeOK, p
  <2>9. /\ jobs' = jobs + 1 /\ jobs < MaxJobs
        /\ UNCHANGED <<chain, horizon, pool, known, built, attempt, live, discarding>>
    BY <1>5 DEF ReceiveFork, utx, mining
  <2>10. jobs' \in 0 .. MaxJobs
    BY <2>9, NodeAssumption DEF Typed, TypeOK
  <2> QED BY <2>8, <2>9, <2>10 DEF Typed, TypeOK
<1>6. ASSUME NEW b \in Block, Rollback(b) PROVE Typed'
  <2> DEFINE p == [Idle EXCEPT !.pc = "cut", !.blk = b]
  <2>1. p \in Places /\ Fine(Api, p) /\ Move(Api, p)
    BY <1>6, IdleType, PlaceType, NodeAssumption DEF Rollback, Stages, Fine, Idle
  <2> HIDE DEF p
  <2>2. at' \in [Thread -> Places] /\ Held'
    BY <1>1, <2>1, MoveTyped DEF Typed, TypeOK
  <2> QED BY <1>6, <2>2, NodeAssumption DEF Rollback, Typed, TypeOK, utx, mining
<1>7. ASSUME NEW j \in Jobs
      PROVE  j.blocks \in Seq(Block) /\ j.blocks[1] \in Block
  <2>1. j.blocks \in Seq(Block \ Own) /\ j.blocks # <<>>
    BY NodeAssumption
  <2>2. Len(j.blocks) \in Nat \ {0} /\ \A i \in 1 .. Len(j.blocks) : j.blocks[i] \in Block
    BY <2>1, EmptySeq, LenProperties, ElementOfSeq
  <2> QED BY <2>1, <2>2, SeqDef
<1> QED BY <1>2, <1>3, <1>4, <1>5, <1>6, <1>7, NodeAssumption DEF Arrive
-----------------------------------------------------------------------------
(* Coordinator.appendBlock and the miner, on any thread. *)

LEMMA ThreadPlace ==
    ASSUME Typed, NEW t \in Thread
    PROVE  /\ at[t] \in Places /\ at \in [Thread -> Places] /\ Held
           /\ at[t].pc \in {"validate", "append", "clean"} => at[t].blk \in Block
           /\ at[t].rest \in Seq(Block) /\ at[t].dropped \subseteq Tx
           /\ at[t].tip \in Block \cup {NoBlock}
           /\ t # Net => at[t].rest = <<>> /\ ~at[t].fork
  BY DEF Typed, TypeOK, Held, Fine, Places

LEMMA ChainTyped == ASSUME Typed PROVE Tip \in Block
  BY TipType DEF Typed, TypeOK

LEMMA MinersAreThreads == \A m \in Miners : m \in Thread /\ m # Net /\ m # Api
  BY NodeAssumption DEF Thread

(* A thread that only moves. *)
LEMMA OnlyMoves ==
    ASSUME Typed, at' \in [Thread -> Places], Held',
           UNCHANGED <<chain, horizon, utx, mining, discarding, jobs>>
    PROVE  Typed'
  BY DEF Typed, TypeOK, utx, mining

LEMMA ValidateTyped == ASSUME Typed, NEW t \in Thread, Validate(t) PROVE Typed'
<1> DEFINE p == [at[t] EXCEPT !.pc = "append", !.tip = Tip]
<1>1. Refused(t) \/ Move(t, Idle) \/ Move(t, p)
  BY DEF Validate
<1>2. p \in Places
  BY ThreadPlace, ChainTyped, PlaceType DEF Stages
<1>3. Fine(t, p)
  BY ThreadPlace DEF Fine, Places, Validate
<1> HIDE DEF p
<1>4. at' \in [Thread -> Places] /\ Held'
  BY <1>1, <1>2, <1>3, ThreadPlace, IdleType, IdleFine, RefusedTyped, MoveTyped
<1> QED BY <1>4, OnlyMoves DEF Validate

LEMMA AppendBlockTyped == ASSUME Typed, NEW t \in Thread, AppendBlock(t) PROVE Typed'
<1> DEFINE p == [at[t] EXCEPT !.pc = "clean", !.tip = NoBlock]
<1>1. \/ chain' = Append(chain, at[t].blk) /\ Move(t, p)
      \/ UNCHANGED chain /\ Refused(t)
  BY DEF AppendBlock
<1>2. p \in Places
  BY ThreadPlace, PlaceType DEF Stages
<1>3. Fine(t, p)
  BY ThreadPlace DEF Fine, Places, AppendBlock
<1>4. at[t].blk \in Block
  BY ThreadPlace DEF AppendBlock
<1> HIDE DEF p
<1>5. at' \in [Thread -> Places] /\ Held'
  BY <1>1, <1>2, <1>3, ThreadPlace, RefusedTyped, MoveTyped
<1>6. chain' \in Seq(Block) /\ chain' # <<>>
  <2>1. chain \in Seq(Block) /\ chain # <<>>
    BY DEF Typed, TypeOK
  <2>2. Append(chain, at[t].blk) \in Seq(Block) /\ Append(chain, at[t].blk) # <<>>
    BY <1>4, <2>1, AppendProperties
  <2> QED BY <1>1, <2>1, <2>2
<1> QED BY <1>5, <1>6 DEF AppendBlock, Typed, TypeOK, utx, mining

LEMMA RemoveAllTyped == ASSUME Typed, NEW t \in Thread, RemoveAll(t) PROVE Typed'
<1> DEFINE p == [at[t] EXCEPT !.pc = "validate", !.blk = Head(at[t].rest), !.rest = Tail(@)]
<1>1. /\ at[t].rest # <<>> => Move(t, p)
      /\ at[t].rest = <<>> => Goto(t, "return") \/ Goto(t, "flag")
  BY DEF RemoveAll
<1>2. ASSUME at[t].rest # <<>> PROVE p \in Places /\ Fine(t, p)
  <2>1. Head(at[t].rest) \in Block /\ Tail(at[t].rest) \in Seq(Block)
    BY <1>2, ThreadPlace, HeadTail
  <2>2. p \in Places
    BY <2>1, ThreadPlace DEF Places, Stages
  <2>3. t = Net
    BY <1>2, ThreadPlace
  <2> QED BY <2>1, <2>2, <2>3, ThreadPlace DEF Fine, Places
<1> HIDE DEF p
<1>3. at' \in [Thread -> Places] /\ Held'
  BY <1>1, <1>2, ThreadPlace, MoveTyped, GotoTyped DEF Stages
<1>4. pool' \subseteq Tx /\ known' \in [Tx -> {"unknown", "good", "bad"}]
  BY DEF RemoveAll, Typed, TypeOK
<1> QED BY <1>3, <1>4 DEF RemoveAll, Typed, TypeOK, mining

LEMMA PutBackTyped == ASSUME Typed, NEW t \in Thread, PutBack(t) PROVE Typed'
<1>1. PICK x \in at[t].dropped :
          PutIfNew(x) /\ Move(t, [at[t] EXCEPT !.dropped = @ \ {x}])
  BY DEF PutBack
<1> DEFINE p == [at[t] EXCEPT !.dropped = @ \ {x}]
<1>2. p \in Places
  BY ThreadPlace DEF Places
<1>3. Fine(t, p)
  BY ThreadPlace DEF Fine, Places, PutBack
<1>4. Move(t, p)
  BY <1>1
<1> HIDE DEF p
<1>5. at' \in [Thread -> Places] /\ Held'
  BY <1>2, <1>3, <1>4, ThreadPlace, MoveTyped
<1>6. x \in Tx
  BY ThreadPlace
<1>7. pool' \subseteq Tx /\ known' \in [Tx -> {"unknown", "good", "bad"}]
  BY <1>1, <1>6, PutIfNewType DEF Typed, TypeOK
<1> QED BY <1>5, <1>7 DEF PutBack, Typed, TypeOK, mining

LEMMA UpdateReadinessTyped == ASSUME Typed, NEW t \in Thread, UpdateReadiness(t) PROVE Typed'
<1>1. at' \in [Thread -> Places] /\ Held'
  BY ThreadPlace, IdleType, IdleFine, MoveTyped, GotoTyped DEF UpdateReadiness, Stages
<1>2. discarding' \in BOOLEAN
  BY DEF UpdateReadiness, Old
<1> QED BY <1>1, <1>2 DEF UpdateReadiness, Typed, TypeOK, utx, mining

LEMMA ReadTipTyped == ASSUME Typed, NEW t \in Thread, ReadTip(t) PROVE Typed'
<1> DEFINE seen == IF Minable(Tip) THEN Tip ELSE NoBlock
           p == [at[t] EXCEPT !.pc = "arm", !.tip = seen]
<1>1. Move(t, Idle) \/ Move(t, p)
  BY DEF ReadTip
<1>2. seen \in Block \cup {NoBlock}
  BY ChainTyped
<1>3. p \in Places
  BY <1>2, ThreadPlace DEF Places, Stages
<1>4. Fine(t, p)
  BY ThreadPlace DEF Fine, Places
<1> HIDE DEF p
<1>5. at' \in [Thread -> Places] /\ Held'
  BY <1>1, <1>3, <1>4, ThreadPlace, IdleType, IdleFine, MoveTyped
<1> QED BY <1>5, OnlyMoves DEF ReadTip

LEMMA ArmTyped == ASSUME Typed, NEW t \in Thread, Arm(t) PROVE Typed'
<1>1. at' \in [Thread -> Places] /\ Held'
  BY ThreadPlace, IdleType, IdleFine, MoveTyped, GotoTyped DEF Arm, Stages
<1>2. attempt' \in Block \cup {NoBlock} /\ live' \subseteq Miners
  BY ThreadPlace DEF Arm
<1> QED BY <1>1, <1>2 DEF Arm, Typed, TypeOK, utx

LEMMA StepTyped == ASSUME Typed, NEW t \in Thread, Step(t) PROVE Typed'
<1>1. ASSUME AllBack(t) PROVE Typed'
  <2>1. at' \in [Thread -> Places] /\ Held'
    BY <1>1, ThreadPlace, GotoTyped DEF AllBack, Stages
  <2> QED BY <1>1, <2>1, OnlyMoves DEF AllBack
<1> QED BY <1>1, ValidateTyped, AppendBlockTyped, RemoveAllTyped, PutBackTyped,
           UpdateReadinessTyped, ReadTipTyped, ArmTyped DEF Step

LEMMA FireTyped == ASSUME Typed, NEW m \in Miners, Fire(m) PROVE Typed'
<1> DEFINE p == [Idle EXCEPT !.pc = "build", !.tip = attempt]
<1>1. p \in Places /\ Fine(m, p) /\ Move(m, p)
  BY IdleType, PlaceType DEF Fire, Fine, Idle, Stages, Typed, TypeOK
<1> HIDE DEF p
<1>2. at' \in [Thread -> Places] /\ Held'
  BY <1>1, MinersAreThreads, MoveTyped DEF Typed, TypeOK
<1> QED BY <1>2 DEF Fire, Typed, TypeOK, utx

LEMMA BuildTyped == ASSUME Typed, NEW m \in Miners, Build(m) PROVE Typed'
<1>1. PICK b \in Own \ DOMAIN built, packed \in Packings :
          /\ built' = [x \in DOMAIN built \cup {b} |-> IF x = b THEN packed ELSE built[x]]
          /\ pool' = packed
          /\ Move(m, [Idle EXCEPT !.pc = "validate", !.blk = b])
  BY DEF Build
<1> DEFINE p == [Idle EXCEPT !.pc = "validate", !.blk = b]
<1>2. b \in Block /\ packed \subseteq Tx
  BY NodeAssumption DEF Packings, Typed, TypeOK
<1>3. p \in Places /\ Fine(m, p) /\ Move(m, p)
  BY <1>1, <1>2, IdleType, PlaceType DEF Fine, Idle, Stages
<1> HIDE DEF p
<1>4. at' \in [Thread -> Places] /\ Held'
  BY <1>3, MinersAreThreads, MoveTyped DEF Typed, TypeOK
<1>5. DOMAIN built' \subseteq Own /\ \A x \in DOMAIN built' : built'[x] \subseteq Tx
  BY <1>1, <1>2 DEF Typed, TypeOK
<1> QED BY <1>1, <1>2, <1>4, <1>5 DEF Build, Typed, TypeOK

LEMMA MineTyped == ASSUME Typed, NEW m \in Miners, Mine(m) PROVE Typed'
<1>1. m \in Thread /\ at \in [Thread -> Places] /\ Held
  BY MinersAreThreads, ThreadPlace
<1>2. ASSUME NoBuild(m) PROVE Typed'
  <2>1. at' \in [Thread -> Places] /\ Held'
    BY <1>1, <1>2, GotoTyped DEF NoBuild, Stages
  <2> QED BY <1>2, <2>1, OnlyMoves DEF NoBuild
<1>3. ASSUME BuildThrows(m) PROVE Typed'
  <2>1. at' \in [Thread -> Places] /\ Held'
    BY <1>1, <1>3, IdleType, IdleFine, MoveTyped DEF BuildThrows
  <2> QED BY <1>3, <2>1, OnlyMoves DEF BuildThrows
<1>4. ASSUME Retry(m) PROVE Typed'
  <2>1. at' \in [Thread -> Places] /\ Held'
    BY <1>1, <1>4, IdleType, IdleFine, MoveTyped DEF Retry
  <2>2. attempt' \in Block \cup {NoBlock} /\ live' \subseteq Miners
    BY <1>4, ChainTyped DEF Retry, Typed, TypeOK
  <2> QED BY <1>4, <2>1, <2>2 DEF Retry, Typed, TypeOK, utx
<1> QED BY <1>1, <1>2, <1>3, <1>4, BuildTyped, StepTyped DEF Mine

LEMMA TypedNext == Typed /\ [Next]_vars => Typed'
<1> SUFFICES ASSUME Typed, [Next]_vars PROVE Typed'
  OBVIOUS
<1>1. Net \in Thread /\ Api \in Thread
  BY DEF Thread
<1>2. CASE Arrive
  BY <1>2, ArriveTyped
<1>3. CASE Coordinate
  BY <1>1, <1>3, CutForkTyped, StepTyped DEF Coordinate
<1>4. CASE Serve
  BY <1>1, <1>4, CutApiTyped, StepTyped DEF Serve
<1>5. CASE \E m \in Miners : Mine(m) \/ Fire(m)
  BY <1>5, MineTyped, FireTyped
<1>6. CASE UNCHANGED vars
  BY <1>6, OnlyMoves DEF vars, utx, mining, Typed, TypeOK, Held
<1> QED BY <1>2, <1>3, <1>4, <1>5, <1>6 DEF Next, Rest

LEMMA TypedAlways == Spec => []Typed
  BY TypedInit, TypedNext, PTL DEF Spec

(* The state keeps its types: in particular no rollback and no failed fork *)
(* leaves an empty chain, and the block a thread appends is a block.       *)
THEOREM TypeCorrect == Spec => []TypeOK
<1>1. Typed => TypeOK
  BY DEF Typed
<1> QED BY <1>1, TypedAlways, PTL
-----------------------------------------------------------------------------
(* The miner never stops, unless a block is too old or a slot is empty. *)

NeverStops ==
    /\ MaxHorizon = 0
    /\ \A b \in Block : Slot[b] # "empty"
    /\ \A b, c \in Block : Verdict[<<b, c>>] # "throws"

(* A thread from which the next attempt will come. *)
Busy(t) == Arming(t) \/ (t \in Miners /\ Working(t))

ArmsABlock == \A t \in Thread : at[t].pc = "arm" => at[t].tip \in Block

Armed == Typed /\ MinerArmed /\ ArmsABlock

LEMMA Moved ==
    ASSUME Typed, NEW t \in Thread, NEW p, Move(t, p)
    PROVE  at'[t] = p /\ \A u \in Thread \ {t} : at'[u] = at[u]
  BY DEF Typed, TypeOK, Move

LEMMA MovedOn ==
    ASSUME Typed, NEW t \in Thread, NEW stage, Goto(t, stage)
    PROVE  /\ at'[t].pc = stage /\ at'[t].fork = at[t].fork
           /\ \A u \in Thread \ {t} : at'[u] = at[u]
<1> DEFINE p == [at[t] EXCEPT !.pc = stage, !.blk = NoBlock, !.tip = NoBlock]
<1>1. Move(t, p)
  BY DEF Goto
<1>2. p.pc = stage /\ p.fork = at[t].fork
  BY ThreadPlace DEF Places
<1> HIDE DEF p
<1> QED BY <1>1, <1>2, Moved

(* Until time goes on no block is too old. *)
LEMMA NothingOld ==
    ASSUME NeverStops, Typed
    PROVE  \A b \in Block : ~Old(b) /\ Minable(b) /\ Slot[b] # "empty" /\ b # NoBlock
<1>1. horizon = 0
  BY DEF NeverStops, Typed, TypeOK
<1>2. \A b \in Block : Timestamp[b] \in Nat /\ b # NoBlock
  BY NodeAssumption
<1> QED BY <1>1, <1>2 DEF Old, Minable, NeverStops

(* A step of one thread that neither takes the attempt away nor cancels a  *)
(* task: enough that this thread stays busy if it was.                     *)
LEMMA StaysArmed ==
    ASSUME Armed, NEW t \in Thread,
           \A u \in Thread \ {t} : at'[u] = at[u],
           live' = live, attempt' = attempt,
           Busy(t) => Busy(t)',
           at'[t].pc = "arm" => at'[t].tip \in Block
    PROVE  MinerArmed' /\ ArmsABlock'
<1>1. ArmsABlock'
  BY DEF Armed, ArmsABlock
<1>2. CASE attempt # NoBlock
  BY <1>1, <1>2 DEF MinerArmed
<1>3. CASE attempt = NoBlock
  <2>1. PICK u \in Thread : Busy(u)
    BY <1>3, MinersAreThreads DEF Armed, MinerArmed, Busy
  <2>2. Busy(u)'
    BY <2>1 DEF Busy, Arming, Working
  <2> QED BY <1>1, <2>2 DEF Busy, MinerArmed
<1> QED BY <1>2, <1>3

(* A thread that was doing something else. *)
LEMMA OtherWork ==
    ASSUME Armed, NEW t \in Thread, NEW p, Move(t, p), p.pc # "arm",
           at[t].pc \in {"idle", "cut", "return"}, live' = live, attempt' = attempt
    PROVE  MinerArmed' /\ ArmsABlock'
<1>1. at'[t] = p /\ \A u \in Thread \ {t} : at'[u] = at[u]
  BY Moved DEF Armed
<1>2. ~Busy(t)
  BY DEF Busy, Arming, Working
<1> QED BY <1>1, <1>2, StaysArmed

LEMMA RefusedArmed ==
    ASSUME Armed, NEW t \in Thread, Refused(t), at[t].pc \in {"validate", "append"},
           live' = live, attempt' = attempt
    PROVE  MinerArmed' /\ ArmsABlock'
<1>1. CASE t \in Miners
  <2>1. Move(t, [Idle EXCEPT !.pc = "flag"])
    BY <1>1 DEF Refused
  <2>2. at'[t] = [Idle EXCEPT !.pc = "flag"] /\ \A u \in Thread \ {t} : at'[u] = at[u]
    BY <2>1, Moved DEF Armed
  <2>3. at'[t].pc = "flag" /\ ~at'[t].fork
    BY <2>2 DEF Idle
  <2> QED BY <2>2, <2>3, StaysArmed DEF Busy, Arming
<1>2. CASE t \notin Miners
  <2>1. ~Busy(t)
    BY <1>2 DEF Busy, Arming
  <2>2. at'[t] = Idle /\ \A u \in Thread \ {t} : at'[u] = at[u]
    BY <1>2, Moved DEF Refused, Armed
  <2> QED BY <2>1, <2>2, StaysArmed DEF Idle
<1> QED BY <1>1, <1>2
LEMMA ArmedInit == Init => Armed
<1> SUFFICES ASSUME Init PROVE Armed
  OBVIOUS
<1>1. \A t \in Thread : at[t].pc = IF t = Api THEN "read" ELSE "idle"
  BY DEF Init, Idle
<1>2. Api \in Thread
  BY DEF Thread
<1> QED BY <1>1, <1>2, TypedInit DEF Armed, MinerArmed, Arming, ArmsABlock

LEMMA ArriveArmed ==
    ASSUME NeverStops, Armed, Arrive
    PROVE  MinerArmed' /\ ArmsABlock'
<1>1. Net \in Thread /\ Api \in Thread
  BY DEF Thread
<1>2. CASE Age
  BY <1>2 DEF Age, NeverStops, Armed, Typed, TypeOK
<1>3. ASSUME NEW t \in Tx, Submit(t) PROVE MinerArmed' /\ ArmsABlock'
  BY <1>3 DEF Submit, mining, Armed, MinerArmed, ArmsABlock, Working, Arming
<1>4. ASSUME NEW b, ReceiveBlock(b) PROVE MinerArmed' /\ ArmsABlock'
  <2> DEFINE p == [Idle EXCEPT !.pc = "validate", !.blk = b]
  <2>1. Move(Net, p) /\ p.pc # "arm" /\ at[Net].pc = "idle" /\ UNCHANGED <<live, attempt>>
    BY <1>4 DEF ReceiveBlock, Idle, mining
  <2> HIDE DEF p
  <2> QED BY <1>1, <2>1, OtherWork
<1>5. ASSUME NEW f, ReceiveFork(f) PROVE MinerArmed' /\ ArmsABlock'
  <2>1. PICK n \in DOMAIN f :
            Move(Net, [Idle EXCEPT !.pc = "cut", !.blk = Reference[f[n]],
                                   !.rest = SubSeq(f, n, Len(f)), !.fork = TRUE])
    BY <1>5 DEF ReceiveFork
  <2> DEFINE p == [Idle EXCEPT !.pc = "cut", !.blk = Reference[f[n]],
                               !.rest = SubSeq(f, n, Len(f)), !.fork = TRUE]
  <2>2. p.pc # "arm" /\ at[Net].pc = "idle" /\ UNCHANGED <<live, attempt>>
    BY <1>5 DEF ReceiveFork, Idle, mining
  <2>3. Move(Net, p)
    BY <2>1
  <2> HIDE DEF p
  <2> QED BY <1>1, <2>2, <2>3, OtherWork
<1>6. ASSUME NEW b, Rollback(b) PROVE MinerArmed' /\ ArmsABlock'
  <2> DEFINE p == [Idle EXCEPT !.pc = "cut", !.blk = b]
  <2>1. Move(Api, p) /\ p.pc # "arm" /\ at[Api].pc = "idle" /\ UNCHANGED <<live, attempt>>
    BY <1>6 DEF Rollback, Idle, mining
  <2> HIDE DEF p
  <2> QED BY <1>1, <2>1, OtherWork
<1> QED BY <1>2, <1>3, <1>4, <1>5, <1>6 DEF Arrive

LEMMA CutForkArmed == ASSUME Armed, CutFork PROVE MinerArmed' /\ ArmsABlock'
<1> DEFINE p == [at[Net] EXCEPT !.pc = "validate", !.dropped = TxsOf(After(at[Net].blk)),
                                !.blk = Head(at[Net].rest), !.rest = Tail(@)]
<1>1. Net \in Thread
  BY DEF Thread
<1>2. Move(Net, p) \/ Move(Net, Idle)
  BY DEF CutFork
<1>3. p.pc = "validate" /\ Idle.pc = "idle"
  BY <1>1, ThreadPlace DEF Armed, Places, Idle
<1>4. at[Net].pc = "cut" /\ UNCHANGED <<live, attempt>>
  BY DEF CutFork, mining
<1> HIDE DEF p
<1> QED BY <1>1, <1>2, <1>3, <1>4, OtherWork

LEMMA CutApiArmed == ASSUME Armed, NEW back, CutApi(back) PROVE MinerArmed' /\ ArmsABlock'
<1> DEFINE p == [Idle EXCEPT !.pc = "return",
                             !.dropped = IF back THEN TxsOf(After(at[Api].blk)) ELSE {}]
<1>1. Api \in Thread
  BY DEF Thread
<1>2. Move(Api, p) \/ Move(Api, Idle)
  BY DEF CutApi
<1>3. p.pc = "return" /\ Idle.pc = "idle"
  BY DEF Idle
<1>4. at[Api].pc = "cut" /\ UNCHANGED <<live, attempt>>
  BY DEF CutApi, mining
<1> HIDE DEF p
<1> QED BY <1>1, <1>2, <1>3, <1>4, OtherWork

(* Every outcome of appending a block leads its miner back to the miner. *)
LEMMA AppendingArmed ==
    ASSUME NeverStops, Armed, NEW t \in Thread,
           Validate(t) \/ AppendBlock(t) \/ RemoveAll(t)
    PROVE  MinerArmed' /\ ArmsABlock'
<1>1. UNCHANGED <<live, attempt>>
  BY DEF Validate, AppendBlock, RemoveAll, mining
<1>2. t \in Miners => at[t].rest = <<>> /\ ~at[t].fork
  BY ThreadPlace, MinersAreThreads DEF Armed
<1>3. at[t].pc \in {"validate", "append", "clean"}
  BY DEF Validate, AppendBlock, RemoveAll
<1>4. Busy(t) => t \in Miners
  BY <1>3 DEF Busy, Arming
<1>5. ASSUME NEW p, Move(t, p), p.pc \in {"validate", "append", "clean"}
      PROVE  MinerArmed' /\ ArmsABlock'
  <2>1. at'[t] = p /\ \A u \in Thread \ {t} : at'[u] = at[u]
    BY <1>5, Moved DEF Armed
  <2>2. Busy(t) => Busy(t)'
    BY <1>4, <1>5, <2>1 DEF Busy, Working
  <2> QED BY <1>1, <1>5, <2>1, <2>2, StaysArmed
<1>6. CASE Validate(t)
  <2> DEFINE p == [at[t] EXCEPT !.pc = "append", !.tip = Tip]
  <2>1. at[t].blk \in Block /\ Tip \in Block
    BY <1>6, ThreadPlace, ChainTyped DEF Armed, Validate
  <2>2. Refused(t) \/ Move(t, p)
    BY <1>6, <2>1 DEF Validate, NeverStops
  <2>3. p.pc = "append"
    BY ThreadPlace DEF Armed, Places
  <2> HIDE DEF p
  <2> QED BY <1>1, <1>3, <1>5, <1>6, <2>2, <2>3, RefusedArmed DEF Validate
<1>7. CASE AppendBlock(t)
  <2> DEFINE p == [at[t] EXCEPT !.pc = "clean", !.tip = NoBlock]
  <2>1. Refused(t) \/ Move(t, p)
    BY <1>7 DEF AppendBlock
  <2>2. p.pc = "clean"
    BY ThreadPlace DEF Armed, Places
  <2> HIDE DEF p
  <2> QED BY <1>1, <1>5, <1>7, <2>1, <2>2, RefusedArmed DEF AppendBlock
<1>8. CASE RemoveAll(t)
  <2> DEFINE p == [at[t] EXCEPT !.pc = "validate", !.blk = Head(at[t].rest), !.rest = Tail(@)]
  <2>1. /\ at[t].rest # <<>> => Move(t, p)
        /\ at[t].rest = <<>> => Goto(t, IF at[t].fork THEN "return" ELSE "flag")
    BY <1>8 DEF RemoveAll
  <2>2. p.pc = "validate"
    BY ThreadPlace DEF Armed, Places
  <2> HIDE DEF p
  <2>3. CASE at[t].rest = <<>>
    <3> DEFINE stage == IF at[t].fork THEN "return" ELSE "flag"
    <3>1. /\ at'[t].pc = stage /\ at'[t].fork = at[t].fork
          /\ \A u \in Thread \ {t} : at'[u] = at[u]
      BY <2>1, <2>3, MovedOn DEF Armed
    <3>2. Busy(t) => Busy(t)'
      BY <1>2, <1>4, <3>1 DEF Busy, Arming
    <3> QED BY <1>1, <3>1, <3>2, StaysArmed
  <2> QED BY <1>5, <2>1, <2>2, <2>3
<1> QED BY <1>6, <1>7, <1>8

LEMMA StepArmed ==
    ASSUME NeverStops, Armed, NEW t \in Thread, Step(t)
    PROVE  MinerArmed' /\ ArmsABlock'
<1>1. CASE PutBack(t)
  <2>1. PICK x \in at[t].dropped : Move(t, [at[t] EXCEPT !.dropped = @ \ {x}])
    BY <1>1 DEF PutBack
  <2> DEFINE p == [at[t] EXCEPT !.dropped = @ \ {x}]
  <2>2. Move(t, p) /\ p.pc = "return"
    BY <1>1, <2>1, ThreadPlace DEF PutBack, Armed, Places
  <2> HIDE DEF p
  <2> QED BY <1>1, <2>2, OtherWork DEF PutBack, mining
<1>2. CASE AllBack(t)
  <2>1. at'[t].pc \in {"read", "idle"} /\ \A u \in Thread \ {t} : at'[u] = at[u]
    BY <1>2, MovedOn DEF AllBack, Armed
  <2>2. ~Busy(t)
    BY <1>2 DEF AllBack, Busy, Arming, Working
  <2> QED BY <1>2, <2>1, <2>2, StaysArmed DEF AllBack, mining
<1>3. CASE UpdateReadiness(t)
  <2>1. CASE at[t].fork
    <3>1. Move(t, Idle) /\ ~Busy(t)
      BY <1>3, <2>1 DEF UpdateReadiness, Busy, Arming, Working
    <3>2. at'[t] = Idle /\ \A u \in Thread \ {t} : at'[u] = at[u]
      BY <3>1, Moved DEF Armed
    <3> QED BY <1>3, <3>1, <3>2, StaysArmed DEF UpdateReadiness, mining, Idle
  <2>2. CASE ~at[t].fork
    <3>1. at'[t].pc = "read" /\ \A u \in Thread \ {t} : at'[u] = at[u]
      BY <1>3, <2>2, MovedOn DEF UpdateReadiness, Armed
    <3> QED BY <1>3, <3>1, StaysArmed DEF UpdateReadiness, mining, Busy, Arming
  <2> QED BY <2>1, <2>2
<1>4. CASE ReadTip(t)
  <2>1. Tip \in Block /\ Minable(Tip) /\ Slot[Tip] # "empty"
    BY ChainTyped, NothingOld DEF Armed
  <2> DEFINE p == [at[t] EXCEPT !.pc = "arm", !.tip = Tip]
  <2>2. Move(t, p)
    BY <1>4, <2>1 DEF ReadTip
  <2>3. p.pc = "arm" /\ p.tip \in Block
    BY <2>1, ThreadPlace DEF Armed, Places
  <2> HIDE DEF p
  <2>4. at'[t] = p /\ \A u \in Thread \ {t} : at'[u] = at[u]
    BY <2>2, Moved DEF Armed
  <2> QED BY <1>4, <2>3, <2>4, StaysArmed DEF ReadTip, mining, Busy, Arming
<1>5. CASE Arm(t)
  <2>1. attempt' \in Block /\ attempt' # NoBlock
    BY <1>5, NothingOld DEF Arm, Armed, ArmsABlock
  <2>2. at'[t].pc # "arm" /\ \A u \in Thread \ {t} : at'[u] = at[u]
    BY <1>5, Moved, MovedOn DEF Arm, Armed, Idle
  <2> QED BY <2>1, <2>2 DEF MinerArmed, ArmsABlock, Armed
<1> QED BY <1>1, <1>2, <1>3, <1>4, <1>5, AppendingArmed DEF Step

LEMMA FireArmed == ASSUME Armed, NEW m \in Miners, Fire(m) PROVE MinerArmed' /\ ArmsABlock'
<1> DEFINE p == [Idle EXCEPT !.pc = "build", !.tip = attempt]
<1>1. Move(m, p) /\ p.pc = "build" /\ m \in live'
  BY DEF Fire, Idle
<1> HIDE DEF p
<1>2. at'[m] = p /\ \A u \in Thread \ {m} : at'[u] = at[u]
  BY <1>1, MinersAreThreads, Moved DEF Armed
<1>3. Working(m)'
  BY <1>1, <1>2 DEF Working
<1> QED BY <1>1, <1>2, <1>3 DEF MinerArmed, ArmsABlock, Armed

LEMMA MineArmed ==
    ASSUME NeverStops, Armed, NEW m \in Miners, Mine(m)
    PROVE  MinerArmed' /\ ArmsABlock'
<1>1. m \in Thread /\ Tip \in Block /\ Minable(Tip) /\ Slot[Tip] # "empty" /\ Tip # NoBlock
  BY MinersAreThreads, ChainTyped, NothingOld DEF Armed
<1>2. CASE Build(m)
  <2>1. PICK b \in Own : Move(m, [Idle EXCEPT !.pc = "validate", !.blk = b])
    BY <1>2 DEF Build
  <2> DEFINE p == [Idle EXCEPT !.pc = "validate", !.blk = b]
  <2>2. Move(m, p) /\ p.pc = "validate"
    BY <2>1 DEF Idle
  <2> HIDE DEF p
  <2>3. at'[m] = p /\ \A u \in Thread \ {m} : at'[u] = at[u]
    BY <1>1, <2>2, Moved DEF Armed
  <2> QED BY <1>1, <1>2, <2>2, <2>3, StaysArmed DEF Build, Busy, Working
<1>3. CASE NoBuild(m)
  <2>1. at'[m].pc = "retry" /\ \A u \in Thread \ {m} : at'[u] = at[u]
    BY <1>1, <1>3, MovedOn DEF NoBuild, Armed
  <2>2. Busy(m) => Busy(m)'
    BY <1>3, <2>1 DEF NoBuild, Busy, Arming, Working, mining
  <2> QED BY <1>1, <1>3, <2>1, <2>2, StaysArmed DEF NoBuild, mining
<1>4. CASE BuildThrows(m)
  BY <1>1, <1>4 DEF BuildThrows
<1>5. CASE Retry(m)
  <2>1. at'[m] = Idle /\ \A u \in Thread \ {m} : at'[u] = at[u]
    BY <1>1, <1>5, Moved DEF Retry, Armed
  <2>2. CASE m \in live
    BY <1>1, <1>5, <2>1, <2>2 DEF Retry, MinerArmed, ArmsABlock, Armed, Idle
  <2>3. CASE m \notin live
    <3>1. live' = live /\ attempt' = attempt /\ ~Busy(m)
      BY <1>5, <2>3 DEF Retry, Busy, Arming, Working
    <3> QED BY <1>1, <2>1, <3>1, StaysArmed DEF Idle
  <2> QED BY <2>2, <2>3
<1> QED BY <1>1, <1>2, <1>3, <1>4, <1>5, StepArmed DEF Mine

LEMMA ArmedNext == NeverStops /\ Armed /\ [Next]_vars => Armed'
<1> SUFFICES ASSUME NeverStops, Armed, [Next]_vars PROVE Armed'
  OBVIOUS
<1>1. Typed'
  BY TypedNext DEF Armed
<1>2. Net \in Thread /\ Api \in Thread
  BY DEF Thread
<1>3. CASE Arrive
  BY <1>1, <1>3, ArriveArmed DEF Armed
<1>4. CASE Coordinate
  BY <1>1, <1>2, <1>4, CutForkArmed, StepArmed DEF Coordinate, Armed
<1>5. CASE Serve
  BY <1>1, <1>2, <1>5, CutApiArmed, StepArmed DEF Serve, Armed
<1>6. CASE \E m \in Miners : Mine(m) \/ Fire(m)
  BY <1>1, <1>6, MineArmed, FireArmed DEF Armed
<1>7. CASE UNCHANGED vars
  BY <1>1, <1>7 DEF vars, mining, Armed, MinerArmed, ArmsABlock, Working, Arming
<1> QED BY <1>3, <1>4, <1>5, <1>6, <1>7 DEF Next, Rest

(* The loop of the miner cannot be broken by any order of blocks, forks,   *)
(* rollbacks, refusals and cancelled tasks: while no block is too old to   *)
(* mine on, and no slot of the account is empty, an attempt is waiting or  *)
(* a thread is on its way to schedule one.                                 *)
THEOREM MinerArmedAlways == ASSUME NeverStops PROVE Spec => []MinerArmed
<1>1. Armed /\ [Next]_vars => Armed'
  BY ArmedNext
<1>2. Armed => MinerArmed
  BY DEF Armed
<1> QED BY <1>1, <1>2, ArmedInit, PTL DEF Spec
-----------------------------------------------------------------------------
(* The pool and the chain. *)

(* Blocks whose transactions are settled: those of peers, and own blocks that *)
(* were built.  Only such blocks are on the chain or on their way to it.      *)
Settled == (Block \ Own) \cup DOMAIN built
SettledAt(p) ==
    /\ p.pc \in {"validate", "append", "clean"} => p.blk \in Settled
    /\ p.rest \in Seq(Settled)
OnlySettled == chain \in Seq(Settled) /\ \A t \in Thread : SettledAt(at[t])

Accounted == Typed /\ OnlySettled /\ PoolAheadOfChain

LEMMA SeqGrows == ASSUME NEW S, NEW T, S \subseteq T PROVE Seq(S) \subseteq Seq(T)
<1> SUFFICES ASSUME NEW s \in Seq(S) PROVE s \in Seq(T)
  OBVIOUS
<1>1. Len(s) \in Nat /\ s \in [1 .. Len(s) -> S]
  BY LenProperties
<1>2. s \in [1 .. Len(s) -> T]
  BY <1>1
<1> QED BY <1>1, <1>2, SeqDef

LEMMA SettledBlocks == ASSUME Typed PROVE Settled \subseteq Block
  BY NodeAssumption DEF Settled, Typed, TypeOK

LEMMA IdleSettled == Idle.rest \in Seq(Settled) /\ SettledAt(Idle)
  BY EmptySeq DEF Idle, SettledAt

LEMMA AccountedPlace ==
    ASSUME Accounted, NEW t \in Thread
    PROVE  /\ SettledAt(at[t]) /\ at[t].rest \in Seq(Settled)
           /\ at[t].pc \in {"validate", "append", "clean"} => at[t].blk \in Settled
  BY DEF Accounted, OnlySettled, SettledAt

(* Membership in the transactions of the chain. *)
LEMMA OnChainMember ==
    \A x : x \in OnChain <=> \E i \in DOMAIN chain : x \in Txs(chain[i])
  BY DEF OnChain, TxsOf

(* A step of one thread that builds nothing: what is now in both the pool and  *)
(* the chain was so before and is not what this thread was about to remove, or *)
(* this thread is about to remove it now.                                      *)
LEMMA AccountStep ==
    ASSUME Accounted, NEW t \in Thread,
           \A u \in Thread \ {t} : at'[u] = at[u],
           built' = built, chain' \in Seq(Settled), SettledAt(at'[t]),
           \A x \in pool' \cap OnChain' :
              \/ x \in pool \cap OnChain /\ ~(at[t].pc = "clean" /\ x \in Txs(at[t].blk))
              \/ at'[t].pc = "clean" /\ x \in Txs(at'[t].blk)
    PROVE  OnlySettled' /\ PoolAheadOfChain'
<1>1. Settled' = Settled
  BY DEF Settled
<1>2. \A u \in Thread : SettledAt(at'[u])
  BY AccountedPlace
<1>3. OnlySettled'
  BY <1>1, <1>2 DEF OnlySettled, SettledAt
<1>4. ASSUME NEW x \in pool' \cap OnChain'
      PROVE  \E u \in Thread : at'[u].pc = "clean" /\ x \in Txs(at'[u].blk)
  <2>1. CASE x \in pool \cap OnChain /\ ~(at[t].pc = "clean" /\ x \in Txs(at[t].blk))
    <3>1. PICK u \in Thread : at[u].pc = "clean" /\ x \in Txs(at[u].blk)
      BY <2>1 DEF Accounted, PoolAheadOfChain
    <3>2. at'[u] = at[u]
      BY <2>1, <3>1
    <3> QED BY <3>1, <3>2
  <2>2. CASE at'[t].pc = "clean" /\ x \in Txs(at'[t].blk)
    BY <2>2
  <2> QED BY <1>4, <2>1, <2>2
<1>5. PoolAheadOfChain'
  BY <1>4 DEF PoolAheadOfChain, Txs
<1> QED BY <1>3, <1>5

(* A step that leaves the pool and the chain alone, by a thread that does not  *)
(* clean.                                                                      *)
LEMMA AccountMove ==
    ASSUME Accounted, NEW t \in Thread, at[t].pc # "clean",
           \A u \in Thread \ {t} : at'[u] = at[u],
           built' = built, chain' = chain, pool' = pool, SettledAt(at'[t])
    PROVE  OnlySettled' /\ PoolAheadOfChain'
<1>1. chain' \in Seq(Settled)
  BY DEF Accounted, OnlySettled
<1>2. OnChain' = OnChain
  BY DEF OnChain, TxsOf, Txs
<1> QED BY <1>1, <1>2, AccountStep
LEMMA AccountedInit == Init => Accounted
<1> SUFFICES ASSUME Init PROVE Accounted
  OBVIOUS
<1>1. Genesis \in Settled
  BY NodeAssumption DEF Settled
<1>2. chain \in Seq(Settled)
  BY <1>1 DEF Init
<1>3. \A t \in Thread : at[t] = Idle \/ at[t] = [Idle EXCEPT !.pc = "read"]
  BY DEF Init
<1>4. SettledAt([Idle EXCEPT !.pc = "read"])
  BY IdleSettled DEF SettledAt, Idle
<1>5. \A t \in Thread : SettledAt(at[t])
  BY <1>3, <1>4, IdleSettled
<1>6. pool = {}
  BY DEF Init
<1> QED BY <1>2, <1>5, <1>6, TypedInit DEF Accounted, OnlySettled, PoolAheadOfChain

LEMMA PeersJobs ==
    ASSUME NEW j \in Jobs
    PROVE  j.blocks \in Seq(Settled) /\ j.blocks[1] \in Settled
<1>1. j.blocks \in Seq(Block \ Own) /\ j.blocks # <<>>
  BY NodeAssumption
<1>2. j.blocks \in Seq(Settled)
  BY <1>1, SeqGrows DEF Settled
<1>3. Len(j.blocks) \in Nat \ {0}
  BY <1>1, EmptySeq
<1>4. j.blocks[1] \in Settled
  BY <1>2, <1>3, ElementOfSeq
<1> QED BY <1>2, <1>4

LEMMA PutIfNewPool ==
    ASSUME NEW t, PutIfNew(t)
    PROVE  pool' = pool \/ (pool' = pool \cup {t} /\ t \notin OnChain)
  BY DEF PutIfNew, utx, Acceptable

LEMMA SameChain == ASSUME chain' = chain, built' = built PROVE OnChain' = OnChain
  BY DEF OnChain, TxsOf, Txs

LEMMA ArriveAccounted ==
    ASSUME Accounted, Arrive
    PROVE  OnlySettled' /\ PoolAheadOfChain'
<1>1. /\ Net \in Thread /\ Api \in Thread
      /\ SettledAt(at[Net]) /\ SettledAt(at[Api]) /\ chain \in Seq(Settled)
  BY AccountedPlace DEF Thread, Accounted, OnlySettled
<1>2. CASE Age
  BY <1>2 DEF Age, utx, mining, Accounted, OnlySettled, PoolAheadOfChain, Settled,
              SettledAt, OnChain, TxsOf, Txs
<1>3. ASSUME NEW t \in Tx, Submit(t) PROVE OnlySettled' /\ PoolAheadOfChain'
  <2>1. UNCHANGED <<chain, built, at>> /\ PutIfNew(t)
    BY <1>3 DEF Submit, mining
  <2>2. OnChain' = OnChain /\ Settled' = Settled
    BY <2>1, SameChain DEF Settled
  <2>3. OnlySettled'
    BY <2>1, <2>2 DEF Accounted, OnlySettled, SettledAt
  <2>4. pool' \cap OnChain' \subseteq pool \cap OnChain
    BY <2>1, <2>2, PutIfNewPool
  <2> QED BY <2>1, <2>3, <2>4 DEF Accounted, PoolAheadOfChain, Txs
<1>4. ASSUME NEW b \in Settled, ReceiveBlock(b) PROVE OnlySettled' /\ PoolAheadOfChain'
  <2> DEFINE p == [Idle EXCEPT !.pc = "validate", !.blk = b]
  <2>1. /\ Move(Net, p) /\ at[Net].pc = "idle"
        /\ built' = built /\ chain' = chain /\ pool' = pool
    BY <1>4 DEF ReceiveBlock, utx, mining
  <2>2. SettledAt(p)
    BY IdleSettled DEF SettledAt, Idle
  <2> HIDE DEF p
  <2> QED BY <1>1, <2>1, <2>2, Moved, AccountMove DEF Accounted
<1>5. ASSUME NEW f \in Seq(Settled), ReceiveFork(f) PROVE OnlySettled' /\ PoolAheadOfChain'
  <2>1. PICK n \in DOMAIN f :
            Move(Net, [Idle EXCEPT !.pc = "cut", !.blk = Reference[f[n]],
                                   !.rest = SubSeq(f, n, Len(f)), !.fork = TRUE])
    BY <1>5 DEF ReceiveFork
  <2> DEFINE p == [Idle EXCEPT !.pc = "cut", !.blk = Reference[f[n]],
                               !.rest = SubSeq(f, n, Len(f)), !.fork = TRUE]
  <2>2. Len(f) \in Nat /\ n \in 1 .. Len(f) /\ \A i \in 1 .. Len(f) : f[i] \in Settled
    BY LenProperties, ElementOfSeq
  <2>3. SubSeq(f, n, Len(f)) \in Seq(Settled)
    BY <2>2, SubSeqProperties
  <2>4. p.pc = "cut" /\ p.rest = SubSeq(f, n, Len(f))
    BY DEF Idle
  <2>5. SettledAt(p)
    <3> HIDE DEF p
    <3> QED BY <2>3, <2>4 DEF SettledAt
  <2>6. Move(Net, p)
    BY <2>1
  <2>7. at[Net].pc = "idle" /\ built' = built /\ chain' = chain /\ pool' = pool
    BY <1>5 DEF ReceiveFork, utx, mining
  <2> HIDE DEF p
  <2> QED BY <1>1, <2>5, <2>6, <2>7, Moved, AccountMove DEF Accounted
<1>6. ASSUME NEW b, Rollback(b) PROVE OnlySettled' /\ PoolAheadOfChain'
  <2> DEFINE p == [Idle EXCEPT !.pc = "cut", !.blk = b]
  <2>1. /\ Move(Api, p) /\ at[Api].pc = "idle"
        /\ built' = built /\ chain' = chain /\ pool' = pool
    BY <1>6 DEF Rollback, utx, mining
  <2>2. SettledAt(p)
    BY IdleSettled DEF SettledAt, Idle
  <2> HIDE DEF p
  <2> QED BY <1>1, <2>1, <2>2, Moved, AccountMove DEF Accounted
<1> QED BY <1>2, <1>3, <1>4, <1>5, <1>6, PeersJobs DEF Arrive

(* removeAfter leaves a prefix: nothing comes onto the chain. *)
LEMMA CutShrinks ==
    ASSUME Accounted, NEW to \in Block \cup {NoBlock}, InHistory(to), chain' = UpTo(to),
           built' = built
    PROVE  chain' \in Seq(Settled) /\ OnChain' \subseteq OnChain
<1>1. to \in Block /\ chain \in Seq(Block) /\ chain # <<>> /\ chain \in Seq(Settled)
  BY TipType DEF InHistory, Range, Accounted, OnlySettled, Typed, TypeOK
<1>2. PICK n \in 1 .. Len(chain) :
          /\ UpTo(to) = SubSeq(chain, 1, n) /\ UpTo(to) \in Seq(Block) /\ Len(UpTo(to)) = n
          /\ \A i \in 1 .. n : UpTo(to)[i] = chain[i]
  BY <1>1, UpToType
<1>3. Len(chain) \in Nat /\ DOMAIN chain = 1 .. Len(chain) /\ DOMAIN UpTo(to) = 1 .. n
      /\ \A i \in 1 .. Len(chain) : chain[i] \in Settled
  BY <1>1, <1>2, LenProperties, ElementOfSeq
<1>4. chain' \in Seq(Settled)
  BY <1>2, <1>3, SubSeqProperties
<1>5. ASSUME NEW x \in OnChain' PROVE x \in OnChain
  <2>1. PICK i \in DOMAIN UpTo(to) : x \in Txs(UpTo(to)[i])
    BY DEF OnChain, TxsOf, Txs
  <2>2. i \in DOMAIN chain /\ UpTo(to)[i] = chain[i]
    BY <1>2, <1>3, <2>1
  <2> QED BY <2>1, <2>2, OnChainMember
<1> QED BY <1>4, <1>5

LEMMA CutForkAccounted == ASSUME Accounted, CutFork PROVE OnlySettled' /\ PoolAheadOfChain'
<1> DEFINE to == at[Net].blk
           p == [at[Net] EXCEPT !.pc = "validate", !.dropped = TxsOf(After(to)),
                                !.blk = Head(at[Net].rest), !.rest = Tail(@)]
<1>1. /\ Net \in Thread /\ at[Net] \in Places /\ to \in Block \cup {NoBlock}
      /\ at[Net].rest \in Seq(Settled) /\ at[Net].rest # <<>>
  BY AccountedPlace DEF Thread, Accounted, Typed, TypeOK, Places, Held, Fine, CutFork
<1>2. at[Net].pc = "cut" /\ built' = built /\ pool' = pool
  BY DEF CutFork, utx, mining
<1>3. CASE InHistory(to)
  <2>1. chain' = UpTo(to) /\ Move(Net, p)
    BY <1>3 DEF CutFork
  <2>2. chain' \in Seq(Settled) /\ OnChain' \subseteq OnChain
    BY <1>1, <1>2, <1>3, <2>1, CutShrinks
  <2>3. Head(at[Net].rest) \in Settled /\ Tail(at[Net].rest) \in Seq(Settled)
    BY <1>1, HeadTailProperties
  <2>4. SettledAt(p)
    BY <1>1, <2>3 DEF SettledAt, Places
  <2> HIDE DEF p
  <2>5. at'[Net] = p /\ \A u \in Thread \ {Net} : at'[u] = at[u]
    BY <1>1, <2>1, Moved DEF Accounted
  <2> QED BY <1>1, <1>2, <2>2, <2>4, <2>5, AccountStep
<1>4. CASE ~InHistory(to)
  <2>1. Move(Net, Idle) /\ chain' = chain
    BY <1>4 DEF CutFork
  <2> QED BY <1>1, <1>2, <2>1, Moved, IdleSettled, AccountMove DEF Accounted
<1> QED BY <1>3, <1>4

LEMMA CutApiAccounted ==
    ASSUME Accounted, NEW back \in BOOLEAN, CutApi(back)
    PROVE  OnlySettled' /\ PoolAheadOfChain'
<1> DEFINE to == at[Api].blk
           p == [Idle EXCEPT !.pc = "return",
                             !.dropped = IF back THEN TxsOf(After(to)) ELSE {}]
<1>1. Api \in Thread /\ to \in Block \cup {NoBlock}
  BY DEF Thread, Accounted, Typed, TypeOK, Places
<1>2. at[Api].pc = "cut" /\ built' = built /\ pool' = pool
  BY DEF CutApi, utx, mining
<1>3. CASE InHistory(to)
  <2>1. chain' = UpTo(to) /\ Move(Api, p)
    BY <1>3 DEF CutApi
  <2>2. chain' \in Seq(Settled) /\ OnChain' \subseteq OnChain
    BY <1>1, <1>2, <1>3, <2>1, CutShrinks
  <2>3. SettledAt(p)
    BY IdleSettled DEF SettledAt, Idle
  <2> HIDE DEF p
  <2>4. at'[Api] = p /\ \A u \in Thread \ {Api} : at'[u] = at[u]
    BY <1>1, <2>1, Moved DEF Accounted
  <2> QED BY <1>1, <1>2, <2>2, <2>3, <2>4, AccountStep
<1>4. CASE ~InHistory(to)
  <2>1. Move(Api, Idle) /\ chain' = chain
    BY <1>4 DEF CutApi
  <2> QED BY <1>1, <1>2, <2>1, Moved, IdleSettled, AccountMove DEF Accounted
<1> QED BY <1>3, <1>4

(* A thread that goes on to a stage without a block. *)
LEMMA GotoSettled ==
    ASSUME Accounted, NEW t \in Thread, NEW stage, Goto(t, stage),
           stage \notin {"validate", "append", "clean"}
    PROVE  SettledAt(at'[t]) /\ \A u \in Thread \ {t} : at'[u] = at[u]
<1> DEFINE p == [at[t] EXCEPT !.pc = stage, !.blk = NoBlock, !.tip = NoBlock]
<1>1. Move(t, p)
  BY DEF Goto
<1>2. p.pc = stage /\ p.rest = at[t].rest
  BY ThreadPlace DEF Places, Accounted
<1>3. SettledAt(p)
  BY <1>2, AccountedPlace DEF SettledAt
<1> HIDE DEF p
<1> QED BY <1>1, <1>3, Moved DEF Accounted

LEMMA RefusedSettled ==
    ASSUME Accounted, NEW t \in Thread, Refused(t)
    PROVE  SettledAt(at'[t]) /\ \A u \in Thread \ {t} : at'[u] = at[u]
<1> DEFINE flag == [Idle EXCEPT !.pc = "flag"]
<1>1. SettledAt(flag)
  BY IdleSettled DEF SettledAt, Idle
<1>2. Move(t, flag) \/ Move(t, Idle)
  BY DEF Refused
<1> HIDE DEF flag
<1> QED BY <1>1, <1>2, IdleSettled, Moved DEF Accounted

LEMMA ValidateAccounted ==
    ASSUME Accounted, NEW t \in Thread, Validate(t)
    PROVE  OnlySettled' /\ PoolAheadOfChain'
<1> DEFINE p == [at[t] EXCEPT !.pc = "append", !.tip = Tip]
<1>1. Refused(t) \/ Move(t, Idle) \/ Move(t, p)
  BY DEF Validate
<1>2. SettledAt(p)
  BY ThreadPlace, AccountedPlace DEF SettledAt, Places, Validate, Accounted
<1> HIDE DEF p
<1>3. SettledAt(at'[t]) /\ \A u \in Thread \ {t} : at'[u] = at[u]
  BY <1>1, <1>2, RefusedSettled, IdleSettled, Moved DEF Accounted
<1> QED BY <1>3, AccountMove DEF Validate, utx, mining

(* The block that comes onto the chain is the one its thread cleans next. *)
LEMMA AppendBlockAccounted ==
    ASSUME Accounted, NEW t \in Thread, AppendBlock(t)
    PROVE  OnlySettled' /\ PoolAheadOfChain'
<1>1. at[t].pc = "append" /\ built' = built /\ pool' = pool /\ at[t].blk \in Settled
  BY AccountedPlace DEF AppendBlock, utx, mining
<1>2. CASE Fits(at[t].blk)
  <2> DEFINE p == [at[t] EXCEPT !.pc = "clean", !.tip = NoBlock]
  <2>1. chain' = Append(chain, at[t].blk) /\ Move(t, p)
    BY <1>2 DEF AppendBlock
  <2>2. p.pc = "clean" /\ p.blk = at[t].blk /\ p.rest = at[t].rest
    BY ThreadPlace DEF Places, Accounted
  <2>3. SettledAt(p)
    BY <1>1, <2>2, AccountedPlace DEF SettledAt
  <2> HIDE DEF p
  <2>4. at'[t] = p /\ \A u \in Thread \ {t} : at'[u] = at[u]
    BY <2>1, Moved DEF Accounted
  <2>5. chain \in Seq(Settled)
    BY DEF Accounted, OnlySettled
  <2>6. /\ chain' \in Seq(Settled) /\ Len(chain') = Len(chain) + 1
        /\ \A i \in 1 .. Len(chain) : chain'[i] = chain[i]
        /\ chain'[Len(chain) + 1] = at[t].blk
    BY <1>1, <2>1, <2>5, AppendProperties
  <2>7. /\ Len(chain) \in Nat /\ DOMAIN chain = 1 .. Len(chain)
        /\ DOMAIN chain' = 1 .. Len(chain) + 1
    BY <2>5, <2>6, LenProperties
  <2>8. ASSUME NEW x \in OnChain' PROVE x \in OnChain \/ x \in Txs(at[t].blk)
    <3>1. PICK i \in DOMAIN chain' : x \in Txs(chain'[i])
      BY <1>1 DEF OnChain, TxsOf, Txs
    <3>2. i \in 1 .. Len(chain) \/ i = Len(chain) + 1
      BY <2>7, <3>1
    <3> QED BY <2>6, <2>7, <3>1, <3>2, OnChainMember
  <2> QED BY <1>1, <2>2, <2>3, <2>4, <2>6, <2>8, AccountStep
<1>3. CASE ~Fits(at[t].blk)
  <2>1. Refused(t) /\ chain' = chain
    BY <1>3 DEF AppendBlock
  <2> QED BY <1>1, <2>1, RefusedSettled, AccountMove
<1> QED BY <1>2, <1>3

LEMMA RemoveAllAccounted ==
    ASSUME Accounted, NEW t \in Thread, RemoveAll(t)
    PROVE  OnlySettled' /\ PoolAheadOfChain'
<1> DEFINE p == [at[t] EXCEPT !.pc = "validate", !.blk = Head(at[t].rest), !.rest = Tail(@)]
<1>1. /\ at[t].rest # <<>> => Move(t, p)
      /\ at[t].rest = <<>> => Goto(t, "return") \/ Goto(t, "flag")
      /\ built' = built /\ chain' = chain /\ pool' = pool \ Txs(at[t].blk)
  BY DEF RemoveAll, mining
<1>2. ASSUME at[t].rest # <<>> PROVE SettledAt(p)
  <2>1. Head(at[t].rest) \in Settled /\ Tail(at[t].rest) \in Seq(Settled)
    BY <1>2, AccountedPlace, HeadTailProperties
  <2> QED BY <2>1, ThreadPlace DEF SettledAt, Places, Accounted
<1> HIDE DEF p
<1>3. SettledAt(at'[t]) /\ \A u \in Thread \ {t} : at'[u] = at[u]
  BY <1>1, <1>2, GotoSettled, Moved DEF Accounted
<1>4. OnChain' = OnChain /\ chain' \in Seq(Settled)
  BY <1>1, SameChain DEF Accounted, OnlySettled
<1> QED BY <1>1, <1>3, <1>4, AccountStep

LEMMA PutBackAccounted ==
    ASSUME Accounted, NEW t \in Thread, PutBack(t)
    PROVE  OnlySettled' /\ PoolAheadOfChain'
<1>1. PICK x \in at[t].dropped :
          PutIfNew(x) /\ Move(t, [at[t] EXCEPT !.dropped = @ \ {x}])
  BY DEF PutBack
<1> DEFINE p == [at[t] EXCEPT !.dropped = @ \ {x}]
<1>2. Move(t, p) /\ at[t].pc = "return" /\ built' = built /\ chain' = chain
  BY <1>1 DEF PutBack, mining
<1>3. SettledAt(p)
  BY <1>2, ThreadPlace, AccountedPlace DEF SettledAt, Places, Accounted
<1> HIDE DEF p
<1>4. at'[t] = p /\ \A u \in Thread \ {t} : at'[u] = at[u]
  BY <1>2, Moved DEF Accounted
<1>5. OnChain' = OnChain /\ chain' \in Seq(Settled)
  BY <1>2, SameChain DEF Accounted, OnlySettled
<1>6. pool' \cap OnChain' \subseteq pool \cap OnChain
  BY <1>1, <1>5, PutIfNewPool
<1> QED BY <1>2, <1>3, <1>4, <1>5, <1>6, AccountStep

LEMMA StepAccounted ==
    ASSUME Accounted, NEW t \in Thread, Step(t)
    PROVE  OnlySettled' /\ PoolAheadOfChain'
<1>1. CASE AllBack(t)
  BY <1>1, GotoSettled, AccountMove DEF AllBack, utx, mining
<1>2. CASE UpdateReadiness(t)
  <2>1. SettledAt(at'[t]) /\ \A u \in Thread \ {t} : at'[u] = at[u]
    BY <1>2, GotoSettled, IdleSettled, Moved DEF UpdateReadiness, Accounted
  <2> QED BY <1>2, <2>1, AccountMove DEF UpdateReadiness, utx, mining
<1>3. CASE ReadTip(t)
  <2> DEFINE p == [at[t] EXCEPT !.pc = "arm", !.tip = IF Minable(Tip) THEN Tip ELSE NoBlock]
  <2>1. Move(t, Idle) \/ Move(t, p)
    BY <1>3 DEF ReadTip
  <2>2. SettledAt(p)
    BY ThreadPlace, AccountedPlace DEF SettledAt, Places, Accounted
  <2> HIDE DEF p
  <2>3. SettledAt(at'[t]) /\ \A u \in Thread \ {t} : at'[u] = at[u]
    BY <2>1, <2>2, IdleSettled, Moved DEF Accounted
  <2> QED BY <1>3, <2>3, AccountMove DEF ReadTip, utx, mining
<1>4. CASE Arm(t)
  <2>1. SettledAt(at'[t]) /\ \A u \in Thread \ {t} : at'[u] = at[u]
    BY <1>4, GotoSettled, IdleSettled, Moved DEF Arm, Accounted
  <2> QED BY <1>4, <2>1, AccountMove DEF Arm, utx
<1> QED BY <1>1, <1>2, <1>3, <1>4, ValidateAccounted, AppendBlockAccounted,
           RemoveAllAccounted, PutBackAccounted DEF Step
(* An own block that is built now is on no chain and in no thread's hands. *)
LEMMA BuildAccounted ==
    ASSUME Accounted, NEW m \in Miners, Build(m)
    PROVE  OnlySettled' /\ PoolAheadOfChain'
<1>1. m \in Thread /\ at[m].pc = "build" /\ chain' = chain
  BY MinersAreThreads DEF Build
<1>2. PICK b \in Own \ DOMAIN built, packed \in Packings :
          /\ built' = [x \in DOMAIN built \cup {b} |-> IF x = b THEN packed ELSE built[x]]
          /\ pool' = packed
          /\ Move(m, [Idle EXCEPT !.pc = "validate", !.blk = b])
  BY DEF Build
<1> DEFINE p == [Idle EXCEPT !.pc = "validate", !.blk = b]
<1>3. Move(m, p) /\ p.pc = "validate" /\ p.blk = b /\ p.rest = <<>>
  BY <1>2 DEF Idle
<1> HIDE DEF p
<1>4. at'[m] = p /\ \A u \in Thread \ {m} : at'[u] = at[u]
  BY <1>1, <1>3, Moved DEF Accounted
<1>5. Settled' = Settled \cup {b}
  BY <1>2 DEF Settled
<1>6. Seq(Settled) \subseteq Seq(Settled')
  BY <1>5, SeqGrows
<1>7. <<>> \in Seq(Settled')
  BY EmptySeq
<1>8. OnlySettled'
  <2>1. chain' \in Seq(Settled')
    BY <1>1, <1>6 DEF Accounted, OnlySettled
  <2>2. SettledAt(at[m])'
    BY <1>3, <1>4, <1>5, <1>7 DEF SettledAt
  <2>3. ASSUME NEW u \in Thread \ {m} PROVE SettledAt(at[u])'
    BY <1>4, <1>5, <1>6, AccountedPlace DEF SettledAt
  <2> QED BY <2>1, <2>2, <2>3 DEF OnlySettled
<1>9. ASSUME NEW c \in Settled PROVE Txs(c)' = Txs(c)
  <2>1. c # b
    BY <1>2 DEF Settled
  <2> QED BY <1>2, <2>1 DEF Txs
<1>10. OnChain' = OnChain
  <2>1. \A i \in DOMAIN chain : chain[i] \in Settled
    BY ElementOfSeq, LenProperties DEF Accounted, OnlySettled
  <2>2. \A i \in DOMAIN chain : Txs(chain[i])' = Txs(chain[i])
    BY <1>1, <1>9, <2>1 DEF Txs
  <2> QED BY <1>1, <2>2 DEF OnChain, TxsOf
<1>11. pool' \subseteq pool
  BY <1>2 DEF Packings
<1>12. PoolAheadOfChain'
  <2> SUFFICES ASSUME NEW x \in pool' \cap OnChain'
               PROVE  \E u \in Thread : at'[u].pc = "clean" /\ x \in Txs(at[u].blk)'
    BY DEF PoolAheadOfChain
  <2>1. PICK u \in Thread : at[u].pc = "clean" /\ x \in Txs(at[u].blk)
    BY <1>10, <1>11 DEF Accounted, PoolAheadOfChain
  <2>2. u # m /\ at'[u] = at[u] /\ at[u].blk \in Settled
    BY <1>1, <1>4, <2>1, AccountedPlace
  <2>3. Txs(at[u].blk)' = Txs(at[u].blk)
    BY <1>9, <2>2 DEF Txs
  <2> QED BY <2>1, <2>2, <2>3
<1> QED BY <1>8, <1>12

LEMMA MineAccounted ==
    ASSUME Accounted, NEW m \in Miners, Mine(m) \/ Fire(m)
    PROVE  OnlySettled' /\ PoolAheadOfChain'
<1>1. m \in Thread
  BY MinersAreThreads
<1>2. CASE NoBuild(m)
  BY <1>1, <1>2, GotoSettled, AccountMove DEF NoBuild, utx, mining
<1>3. CASE BuildThrows(m)
  BY <1>1, <1>3, Moved, IdleSettled, AccountMove DEF BuildThrows, utx, mining, Accounted
<1>4. CASE Retry(m)
  BY <1>1, <1>4, Moved, IdleSettled, AccountMove DEF Retry, utx, Accounted
<1>5. CASE Fire(m)
  <2> DEFINE p == [Idle EXCEPT !.pc = "build", !.tip = attempt]
  <2>1. Move(m, p) /\ at[m].pc = "idle"
    BY <1>5 DEF Fire
  <2>2. SettledAt(p)
    BY IdleSettled DEF SettledAt, Idle
  <2> HIDE DEF p
  <2> QED BY <1>1, <1>5, <2>1, <2>2, Moved, AccountMove DEF Fire, utx, Accounted
<1> QED BY <1>1, <1>2, <1>3, <1>4, <1>5, BuildAccounted, StepAccounted DEF Mine

LEMMA AccountedNext == Accounted /\ [Next]_vars => Accounted'
<1> SUFFICES ASSUME Accounted, [Next]_vars PROVE Accounted'
  OBVIOUS
<1>1. Typed'
  BY TypedNext DEF Accounted
<1>2. Net \in Thread /\ Api \in Thread
  BY DEF Thread
<1>3. CASE Arrive
  BY <1>1, <1>3, ArriveAccounted DEF Accounted
<1>4. CASE Coordinate
  BY <1>1, <1>2, <1>4, CutForkAccounted, StepAccounted DEF Coordinate, Accounted
<1>5. CASE Serve
  BY <1>1, <1>2, <1>5, CutApiAccounted, StepAccounted DEF Serve, Accounted
<1>6. CASE \E m \in Miners : Mine(m) \/ Fire(m)
  BY <1>1, <1>6, MineAccounted DEF Accounted
<1>7. CASE UNCHANGED vars
  BY <1>1, <1>7 DEF vars, utx, mining, Accounted, OnlySettled, PoolAheadOfChain, Settled,
                    SettledAt, OnChain, TxsOf, Txs
<1> QED BY <1>3, <1>4, <1>5, <1>6, <1>7 DEF Next, Rest

(* processBlock and removeAll share no lock, and putIfNew, packing and       *)
(* rollbacks run between them on other threads: still, a transaction that is *)
(* both on the chain and in the pool is always about to be removed.          *)
THEOREM PoolAheadOfChainAlways == Spec => []PoolAheadOfChain
<1>1. Accounted => PoolAheadOfChain
  BY DEF Accounted
<1> QED BY <1>1, AccountedInit, AccountedNext, PTL DEF Spec
-----------------------------------------------------------------------------
(* Validation and the last block. *)

(* The chain is a path of the tree of blocks and passes no block twice. *)
Linked ==
    /\ chain[1] = Genesis
    /\ \A i \in 1 .. Len(chain) - 1 : Reference[chain[i + 1]] = chain[i]
    /\ \A i, j \in 1 .. Len(chain) : chain[i] = chain[j] => i = j

(* The block that the coordinator is about to append refers to a block of the *)
(* chain, not above the last block it was validated on.                       *)
ParentBelowTip ==
    at[Net].pc = "append" =>
        \E i, k \in 1 .. Len(chain) :
            i <= k /\ chain[i] = Reference[at[Net].blk] /\ chain[k] = at[Net].tip

Ordered == Typed /\ Linked /\ ParentBelowTip /\ at[Api].pc # "cut"

LEMMA OrderedInit == Init => Ordered
<1> SUFFICES ASSUME Init PROVE Ordered
  OBVIOUS
<1>1. chain = <<Genesis>>
  BY DEF Init
<1>2. Linked
  BY <1>1 DEF Linked
<1>3. Net \in Thread /\ Api \in Thread /\ Net # Api
  BY NodeAssumption DEF Thread
<1>4. at[Net].pc = "idle" /\ at[Api].pc = "read"
  BY <1>3 DEF Init, Idle
<1> QED BY <1>2, <1>4, TypedInit DEF Ordered, ParentBelowTip

(* A step that leaves the chain alone. *)
LEMMA OrderStep ==
    ASSUME Ordered, NEW t \in Thread, \A u \in Thread \ {t} : at'[u] = at[u],
           chain' = chain, t = Net => at'[t].pc # "append", t = Api => at'[t].pc # "cut"
    PROVE  Linked' /\ ParentBelowTip' /\ at'[Api].pc # "cut"
<1>1. Net \in Thread /\ Api \in Thread
  BY DEF Thread
<1> QED BY <1>1 DEF Ordered, Linked, ParentBelowTip

LEMMA MovesInOrder ==
    ASSUME Ordered, NEW t \in Thread, chain' = chain,
           NEW p, Move(t, p), p.pc \notin {"append", "cut"}
    PROVE  Linked' /\ ParentBelowTip' /\ at'[Api].pc # "cut"
<1>1. at'[t] = p /\ \A u \in Thread \ {t} : at'[u] = at[u]
  BY Moved DEF Ordered
<1> QED BY <1>1, OrderStep

LEMMA GoesInOrder ==
    ASSUME Ordered, NEW t \in Thread, chain' = chain,
           NEW stage, Goto(t, stage), stage \notin {"append", "cut"}
    PROVE  Linked' /\ ParentBelowTip' /\ at'[Api].pc # "cut"
<1>1. at'[t].pc = stage /\ \A u \in Thread \ {t} : at'[u] = at[u]
  BY MovedOn DEF Ordered
<1> QED BY <1>1, OrderStep

LEMMA RefusedInOrder ==
    ASSUME Ordered, NEW t \in Thread, chain' = chain, Refused(t)
    PROVE  Linked' /\ ParentBelowTip' /\ at'[Api].pc # "cut"
<1> DEFINE flag == [Idle EXCEPT !.pc = "flag"]
<1>1. Move(t, flag) \/ Move(t, Idle)
  BY DEF Refused
<1>2. flag.pc = "flag" /\ Idle.pc = "idle"
  BY DEF Idle
<1> HIDE DEF flag
<1> QED BY <1>1, <1>2, MovesInOrder

LEMMA ArriveInOrder ==
    ASSUME Targets = {}, Ordered, Arrive
    PROVE  Linked' /\ ParentBelowTip' /\ at'[Api].pc # "cut"
<1>1. Net \in Thread /\ Api \in Thread /\ Net # Api
  BY NodeAssumption DEF Thread
<1>2. CASE Age \/ \E t \in Tx : Submit(t)
  <2>1. chain' = chain /\ at' = at
    BY <1>2 DEF Age, Submit
  <2> QED BY <2>1 DEF Ordered, Linked, ParentBelowTip
<1>3. ASSUME NEW b, ReceiveBlock(b) PROVE Linked' /\ ParentBelowTip' /\ at'[Api].pc # "cut"
  <2> DEFINE p == [Idle EXCEPT !.pc = "validate", !.blk = b]
  <2>1. Move(Net, p) /\ p.pc = "validate" /\ chain' = chain
    BY <1>3 DEF ReceiveBlock, Idle
  <2> HIDE DEF p
  <2> QED BY <1>1, <2>1, MovesInOrder
<1>4. ASSUME NEW f, ReceiveFork(f) PROVE Linked' /\ ParentBelowTip' /\ at'[Api].pc # "cut"
  <2>1. PICK n \in DOMAIN f :
            Move(Net, [Idle EXCEPT !.pc = "cut", !.blk = Reference[f[n]],
                                   !.rest = SubSeq(f, n, Len(f)), !.fork = TRUE])
    BY <1>4 DEF ReceiveFork
  <2> DEFINE p == [Idle EXCEPT !.pc = "cut", !.blk = Reference[f[n]],
                               !.rest = SubSeq(f, n, Len(f)), !.fork = TRUE]
  <2>2. Move(Net, p) /\ p.pc = "cut"
    BY <2>1 DEF Idle
  <2> HIDE DEF p
  <2>3. at'[Net].pc = "cut" /\ \A u \in Thread \ {Net} : at'[u] = at[u]
    BY <1>1, <2>2, Moved DEF Ordered
  <2>4. chain' = chain
    BY <1>4 DEF ReceiveFork
  <2> QED BY <1>1, <2>3, <2>4, OrderStep
<1> QED BY <1>2, <1>3, <1>4 DEF Arrive

LEMMA CutForkInOrder ==
    ASSUME Ordered, CutFork
    PROVE  Linked' /\ ParentBelowTip' /\ at'[Api].pc # "cut"
<1> DEFINE to == at[Net].blk
           p == [at[Net] EXCEPT !.pc = "validate", !.dropped = TxsOf(After(to)),
                                !.blk = Head(at[Net].rest), !.rest = Tail(@)]
<1>1. /\ Net \in Thread /\ Api \in Thread /\ Net # Api
      /\ at[Net] \in Places /\ to \in Block \cup {NoBlock}
  BY NodeAssumption DEF Thread, Ordered, Typed, TypeOK, Places
<1>2. CASE InHistory(to)
  <2>1. chain' = UpTo(to) /\ Move(Net, p)
    BY <1>2 DEF CutFork
  <2>2. p.pc = "validate"
    BY <1>1 DEF Places
  <2> HIDE DEF p
  <2>3. at'[Net].pc = "validate" /\ at'[Api] = at[Api]
    BY <1>1, <2>1, <2>2, Moved DEF Ordered
  <2>4. to \in Block /\ chain \in Seq(Block) /\ chain # <<>>
    BY <1>2, TipType DEF InHistory, Range, Ordered, Typed, TypeOK
  <2>5. PICK n \in 1 .. Len(chain) :
            Len(UpTo(to)) = n /\ \A i \in 1 .. n : UpTo(to)[i] = chain[i]
    BY <1>2, <2>4, UpToType
  <2>6. Len(chain) \in Nat
    BY <2>4, LenProperties
  <2>7. Linked'
    BY <2>1, <2>5, <2>6 DEF Linked, Ordered
  <2> QED BY <2>3, <2>7 DEF ParentBelowTip, Ordered
<1>3. CASE ~InHistory(to)
  <2>1. Move(Net, Idle) /\ chain' = chain /\ Idle.pc = "idle"
    BY <1>3 DEF CutFork, Idle
  <2> QED BY <1>1, <2>1, MovesInOrder
<1> QED BY <1>2, <1>3

LEMMA ValidateInOrder ==
    ASSUME Ordered, NEW t \in Thread, Validate(t)
    PROVE  Linked' /\ ParentBelowTip' /\ at'[Api].pc # "cut"
<1> DEFINE p == [at[t] EXCEPT !.pc = "append", !.tip = Tip]
<1>1. /\ Refused(t) \/ Move(t, Idle) \/ (Move(t, p) /\ InHistory(Reference[at[t].blk]))
      /\ chain' = chain /\ Idle.pc = "idle"
  BY DEF Validate, Idle
<1>2. ASSUME Move(t, p), InHistory(Reference[at[t].blk])
      PROVE  Linked' /\ ParentBelowTip' /\ at'[Api].pc # "cut"
  <2>1. p.pc = "append" /\ p.tip = Tip /\ p.blk = at[t].blk
    BY ThreadPlace DEF Ordered, Places
  <2> HIDE DEF p
  <2>2. at'[t] = p /\ \A u \in Thread \ {t} : at'[u] = at[u]
    BY <1>2, Moved DEF Ordered
  <2>3. CASE t # Net
    BY <1>1, <2>1, <2>2, <2>3, OrderStep
  <2>4. CASE t = Net
    <3>1. /\ Len(chain) \in Nat \ {0} /\ DOMAIN chain = 1 .. Len(chain)
          /\ Tip = chain[Len(chain)]
      BY TipType DEF Ordered, Typed, TypeOK
    <3>2. PICK i \in 1 .. Len(chain) : chain[i] = Reference[at[Net].blk]
      BY <1>2, <2>4, <3>1 DEF InHistory, Range
    <3>3. ParentBelowTip'
      BY <1>1, <2>1, <2>2, <2>4, <3>1, <3>2 DEF ParentBelowTip
    <3>4. Api \in Thread /\ Net # Api
      BY NodeAssumption DEF Thread
    <3> QED BY <1>1, <2>2, <2>4, <3>3, <3>4 DEF Ordered, Linked
  <2> QED BY <2>3, <2>4
<1> HIDE DEF p
<1> QED BY <1>1, <1>2, RefusedInOrder, MovesInOrder

(* A block that refers to the last block is new to the chain. *)
LEMMA AppendInOrder ==
    ASSUME Ordered, NEW t \in Thread, AppendBlock(t)
    PROVE  Linked' /\ ParentBelowTip' /\ at'[Api].pc # "cut"
<1> DEFINE b == at[t].blk
           p == [at[t] EXCEPT !.pc = "clean", !.tip = NoBlock]
<1>1. CASE Fits(b)
  <2>1. chain' = Append(chain, b) /\ Move(t, p) /\ Reference[b] = Tip
    BY <1>1 DEF AppendBlock, Fits
  <2>2. p.pc = "clean"
    BY ThreadPlace DEF Ordered, Places
  <2>3. b \in Block /\ chain \in Seq(Block) /\ chain # <<>>
    BY ThreadPlace DEF AppendBlock, Ordered, Typed, TypeOK
  <2> HIDE DEF p, b
  <2>4. at'[t].pc = "clean" /\ \A u \in Thread \ {t} : at'[u] = at[u]
    BY <2>1, <2>2, Moved DEF Ordered
  <2>5. /\ Len(chain) \in Nat \ {0} /\ Tip = chain[Len(chain)]
        /\ \A i \in 1 .. Len(chain) : chain[i] \in Block
    BY <2>3, TipType
  <2>6. /\ Len(chain') = Len(chain) + 1 /\ chain'[Len(chain) + 1] = b
        /\ \A i \in 1 .. Len(chain) : chain'[i] = chain[i]
    BY <2>1, <2>3, AppendProperties
  <2>7. \A i \in 1 .. Len(chain) : chain[i] # b
    <3> SUFFICES ASSUME NEW i \in 1 .. Len(chain), chain[i] = b PROVE FALSE
      OBVIOUS
    <3>1. i # 1
      BY <2>1, <2>5, NodeAssumption DEF Ordered, Linked
    <3>2. i - 1 \in 1 .. Len(chain) - 1 /\ i - 1 \in 1 .. Len(chain) /\ (i - 1) + 1 = i
      BY <2>5, <3>1
    <3>3. Reference[chain[(i - 1) + 1]] = chain[i - 1]
      BY <3>2 DEF Ordered, Linked
    <3>4. chain[i - 1] = chain[Len(chain)]
      BY <2>1, <2>5, <3>2, <3>3
    <3> QED BY <2>5, <3>2, <3>4 DEF Ordered, Linked
  <2>8. Linked'
    <3>1. chain'[1] = Genesis
      BY <2>5, <2>6 DEF Ordered, Linked
    <3>2. \A i \in 1 .. Len(chain') - 1 : Reference[chain'[i + 1]] = chain'[i]
      BY <2>1, <2>5, <2>6 DEF Ordered, Linked
    <3>3. \A i, j \in 1 .. Len(chain') : chain'[i] = chain'[j] => i = j
      BY <2>5, <2>6, <2>7 DEF Ordered, Linked
    <3> QED BY <3>1, <3>2, <3>3 DEF Linked
  <2>9. Net \in Thread /\ Api \in Thread
    BY DEF Thread
  <2>10. ParentBelowTip'
    <3>1. CASE t = Net
      BY <2>4, <3>1 DEF ParentBelowTip
    <3>2. CASE t # Net
      <4>1. at'[Net] = at[Net]
        BY <2>4, <2>9, <3>2
      <4> QED BY <2>5, <2>6, <4>1 DEF ParentBelowTip, Ordered
    <3> QED BY <3>1, <3>2
  <2> QED BY <2>4, <2>8, <2>9, <2>10 DEF Ordered
<1>2. CASE ~Fits(b)
  <2>1. Refused(t) /\ chain' = chain
    BY <1>2 DEF AppendBlock
  <2> QED BY <2>1, RefusedInOrder
<1> QED BY <1>1, <1>2
LEMMA StepInOrder ==
    ASSUME Ordered, NEW t \in Thread, Step(t)
    PROVE  Linked' /\ ParentBelowTip' /\ at'[Api].pc # "cut"
<1>1. Idle.pc = "idle"
  BY DEF Idle
<1>2. CASE RemoveAll(t)
  <2> DEFINE p == [at[t] EXCEPT !.pc = "validate", !.blk = Head(at[t].rest), !.rest = Tail(@)]
  <2>1. Move(t, p) \/ Goto(t, "return") \/ Goto(t, "flag")
    BY <1>2 DEF RemoveAll
  <2>2. p.pc = "validate" /\ chain' = chain
    BY <1>2, ThreadPlace DEF Ordered, Places, RemoveAll
  <2> HIDE DEF p
  <2> QED BY <2>1, <2>2, MovesInOrder, GoesInOrder
<1>3. CASE PutBack(t)
  <2>1. PICK x \in at[t].dropped : Move(t, [at[t] EXCEPT !.dropped = @ \ {x}])
    BY <1>3 DEF PutBack
  <2> DEFINE p == [at[t] EXCEPT !.dropped = @ \ {x}]
  <2>2. Move(t, p) /\ p.pc = "return" /\ chain' = chain
    BY <1>3, <2>1, ThreadPlace DEF PutBack, Ordered, Places
  <2> HIDE DEF p
  <2> QED BY <2>2, MovesInOrder
<1>4. CASE AllBack(t)
  BY <1>4, GoesInOrder DEF AllBack
<1>5. CASE UpdateReadiness(t)
  BY <1>1, <1>5, MovesInOrder, GoesInOrder DEF UpdateReadiness
<1>6. CASE ReadTip(t)
  <2> DEFINE p == [at[t] EXCEPT !.pc = "arm", !.tip = IF Minable(Tip) THEN Tip ELSE NoBlock]
  <2>1. Move(t, Idle) \/ Move(t, p)
    BY <1>6 DEF ReadTip
  <2>2. p.pc = "arm" /\ chain' = chain
    BY <1>6, ThreadPlace DEF Ordered, Places, ReadTip
  <2> HIDE DEF p
  <2> QED BY <1>1, <2>1, <2>2, MovesInOrder
<1>7. CASE Arm(t)
  BY <1>1, <1>7, MovesInOrder, GoesInOrder DEF Arm
<1> QED BY <1>2, <1>3, <1>4, <1>5, <1>6, <1>7, ValidateInOrder, AppendInOrder DEF Step

LEMMA MineInOrder ==
    ASSUME Ordered, NEW m \in Miners, Mine(m) \/ Fire(m)
    PROVE  Linked' /\ ParentBelowTip' /\ at'[Api].pc # "cut"
<1>1. m \in Thread /\ Idle.pc = "idle"
  BY MinersAreThreads DEF Idle
<1>2. CASE Build(m)
  <2>1. PICK b \in Own : Move(m, [Idle EXCEPT !.pc = "validate", !.blk = b])
    BY <1>2 DEF Build
  <2> DEFINE p == [Idle EXCEPT !.pc = "validate", !.blk = b]
  <2>2. Move(m, p) /\ p.pc = "validate" /\ chain' = chain
    BY <1>2, <2>1 DEF Build, Idle
  <2> HIDE DEF p
  <2> QED BY <1>1, <2>2, MovesInOrder
<1>3. CASE Fire(m)
  <2> DEFINE p == [Idle EXCEPT !.pc = "build", !.tip = attempt]
  <2>1. Move(m, p) /\ p.pc = "build" /\ chain' = chain
    BY <1>3 DEF Fire, Idle
  <2> HIDE DEF p
  <2> QED BY <1>1, <2>1, MovesInOrder
<1>4. CASE NoBuild(m)
  BY <1>1, <1>4, GoesInOrder DEF NoBuild
<1>5. CASE BuildThrows(m) \/ Retry(m)
  BY <1>1, <1>5, MovesInOrder DEF BuildThrows, Retry
<1> QED BY <1>1, <1>2, <1>3, <1>4, <1>5, StepInOrder DEF Mine

LEMMA OrderedNext == Targets = {} /\ Ordered /\ [Next]_vars => Ordered'
<1> SUFFICES ASSUME Targets = {}, Ordered, [Next]_vars PROVE Ordered'
  OBVIOUS
<1>1. Typed'
  BY TypedNext DEF Ordered
<1>2. Net \in Thread /\ Api \in Thread
  BY DEF Thread
<1>3. CASE Arrive
  BY <1>1, <1>3, ArriveInOrder DEF Ordered
<1>4. CASE Coordinate
  BY <1>1, <1>2, <1>4, CutForkInOrder, StepInOrder DEF Coordinate, Ordered
<1>5. CASE Serve
  BY <1>1, <1>2, <1>5, StepInOrder DEF Serve, CutApi, Ordered
<1>6. CASE \E m \in Miners : Mine(m) \/ Fire(m)
  BY <1>1, <1>6, MineInOrder DEF Ordered
<1>7. CASE UNCHANGED vars
  BY <1>1, <1>7 DEF vars, Ordered, Linked, ParentBelowTip
<1> QED BY <1>3, <1>4, <1>5, <1>6, <1>7 DEF Next, Rest

(* The block that becomes the last one refers to the last block; so does the *)
(* parent that validation found, and it is on the chain only once.           *)
LEMMA AppendsOnTip ==
    ASSUME Ordered, AppendBlock(Net), at'[Net].pc = "clean"
    PROVE  at[Net].tip = Tip
<1>1. Net \in Thread /\ at[Net].pc = "append" /\ Net \notin Miners
  BY NodeAssumption DEF Thread, AppendBlock
<1>2. Fits(at[Net].blk)
  <2> SUFFICES ASSUME ~Fits(at[Net].blk) PROVE FALSE
    OBVIOUS
  <2>1. Move(Net, Idle)
    BY <1>1 DEF AppendBlock, Refused
  <2>2. at'[Net] = Idle
    BY <1>1, <2>1, Moved DEF Ordered
  <2> QED BY <2>2 DEF Idle
<1>3. PICK i, k \in 1 .. Len(chain) :
          i <= k /\ chain[i] = Reference[at[Net].blk] /\ chain[k] = at[Net].tip
  BY <1>1 DEF Ordered, ParentBelowTip
<1>4. Len(chain) \in Nat \ {0} /\ Tip = chain[Len(chain)]
  BY TipType DEF Ordered, Typed, TypeOK
<1>5. chain[i] = chain[Len(chain)]
  BY <1>2, <1>3, <1>4 DEF Fits
<1>6. i = Len(chain)
  BY <1>4, <1>5 DEF Ordered, Linked
<1> QED BY <1>3, <1>4, <1>6

(* Only the coordinator's own step takes it from "append". *)
LEMMA OthersLeaveNet ==
    ASSUME Typed, [Next]_vars, at[Net].pc = "append"
    PROVE  at'[Net] = at[Net] \/ AppendBlock(Net)
<1>1. Net \in Thread /\ Api \in Thread /\ Net # Api
  BY NodeAssumption DEF Thread
<1>2. ASSUME NEW t \in Thread, t # Net, NEW p, Move(t, p) PROVE at'[Net] = at[Net]
  BY <1>1, <1>2, Moved
<1>3. ASSUME NEW t \in Thread, t # Net, NEW stage, Goto(t, stage) PROVE at'[Net] = at[Net]
  BY <1>1, <1>3, MovedOn
<1>4. ASSUME NEW t \in Thread, t # Net, Step(t) PROVE at'[Net] = at[Net]
  <2>1. CASE Validate(t) \/ AppendBlock(t)
    BY <1>2, <1>4, <2>1 DEF Validate, AppendBlock, Refused
  <2>2. CASE RemoveAll(t) \/ PutBack(t) \/ AllBack(t)
    BY <1>2, <1>3, <1>4, <2>2 DEF RemoveAll, PutBack, AllBack
  <2>3. CASE UpdateReadiness(t) \/ ReadTip(t) \/ Arm(t)
    BY <1>2, <1>3, <1>4, <2>3 DEF UpdateReadiness, ReadTip, Arm
  <2> QED BY <1>4, <2>1, <2>2, <2>3 DEF Step
<1>5. CASE Arrive
  <2>1. CASE Age \/ \E t \in Tx : Submit(t)
    BY <2>1 DEF Age, Submit
  <2>2. CASE \E b \in Targets : Rollback(b)
    BY <1>1, <1>2, <2>2 DEF Rollback
  <2>3. CASE \E j \in Jobs : ReceiveFork(j.blocks) \/ ReceiveBlock(j.blocks[1])
    BY <2>3 DEF ReceiveFork, ReceiveBlock
  <2> QED BY <1>5, <2>1, <2>2, <2>3 DEF Arrive
<1>6. CASE Coordinate
  BY <1>6 DEF Coordinate, Step, CutFork, Validate, RemoveAll, PutBack, AllBack,
              UpdateReadiness, ReadTip, Arm
<1>7. CASE Serve
  <2>1. ASSUME NEW back \in BOOLEAN, CutApi(back) PROVE at'[Net] = at[Net]
    BY <1>1, <1>2, <2>1 DEF CutApi
  <2> QED BY <1>1, <1>4, <1>7, <2>1 DEF Serve
<1>8. ASSUME NEW m \in Miners, Mine(m) \/ Fire(m) PROVE at'[Net] = at[Net]
  <2>1. m \in Thread /\ m # Net
    BY MinersAreThreads
  <2>2. CASE Build(m) \/ NoBuild(m)
    BY <1>2, <1>3, <2>1, <2>2 DEF Build, NoBuild
  <2>3. CASE BuildThrows(m) \/ Retry(m) \/ Fire(m)
    BY <1>2, <2>1, <2>3 DEF BuildThrows, Retry, Fire
  <2> QED BY <1>4, <1>8, <2>1, <2>2, <2>3 DEF Mine
<1>9. CASE UNCHANGED vars
  BY <1>9 DEF vars
<1> QED BY <1>5, <1>6, <1>7, <1>8, <1>9 DEF Next, Rest

(* As long as nobody rolls back through the API, a block of a peer is only  *)
(* appended if slots and balances were read from the state of its parent:   *)
(* blocks the miner appends between the validation and the lock make the    *)
(* coordinator's block fail, because its reference is then not the last.    *)
THEOREM ValidatedOnParentAlways ==
    ASSUME Targets = {} PROVE Spec => ValidatedOnParent
<1>1. Ordered /\ [Next]_vars => Ordered'
  BY OrderedNext
<1>2. Ordered /\ [Next]_vars =>
          [(at[Net].pc = "append" /\ at'[Net].pc = "clean") => at[Net].tip = Tip]_vars
  <2> SUFFICES ASSUME Ordered, [Next]_vars, at[Net].pc = "append", at'[Net].pc = "clean"
               PROVE  at[Net].tip = Tip
    OBVIOUS
  <2>1. AppendBlock(Net)
    BY OthersLeaveNet DEF Ordered
  <2> QED BY <2>1, AppendsOnTip
<1> QED BY <1>1, <1>2, OrderedInit, PTL DEF Spec, ValidatedOnParent
=============================================================================
