------------------------- MODULE Connections_proofs -------------------------
(***************************************************************************)
(* The limits of InboundConnectionFilter hold for any number of channels,  *)
(* hosts and limits, and any interleaving.  The argument counts a channel  *)
(* as admitted from the moment its own count is within the limit, before   *)
(* accept has looked: a channel counted as the n-th, n within the limit,   *)
(* is one of at most n that are counted at all.                            *)
(* The books of the server follow from what each channel's close owes: a   *)
(* channel is in a book just as long as the listener that takes it out is  *)
(* still to run.                                                           *)
(***************************************************************************)
EXTENDS Connections, FiniteSetTheorems, SequenceTheorems, TLAPS

Stages == {"dialling", "arriving", "counted", "closed"} \cup Open

Listeners == {"forget", "suspend", "uncount", "unkey", "leave"}

Records == [stage : Stages, side : Sides, peer : Addresses, total : Nat, ofHost : Nat,
            cut : BOOLEAN, owes : Seq(Listeners)]

\* The decrement of the filter is due first, and once.
Owing(owes) == owes # <<>> /\ owes[1] = "uncount"

OnlyFirst(owes) == \A i \in 2 .. Len(owes) : owes[i] # "uncount"

\* A channel that still owes the filter its decrement.
Counts(r) == r # Free /\ r.side = "in" /\ Owing(r.owes)

CountsAt(r, h) == Counts(r) /\ r.stage # "arriving" /\ HostOf[r.peer] = h

Admits(r) ==
    /\ Counts(r)
  /\ \/ r.stage \in Open
     \/ r.stage \in {"arriving", "counted"} /\ r.total <= MaxInbound

AdmitsAt(r, h) ==
    /\ CountsAt(r, h)
  /\ \/ r.stage \in Open
     \/ r.stage = "counted" /\ r.ofHost <= MaxPerHost

\* Only an inbound channel owes the decrement, once, and not before it is closed.
Fine(r) ==
    \/ r = Free
    \/ /\ r \in Records
       /\ OnlyFirst(r.owes)
       /\ Owing(r.owes) => r.side = "in"
       /\ r.stage = "dialling" => r.side = "out"
       /\ r.stage \in {"arriving", "counted"} => r.side = "in"
       /\ r.side = "in" /\ r.stage # "closed" => Counts(r)

Counted == {c \in Channels : Counts(chan[c])}

CountedAt(h) == {c \in Channels : CountsAt(chan[c], h)}

Admitted == {c \in Channels : Admits(chan[c])}

AdmittedAt(h) == {c \in Channels : AdmitsAt(chan[c], h)}

LimitInv ==
    /\ chan = [c \in Channels |-> chan[c]]
    /\ \A c \in Channels : Fine(chan[c])
    /\ inboundConnectionCount = Cardinality(Counted)
    /\ Cardinality(Admitted) <= MaxInbound
    /\ perHostConnectionCount \in [Hosts -> Nat]
    /\ \A h \in Hosts : /\ perHostConnectionCount[h] = Cardinality(CountedAt(h))
                        /\ Cardinality(AdmittedAt(h)) <= MaxPerHost

-----------------------------------------------------------------------------
(* What is owed: sequences of listeners. *)

LEMMA NoDecrement ==
  ASSUME NEW t \in Seq(Listeners), \A i \in 1 .. Len(t) : t[i] # "uncount"
  PROVE  ~Owing(t) /\ OnlyFirst(t)
<1>1. Len(t) \in Nat /\ (t # <<>> => Len(t) # 0)
  BY EmptySeq, LenProperties
<1>2. t # <<>> => t[1] # "uncount"
  BY <1>1
<1>3. \A i \in 2 .. Len(t) : i \in 1 .. Len(t)
  BY <1>1
<1> QED BY <1>2, <1>3 DEF Owing, OnlyFirst

LEMMA OwedLater ==
  ASSUME NEW s \in Seq(Listeners), OnlyFirst(s),
         NEW l \in Seq(Listeners), \A i \in 1 .. Len(l) : l[i] # "uncount"
  PROVE  s \o l \in Seq(Listeners) /\ OnlyFirst(s \o l) /\ (Owing(s \o l) <=> Owing(s))
<1>1. /\ s \o l \in Seq(Listeners) /\ Len(s \o l) = Len(s) + Len(l)
      /\ Len(s) \in Nat /\ Len(l) \in Nat
      /\ \A i \in 1 .. Len(s) + Len(l) :
            (s \o l)[i] = IF i <= Len(s) THEN s[i] ELSE l[i - Len(s)]
  BY ConcatProperties, LenProperties
<1>2. ASSUME NEW i \in 1 .. Len(s) + Len(l), (s \o l)[i] = "uncount"
      PROVE  i <= Len(s) /\ (s \o l)[i] = s[i]
  <2>1. CASE i <= Len(s)
    BY <1>1, <2>1
  <2>2. CASE ~(i <= Len(s))
    <3>1. i - Len(s) \in 1 .. Len(l)
      BY <1>1, <2>2
    <3>2. (s \o l)[i] = l[i - Len(s)]
      BY <1>1, <2>2
    <3> QED BY <1>2, <3>1, <3>2
  <2> QED BY <2>1, <2>2
<1>3. OnlyFirst(s \o l)
  <2>1. SUFFICES ASSUME NEW i \in 2 .. Len(s \o l), (s \o l)[i] = "uncount" PROVE FALSE
    BY DEF OnlyFirst
  <2>2. i \in 1 .. Len(s) + Len(l)
    BY <1>1
  <2>3. i \in 2 .. Len(s) /\ s[i] = "uncount"
    BY <1>1, <1>2, <2>1, <2>2
  <2> QED BY <2>3 DEF OnlyFirst
<1>4. ASSUME Owing(s) PROVE Owing(s \o l)
  <2>1. Len(s) # 0 /\ s[1] = "uncount"
    BY <1>4, EmptySeq DEF Owing
  <2>2. 1 <= Len(s) /\ 1 \in 1 .. Len(s) + Len(l)
    BY <1>1, <2>1
  <2>3. (s \o l)[1] = "uncount"
    BY <1>1, <2>1, <2>2
  <2>4. s \o l # <<>>
    BY <1>1, <2>2, EmptySeq
  <2> QED BY <2>3, <2>4 DEF Owing
<1>5. ASSUME Owing(s \o l) PROVE Owing(s)
  <2>1. Len(s \o l) # 0 /\ (s \o l)[1] = "uncount"
    BY <1>1, <1>5, EmptySeq DEF Owing
  <2>2. 1 \in 1 .. Len(s) + Len(l)
    BY <1>1, <2>1
  <2>3. 1 <= Len(s) /\ s[1] = "uncount"
    BY <1>2, <2>1, <2>2
  <2>4. s # <<>>
    BY <1>1, <2>3, EmptySeq
  <2> QED BY <2>3, <2>4 DEF Owing
<1> QED BY <1>1, <1>3, <1>4, <1>5

-----------------------------------------------------------------------------
LEMMA FiniteSets ==
  ASSUME NEW S, S \subseteq Channels
  PROVE  IsFiniteSet(S) /\ Cardinality(S) \in Nat
  BY LimitsAssumption, FS_Subset, FS_CardinalityType

LEMMA FreeStage == Free.stage = "free" /\ Free \notin Records
  BY DEF Free, Records, Stages, Open

LEMMA FewerAreFewer ==
  ASSUME NEW S, NEW T, T \subseteq Channels, S \subseteq T
  PROVE  Cardinality(S) <= Cardinality(T)
  BY FiniteSets, FS_Subset

\* A step that changes one channel, and that neither counts it nor admits it.
LEMMA NeutralKeeps ==
  ASSUME LimitInv, NEW c \in Channels, NEW r, Becomes(c, r), Fine(r),
         UNCHANGED <<inboundConnectionCount, perHostConnectionCount>>,
         Counts(r) <=> Counts(chan[c]),
         \A h \in Hosts : CountsAt(r, h) <=> CountsAt(chan[c], h),
         Admits(r) => Admits(chan[c]),
         \A h \in Hosts : AdmitsAt(r, h) => AdmitsAt(chan[c], h)
  PROVE  LimitInv'
<1>1. \A d \in Channels : chan'[d] = IF d = c THEN r ELSE chan[d]
  BY DEF LimitInv, Becomes
<1>2. chan' = [d \in Channels |-> chan'[d]] /\ \A d \in Channels : Fine(chan'[d])
  BY <1>1 DEF LimitInv, Becomes
<1>3. Counted' = Counted
  BY <1>1 DEF Counted
<1>4. Cardinality(Admitted') <= MaxInbound
  <2>1. Admitted' \subseteq Admitted /\ Admitted \subseteq Channels
    BY <1>1 DEF Admitted
  <2>2. QED
    BY <2>1, FewerAreFewer, FiniteSets, LimitsAssumption DEF LimitInv
<1>5. ASSUME NEW h \in Hosts
      PROVE  CountedAt(h)' = CountedAt(h) /\ Cardinality(AdmittedAt(h)') <= MaxPerHost
  <2>1. CountedAt(h)' = CountedAt(h)
    BY <1>1 DEF CountedAt
  <2>2. AdmittedAt(h)' \subseteq AdmittedAt(h) /\ AdmittedAt(h) \subseteq Channels
    BY <1>1 DEF AdmittedAt
  <2>3. QED
    BY <2>1, <2>2, FewerAreFewer, FiniteSets, LimitsAssumption DEF LimitInv
<1>6. QED
  BY <1>2, <1>3, <1>4, <1>5 DEF LimitInv, Fine

LEMMA LimitInit == Init => LimitInv
<1> SUFFICES ASSUME Init PROVE LimitInv
  OBVIOUS
<1>1. \A c \in Channels : chan[c] = Free
  BY DEF Init
<1>2. Counted = {} /\ Admitted = {} /\ \A h \in Hosts : CountedAt(h) = {} /\ AdmittedAt(h) = {}
  BY <1>1 DEF Counted, Admitted, CountedAt, AdmittedAt, Counts, CountsAt, Admits, AdmitsAt
<1>3. Cardinality({}) = 0
  BY FS_EmptySet
<1>4. QED
  BY <1>1, <1>2, <1>3, LimitsAssumption DEF Init, LimitInv, Fine

\* The n-th channel to be counted is admitted only if n is within the limit,
\* and then nobody can be admitted who is not one of these n.
LEMMA CountTotalKeeps == ASSUME LimitInv, NEW c \in Channels, CountTotal(c) PROVE LimitInv'
<1>1. PICK a \in Addresses :
         Becomes(c, Channel("arriving", "in", a, inboundConnectionCount + 1, 0, FALSE, <<"uncount">>))
  BY DEF CountTotal
<1> DEFINE n == inboundConnectionCount + 1
           r == Channel("arriving", "in", a, n, 0, FALSE, <<"uncount">>)
<1>2. /\ chan[c] = Free /\ inboundConnectionCount' = n
      /\ UNCHANGED perHostConnectionCount
  BY DEF CountTotal
<1>3. inboundConnectionCount \in Nat /\ n \in Nat
  BY FiniteSets DEF LimitInv, Counted
<1>4. r \in Records /\ Counts(r) /\ r # Free
  BY <1>3 DEF Channel, Records, Stages, Sides, Listeners, Counts, Owing, Free
<1>5. Fine(r) /\ (Admits(r) => n <= MaxInbound) /\ \A h : ~CountsAt(r, h) /\ ~AdmitsAt(r, h)
  BY <1>4 DEF Channel, Fine, Counts, OnlyFirst, Admits, CountsAt, AdmitsAt, Open
<1>6. \A d \in Channels : chan'[d] = IF d = c THEN r ELSE chan[d]
  BY <1>1 DEF LimitInv, Becomes
<1>7. chan' = [d \in Channels |-> chan'[d]] /\ \A d \in Channels : Fine(chan'[d])
  BY <1>1, <1>5, <1>6 DEF LimitInv, Becomes
<1>8. ~Counts(chan[c]) /\ ~Admits(chan[c]) /\ \A h : ~CountsAt(chan[c], h) /\ ~AdmitsAt(chan[c], h)
  BY <1>2 DEF Counts, Admits, CountsAt, AdmitsAt
<1> HIDE DEF r
<1>9. Cardinality(Counted') = n
  <2>1. Counted' = Counted \cup {c} /\ c \notin Counted /\ Counted \subseteq Channels
    BY <1>4, <1>6, <1>8 DEF Counted
  <2>2. QED
    BY <2>1, FiniteSets, FS_AddElement DEF LimitInv
<1>10. Cardinality(Admitted') <= MaxInbound
  <2>1. CASE Admits(r)
    <3>1. Admitted' \subseteq Counted' /\ Counted' \subseteq Channels
      BY DEF Admitted, Counted, Admits
    <3>2. Cardinality(Admitted') <= n
      BY <1>9, <3>1, FewerAreFewer
    <3>3. Cardinality(Admitted') \in Nat
      BY <3>1, FiniteSets
    <3>4. QED
      BY <1>3, <1>5, <2>1, <3>2, <3>3, LimitsAssumption
  <2>2. CASE ~Admits(r)
    <3>1. Admitted' = Admitted
      BY <1>6, <1>8, <2>2 DEF Admitted
    <3>2. QED
      BY <3>1 DEF LimitInv
  <2>3. QED
    BY <2>1, <2>2
<1>11. ASSUME NEW h \in Hosts PROVE CountedAt(h)' = CountedAt(h) /\ AdmittedAt(h)' = AdmittedAt(h)
  BY <1>5, <1>6, <1>8 DEF CountedAt, AdmittedAt
<1>12. QED
  BY <1>2, <1>7, <1>9, <1>10, <1>11 DEF LimitInv

\* The same for one host.
LEMMA CountHostKeeps == ASSUME LimitInv, NEW c \in Channels, CountHost(c) PROVE LimitInv'
<1>1. PICK g \in Hosts : g = HostOfChannel(c)
  <2>1. chan[c] \in Records
    BY DEF CountHost, InStage, LimitInv, Fine
  <2>2. QED
    BY <2>1 DEF HostOfChannel, Hosts, Records
<1> DEFINE n == perHostConnectionCount[g] + 1
           r == Channel("counted", "in", chan[c].peer, chan[c].total, n, FALSE, chan[c].owes)
<1>2. /\ chan[c] # Free /\ chan[c].stage = "arriving"
      /\ perHostConnectionCount' = [perHostConnectionCount EXCEPT ![g] = n]
      /\ Becomes(c, r)
      /\ UNCHANGED inboundConnectionCount
  BY <1>1 DEF CountHost, InStage
<1>3. chan[c] \in Records /\ chan[c].side = "in" /\ Counts(chan[c]) /\ Fine(chan[c])
  BY <1>2 DEF LimitInv, Fine
<1>4. n \in Nat
  BY <1>1 DEF LimitInv
<1>5. /\ r \in Records /\ r.side = "in" /\ r.owes = chan[c].owes /\ r.stage = "counted"
      /\ r.ofHost = n /\ r.peer = chan[c].peer /\ r.total = chan[c].total
  BY <1>3, <1>4 DEF Channel, Records, Stages, Sides
<1>6. r # Free /\ Counts(r) /\ Fine(r)
  <2>1. r # Free
    BY <1>5, FreeStage
  <2>2. QED
    BY <1>3, <1>5, <2>1 DEF Counts, Fine
<1>7. Admits(r) => Admits(chan[c])
  BY <1>2, <1>3, <1>5, <1>6 DEF Admits, Open
<1>8. ASSUME NEW h \in Hosts
      PROVE  /\ ~CountsAt(chan[c], h) /\ ~AdmitsAt(chan[c], h)
             /\ CountsAt(r, h) <=> h = g
             /\ AdmitsAt(r, h) => h = g /\ n <= MaxPerHost
  BY <1>1, <1>2, <1>3, <1>5, <1>6 DEF CountsAt, AdmitsAt, HostOfChannel, Open
<1> HIDE DEF r
<1>9. \A d \in Channels : chan'[d] = IF d = c THEN r ELSE chan[d]
  BY <1>2 DEF LimitInv, Becomes
<1>10. chan' = [d \in Channels |-> chan'[d]] /\ \A d \in Channels : Fine(chan'[d])
  BY <1>2, <1>6, <1>9 DEF LimitInv, Becomes
<1>11. Counted' = Counted
  BY <1>3, <1>6, <1>9 DEF Counted
<1>12. Cardinality(Admitted') <= MaxInbound
  <2>1. Admitted' \subseteq Admitted /\ Admitted \subseteq Channels
    BY <1>7, <1>9 DEF Admitted
  <2>2. QED
    BY <2>1, FewerAreFewer, FiniteSets, LimitsAssumption DEF LimitInv
<1>13. ASSUME NEW h \in Hosts, h # g
       PROVE  CountedAt(h)' = CountedAt(h) /\ AdmittedAt(h)' = AdmittedAt(h)
  BY <1>8, <1>9, <1>13 DEF CountedAt, AdmittedAt
<1>14. Cardinality(CountedAt(g)') = n
  <2>1. CountedAt(g)' = CountedAt(g) \cup {c} /\ c \notin CountedAt(g) /\ CountedAt(g) \subseteq Channels
    BY <1>8, <1>9 DEF CountedAt
  <2>2. QED
    BY <1>4, <2>1, FiniteSets, FS_AddElement DEF LimitInv
<1>15. Cardinality(AdmittedAt(g)') <= MaxPerHost
  <2>1. CASE AdmitsAt(r, g)
    <3>1. AdmittedAt(g)' \subseteq CountedAt(g)' /\ CountedAt(g)' \subseteq Channels
      BY DEF AdmittedAt, CountedAt, AdmitsAt
    <3>2. Cardinality(AdmittedAt(g)') <= n /\ Cardinality(AdmittedAt(g)') \in Nat
      BY <1>14, <3>1, FewerAreFewer, FiniteSets
    <3>3. QED
      BY <1>4, <1>8, <2>1, <3>2, LimitsAssumption
  <2>2. CASE ~AdmitsAt(r, g)
    <3>1. AdmittedAt(g)' = AdmittedAt(g)
      BY <1>8, <1>9, <2>2 DEF AdmittedAt
    <3>2. QED
      BY <3>1 DEF LimitInv
  <2>3. QED
    BY <2>1, <2>2
<1>16. perHostConnectionCount' \in [Hosts -> Nat]
       /\ \A h \in Hosts : perHostConnectionCount'[h] = IF h = g THEN n ELSE perHostConnectionCount[h]
  BY <1>2, <1>4 DEF LimitInv
<1>17. QED
  BY <1>2, <1>10, <1>11, <1>12, <1>13, <1>14, <1>15, <1>16 DEF LimitInv

\* dec takes back both counts of a channel, admitted or refused.
LEMMA UncountKeeps == ASSUME LimitInv, NEW c \in Channels, Uncount(c) PROVE LimitInv'
<1>1. chan[c] \in Records /\ Fine(chan[c]) /\ chan[c] # Free /\ chan[c].stage = "closed"
      /\ chan[c].owes # <<>> /\ Head(chan[c].owes) = "uncount"
  BY DEF Uncount, Owes, InStage, LimitInv, Fine
<1>1a. chan[c].owes \in Seq(Listeners) /\ chan[c].owes[1] = "uncount" /\ chan[c].side = "in"
  <2>1. chan[c].owes \in Seq(Listeners)
    BY <1>1 DEF Records
  <2>2. Head(chan[c].owes) = chan[c].owes[1]
    BY <1>1, <2>1
  <2>3. QED
    BY <1>1, <2>1, <2>2 DEF Fine, Owing
<1>2. PICK g \in Hosts : g = HostOfChannel(c)
  BY <1>1 DEF HostOfChannel, Hosts, Records
<1>2a. PICK t \in Seq(Listeners) :
         t = Tail(chan[c].owes) /\ \A i \in 1 .. Len(t) : t[i] # "uncount"
  <2>1. /\ Tail(chan[c].owes) \in Seq(Listeners)
        /\ \A i \in 1 .. Len(Tail(chan[c].owes)) :
              i + 1 \in 2 .. Len(chan[c].owes) /\ Tail(chan[c].owes)[i] = chan[c].owes[i + 1]
    BY <1>1, <1>1a
  <2>2. \A i \in 2 .. Len(chan[c].owes) : chan[c].owes[i] # "uncount"
    BY <1>1 DEF Fine, OnlyFirst
  <2>3. QED
    BY <2>1, <2>2
<1> DEFINE r == Channel("closed", chan[c].side, chan[c].peer, chan[c].total, chan[c].ofHost,
                        chan[c].cut, t)
<1>3. /\ Becomes(c, r)
      /\ inboundConnectionCount' = inboundConnectionCount - 1
      /\ perHostConnectionCount' = [perHostConnectionCount EXCEPT ![g] = perHostConnectionCount[g] - 1]
  BY <1>2a, <1>2 DEF Uncount, Paid, Moves
<1>4. Fine(r) /\ ~Counts(r)
  <2>1. r \in Records /\ r.owes = t /\ r.stage = "closed" /\ r.side = "in"
    BY <1>1, <1>1a, <1>2a DEF Channel, Records, Stages, Sides
  <2>2. ~Owing(t) /\ OnlyFirst(t)
    BY <1>2a DEF Owing, OnlyFirst
  <2>3. QED
    BY <2>1, <2>2 DEF Fine, Counts
<1>5. Counts(chan[c]) /\ CountsAt(chan[c], g) /\ (\A h : h # g => ~CountsAt(chan[c], h))
      /\ ~Admits(chan[c]) /\ \A h : ~AdmitsAt(chan[c], h)
  BY <1>1, <1>1a, <1>2 DEF Counts, Owing, CountsAt, Admits, AdmitsAt, HostOfChannel, Open
<1>6. ~Admits(r) /\ \A h : ~CountsAt(r, h) /\ ~AdmitsAt(r, h)
  BY <1>4 DEF Admits, CountsAt, AdmitsAt
<1> HIDE DEF r
<1>7. \A d \in Channels : chan'[d] = IF d = c THEN r ELSE chan[d]
  BY <1>3 DEF LimitInv, Becomes
<1>8. chan' = [d \in Channels |-> chan'[d]] /\ \A d \in Channels : Fine(chan'[d])
  BY <1>3, <1>4, <1>7 DEF LimitInv, Becomes
<1>9. inboundConnectionCount' = Cardinality(Counted')
  <2>1. Counted' = Counted \ {c} /\ c \in Counted /\ Counted \subseteq Channels
    BY <1>4, <1>5, <1>7 DEF Counted
  <2>2. QED
    BY <1>3, <2>1, FiniteSets, FS_RemoveElement DEF LimitInv
<1>10. Admitted' = Admitted /\ \A h \in Hosts : AdmittedAt(h)' = AdmittedAt(h)
  BY <1>5, <1>6, <1>7 DEF Admitted, AdmittedAt
<1>11. ASSUME NEW h \in Hosts, h # g PROVE CountedAt(h)' = CountedAt(h)
  BY <1>5, <1>6, <1>7, <1>11 DEF CountedAt
<1>12. Cardinality(CountedAt(g)') = perHostConnectionCount[g] - 1 /\ Cardinality(CountedAt(g)') \in Nat
  <2>1. CountedAt(g)' = CountedAt(g) \ {c} /\ c \in CountedAt(g) /\ CountedAt(g) \subseteq Channels
    BY <1>5, <1>6, <1>7 DEF CountedAt
  <2>2. QED
    BY <2>1, FiniteSets, FS_RemoveElement DEF LimitInv
<1>13. perHostConnectionCount' \in [Hosts -> Nat]
       /\ \A h \in Hosts : perHostConnectionCount'[h] = IF h = g THEN perHostConnectionCount[g] - 1
                                                       ELSE perHostConnectionCount[h]
  BY <1>3, <1>12 DEF LimitInv
<1>14. QED
  BY <1>8, <1>9, <1>10, <1>11, <1>12, <1>13 DEF LimitInv

-----------------------------------------------------------------------------
\* A step that no count is about.
LEMMA UncountedKeeps ==
  ASSUME LimitInv, NEW c \in Channels, NEW r, Becomes(c, r), Fine(r), ~Counts(r), ~Counts(chan[c]),
         UNCHANGED <<inboundConnectionCount, perHostConnectionCount>>
  PROVE  LimitInv'
<1>1. /\ ~Admits(r) /\ \A h \in Hosts : ~CountsAt(r, h) /\ ~AdmitsAt(r, h)
      /\ \A h \in Hosts : ~CountsAt(chan[c], h)
  BY DEF Admits, CountsAt, AdmitsAt
<1>2. QED
  BY <1>1, NeutralKeeps

\* A channel that moves on, without taking its count back or coming to be open.
LEMMA MovesKeep ==
  ASSUME LimitInv, NEW c \in Channels, InStage(c, Open \cup {"closed"}),
         NEW s \in Open \cup {"closed"}, s \in Open => chan[c].stage \in Open,
         NEW o \in Seq(Listeners), OnlyFirst(o), Owing(o) <=> Owing(chan[c].owes),
         Moves(c, s, o), UNCHANGED <<inboundConnectionCount, perHostConnectionCount>>
  PROVE  LimitInv'
<1> DEFINE r == Channel(s, chan[c].side, chan[c].peer, chan[c].total, chan[c].ofHost, chan[c].cut, o)
<1>1. /\ chan[c] \in Records /\ chan[c] # Free /\ Fine(chan[c])
      /\ chan[c].stage \in Open \cup {"closed"}
  BY DEF InStage, LimitInv, Fine
<1>2. /\ r \in Records /\ r.owes = o /\ r.stage = s /\ r.side = chan[c].side
      /\ r.peer = chan[c].peer
  BY <1>1 DEF Channel, Records, Stages
<1>2a. Becomes(c, r)
  BY DEF Moves
<1> HIDE DEF r
<1>3. r # Free
  BY <1>2, FreeStage
<1>4. Counts(r) <=> Counts(chan[c])
  BY <1>1, <1>2, <1>3 DEF Counts
<1>5. Fine(r)
  BY <1>1, <1>2, <1>3, <1>4 DEF Fine, Counts, Open
<1>6. Admits(r) => Admits(chan[c])
  BY <1>1, <1>2, <1>4 DEF Admits, Open
<1>6a. ASSUME NEW h \in Hosts PROVE CountsAt(r, h) <=> CountsAt(chan[c], h)
  BY <1>1, <1>2, <1>4 DEF CountsAt, Open
<1>6b. ASSUME NEW h \in Hosts PROVE AdmitsAt(r, h) => AdmitsAt(chan[c], h)
  BY <1>1, <1>2, <1>6a DEF AdmitsAt, Open
<1>8. QED
  BY <1>4, <1>5, <1>6, <1>6a, <1>6b, <1>2a, NeutralKeeps

LEMMA OtherwiseKeeps ==
  ASSUME LimitInv, UNCHANGED <<chan, inboundConnectionCount, perHostConnectionCount>>
  PROVE  LimitInv'
BY DEF LimitInv, Counted, CountedAt, Admitted, AdmittedAt

\* What a listener that is not the filter's leaves to be done.
LEMMA PaidKeeps ==
  ASSUME LimitInv, NEW c \in Channels, NEW l \in Listeners \ {"uncount"}, Owes(c, l), Paid(c),
         UNCHANGED <<inboundConnectionCount, perHostConnectionCount>>
  PROVE  LimitInv'
<1>1. /\ chan[c] \in Records /\ Fine(chan[c]) /\ chan[c].stage = "closed" /\ InStage(c, {"closed"})
      /\ chan[c].owes # <<>> /\ Head(chan[c].owes) = l
  BY DEF Owes, InStage, LimitInv, Fine
<1>2. chan[c].owes \in Seq(Listeners)
  BY <1>1 DEF Records
<1>3. PICK t \in Seq(Listeners) :
         t = Tail(chan[c].owes) /\ \A i \in 1 .. Len(t) : t[i] # "uncount"
  <2>1. /\ Tail(chan[c].owes) \in Seq(Listeners)
        /\ \A i \in 1 .. Len(Tail(chan[c].owes)) :
              i + 1 \in 2 .. Len(chan[c].owes) /\ Tail(chan[c].owes)[i] = chan[c].owes[i + 1]
    BY <1>1, <1>2
  <2>2. \A i \in 2 .. Len(chan[c].owes) : chan[c].owes[i] # "uncount"
    BY <1>1, FreeStage DEF Fine, OnlyFirst
  <2>3. QED
    BY <2>1, <2>2
<1>4. ~Owing(t) /\ OnlyFirst(t)
  BY <1>3, NoDecrement
<1>5. ~Owing(chan[c].owes)
  <2>1. Head(chan[c].owes) = chan[c].owes[1]
    BY <1>1, <1>2
  <2>2. QED
    BY <1>1, <2>1 DEF Owing
<1>6. Moves(c, "closed", t)
  BY <1>3 DEF Paid
<1>7. InStage(c, Open \cup {"closed"})
  BY <1>1 DEF InStage
<1>8. "closed" \in Open \cup {"closed"} /\ "closed" \notin Open
  BY DEF Open
<1>9. QED
  BY <1>4, <1>5, <1>6, <1>7, <1>8, MovesKeep

-----------------------------------------------------------------------------
(* The steps, one after another. *)

LEMMA DialKeeps ==
  ASSUME LimitInv, NEW a \in Addresses, connect(a),
         UNCHANGED <<inboundConnectionCount, perHostConnectionCount>>
  PROVE  LimitInv'
<1>1. CASE outgoingChannels[a] # None
  BY <1>1, OtherwiseKeeps DEF connect
<1>2. CASE outgoingChannels[a] = None
  <2>1. PICK c \in Channels :
           chan[c] = Free /\ Becomes(c, Channel("dialling", "out", a, 0, 0, FALSE, <<>>))
    BY <1>2 DEF connect
  <2> DEFINE r == Channel("dialling", "out", a, 0, 0, FALSE, <<>>)
  <2>2. /\ r \in Records /\ r.owes = <<>> /\ r.side = "out" /\ r.stage = "dialling"
        /\ OnlyFirst(<<>>) /\ ~Owing(<<>>)
    BY DEF Channel, Records, Stages, Sides, OnlyFirst, Owing
  <2>3. Fine(r) /\ ~Counts(r) /\ ~Counts(chan[c])
    BY <2>1, <2>2 DEF Fine, Counts
  <2> HIDE DEF r
  <2>4. QED
    BY <2>1, <2>3, UncountedKeeps DEF r
<1>3. QED
  BY <1>1, <1>2

LEMMA DialledKeeps ==
  ASSUME LimitInv, NEW c \in Channels, DialFails(c) \/ DialSucceeds(c) \/ DialIsCut(c)
  PROVE  LimitInv'
<1>1. /\ chan[c] \in Records /\ chan[c].side = "out" /\ ~Counts(chan[c])
      /\ UNCHANGED <<inboundConnectionCount, perHostConnectionCount>>
  BY DEF DialFails, DialSucceeds, DialIsCut, InStage, LimitInv, Fine, Counts, bookVars
<1>2. Fine(Free) /\ ~Counts(Free)
  BY DEF Fine, Counts
<1>3. ASSUME NEW o \in Seq(Listeners), NEW cut \in BOOLEAN, NEW n \in Nat, NEW k \in Nat,
             OnlyFirst(o), ~Owing(o)
      PROVE  /\ Fine(Channel("open", "out", chan[c].peer, n, k, cut, o))
             /\ ~Counts(Channel("open", "out", chan[c].peer, n, k, cut, o))
  <2> DEFINE r == Channel("open", "out", chan[c].peer, n, k, cut, o)
  <2>1. r \in Records /\ r.owes = o /\ r.side = "out" /\ r.stage = "open"
    BY <1>1, <1>3 DEF Channel, Records, Stages, Open
  <2> HIDE DEF r
  <2>2. Fine(r) /\ ~Counts(r)
    BY <1>3, <2>1 DEF Fine, Counts
  <2>3. QED
    BY <2>2 DEF r
<1>4. /\ <<"forget", "suspend">> \in Seq(Listeners) /\ <<>> \in Seq(Listeners)
      /\ OnlyFirst(<<"forget", "suspend">>) /\ ~Owing(<<"forget", "suspend">>)
      /\ OnlyFirst(<<>>) /\ ~Owing(<<>>)
  BY DEF Listeners, OnlyFirst, Owing
<1>5. CASE DialFails(c)
  BY <1>1, <1>2, <1>5, UncountedKeeps DEF DialFails
<1>6. CASE DialSucceeds(c)
  <2> DEFINE r == Channel("open", "out", chan[c].peer, chan[c].total, chan[c].ofHost,
                          chan[c].cut, <<"forget", "suspend">>)
  <2>1. Becomes(c, r)
    BY <1>1, <1>6 DEF DialSucceeds, Moves
  <2>2. Fine(r) /\ ~Counts(r)
    BY <1>1, <1>3, <1>4 DEF Records
  <2> HIDE DEF r
  <2>3. QED
    BY <1>1, <2>1, <2>2, UncountedKeeps
<1>7. CASE DialIsCut(c)
  <2> DEFINE r == Channel("open", "out", chan[c].peer, 0, 0, TRUE, <<>>)
  <2>1. Becomes(c, r)
    BY <1>7 DEF DialIsCut
  <2>2. Fine(r) /\ ~Counts(r)
    BY <1>3, <1>4
  <2> HIDE DEF r
  <2>3. QED
    BY <1>1, <2>1, <2>2, UncountedKeeps
<1>8. QED
  BY <1>5, <1>6, <1>7

\* The channel that accept lets in was admitted already; that is what the
\* limits it looks at say.
LEMMA JudgeKeeps == ASSUME LimitInv, NEW c \in Channels, Judge(c) PROVE LimitInv'
<1> DEFINE s == IF WithinLimits(c) THEN "open" ELSE "closed"
           r == Channel(s, "in", chan[c].peer, 0, 0, FALSE, chan[c].owes)
<1>1. /\ chan[c] \in Records /\ Fine(chan[c]) /\ chan[c].side = "in" /\ Counts(chan[c])
      /\ chan[c].stage = "counted" /\ Becomes(c, r)
      /\ UNCHANGED <<inboundConnectionCount, perHostConnectionCount>>
  BY DEF Judge, InStage, LimitInv, Fine, bookVars
<1>2. /\ r \in Records /\ r.owes = chan[c].owes /\ r.side = "in" /\ r.peer = chan[c].peer
      /\ (r.stage = "open" /\ WithinLimits(c)) \/ r.stage = "closed"
  BY <1>1 DEF Channel, Records, Stages, Open
<1> HIDE DEF r
<1>3. r # Free
  BY <1>2, FreeStage
<1>4. Counts(r)
  BY <1>1, <1>2, <1>3 DEF Counts
<1>5. Fine(r)
  <2>1. OnlyFirst(chan[c].owes)
    BY <1>1 DEF Fine, Counts
  <2>2. QED
    BY <1>2, <1>4, <2>1 DEF Fine
<1>6. Admits(r) => Admits(chan[c])
  BY <1>1, <1>2 DEF Admits, Open, WithinLimits
<1>7. ASSUME NEW h \in Hosts PROVE CountsAt(r, h) <=> CountsAt(chan[c], h)
  BY <1>1, <1>2, <1>4 DEF CountsAt
<1>8. ASSUME NEW h \in Hosts PROVE AdmitsAt(r, h) => AdmitsAt(chan[c], h)
  BY <1>1, <1>2, <1>7 DEF AdmitsAt, Open, WithinLimits
<1>9. QED
  BY <1>1, <1>4, <1>5, <1>6, <1>7, <1>8, NeutralKeeps

\* An open channel comes to its end, or is established with listeners that are
\* not the filter's.
LEMMA HandshakeKeeps == ASSUME LimitInv, NEW c \in Channels, Handshake(c) PROVE LimitInv'
<1>1. /\ chan[c] \in Records /\ Fine(chan[c]) /\ chan[c] # Free
      /\ chan[c].stage \in Open /\ chan[c].stage # "dialling"
      /\ InStage(c, Open \cup {"closed"})
      /\ UNCHANGED <<inboundConnectionCount, perHostConnectionCount>>
  BY DEF Handshake, InStage, LimitInv, Fine, Open
<1>2. chan[c].owes \in Seq(Listeners) /\ OnlyFirst(chan[c].owes)
      /\ (Owing(chan[c].owes) <=> chan[c].side = "in")
  BY <1>1 DEF Records, Fine, Counts, Open
<1>3. CASE previousPeer(c) # None
  <2>1. Moves(c, "closed", chan[c].owes)
    BY <1>3 DEF Handshake
  <2>2. QED
    BY <1>1, <1>2, <2>1, MovesKeep
<1>4. CASE previousPeer(c) = None
  <2>1. PICK l \in Seq(Listeners) :
           /\ Moves(c, "established", chan[c].owes \o l)
           /\ l = <<"unkey", "leave">> \/ l = <<"unkey">>
    <3>1. <<"unkey", "leave">> \in Seq(Listeners) /\ <<"unkey">> \in Seq(Listeners)
      BY DEF Listeners
    <3>2. QED
      BY <1>4, <3>1 DEF Handshake, Negotiated
  <2>2. \A i \in 1 .. Len(l) : l[i] # "uncount"
    <3>1. CASE l = <<"unkey", "leave">>
      BY <3>1
    <3>2. CASE l = <<"unkey">>
      BY <3>2
    <3>3. QED
      BY <2>1, <3>1, <3>2
  <2>3. PICK o \in Seq(Listeners) : o = chan[c].owes \o l
    <3>1. chan[c].owes \o l \in Seq(Listeners)
      BY <1>2
    <3>2. QED
      BY <3>1
  <2>4. OnlyFirst(o) /\ (Owing(o) <=> Owing(chan[c].owes))
    BY <1>2, <2>2, <2>3, OwedLater
  <2>5. "established" \in Open \cup {"closed"}
    BY DEF Open
  <2>6. QED
    BY <1>1, <2>1, <2>3, <2>4, <2>5, MovesKeep
<1>5. QED
  BY <1>3, <1>4

\* A handshake that fails, a message that is refused or a close: the channel is
\* closed, or stays open, and established only if it was.
LEMMA EndMoves ==
  ASSUME NEW c \in Channels,
         HandshakeFails(c) \/ HandshakeTimeout(c) \/ Misbehaves(c) \/ Closes(c)
  PROVE  \E s \in Open \cup {"closed"} :
            /\ Moves(c, s, chan[c].owes)
            /\ s = "established" => chan[c].stage = s
            /\ chan[c].stage = "established" => s \in {"established", "closed"}
<1>1. CASE HandshakeFails(c)
  <2>1. PICK otherwise \in {"stuck", chan[c].stage} : BlacklistAndClose(c, otherwise)
    BY <1>1 DEF HandshakeFails
  <2>2. chan[c].stage \in {"open", "late"}
    BY <1>1 DEF HandshakeFails, InStage
  <2>3. otherwise \in Open /\ otherwise # "established"
    BY <2>1, <2>2 DEF Open
  <2>4. Moves(c, "closed", chan[c].owes) \/ Moves(c, otherwise, chan[c].owes)
    BY <2>1 DEF BlacklistAndClose
  <2>5. QED
    BY <2>2, <2>3, <2>4
<1>2. CASE HandshakeTimeout(c) \/ Misbehaves(c) \/ Closes(c)
  BY <1>2 DEF HandshakeTimeout, Misbehaves, Closes, BlacklistAndClose, InStage, Open
<1>3. QED
  BY <1>1, <1>2

\* A channel that is closed, or one whose ban an exception cut short.
LEMMA EndKeeps ==
  ASSUME LimitInv, NEW c \in Channels,
         HandshakeFails(c) \/ HandshakeTimeout(c) \/ Misbehaves(c) \/ Closes(c)
  PROVE  LimitInv'
<1>1. /\ chan[c] \in Records /\ Fine(chan[c]) /\ chan[c] # Free /\ chan[c].stage \in Open
      /\ InStage(c, Open \cup {"closed"})
      /\ UNCHANGED <<inboundConnectionCount, perHostConnectionCount>>
  BY DEF HandshakeFails, HandshakeTimeout, Misbehaves, Closes, BlacklistAndClose, InStage, LimitInv,
         Fine, Open, bookVars
<1>2. PICK s \in Open \cup {"closed"} : Moves(c, s, chan[c].owes)
  BY EndMoves
<1>3. chan[c].owes \in Seq(Listeners) /\ OnlyFirst(chan[c].owes)
  BY <1>1 DEF Records, Fine
<1>4. QED
  BY <1>1, <1>2, <1>3, MovesKeep

LEMMA ListenerKeeps ==
  ASSUME LimitInv, NEW c \in Channels, Forget(c) \/ Suspend(c) \/ Unkey(c) \/ Leave(c)
  PROVE  LimitInv'
<1>1. PICK l \in Listeners \ {"uncount"} : Owes(c, l)
  BY DEF Forget, Suspend, Unkey, Leave, Listeners
<1>2. Paid(c) /\ UNCHANGED <<inboundConnectionCount, perHostConnectionCount>>
  BY DEF Forget, Suspend, Unkey, Leave, bookVars
<1>3. QED
  BY <1>1, <1>2, PaidKeeps

LEMMA VanishesKeeps == ASSUME LimitInv, NEW c \in Channels, Vanishes(c) PROVE LimitInv'
<1>1. ~Counts(chan[c]) /\ Becomes(c, Free)
      /\ UNCHANGED <<inboundConnectionCount, perHostConnectionCount>>
  BY DEF Vanishes, Counts, Owing
<1>2. Fine(Free) /\ ~Counts(Free)
  BY DEF Fine, Counts
<1>3. QED
  BY <1>1, <1>2, UncountedKeeps

LEMMA LimitNext == LimitInv /\ [Next]_vars => LimitInv'
<1> SUFFICES ASSUME LimitInv, [Next]_vars PROVE LimitInv'
  OBVIOUS
<1>1. CASE \/ TaskDraws \/ TaskDies \/ TaskTakes \/ Forgotten \/ Shutdown \/ UNCHANGED vars
           \/ \E c \in Channels : KnownPeersArrive(c) \/ MessageTouches(c)
  <2>1. UNCHANGED <<chan, inboundConnectionCount, perHostConnectionCount>>
    BY <1>1 DEF TaskDraws, TaskDies, TaskTakes, Forgotten, Shutdown, KnownPeersArrive,
                MessageTouches, bookVars, vars
  <2>2. QED
    BY <2>1, OtherwiseKeeps
<1>2. CASE ConnectApi
  BY <1>2, DialKeeps DEF ConnectApi
<1>3. CASE TaskConnects
  BY <1>3, DialKeeps DEF TaskConnects
<1>4. ASSUME NEW c \in Channels, DialFails(c) \/ DialSucceeds(c) \/ DialIsCut(c) PROVE LimitInv'
  BY <1>4, DialledKeeps
<1>5. ASSUME NEW c \in Channels, CountTotal(c) \/ CountHost(c) \/ Judge(c) \/ Uncount(c)
      PROVE  LimitInv'
  BY <1>5, CountTotalKeeps, CountHostKeeps, JudgeKeeps, UncountKeeps
<1>6. ASSUME NEW c \in Channels,
             Handshake(c) \/ HandshakeFails(c) \/ HandshakeTimeout(c) \/ Misbehaves(c) \/ Closes(c)
      PROVE  LimitInv'
  BY <1>6, HandshakeKeeps, EndKeeps
<1>7. ASSUME NEW c \in Channels,
             Forget(c) \/ Suspend(c) \/ Unkey(c) \/ Leave(c) \/ Vanishes(c)
      PROVE  LimitInv'
  BY <1>7, ListenerKeeps, VanishesKeeps
<1>8. QED
  BY <1>1, <1>2, <1>3, <1>4, <1>5, <1>6, <1>7 DEF Next, ConnectTask

\* What is open was admitted.
LEMMA LimitMeans == LimitInv => InboundBounded
<1> SUFFICES ASSUME LimitInv PROVE InboundBounded
  OBVIOUS
<1>1. ASSUME NEW c \in Inbound
      PROVE  /\ c \in Channels /\ Admits(chan[c])
             /\ \A h \in Hosts : HostOfChannel(c) = h => AdmitsAt(chan[c], h)
  <2>1. /\ c \in Channels /\ chan[c] # Free /\ chan[c].stage \in Open /\ chan[c].side = "in"
    BY <1>1 DEF Inbound, InStage
  <2>2. Counts(chan[c])
    BY <2>1 DEF LimitInv, Fine, Open
  <2>3. QED
    BY <2>1, <2>2 DEF Admits, AdmitsAt, CountsAt, HostOfChannel, Open
<1>2. Inbound \subseteq Admitted /\ Admitted \subseteq Channels
  BY <1>1 DEF Admitted
<1>3. Cardinality(Inbound) <= MaxInbound
  BY <1>2, FewerAreFewer, FiniteSets, LimitsAssumption DEF LimitInv
<1>4. ASSUME NEW h \in Hosts
      PROVE  Cardinality({c \in Inbound : HostOfChannel(c) = h}) <= MaxPerHost
  <2>1. {c \in Inbound : HostOfChannel(c) = h} \subseteq AdmittedAt(h) /\ AdmittedAt(h) \subseteq Channels
    BY <1>1 DEF AdmittedAt
  <2>2. QED
    BY <2>1, FewerAreFewer, FiniteSets, LimitsAssumption DEF LimitInv
<1>5. QED
  BY <1>3, <1>4 DEF InboundBounded

\* The open inbound channels never exceed the limits of the settings, in all or
\* from one host, although accept counts and looks in two steps and any number
\* of event loops do so at once (InboundConnectionFilter.accept).
THEOREM InboundBoundedAlways == Spec => []InboundBounded
<1>1. Init => LimitInv
  BY LimitInit
<1>2. LimitInv /\ [Next]_vars => LimitInv'
  BY LimitNext
<1>3. LimitInv => InboundBounded
  BY LimitMeans
<1>4. QED
  BY <1>1, <1>2, <1>3, PTL DEF Spec

-----------------------------------------------------------------------------
(* The books of the server, and what each channel owes to take back.        *)

Due(owes) == {owes[i] : i \in 1 .. Len(owes)}

Owed(r, listener) == r # Free /\ listener \in Due(r.owes)

Distinct(owes) == \A i, j \in 1 .. Len(owes) : owes[i] = owes[j] => i = j

\* Which listeners are there at which stage.
Tidy(r) ==
    \/ r = Free
    \/ /\ Distinct(r.owes)
       /\ r.stage \notin {"established", "closed"} => Due(r.owes) \cap {"unkey", "leave"} = {}
       /\ r.stage = "established" => "unkey" \in Due(r.owes)
       /\ r.stage = "dialling" => r.owes = <<>>
       /\ r.side = "out" /\ r.stage \in Open => r.cut \/ "forget" \in Due(r.owes)
       /\ "forget" \in Due(r.owes) => r.side = "out"

\* An entry of outgoingChannels that may refer to this channel.
Dialled(r, a) ==
    /\ r # Free /\ r.side = "out" /\ r.peer = a
    /\ r.cut \/ r.stage = "dialling" \/ "forget" \in Due(r.owes)

\* A channel that an entry must refer to.
Live(r) == r # Free /\ r.side = "out" /\ r.stage \in {"dialling"} \cup Open

Debtors(listener) == {c \in Channels : Owed(chan[c], listener)}

OutgoingInv == outgoingChannelCount = Cardinality(Debtors("forget"))

KeysInv ==
    /\ connections \in [Sides -> [Addresses -> Channels \cup {None}]]
    /\ \A s \in Sides, a \in Addresses :
          connections[s][a] # None =>
             /\ Owed(chan[connections[s][a]], "unkey")
             /\ chan[connections[s][a]].side = s /\ chan[connections[s][a]].peer = a
    /\ \A c \in Debtors("unkey") : connections[chan[c].side][chan[c].peer] = c
    /\ peerInfo = Debtors("unkey")

AllInv == allChannels \subseteq Debtors("forget") \cup Debtors("leave")

DialsInv ==
    /\ outgoingChannels \in [Addresses -> Channels \cup {None, Gone}]
    /\ \A a \in Addresses :
          outgoingChannels[a] \in Channels => Dialled(chan[outgoingChannels[a]], a)
    /\ \A c \in Channels : Live(chan[c]) => outgoingChannels[chan[c].peer] = c

BookInv ==
    /\ \A c \in Channels : Tidy(chan[c])
    /\ OutgoingInv /\ KeysInv /\ AllInv /\ DialsInv

LEMMA DueListeners ==
  ASSUME NEW o \in Seq(Listeners) PROVE Due(o) \subseteq Listeners
  BY DEF Due

LEMMA DueShort ==
  /\ Due(<<>>) = {} /\ Distinct(<<>>)
  /\ \A x : Due(<<x>>) = {x} /\ Distinct(<<x>>)
  /\ \A x, y : x # y => Due(<<x, y>>) = {x, y} /\ Distinct(<<x, y>>)
  BY DEF Due, Distinct

LEMMA DueMore ==
  ASSUME NEW o \in Seq(Listeners), NEW p \in Seq(Listeners), Distinct(o), Distinct(p),
         Due(o) \cap Due(p) = {}
  PROVE  Due(o \o p) = Due(o) \cup Due(p) /\ Distinct(o \o p)
<1> DEFINE m == Len(o)
           n == Len(p)
<1>1. /\ m \in Nat /\ n \in Nat /\ Len(o \o p) = m + n
      /\ \A i \in 1 .. m + n : (o \o p)[i] = IF i <= m THEN o[i] ELSE p[i - m]
  OBVIOUS
<1>2. \A i \in 1 .. m + n : \/ i \in 1 .. m /\ (o \o p)[i] = o[i] /\ o[i] \in Due(o)
                            \/ i - m \in 1 .. n /\ (o \o p)[i] = p[i - m] /\ p[i - m] \in Due(p)
  <2> SUFFICES ASSUME NEW i \in 1 .. m + n
               PROVE  \/ i \in 1 .. m /\ (o \o p)[i] = o[i] /\ o[i] \in Due(o)
                      \/ i - m \in 1 .. n /\ (o \o p)[i] = p[i - m] /\ p[i - m] \in Due(p)
    OBVIOUS
  <2>1. CASE i <= m
    BY <1>1, <2>1 DEF Due
  <2>2. CASE ~(i <= m)
    <3>1. i - m \in 1 .. n
      BY <1>1, <2>2
    <3>2. QED
      BY <1>1, <2>2, <3>1 DEF Due
  <2>3. QED
    BY <2>1, <2>2
<1>3. Due(o \o p) \subseteq Due(o) \cup Due(p)
  BY <1>1, <1>2 DEF Due
<1>4. Due(o) \subseteq Due(o \o p)
  <2> SUFFICES ASSUME NEW i \in 1 .. m PROVE o[i] \in Due(o \o p)
    BY DEF Due
  <2>1. i \in 1 .. m + n /\ (o \o p)[i] = o[i]
    BY <1>1
  <2>2. QED
    BY <1>1, <2>1 DEF Due
<1>5. Due(p) \subseteq Due(o \o p)
  <2> SUFFICES ASSUME NEW i \in 1 .. n PROVE p[i] \in Due(o \o p)
    BY DEF Due
  <2>1. i + m \in 1 .. m + n /\ ~(i + m <= m) /\ (i + m) - m = i
    BY <1>1
  <2>2. (o \o p)[i + m] = p[i]
    BY <1>1, <2>1
  <2>3. QED
    BY <1>1, <2>1, <2>2 DEF Due
<1>6. Distinct(o \o p)
  <2> SUFFICES ASSUME NEW i \in 1 .. m + n, NEW j \in 1 .. m + n, (o \o p)[i] = (o \o p)[j]
               PROVE  i = j
    BY <1>1 DEF Distinct
  <2>1. \/ i \in 1 .. m /\ j \in 1 .. m /\ o[i] = o[j]
        \/ i - m \in 1 .. n /\ j - m \in 1 .. n /\ p[i - m] = p[j - m]
    BY <1>2
  <2>2. CASE i \in 1 .. m /\ j \in 1 .. m /\ o[i] = o[j]
    BY <2>2 DEF Distinct
  <2>3. CASE i - m \in 1 .. n /\ j - m \in 1 .. n /\ p[i - m] = p[j - m]
    <3>1. i - m = j - m
      BY <2>3 DEF Distinct
    <3>2. QED
      BY <1>1, <3>1
  <2>4. QED
    BY <2>1, <2>2, <2>3
<1>7. QED
  BY <1>3, <1>4, <1>5, <1>6

LEMMA DuePaid ==
  ASSUME NEW o \in Seq(Listeners), o # <<>>, Distinct(o)
  PROVE  /\ Tail(o) \in Seq(Listeners) /\ Distinct(Tail(o))
         /\ Head(o) \in Due(o) /\ Due(Tail(o)) = Due(o) \ {Head(o)}
<1>1. /\ Len(o) \in Nat \ {0} /\ Head(o) = o[1] /\ Tail(o) \in Seq(Listeners)
      /\ Len(Tail(o)) = Len(o) - 1
      /\ \A i \in 1 .. Len(o) - 1 : Tail(o)[i] = o[i + 1] /\ i + 1 \in 1 .. Len(o) /\ i + 1 # 1
  OBVIOUS
<1>2. Head(o) \in Due(o)
  BY <1>1 DEF Due
<1>3. Distinct(Tail(o))
  BY <1>1 DEF Distinct
<1>4. Due(Tail(o)) \subseteq Due(o) \ {Head(o)}
  <2> SUFFICES ASSUME NEW i \in 1 .. Len(o) - 1 PROVE o[i + 1] \in Due(o) /\ o[i + 1] # o[1]
    BY <1>1 DEF Due
  <2>1. i + 1 \in 1 .. Len(o) /\ i + 1 # 1 /\ 1 \in 1 .. Len(o)
    BY <1>1
  <2>2. QED
    BY <2>1 DEF Due, Distinct
<1>5. Due(o) \ {Head(o)} \subseteq Due(Tail(o))
  <2> SUFFICES ASSUME NEW j \in 1 .. Len(o), j # 1 PROVE o[j] \in Due(Tail(o))
    BY <1>1 DEF Due
  <2>1. j - 1 \in 1 .. Len(o) - 1 /\ (j - 1) + 1 = j
    BY <1>1
  <2>2. Tail(o)[j - 1] = o[j]
    BY <1>1, <2>1
  <2>3. QED
    BY <1>1, <2>1, <2>2 DEF Due
<1>6. QED
  BY <1>1, <1>2, <1>3, <1>4, <1>5

LEMMA BookInit == Init => BookInv
<1> SUFFICES ASSUME Init PROVE BookInv
  OBVIOUS
<1>1. (\A c \in Channels : chan[c] = Free) /\ \A l : Debtors(l) = {}
  BY DEF Init, Debtors, Owed
<1>2. OutgoingInv
  BY <1>1, FS_EmptySet DEF Init, OutgoingInv
<1>3. KeysInv
  BY <1>1 DEF Init, KeysInv
<1>4. AllInv
  BY DEF Init, AllInv
<1>5. DialsInv
  BY <1>1, LimitsAssumption DEF Init, DialsInv, Live
<1>6. QED
  BY <1>1, <1>2, <1>3, <1>4, <1>5 DEF BookInv, Tidy

(* One channel changes: what each book needs in order to stay as it is. *)

Change(c, r) == \A d \in Channels : chan'[d] = IF d = c THEN r ELSE chan[d]

LEMMA BecomesChanges == ASSUME LimitInv, NEW c \in Channels, NEW r, Becomes(c, r) PROVE Change(c, r)
  BY DEF LimitInv, Becomes, Change

LEMMA DebtorsAfter ==
  ASSUME NEW c \in Channels, NEW r, Change(c, r), NEW l
  PROVE  Debtors(l)' = IF Owed(r, l) THEN Debtors(l) \cup {c} ELSE Debtors(l) \ {c}
  BY DEF Change, Debtors

LEMMA OutgoingSame ==
  ASSUME OutgoingInv, NEW c \in Channels, NEW r, Change(c, r), UNCHANGED outgoingChannelCount,
         Owed(r, "forget") <=> Owed(chan[c], "forget")
  PROVE  OutgoingInv'
<1>1. Debtors("forget")' = Debtors("forget")
  BY DebtorsAfter DEF Debtors
<1>2. QED
  BY <1>1 DEF OutgoingInv

LEMMA KeysSame ==
  ASSUME KeysInv, NEW c \in Channels, NEW r, Change(c, r), UNCHANGED <<connections, peerInfo>>,
         Owed(r, "unkey") <=> Owed(chan[c], "unkey"),
         Owed(r, "unkey") => r.side = chan[c].side /\ r.peer = chan[c].peer
  PROVE  KeysInv'
<1>1. Debtors("unkey")' = Debtors("unkey")
  BY DebtorsAfter DEF Debtors
<1>2. ASSUME NEW s \in Sides, NEW a \in Addresses, connections[s][a] # None
      PROVE  /\ Owed(chan'[connections[s][a]], "unkey")
             /\ chan'[connections[s][a]].side = s /\ chan'[connections[s][a]].peer = a
  <2>1. connections[s][a] \in Channels
    BY <1>2 DEF KeysInv
  <2>2. QED
    BY <1>2, <2>1 DEF KeysInv, Change
<1>3. ASSUME NEW d \in Debtors("unkey") PROVE connections[chan'[d].side][chan'[d].peer] = d
  BY <1>3 DEF KeysInv, Change, Debtors
<1>4. QED
  BY <1>1, <1>2, <1>3 DEF KeysInv

LEMMA AllSame ==
  ASSUME AllInv, NEW c \in Channels, NEW r, Change(c, r), UNCHANGED allChannels,
         Owed(chan[c], "forget") \/ Owed(chan[c], "leave") => Owed(r, "forget") \/ Owed(r, "leave")
  PROVE  AllInv'
  BY DEF AllInv, Change, Debtors

LEMMA DialsSame ==
  ASSUME DialsInv, NEW c \in Channels, NEW r, Change(c, r), UNCHANGED outgoingChannels,
         \A a \in Addresses : Dialled(chan[c], a) => Dialled(r, a),
         Live(r) => Live(chan[c]) /\ r.peer = chan[c].peer
  PROVE  DialsInv'
  BY DEF DialsInv, Change

\* A step of a channel that no book of the server is about.
LEMMA BookSame ==
  ASSUME LimitInv, BookInv, NEW c \in Channels, NEW r, Becomes(c, r), Tidy(r),
         UNCHANGED <<outgoingChannels, outgoingChannelCount, connections, peerInfo, allChannels>>,
         \A l \in {"forget", "unkey", "leave"} : Owed(r, l) <=> Owed(chan[c], l),
         Owed(r, "unkey") => r.side = chan[c].side /\ r.peer = chan[c].peer,
         \A a \in Addresses : Dialled(chan[c], a) => Dialled(r, a),
         Live(r) => Live(chan[c]) /\ r.peer = chan[c].peer
  PROVE  BookInv'
<1>1. Change(c, r)
  BY BecomesChanges
<1>2. OutgoingInv' /\ KeysInv' /\ AllInv' /\ DialsInv'
  BY <1>1, OutgoingSame, KeysSame, AllSame, DialsSame DEF BookInv
<1>3. \A d \in Channels : Tidy(chan'[d])
  BY <1>1 DEF BookInv, Change
<1>4. QED
  BY <1>2, <1>3 DEF BookInv

LEMMA BookOtherwise ==
  ASSUME BookInv,
         UNCHANGED <<chan, outgoingChannels, outgoingChannelCount, connections, peerInfo, allChannels>>
  PROVE  BookInv'
BY DEF BookInv, OutgoingInv, KeysInv, AllInv, DialsInv, Debtors

LEMMA InStageMeans ==
  ASSUME LimitInv, BookInv, NEW c \in Channels, NEW S, InStage(c, S)
  PROVE  /\ chan[c] # Free /\ chan[c] \in Records /\ Tidy(chan[c]) /\ chan[c].stage \in S
         /\ chan[c].owes \in Seq(Listeners)
BY DEF InStage, LimitInv, Fine, BookInv, Records

\* accept, from its first count to its judgement
LEMMA AcceptBooks ==
  ASSUME LimitInv, BookInv, NEW c \in Channels, CountTotal(c) \/ CountHost(c) \/ Judge(c)
  PROVE  BookInv'
<1>1. UNCHANGED <<outgoingChannels, outgoingChannelCount, connections, peerInfo, allChannels>>
  BY DEF CountTotal, CountHost, Judge, bookVars
<1>2. CASE CountTotal(c)
  <2>1. PICK r : /\ Becomes(c, r) /\ r # Free /\ r.side = "in" /\ r.stage = "arriving"
                 /\ r.owes = <<"uncount">>
    <3>1. PICK a \in Addresses :
             Becomes(c, Channel("arriving", "in", a, inboundConnectionCount + 1, 0, FALSE, <<"uncount">>))
      BY <1>2 DEF CountTotal
    <3>2. QED
      BY <3>1 DEF Channel, Free
  <2>2. Due(r.owes) = {"uncount"} /\ Distinct(r.owes)
    BY <2>1, DueShort
  <2>3. Tidy(r) /\ ~Live(r) /\ \A l \in {"forget", "unkey", "leave"} : ~Owed(r, l)
    BY <2>1, <2>2 DEF Tidy, Live, Owed, Open
  <2>4. chan[c] = Free
    BY <1>2 DEF CountTotal
  <2>5. QED
    BY <1>1, <2>1, <2>3, <2>4, BookSame DEF Owed, Dialled
<1>3. CASE CountHost(c) \/ Judge(c)
  <2>1. /\ chan[c] # Free /\ Tidy(chan[c]) /\ chan[c].stage \in {"arriving", "counted"}
        /\ chan[c].side = "in"
    BY <1>3 DEF CountHost, Judge, InStage, LimitInv, Fine, BookInv
  <2>2. PICK r : /\ Becomes(c, r) /\ r # Free /\ r.side = "in" /\ r.stage \in {"counted", "open", "closed"}
                 /\ r.owes = chan[c].owes /\ r.peer = chan[c].peer
    <3>1. ASSUME NEW s \in {"counted", "open", "closed"}, NEW n, NEW k,
                 Becomes(c, Channel(s, "in", chan[c].peer, n, k, FALSE, chan[c].owes))
          PROVE  \E r : /\ Becomes(c, r) /\ r # Free /\ r.side = "in" /\ r.stage \in {"counted", "open", "closed"}
                        /\ r.owes = chan[c].owes /\ r.peer = chan[c].peer
      BY <3>1 DEF Channel, Free
    <3>2. QED
      BY <1>3, <3>1 DEF CountHost, Judge
  <2>3. Tidy(r) /\ ~Live(r)
    BY <2>1, <2>2 DEF Tidy, Live
  <2>4. \A l \in {"forget", "unkey", "leave"} : Owed(r, l) <=> Owed(chan[c], l)
    BY <2>1, <2>2 DEF Owed
  <2>5. \A a : ~Dialled(chan[c], a)
    BY <2>1 DEF Dialled
  <2>6. QED
    BY <1>1, <2>1, <2>2, <2>3, <2>4, <2>5, BookSame
<1>4. QED
  BY <1>2, <1>3

\* A channel that stays open or ends, with what it owes.
LEMMA EndBooks ==
  ASSUME LimitInv, BookInv, NEW c \in Channels, InStage(c, Open),
         NEW s \in Open \cup {"closed"}, s = "established" => chan[c].stage = s,
         chan[c].stage = "established" => s \in {"established", "closed"},
         Moves(c, s, chan[c].owes),
         UNCHANGED <<outgoingChannels, outgoingChannelCount, connections, peerInfo, allChannels>>
  PROVE  BookInv'
<1>1. chan[c] # Free /\ Tidy(chan[c]) /\ chan[c].stage \in Open
  BY InStageMeans
<1>2. PICK r : /\ Becomes(c, r) /\ r # Free /\ r.side = chan[c].side /\ r.stage = s
               /\ r.owes = chan[c].owes /\ r.peer = chan[c].peer /\ r.cut = chan[c].cut
  BY DEF Moves, Channel, Free
<1>3. Tidy(r)
  BY <1>1, <1>2 DEF Tidy, Open
<1>4. /\ \A l \in {"forget", "unkey", "leave"} : Owed(r, l) <=> Owed(chan[c], l)
      /\ \A a \in Addresses : Dialled(chan[c], a) => Dialled(r, a)
      /\ Live(r) => Live(chan[c])
  BY <1>1, <1>2 DEF Owed, Dialled, Live, Open
<1>5. QED
  BY <1>2, <1>3, <1>4, BookSame

\* What a listener leaves due.
LEMMA PaidMeans ==
  ASSUME LimitInv, BookInv, NEW c \in Channels, NEW l, Owes(c, l), Paid(c)
  PROVE  /\ chan[c] # Free /\ chan[c] \in Records /\ chan[c].stage = "closed" /\ Tidy(chan[c])
         /\ Owed(chan[c], l)
         /\ \E r : /\ Becomes(c, r) /\ r # Free /\ r.side = chan[c].side /\ r.peer = chan[c].peer
                   /\ r.stage = "closed" /\ r.cut = chan[c].cut /\ Tidy(r)
                   /\ Due(r.owes) = Due(chan[c].owes) \ {l}
<1>1. /\ chan[c] # Free /\ chan[c] \in Records /\ chan[c].stage = "closed" /\ Tidy(chan[c])
      /\ chan[c].owes \in Seq(Listeners) /\ chan[c].owes # <<>> /\ Head(chan[c].owes) = l
  BY InStageMeans DEF Owes
<1>2. Distinct(chan[c].owes)
  BY <1>1 DEF Tidy
<1>3. PICK t : t = Tail(chan[c].owes) /\ Distinct(t) /\ Due(t) = Due(chan[c].owes) \ {l}
               /\ l \in Due(chan[c].owes)
  BY <1>1, <1>2, DuePaid
<1>4. PICK r : /\ Becomes(c, r) /\ r # Free /\ r.side = chan[c].side /\ r.peer = chan[c].peer
               /\ r.stage = "closed" /\ r.cut = chan[c].cut /\ r.owes = t
  <2>1. Moves(c, "closed", t)
    BY <1>3 DEF Paid
  <2>2. QED
    BY <2>1 DEF Moves, Channel, Free
<1>5. Tidy(r)
  BY <1>1, <1>3, <1>4 DEF Tidy, Open
<1>6. QED
  BY <1>1, <1>3, <1>4, <1>5 DEF Owed

\* The filter's listener, and the one that suspends.
LEMMA OtherListenerBooks ==
  ASSUME LimitInv, BookInv, NEW c \in Channels, Uncount(c) \/ Suspend(c)
  PROVE  BookInv'
<1>1. PICK l \in {"uncount", "suspend"} : Owes(c, l) /\ Paid(c)
  BY DEF Uncount, Suspend
<1>2. UNCHANGED <<outgoingChannels, outgoingChannelCount, connections, peerInfo, allChannels>>
  BY DEF Uncount, Suspend, bookVars
<1>3. PICK r : /\ Becomes(c, r) /\ r # Free /\ r.side = chan[c].side /\ r.peer = chan[c].peer
               /\ r.stage = "closed" /\ r.cut = chan[c].cut /\ Tidy(r)
               /\ Due(r.owes) = Due(chan[c].owes) \ {l}
  BY <1>1, PaidMeans
<1>4. chan[c] # Free /\ chan[c].stage = "closed"
  BY <1>1, PaidMeans
<1>5. /\ \A k \in {"forget", "unkey", "leave"} : Owed(r, k) <=> Owed(chan[c], k)
      /\ \A a \in Addresses : Dialled(chan[c], a) => Dialled(r, a)
      /\ ~Live(r)
  BY <1>3, <1>4 DEF Owed, Dialled, Live, Open
<1>6. QED
  BY <1>2, <1>3, <1>5, BookSame

\* The books while a channel is in the making: only outgoingChannels knows it.
LEMMA DialBooks ==
  ASSUME LimitInv, BookInv, NEW a \in Addresses, connect(a),
         UNCHANGED <<outgoingChannelCount, connections, peerInfo, allChannels>>
  PROVE  BookInv'
<1>1. CASE outgoingChannels[a] # None
  BY <1>1, BookOtherwise DEF connect
<1>2. CASE outgoingChannels[a] = None
  <2>1. PICK c \in Channels : /\ chan[c] = Free
                              /\ Becomes(c, Channel("dialling", "out", a, 0, 0, FALSE, <<>>))
                              /\ outgoingChannels' = [outgoingChannels EXCEPT ![a] = c]
    BY <1>2 DEF connect
  <2>2. PICK r : /\ Becomes(c, r) /\ r # Free /\ r.side = "out" /\ r.peer = a
                 /\ r.stage = "dialling" /\ r.owes = <<>> /\ ~r.cut
    BY <2>1 DEF Channel, Free
  <2>3. Change(c, r) /\ Tidy(r) /\ (\A l : ~Owed(r, l) /\ ~Owed(chan[c], l)) /\ Dialled(r, a)
    BY <2>1, <2>2, BecomesChanges, DueShort DEF Tidy, Owed, Dialled, Open
  <2>4. OutgoingInv' /\ KeysInv' /\ AllInv'
    BY <2>3, OutgoingSame, KeysSame, AllSame DEF BookInv
  <2>5. DialsInv'
    <3>1. /\ outgoingChannels' \in [Addresses -> Channels \cup {None, Gone}]
          /\ \A b \in Addresses : outgoingChannels'[b] = IF b = a THEN c ELSE outgoingChannels[b]
      BY <2>1 DEF BookInv, DialsInv
    <3>2. ASSUME NEW b \in Addresses, outgoingChannels'[b] \in Channels
          PROVE  Dialled(chan'[outgoingChannels'[b]], b)
      <4>1. CASE b = a
        BY <2>3, <3>1, <4>1 DEF Change
      <4>2. CASE b # a
        <5>1. Dialled(chan[outgoingChannels[b]], b) /\ outgoingChannels'[b] = outgoingChannels[b]
          BY <3>1, <3>2, <4>2 DEF BookInv, DialsInv
        <5>2. outgoingChannels[b] # c
          BY <2>1, <5>1 DEF Dialled
        <5>3. QED
          BY <2>3, <3>2, <5>1, <5>2 DEF Change
      <4>3. QED
        BY <4>1, <4>2
    <3>3. ASSUME NEW d \in Channels, Live(chan'[d]) PROVE outgoingChannels'[chan'[d].peer] = d
      <4>1. CASE d = c
        BY <2>2, <2>3, <3>1, <4>1 DEF Change
      <4>2. CASE d # c
        <5>1. chan'[d] = chan[d] /\ outgoingChannels[chan[d].peer] = d /\ d # None
          BY <2>3, <3>3, <4>2, LimitsAssumption DEF Change, BookInv, DialsInv
        <5>2. chan[d].peer \in Addresses
          BY <3>3, <5>1 DEF Live, LimitInv, Fine, Records
        <5>3. QED
          BY <1>2, <3>1, <5>1, <5>2
      <4>3. QED
        BY <4>1, <4>2
    <3>4. QED
      BY <3>1, <3>2, <3>3 DEF DialsInv
  <2>6. QED
    BY <2>3, <2>4, <2>5 DEF BookInv, Change
<1>3. QED
  BY <1>1, <1>2

LEMMA DialledBooks ==
  ASSUME LimitInv, BookInv, NEW c \in Channels, DialFails(c) \/ DialSucceeds(c) \/ DialIsCut(c)
  PROVE  BookInv'
<1>1. /\ chan[c] # Free /\ chan[c] \in Records /\ Tidy(chan[c]) /\ chan[c].stage = "dialling"
      /\ chan[c].owes = <<>> /\ chan[c].side = "out" /\ Live(chan[c])
      /\ \A l : ~Owed(chan[c], l)
  <2>1. InStage(c, {"dialling"})
    BY DEF DialFails, DialSucceeds, DialIsCut
  <2>2. /\ chan[c] # Free /\ chan[c] \in Records /\ Tidy(chan[c]) /\ chan[c].stage = "dialling"
    BY <2>1, InStageMeans
  <2>3. chan[c].side = "out"
    BY <2>2 DEF LimitInv, Fine
  <2>4. QED
    BY <2>2, <2>3, DueShort DEF Tidy, Live, Owed
<1>2. chan[c].peer \in Addresses /\ outgoingChannels[chan[c].peer] = c
  BY <1>1 DEF Records, BookInv, DialsInv
<1>3. CASE DialFails(c)
  <2>1. /\ Change(c, Free) /\ (\A l : ~Owed(Free, l)) /\ Tidy(Free)
        /\ UNCHANGED <<outgoingChannelCount, connections, peerInfo, allChannels>>
    BY <1>3, BecomesChanges DEF DialFails, Owed, Tidy
  <2>2. OutgoingInv' /\ KeysInv' /\ AllInv'
    BY <1>1, <2>1, OutgoingSame, KeysSame, AllSame DEF BookInv
  <2>3. DialsInv'
    <3>1. /\ outgoingChannels' \in [Addresses -> Channels \cup {None, Gone}]
          /\ \A b \in Addresses :
                outgoingChannels'[b] = IF b = chan[c].peer THEN None ELSE outgoingChannels[b]
      BY <1>3 DEF DialFails, BookInv, DialsInv
    <3>2. ASSUME NEW b \in Addresses, outgoingChannels'[b] \in Channels
          PROVE  Dialled(chan'[outgoingChannels'[b]], b)
      <4>1. b # chan[c].peer /\ outgoingChannels'[b] = outgoingChannels[b]
        BY <3>1, <3>2, LimitsAssumption
      <4>2. Dialled(chan[outgoingChannels[b]], b)
        BY <3>2, <4>1 DEF BookInv, DialsInv
      <4>3. outgoingChannels[b] # c
        BY <4>1, <4>2 DEF Dialled
      <4>4. QED
        BY <2>1, <3>2, <4>1, <4>2, <4>3 DEF Change
    <3>3. ASSUME NEW d \in Channels, Live(chan'[d]) PROVE outgoingChannels'[chan'[d].peer] = d
      <4>1. d # c /\ chan'[d] = chan[d]
        BY <2>1, <3>3 DEF Change, Live
      <4>2. outgoingChannels[chan[d].peer] = d /\ chan[d].peer \in Addresses
        BY <3>3, <4>1 DEF BookInv, DialsInv, Live, LimitInv, Fine, Records
      <4>3. QED
        BY <1>2, <3>1, <4>1, <4>2
    <3>4. QED
      BY <3>1, <3>2, <3>3 DEF DialsInv
  <2>4. QED
    BY <2>1, <2>2, <2>3 DEF BookInv, Change
<1>4. CASE DialSucceeds(c)
  <2>1. PICK r : /\ Becomes(c, r) /\ r # Free /\ r.side = "out" /\ r.peer = chan[c].peer
                 /\ r.stage = "open" /\ r.owes = <<"forget", "suspend">>
    <3>1. Moves(c, "open", <<"forget", "suspend">>)
      BY <1>4 DEF DialSucceeds
    <3>2. QED
      BY <1>1, <3>1 DEF Moves, Channel, Free
  <2>2. /\ UNCHANGED <<outgoingChannels, connections, peerInfo>>
        /\ outgoingChannelCount' = outgoingChannelCount + 1 /\ allChannels' = allChannels \cup {c}
    BY <1>4 DEF DialSucceeds
  <2>3. Due(r.owes) = {"forget", "suspend"} /\ Distinct(r.owes)
    BY <2>1, DueShort
  <2>4. /\ Tidy(r) /\ Owed(r, "forget") /\ ~Owed(r, "unkey") /\ Live(r)
        /\ \A a \in Addresses : Dialled(chan[c], a) => Dialled(r, a)
    BY <2>1, <2>3 DEF Tidy, Owed, Live, Dialled, Open
  <2>5. Change(c, r)
    BY <2>1, BecomesChanges
  <2>6. KeysInv' /\ DialsInv'
    BY <1>1, <2>1, <2>2, <2>4, <2>5, KeysSame, DialsSame DEF BookInv
  <2>7. AllInv'
    BY <1>1, <2>2, <2>4, <2>5 DEF BookInv, AllInv, Change, Debtors
  <2>8. OutgoingInv'
    <3>1. /\ Debtors("forget")' = Debtors("forget") \cup {c} /\ c \notin Debtors("forget")
          /\ Debtors("forget") \subseteq Channels
      BY <1>1, <2>4, <2>5, DebtorsAfter DEF Debtors
    <3>2. QED
      BY <2>2, <3>1, FiniteSets, FS_AddElement DEF BookInv, OutgoingInv
  <2>9. QED
    BY <2>4, <2>5, <2>6, <2>7, <2>8 DEF BookInv, Change
<1>5. CASE DialIsCut(c)
  <2>1. PICK r : /\ Becomes(c, r) /\ r # Free /\ r.side = "out" /\ r.peer = chan[c].peer
                 /\ r.stage = "open" /\ r.owes = <<>> /\ r.cut
    BY <1>5 DEF DialIsCut, Channel, Free
  <2>2. UNCHANGED <<outgoingChannels, outgoingChannelCount, connections, peerInfo, allChannels>>
    BY <1>5 DEF DialIsCut, bookVars
  <2>3. Tidy(r) /\ (\A l : ~Owed(r, l)) /\ \A a \in Addresses : Dialled(chan[c], a) => Dialled(r, a)
    BY <2>1, DueShort DEF Tidy, Owed, Dialled, Open
  <2>4. QED
    BY <1>1, <2>1, <2>2, <2>3, BookSame
<1>6. QED
  BY <1>3, <1>4, <1>5

\* A key is written only where there was none, and its channel owes it.
LEMMA HandshakeBooks == ASSUME LimitInv, BookInv, NEW c \in Channels, Handshake(c) PROVE BookInv'
<1>1. /\ chan[c] # Free /\ chan[c] \in Records /\ Tidy(chan[c]) /\ chan[c].stage \in {"open", "late"}
      /\ chan[c].owes \in Seq(Listeners) /\ InStage(c, Open)
  <2>1. InStage(c, {"open", "late"})
    BY DEF Handshake
  <2>2. QED
    BY <2>1, InStageMeans DEF InStage, Open
<1>2. CASE previousPeer(c) # None
  <2>1. /\ Moves(c, "closed", chan[c].owes)
        /\ UNCHANGED <<outgoingChannels, outgoingChannelCount, connections, peerInfo, allChannels>>
    BY <1>2 DEF Handshake
  <2>2. QED
    BY <1>1, <2>1, EndBooks
<1>3. CASE previousPeer(c) = None
  <2> DEFINE s == chan[c].side
             a == chan[c].peer
             added == IF s = "in" THEN {"unkey", "leave"} ELSE {"unkey"}
  <2>1. s \in Sides /\ a \in Addresses
    BY <1>1 DEF Records
  <2>2. PICK l \in Seq(Listeners) :
           Moves(c, "established", chan[c].owes \o l) /\ Due(l) = added /\ Distinct(l)
    <3>1. /\ <<"unkey", "leave">> \in Seq(Listeners) /\ <<"unkey">> \in Seq(Listeners)
          /\ Due(<<"unkey", "leave">>) = {"unkey", "leave"} /\ Distinct(<<"unkey", "leave">>)
          /\ Due(<<"unkey">>) = {"unkey"} /\ Distinct(<<"unkey">>)
      BY DueShort DEF Listeners
    <3>2. Moves(c, "established",
                chan[c].owes \o IF s = "in" THEN <<"unkey", "leave">> ELSE <<"unkey">>)
      BY <1>3 DEF Handshake, Negotiated
    <3>3. CASE s = "in"
      BY <3>1, <3>2, <3>3
    <3>4. CASE s # "in"
      BY <3>1, <3>2, <3>4
    <3>5. QED
      BY <3>3, <3>4
  <2>3. PICK o : o = chan[c].owes \o l /\ Due(o) = Due(chan[c].owes) \cup added /\ Distinct(o)
    <3>1. Due(chan[c].owes) \cap {"unkey", "leave"} = {} /\ Distinct(chan[c].owes)
      BY <1>1 DEF Tidy
    <3>2. Due(chan[c].owes) \cap Due(l) = {}
      BY <2>2, <3>1
    <3>3. QED
      BY <1>1, <2>2, <3>1, <3>2, DueMore
  <2>4. PICK r : /\ Becomes(c, r) /\ r # Free /\ r.side = s /\ r.peer = a /\ r.cut = chan[c].cut
                 /\ r.stage = "established" /\ r.owes = o
    <3>1. Moves(c, "established", o)
      BY <2>2, <2>3
    <3>2. QED
      BY <3>1 DEF Moves, Channel, Free
  <2>5. Change(c, r)
    BY <2>4, BecomesChanges
  <2>6. Tidy(r)
    <3>1. "unkey" \in Due(r.owes) /\ ("forget" \in Due(r.owes) <=> "forget" \in Due(chan[c].owes))
      BY <2>3, <2>4
    <3>2. /\ s = "out" => chan[c].cut \/ "forget" \in Due(chan[c].owes)
          /\ "forget" \in Due(chan[c].owes) => s = "out"
      BY <1>1 DEF Tidy, Open
    <3>3. QED
      BY <2>3, <2>4, <3>1, <3>2 DEF Tidy
  <2>7. /\ Owed(r, "forget") <=> Owed(chan[c], "forget")
        /\ Owed(r, "unkey") /\ ~Owed(chan[c], "unkey") /\ ~Owed(chan[c], "leave")
        /\ s = "in" => Owed(r, "leave")
        /\ \A b \in Addresses : Dialled(chan[c], b) => Dialled(r, b)
        /\ Live(r) => Live(chan[c])
    BY <1>1, <2>3, <2>4 DEF Owed, Tidy, Dialled, Live, Open
  <2>8. /\ connections' = [connections EXCEPT ![s][a] = c] /\ peerInfo' = peerInfo \cup {c}
        /\ allChannels' = IF s = "in" THEN allChannels \cup {c} ELSE allChannels
        /\ UNCHANGED <<outgoingChannels, outgoingChannelCount>>
        /\ connections[s][a] = None
    BY <1>3 DEF Handshake, previousPeer
  <2>9. OutgoingInv' /\ DialsInv'
    BY <2>4, <2>5, <2>7, <2>8, OutgoingSame, DialsSame DEF BookInv
  <2>10. AllInv'
    BY <2>5, <2>7, <2>8 DEF BookInv, AllInv, Change, Debtors
  <2>11. KeysInv'
    <3>1. /\ connections' \in [Sides -> [Addresses -> Channels \cup {None}]]
          /\ \A t \in Sides, b \in Addresses :
                connections'[t][b] = IF t = s /\ b = a THEN c ELSE connections[t][b]
      BY <2>1, <2>8 DEF BookInv, KeysInv
    <3>2. Debtors("unkey")' = Debtors("unkey") \cup {c} /\ c \notin Debtors("unkey")
      BY <2>5, <2>7, DebtorsAfter DEF Debtors
    <3>3. ASSUME NEW t \in Sides, NEW b \in Addresses, connections'[t][b] # None
          PROVE  /\ Owed(chan'[connections'[t][b]], "unkey")
                 /\ chan'[connections'[t][b]].side = t /\ chan'[connections'[t][b]].peer = b
      <4>1. CASE t = s /\ b = a
        BY <2>4, <2>5, <2>7, <3>1, <4>1 DEF Change
      <4>2. CASE ~(t = s /\ b = a)
        <5>1. connections'[t][b] = connections[t][b]
          BY <3>1, <4>2
        <5>2. /\ connections[t][b] \in Channels /\ Owed(chan[connections[t][b]], "unkey")
              /\ chan[connections[t][b]].side = t /\ chan[connections[t][b]].peer = b
          BY <3>3, <5>1 DEF BookInv, KeysInv
        <5>3. QED
          BY <2>5, <2>7, <5>1, <5>2 DEF Change
      <4>3. QED
        BY <4>1, <4>2
    <3>4. ASSUME NEW d \in Debtors("unkey")' PROVE connections'[chan'[d].side][chan'[d].peer] = d
      <4>1. CASE d = c
        BY <2>1, <2>4, <2>5, <3>1, <4>1 DEF Change
      <4>2. CASE d # c
        <5>1. d \in Debtors("unkey") /\ d \in Channels /\ chan'[d] = chan[d] /\ chan[d] # Free
          BY <2>5, <3>2, <3>4, <4>2 DEF Change, Debtors, Owed
        <5>2. connections[chan[d].side][chan[d].peer] = d /\ d # None
          BY <5>1, LimitsAssumption DEF BookInv, KeysInv
        <5>3. chan[d].side \in Sides /\ chan[d].peer \in Addresses
          BY <5>1 DEF LimitInv, Fine, Records
        <5>4. QED
          BY <2>8, <3>1, <5>1, <5>2, <5>3
      <4>3. QED
        BY <4>1, <4>2
    <3>5. peerInfo' = Debtors("unkey")'
      BY <2>8, <3>2 DEF BookInv, KeysInv
    <3>6. QED
      BY <3>1, <3>3, <3>4, <3>5 DEF KeysInv
  <2>12. QED
    BY <2>5, <2>6, <2>9, <2>10, <2>11 DEF BookInv, Change
<1>4. QED
  BY <1>2, <1>3

\* The entry of the address is taken back only if it is still this channel's.
LEMMA ForgetBooks == ASSUME LimitInv, BookInv, NEW c \in Channels, Forget(c) PROVE BookInv'
<1>1. Owes(c, "forget") /\ Paid(c)
  BY DEF Forget
<1>2. /\ chan[c] # Free /\ chan[c] \in Records /\ chan[c].stage = "closed" /\ Tidy(chan[c])
      /\ Owed(chan[c], "forget")
  BY <1>1, PaidMeans
<1>3. PICK r : /\ Becomes(c, r) /\ r # Free /\ r.side = chan[c].side /\ r.peer = chan[c].peer
               /\ r.stage = "closed" /\ r.cut = chan[c].cut /\ Tidy(r)
               /\ Due(r.owes) = Due(chan[c].owes) \ {"forget"}
  BY <1>1, PaidMeans
<1>4. Change(c, r)
  BY <1>3, BecomesChanges
<1>5. ~Owed(r, "forget") /\ (Owed(r, "unkey") <=> Owed(chan[c], "unkey")) /\ ~Live(r)
  BY <1>2, <1>3 DEF Owed, Live, Open
<1>6. /\ outgoingChannelCount' = outgoingChannelCount - 1 /\ allChannels' = allChannels \ {c}
      /\ UNCHANGED <<connections, peerInfo>>
  BY DEF Forget
<1>7. KeysInv'
  BY <1>3, <1>4, <1>5, <1>6, KeysSame DEF BookInv
<1>8. AllInv'
  BY <1>4, <1>6 DEF BookInv, AllInv, Change, Debtors
<1>9. OutgoingInv'
  <2>1. /\ Debtors("forget")' = Debtors("forget") \ {c} /\ c \in Debtors("forget")
        /\ Debtors("forget") \subseteq Channels
    BY <1>2, <1>4, <1>5, DebtorsAfter DEF Debtors
  <2>2. QED
    BY <1>6, <2>1, FiniteSets, FS_RemoveElement DEF BookInv, OutgoingInv
<1>10. DialsInv'
  <2>1. /\ outgoingChannels' \in [Addresses -> Channels \cup {None, Gone}]
        /\ \A b \in Addresses :
              outgoingChannels'[b] = IF b = chan[c].peer /\ outgoingChannels[b] = c THEN None
                                     ELSE outgoingChannels[b]
    BY <1>2 DEF Forget, BookInv, DialsInv, Records
  <2>2. ASSUME NEW b \in Addresses, outgoingChannels'[b] \in Channels
        PROVE  Dialled(chan'[outgoingChannels'[b]], b)
    <3>1. outgoingChannels'[b] = outgoingChannels[b] /\ ~(b = chan[c].peer /\ outgoingChannels[b] = c)
      BY <2>1, <2>2, LimitsAssumption
    <3>2. Dialled(chan[outgoingChannels[b]], b)
      BY <2>2, <3>1 DEF BookInv, DialsInv
    <3>3. outgoingChannels[b] # c
      BY <3>1, <3>2 DEF Dialled
    <3>4. QED
      BY <1>4, <2>2, <3>1, <3>2, <3>3 DEF Change
  <2>3. ASSUME NEW d \in Channels, Live(chan'[d]) PROVE outgoingChannels'[chan'[d].peer] = d
    <3>1. d # c /\ chan'[d] = chan[d]
      BY <1>4, <1>5, <2>3 DEF Change
    <3>2. outgoingChannels[chan[d].peer] = d /\ chan[d].peer \in Addresses
      BY <2>3, <3>1 DEF BookInv, DialsInv, Live, LimitInv, Fine, Records
    <3>3. QED
      BY <2>1, <3>1, <3>2
  <2>4. QED
    BY <2>1, <2>2, <2>3 DEF DialsInv
<1>11. QED
  BY <1>3, <1>4, <1>7, <1>8, <1>9, <1>10 DEF BookInv, Change

LEMMA UnkeyBooks == ASSUME LimitInv, BookInv, NEW c \in Channels, Unkey(c) PROVE BookInv'
<1>1. Owes(c, "unkey") /\ Paid(c)
  BY DEF Unkey
<1>2. /\ chan[c] # Free /\ chan[c] \in Records /\ chan[c].stage = "closed" /\ Tidy(chan[c])
      /\ Owed(chan[c], "unkey")
  BY <1>1, PaidMeans
<1>3. PICK r : /\ Becomes(c, r) /\ r # Free /\ r.side = chan[c].side /\ r.peer = chan[c].peer
               /\ r.stage = "closed" /\ r.cut = chan[c].cut /\ Tidy(r)
               /\ Due(r.owes) = Due(chan[c].owes) \ {"unkey"}
  BY <1>1, PaidMeans
<1>4. Change(c, r)
  BY <1>3, BecomesChanges
<1>5. /\ ~Owed(r, "unkey") /\ ~Live(r)
      /\ \A l \in {"forget", "leave"} : Owed(r, l) <=> Owed(chan[c], l)
      /\ \A b \in Addresses : Dialled(chan[c], b) => Dialled(r, b)
  BY <1>2, <1>3 DEF Owed, Live, Dialled, Open
<1>6. /\ peerInfo' = peerInfo \ {c}
      /\ UNCHANGED <<outgoingChannels, outgoingChannelCount, allChannels>>
  BY DEF Unkey
<1>7. OutgoingInv' /\ AllInv' /\ DialsInv'
  BY <1>4, <1>5, <1>6, OutgoingSame, AllSame, DialsSame DEF BookInv
<1>8. KeysInv'
  <2> DEFINE s == chan[c].side
             a == chan[c].peer
  <2>1. s \in Sides /\ a \in Addresses /\ connections[s][a] = c
    BY <1>2 DEF Records, BookInv, KeysInv, Debtors
  <2>2. /\ connections' \in [Sides -> [Addresses -> Channels \cup {None}]]
        /\ \A t \in Sides, b \in Addresses :
              connections'[t][b] = IF t = s /\ b = a THEN None ELSE connections[t][b]
    <3>1. connections' = [connections EXCEPT ![s][a] = None]
      BY <2>1 DEF Unkey, BookInv, KeysInv
    <3>2. QED
      BY <2>1, <3>1 DEF BookInv, KeysInv
  <2>3. Debtors("unkey")' = Debtors("unkey") \ {c}
    BY <1>4, <1>5, DebtorsAfter
  <2>4. ASSUME NEW t \in Sides, NEW b \in Addresses, connections'[t][b] # None
        PROVE  /\ Owed(chan'[connections'[t][b]], "unkey")
               /\ chan'[connections'[t][b]].side = t /\ chan'[connections'[t][b]].peer = b
    <3>1. connections'[t][b] = connections[t][b] /\ ~(t = s /\ b = a)
      BY <2>2, <2>4
    <3>2. /\ connections[t][b] \in Channels /\ Owed(chan[connections[t][b]], "unkey")
          /\ chan[connections[t][b]].side = t /\ chan[connections[t][b]].peer = b
      BY <2>4, <3>1 DEF BookInv, KeysInv
    <3>3. connections[t][b] # c
      BY <3>1, <3>2
    <3>4. QED
      BY <1>4, <3>1, <3>2, <3>3 DEF Change
  <2>5. ASSUME NEW d \in Debtors("unkey")' PROVE connections'[chan'[d].side][chan'[d].peer] = d
    <3>1. d \in Debtors("unkey") /\ d # c /\ d \in Channels /\ chan'[d] = chan[d] /\ chan[d] # Free
      BY <1>4, <2>3, <2>5 DEF Change, Debtors, Owed
    <3>2. connections[chan[d].side][chan[d].peer] = d
      BY <3>1 DEF BookInv, KeysInv
    <3>3. chan[d].side \in Sides /\ chan[d].peer \in Addresses
      BY <3>1 DEF LimitInv, Fine, Records
    <3>4. QED
      BY <2>1, <2>2, <3>1, <3>2, <3>3
  <2>6. peerInfo' = Debtors("unkey")'
    BY <1>6, <2>3 DEF BookInv, KeysInv
  <2>7. QED
    BY <2>2, <2>4, <2>5, <2>6 DEF KeysInv
<1>9. QED
  BY <1>3, <1>4, <1>7, <1>8 DEF BookInv, Change

LEMMA LeaveBooks == ASSUME LimitInv, BookInv, NEW c \in Channels, Leave(c) PROVE BookInv'
<1>1. Owes(c, "leave") /\ Paid(c)
  BY DEF Leave
<1>2. chan[c] # Free /\ chan[c].stage = "closed"
  BY <1>1, PaidMeans
<1>3. PICK r : /\ Becomes(c, r) /\ r # Free /\ r.side = chan[c].side /\ r.peer = chan[c].peer
               /\ r.stage = "closed" /\ r.cut = chan[c].cut /\ Tidy(r)
               /\ Due(r.owes) = Due(chan[c].owes) \ {"leave"}
  BY <1>1, PaidMeans
<1>4. Change(c, r)
  BY <1>3, BecomesChanges
<1>5. /\ ~Live(r)
      /\ \A l \in {"forget", "unkey"} : Owed(r, l) <=> Owed(chan[c], l)
      /\ \A b \in Addresses : Dialled(chan[c], b) => Dialled(r, b)
  BY <1>2, <1>3 DEF Owed, Live, Dialled, Open
<1>6. /\ allChannels' = allChannels \ {c}
      /\ UNCHANGED <<outgoingChannels, outgoingChannelCount, connections, peerInfo>>
  BY DEF Leave
<1>7. OutgoingInv' /\ KeysInv' /\ DialsInv'
  BY <1>3, <1>4, <1>5, <1>6, OutgoingSame, KeysSame, DialsSame DEF BookInv
<1>8. AllInv'
  BY <1>4, <1>6 DEF BookInv, AllInv, Change, Debtors
<1>9. QED
  BY <1>3, <1>4, <1>7, <1>8 DEF BookInv, Change

\* What outgoingChannels still knows of a channel that owes nothing is the
\* entry of a dial that was cut short.
LEMMA VanishesBooks ==
  ASSUME LimitInv, BookInv, NEW c \in Channels, Vanishes(c)
  PROVE  /\ BookInv'
         /\ \A a \in Addresses : outgoingChannels[a] = c => chan[c].cut
<1>1. /\ chan[c] # Free /\ chan[c].stage = "closed" /\ chan[c].owes = <<>>
      /\ Change(c, Free)
      /\ UNCHANGED <<outgoingChannelCount, connections, peerInfo, allChannels>>
  BY BecomesChanges DEF Vanishes, InStage
<1>2. (\A l : ~Owed(Free, l) /\ ~Owed(chan[c], l)) /\ Tidy(Free) /\ ~Live(Free)
  BY <1>1, DueShort DEF Owed, Tidy, Live
<1>3. OutgoingInv' /\ KeysInv' /\ AllInv'
  BY <1>1, <1>2, OutgoingSame, KeysSame, AllSame DEF BookInv
<1>4. /\ outgoingChannels' \in [Addresses -> Channels \cup {None, Gone}]
      /\ \A b \in Addresses :
            outgoingChannels'[b] = IF outgoingChannels[b] = c THEN Gone ELSE outgoingChannels[b]
  BY DEF Vanishes, BookInv, DialsInv
<1>5. DialsInv'
  <2>1. ASSUME NEW b \in Addresses, outgoingChannels'[b] \in Channels
        PROVE  Dialled(chan'[outgoingChannels'[b]], b)
    <3>1. outgoingChannels'[b] = outgoingChannels[b] /\ outgoingChannels[b] # c
      BY <1>4, <2>1, LimitsAssumption
    <3>2. QED
      BY <1>1, <2>1, <3>1 DEF BookInv, DialsInv, Change
  <2>2. ASSUME NEW d \in Channels, Live(chan'[d]) PROVE outgoingChannels'[chan'[d].peer] = d
    <3>1. d # c /\ chan'[d] = chan[d]
      BY <1>1, <1>2, <2>2 DEF Change
    <3>2. outgoingChannels[chan[d].peer] = d /\ chan[d].peer \in Addresses
      BY <2>2, <3>1 DEF BookInv, DialsInv, Live, LimitInv, Fine, Records
    <3>3. QED
      BY <1>4, <3>1, <3>2
  <2>3. QED
    BY <1>4, <2>1, <2>2 DEF DialsInv
<1>6. ASSUME NEW a \in Addresses, outgoingChannels[a] = c PROVE chan[c].cut
  <2>1. Dialled(chan[c], a)
    BY <1>6 DEF BookInv, DialsInv
  <2>2. QED
    BY <1>1, <2>1, DueShort DEF Dialled
<1>7. QED
  BY <1>1, <1>2, <1>3, <1>5, <1>6 DEF BookInv, Change

LEMMA BookNext ==
  LimitInv /\ BookInv /\ [Next]_vars =>
     /\ BookInv'
     /\ \A a \in Addresses :
           outgoingChannels[a] \in Channels /\ outgoingChannels'[a] = Gone
              => chan[outgoingChannels[a]].cut
<1> SUFFICES ASSUME LimitInv, BookInv, [Next]_vars
             PROVE  /\ BookInv'
                    /\ \A a \in Addresses :
                          outgoingChannels[a] \in Channels /\ outgoingChannels'[a] = Gone
                             => chan[outgoingChannels[a]].cut
  OBVIOUS
<1> DEFINE Stale == \A a \in Addresses :
                       outgoingChannels[a] \in Channels /\ outgoingChannels'[a] = Gone
                          => chan[outgoingChannels[a]].cut
<1>1. ASSUME UNCHANGED outgoingChannels PROVE Stale
  BY <1>1, LimitsAssumption
<1>2. CASE \/ TaskDraws \/ TaskDies \/ TaskTakes \/ Forgotten \/ Shutdown \/ UNCHANGED vars
           \/ \E c \in Channels : KnownPeersArrive(c) \/ MessageTouches(c)
  <2>1. UNCHANGED <<chan, outgoingChannels, outgoingChannelCount, connections, peerInfo, allChannels>>
    BY <1>2 DEF TaskDraws, TaskDies, TaskTakes, Forgotten, Shutdown, KnownPeersArrive,
                MessageTouches, bookVars, vars
  <2>2. QED
    BY <1>1, <2>1, BookOtherwise
<1>3. CASE ConnectApi \/ TaskConnects
  <2>1. PICK a \in Addresses : connect(a)
    BY <1>3 DEF ConnectApi, TaskConnects
  <2>2. UNCHANGED <<outgoingChannelCount, connections, peerInfo, allChannels>>
    BY <1>3 DEF ConnectApi, TaskConnects
  <2>3. Stale
    BY <2>1, LimitsAssumption DEF connect, BookInv, DialsInv
  <2>4. QED
    BY <2>1, <2>2, <2>3, DialBooks
<1>4. ASSUME NEW c \in Channels, DialFails(c) \/ DialSucceeds(c) \/ DialIsCut(c)
      PROVE  BookInv' /\ Stale
  <2>1. Stale
    BY <1>4, LimitsAssumption DEF DialFails, DialSucceeds, DialIsCut, bookVars, BookInv, DialsInv
  <2>2. QED
    BY <1>4, <2>1, DialledBooks
<1>5. ASSUME NEW c \in Channels, CountTotal(c) \/ CountHost(c) \/ Judge(c)
      PROVE  BookInv' /\ Stale
  <2>1. UNCHANGED outgoingChannels
    BY <1>5 DEF CountTotal, CountHost, Judge, bookVars
  <2>2. QED
    BY <1>1, <1>5, <2>1, AcceptBooks
<1>6. ASSUME NEW c \in Channels, Handshake(c) PROVE BookInv' /\ Stale
  <2>1. UNCHANGED outgoingChannels
    BY <1>6 DEF Handshake
  <2>2. QED
    BY <1>1, <1>6, <2>1, HandshakeBooks
<1>7. ASSUME NEW c \in Channels,
             HandshakeFails(c) \/ HandshakeTimeout(c) \/ Misbehaves(c) \/ Closes(c)
      PROVE  BookInv' /\ Stale
  <2>1. /\ InStage(c, Open)
        /\ UNCHANGED <<outgoingChannels, outgoingChannelCount, connections, peerInfo, allChannels>>
    BY <1>7 DEF HandshakeFails, HandshakeTimeout, Misbehaves, Closes, BlacklistAndClose, InStage,
                Open, bookVars
  <2>2. PICK s \in Open \cup {"closed"} :
           /\ Moves(c, s, chan[c].owes)
           /\ s = "established" => chan[c].stage = s
           /\ chan[c].stage = "established" => s \in {"established", "closed"}
    BY <1>7, EndMoves
  <2>3. QED
    BY <1>1, <2>1, <2>2, EndBooks
<1>8. ASSUME NEW c \in Channels, Uncount(c) \/ Suspend(c) \/ Unkey(c) \/ Leave(c)
      PROVE  BookInv' /\ Stale
  <2>1. UNCHANGED outgoingChannels
    BY <1>8 DEF Uncount, Suspend, Unkey, Leave, bookVars
  <2>2. QED
    BY <1>1, <1>8, <2>1, OtherListenerBooks, UnkeyBooks, LeaveBooks
<1>9. ASSUME NEW c \in Channels, Forget(c) PROVE BookInv' /\ Stale
  <2>1. Stale
    BY <1>9, LimitsAssumption DEF Forget, BookInv, DialsInv
  <2>2. QED
    BY <1>9, <2>1, ForgetBooks
<1>10. ASSUME NEW c \in Channels, Vanishes(c) PROVE BookInv' /\ Stale
  <2>1. Stale
    BY <1>10, LimitsAssumption, VanishesBooks DEF Vanishes, BookInv, DialsInv
  <2>2. QED
    BY <1>10, <2>1, VanishesBooks
<1>11. QED
  BY <1>2, <1>3, <1>4, <1>5, <1>6, <1>7, <1>8, <1>9, <1>10 DEF Next, ConnectTask

LEMMA BookMeans == LimitInv /\ BookInv => OneChannelPerPeer /\ NothingLeftBehind
<1> SUFFICES ASSUME LimitInv, BookInv PROVE OneChannelPerPeer /\ NothingLeftBehind
  OBVIOUS
<1>1. OneChannelPerPeer
  <2>1. ASSUME NEW c \in Channels, InStage(c, {"dialling"} \cup Open), chan[c].side = "out"
        PROVE  outgoingChannels[chan[c].peer] = c
    BY <2>1 DEF InStage, Live, BookInv, DialsInv
  <2>2. ASSUME NEW c \in Channels, InStage(c, {"established"})
        PROVE  connections[chan[c].side][chan[c].peer] = c /\ c \in peerInfo
    <3>1. c \in Debtors("unkey")
      BY <2>2 DEF InStage, Debtors, Owed, BookInv, Tidy
    <3>2. QED
      BY <3>1 DEF BookInv, KeysInv
  <2>3. QED
    BY <2>1, <2>2 DEF OneChannelPerPeer
<1>2. NothingLeftBehind
  <2> SUFFICES ASSUME \A c \in Channels : chan[c] = Free
               PROVE  /\ outgoingChannelCount = 0 /\ inboundConnectionCount = 0
                      /\ \A h \in Hosts : perHostConnectionCount[h] = 0
                      /\ \A s \in Sides, a \in Addresses : connections[s][a] = None
                      /\ peerInfo = {} /\ allChannels = {}
    BY DEF NothingLeftBehind
  <2>1. Counted = {} /\ (\A h \in Hosts : CountedAt(h) = {}) /\ \A l : Debtors(l) = {}
    BY DEF Counted, Counts, CountedAt, CountsAt, Debtors, Owed
  <2>2. Cardinality({}) = 0
    BY FS_EmptySet
  <2>3. /\ outgoingChannelCount = 0 /\ inboundConnectionCount = 0
        /\ \A h \in Hosts : perHostConnectionCount[h] = 0
    BY <2>1, <2>2 DEF LimitInv, BookInv, OutgoingInv
  <2>4. peerInfo = {} /\ allChannels = {}
    BY <2>1 DEF BookInv, KeysInv, AllInv
  <2>5. ASSUME NEW s \in Sides, NEW a \in Addresses PROVE connections[s][a] = None
    BY DEF BookInv, KeysInv, Owed
  <2>6. QED
    BY <2>3, <2>4, <2>5
<1>3. QED
  BY <1>1, <1>2

\* The books hold in every reachable state, and so does what they mean.
LEMMA BooksAlways == Spec => [](LimitInv /\ BookInv)
<1>1. Init => LimitInv /\ BookInv
  BY LimitInit, BookInit
<1>2. LimitInv /\ BookInv /\ [Next]_vars => LimitInv' /\ BookInv'
  BY LimitNext, BookNext
<1>3. QED
  BY <1>1, <1>2, PTL DEF Spec

\* An address has one outbound channel at most and a peer one established
\* channel on either side, for any number of channels that dial, are accepted,
\* shake hands and close in any order (NetworkServer.connect, HandshakeHandler).
THEOREM OneChannelPerPeerAlways == Spec => []OneChannelPerPeer
<1>1. LimitInv /\ BookInv => OneChannelPerPeer
  BY BookMeans
<1>2. QED
  BY <1>1, BooksAlways, PTL

\* The listeners of the close futures leave no count and no key behind
\* (NetworkServer.connect, InboundConnectionFilter.dec, HandshakeHandler).
THEOREM NothingLeftBehindAlways == Spec => []NothingLeftBehind
<1>1. LimitInv /\ BookInv => NothingLeftBehind
  BY BookMeans
<1>2. QED
  BY <1>1, BooksAlways, PTL

\* Only a dial that an exception out of touch cut short leaves its entry in
\* outgoingChannels when the channel is gone (NetworkServer.connect).
THEOREM StaleOnlyWhenCutAlways == Spec => StaleOnlyWhenCut
<1>1. LimitInv /\ BookInv /\ [Next]_vars
      => [\A a \in Addresses :
             outgoingChannels[a] \in Channels /\ outgoingChannels'[a] = Gone
                => chan[outgoingChannels[a]].cut]_vars
  BY BookNext
<1>2. QED
  BY <1>1, BooksAlways, PTL DEF Spec, StaleOnlyWhenCut

-----------------------------------------------------------------------------
(* The candidates of randomPeer stay what they were when it checked them:   *)
(* whatever bans a host waits for the lock that randomPeer holds.           *)

DrawInv ==
    ~Unlocked => \A a \in Addresses : Banned(a) => a \notin {drawing.unverified, drawing.verified}

LEMMA DrawNext == DrawInv /\ [Next]_vars => DrawInv'
<1> SUFFICES ASSUME DrawInv, [Next]_vars PROVE DrawInv'
  OBVIOUS
<1>1. CASE drawing' = None
  BY <1>1 DEF DrawInv, Unlocked
<1>2. CASE drawing' = drawing /\ blacklist' \subseteq blacklist /\ suspension' \subseteq suspension
  BY <1>2 DEF DrawInv, Unlocked, Banned
<1>3. CASE TaskDraws
  <2>1. /\ Draw(Excluded) /\ UNCHANGED <<blacklist, suspension>>
    BY <1>3 DEF TaskDraws, Draw
  <2> DEFINE checked(a) == IF Banned(a) THEN None ELSE a
  <2>2. PICK u, v : /\ drawing' = [unverified |-> u, verified |-> v]
                    /\ u = None \/ \E a : u = checked(a)
                    /\ v = None \/ \E a : v = checked(a)
    <3>1. PICK v : /\ drawing' = [unverified |-> IF unverifiedPeers' = <<>> THEN None
                                                 ELSE checked(Head(unverifiedPeers')),
                                  verified |-> v]
                   /\ v = None \/ \E a : v = checked(a)
      BY <2>1 DEF Draw
    <3> HIDE DEF checked
    <3>2. QED
      BY <3>1
  <2>3. \A a \in Addresses : Banned(a) => a # u /\ a # v
    BY <2>2, PeersAssumption
  <2>4. \A a \in Addresses : Banned(a)' <=> Banned(a)
    BY <2>1 DEF Banned
  <2>5. QED
    BY <2>2, <2>3, <2>4 DEF DrawInv
<1>4. CASE TaskDies \/ TaskTakes \/ Forgotten \/ Shutdown \/ UNCHANGED vars
           \/ ConnectApi \/ TaskConnects
  BY <1>1, <1>2, <1>4 DEF TaskDies, TaskTakes, Take, Forgotten, Obsolete, clearBlacklist, Shutdown, vars, peerVars,
     Throws, ConnectApi, TaskConnects
<1>5. ASSUME NEW c \in Channels,
             \/ DialFails(c) \/ DialSucceeds(c) \/ DialIsCut(c)
             \/ CountTotal(c) \/ CountHost(c) \/ Judge(c)
             \/ Handshake(c) \/ KnownPeersArrive(c) \/ MessageTouches(c) \/ Closes(c)
             \/ Uncount(c) \/ Forget(c) \/ Unkey(c) \/ Leave(c) \/ Vanishes(c)
      PROVE  DrawInv'
  BY <1>2, <1>5 DEF DialFails, DialSucceeds, DialIsCut, CountTotal, CountHost, Judge, Handshake,
     KnownPeersArrive, MessageTouches, Closes, Uncount, Forget, Unkey, Leave, Vanishes, touch,
     TouchDeclared, Throws, peerVars
<1>6. ASSUME NEW c \in Channels, HandshakeFails(c) \/ HandshakeTimeout(c) \/ Misbehaves(c) \/ Suspend(c)
      PROVE  DrawInv'
  <2>1. (Unlocked /\ drawing' = drawing) \/ UNCHANGED peerVars
    BY <1>6 DEF HandshakeFails, HandshakeTimeout, Misbehaves, BlacklistAndClose, Blacklist, Throws,
       Suspend, suspend
  <2>2. QED
    BY <1>1, <1>2, <2>1 DEF Unlocked, peerVars
<1>7. QED
  BY <1>3, <1>4, <1>5, <1>6 DEF Next, ConnectTask

\* The connect task dials no address of a banned host that it had checked
\* itself, for any queue and any bans (PeerDatabaseImpl.randomPeer).
THEOREM BannedOnlyByEvictionAlways == Spec => BannedOnlyByEviction
<1>1. Init => DrawInv
  BY DEF Init, PeerInit, DrawInv, Unlocked
<1>2. DrawInv /\ [Next]_vars => DrawInv'
  BY DrawNext
<1>3. DrawInv
      => [\A a \in Addresses :
             ~Unlocked /\ task' = a /\ Banned(a) => a \notin {drawing.unverified, drawing.verified}]_vars
  BY DEF DrawInv
<1>4. QED
  BY <1>1, <1>2, <1>3, PTL DEF Spec, BannedOnlyByEviction
=============================================================================
