------------------------ MODULE ExtensionSync_proofs ------------------------
(* What the closing of channels does to the pinned one, and that each       *)
(* request is answered once, for every number of channels, every chain and  *)
(* every order of their events.                                             *)
EXTENDS ExtensionSync, FiniteSetTheorems, SequenceTheorems, WellFoundedInduction, TLAPS

Handlers ==
    [at : {"idle", "pin", "pinIfNone", "remove", "findSecond", "switch", "unpin"},
     channel : Channel \cup {NoChannel}]

Typed ==
    /\ peer \in [Channel -> Nat] /\ announced \in [Channel -> Nat] /\ scores \in [Channel -> Nat]
    /\ open \subseteq Channel /\ pinned \in Channel \cup {NoChannel}
    /\ handler \in [Channel -> Handlers]

(* A channel pins itself only while it is open.  Once its listener has run  *)
(* its first step its score is no longer in the map, so that the second     *)
(* best it finds is not itself.                                             *)
Placed ==
    \A c \in Channel :
        /\ handler[c].at \in {"pin", "pinIfNone"} => c \in open
        /\ handler[c].at = "switch" => handler[c].channel # c
        /\ c \notin open /\ handler[c].at # "remove" => scores[c] = 0

(* Some handler is about to pin c. *)
Sought(c) ==
    \E d \in Channel : handler[d] \in {At("pin", c), At("pinIfNone", c), At("switch", c)}

(* A channel that is open and pinned, or about to be, has a score, unless   *)
(* its score may expire: the listener of a channel that closes thus finds   *)
(* the map empty only when another channel, or none, is pinned.             *)
Scored == \A c \in open \ Expiring : pinned = c \/ Sought(c) => scores[c] > 0

Inv == Typed /\ Placed /\ Scored

(* A handler pins the channel it is given, or none. *)
LEMMA UpstreamPins ==
    ASSUME NEW c, NEW result, NEW p, Upstream(c, result, p)
    PROVE  pinned' \in {p, NoChannel}
  BY DEF Upstream

(* A step that touches neither the map nor the handlers. *)
LEMMA KeptBy ==
    ASSUME Inv, UNCHANGED <<open, scores, handler>>, peer' \in [Channel -> Nat],
           announced' \in [Channel -> Nat], pinned' \in {pinned, NoChannel}
    PROVE  Inv'
<1>1. Typed' /\ Placed'
  BY DEF Inv, Typed, Placed
<1>2. Scored'
  BY SyncAssumption DEF Inv, Typed, Scored, Sought
<1> QED BY <1>1, <1>2 DEF Inv

LEMMA InitInv == Init => Inv
<1> SUFFICES ASSUME Init PROVE Inv
  OBVIOUS
<1>1. Len(Start) \in Nat /\ \A c \in Channel : Len(PeerChain[c]) \in Nat
  BY SyncAssumption
<1>2. Typed
  BY <1>1 DEF Init, Typed, Handlers, Idle, At
<1>3. Placed
  BY DEF Init, Placed, Idle, At
<1>4. Scored
  BY SyncAssumption DEF Init, Scored, Sought, Idle, At
<1> QED BY <1>2, <1>3, <1>4 DEF Inv

(* Where the handler of c turns to: nobody else is sought for it. *)
LEMMA Turns ==
    ASSUME Inv, NEW c \in Channel, NEW h \in Handlers, Turn(c, h)
    PROVE  /\ handler' \in [Channel -> Handlers] /\ handler'[c] = h
           /\ \A d \in Channel \ {c} : handler'[d] = handler[d]
           /\ \A d \in Channel : Sought(d)' => Sought(d) \/ h.channel = d
<1>1. /\ handler' \in [Channel -> Handlers] /\ handler'[c] = h
      /\ \A d \in Channel \ {c} : handler'[d] = handler[d]
  BY DEF Inv, Typed, Turn
<1>2. ASSUME NEW d \in Channel, Sought(d)' PROVE Sought(d) \/ h.channel = d
  <2>1. PICK e \in Channel : handler'[e] \in {At("pin", d), At("pinIfNone", d), At("switch", d)}
    BY <1>2 DEF Sought
  <2>2. CASE e = c
    BY <1>1, <2>1, <2>2 DEF At
  <2>3. CASE e # c
    BY <1>1, <2>1, <2>3 DEF Sought
  <2> QED BY <2>2, <2>3
<1> QED BY <1>1, <1>2

LEMMA HandlerTypes ==
    /\ Idle \in Handlers /\ Idle.at = "idle" /\ Idle.channel = NoChannel
    /\ \A k, d : At(k, d).at = k /\ At(k, d).channel = d
    /\ \A d \in Channel \cup {NoChannel} :
          \A k \in {"pin", "pinIfNone", "remove", "findSecond", "switch", "unpin"} :
              At(k, d) \in Handlers /\ At(k, d) # Idle
  BY DEF Idle, At, Handlers

LEMMA ReadScoreInv ==
    ASSUME Inv, NEW c \in Channel, ReadScore(c)
    PROVE  Inv'
<1>1. /\ c \in open /\ peer[c] \in Nat /\ peer[c] > 0 /\ UNCHANGED <<peer, open, pinned>>
      /\ announced' = [announced EXCEPT ![c] = peer[c]] /\ scores' = [scores EXCEPT ![c] = peer[c]]
  BY DEF Inv, Typed, ReadScore, Free
<1>2. /\ scores' \in [Channel -> Nat] /\ announced' \in [Channel -> Nat] /\ scores'[c] > 0
      /\ \A d \in Channel \ {c} : scores'[d] = scores[d]
  BY <1>1 DEF Inv, Typed
<1>3. /\ handler' \in [Channel -> Handlers]
      /\ \A d \in Channel \ {c} : handler'[d] = handler[d]
      /\ handler'[c].at \in {"pinIfNone", handler[c].at} /\ handler[c].at = "idle"
      /\ handler'[c].at # "switch"
      /\ \A d \in Channel : Sought(d)' => Sought(d) \/ d = c
  <2>1. handler[c].at = "idle"
    BY HandlerTypes DEF ReadScore, Free
  <2>2. CASE Turn(c, At("pinIfNone", c))
    BY <2>1, <2>2, Turns, HandlerTypes
  <2>3. CASE UNCHANGED handler
    BY <2>1, <2>3 DEF Inv, Typed, Sought
  <2> QED BY <2>2, <2>3 DEF ReadScore
<1>4. Typed'
  BY <1>1, <1>2, <1>3 DEF Inv, Typed
<1>5. Placed'
  BY <1>1, <1>2, <1>3 DEF Inv, Placed
<1>6. Scored'
  BY <1>1, <1>2, <1>3 DEF Inv, Typed, Scored
<1> QED BY <1>4, <1>5, <1>6 DEF Inv

LEMMA WriteScoreInv ==
    ASSUME Inv, NEW c \in Channel, WriteScore(c)
    PROVE  Inv'
<1>1. /\ c \in open /\ UNCHANGED <<peer, announced, open, scores>>
      /\ pinned' \in {pinned, NoChannel}
  BY DEF WriteScore, Free, peers
<1>2. /\ handler' \in [Channel -> Handlers]
      /\ \A d \in Channel \ {c} : handler'[d] = handler[d]
      /\ handler'[c].at # "switch"
      /\ \A d \in Channel : Sought(d)' => Sought(d) \/ (d = c /\ scores[c] > 0)
  <2>1. handler[c].at = "idle"
    BY HandlerTypes DEF WriteScore, Free
  <2>2. CASE c \in Best(scores) /\ Turn(c, At("pin", c))
    <3>1. scores[c] > 0
      BY <2>2 DEF Best
    <3> QED BY <2>2, <3>1, Turns, HandlerTypes
  <2>3. CASE UNCHANGED handler
    BY <2>1, <2>3 DEF Inv, Typed, Sought
  <2> QED BY <2>2, <2>3 DEF WriteScore
<1>3. Typed'
  BY <1>1, <1>2 DEF Inv, Typed
<1>4. Placed'
  BY <1>1, <1>2 DEF Inv, Placed
<1>5. Scored'
  BY <1>1, <1>2, SyncAssumption DEF Inv, Typed, Scored
<1> QED BY <1>3, <1>4, <1>5 DEF Inv

LEMMA PinInv ==
    ASSUME Inv, NEW c \in Channel, Pin(c)
    PROVE  Inv'
<1>1. /\ UNCHANGED <<peer, announced, open, scores>> /\ Turn(c, Idle) /\ Sought(c)
      /\ pinned' \in {pinned, c, NoChannel}
  BY UpstreamPins DEF Pin, peers, Sought
<1>2. /\ handler' \in [Channel -> Handlers] /\ handler'[c].at = "idle"
      /\ \A d \in Channel \ {c} : handler'[d] = handler[d]
      /\ \A d \in Channel : Sought(d)' => Sought(d)
  BY <1>1, Turns, HandlerTypes, SyncAssumption
<1>3. c \in open
  BY HandlerTypes DEF Pin, Inv, Placed
<1>4. Typed'
  BY <1>1, <1>2 DEF Inv, Typed
<1>5. Placed'
  BY <1>1, <1>2, <1>3 DEF Inv, Placed
<1>6. Scored'
  BY <1>1, <1>2, SyncAssumption DEF Inv, Typed, Scored
<1> QED BY <1>4, <1>5, <1>6 DEF Inv

(* Whoever closes a channel, for whatever reason. *)
LEMMA CloseInv ==
    ASSUME Inv, NEW c \in Channel, Free(c), Close(c)
    PROVE  Inv'
<1>1. open' = open \ {c} /\ UNCHANGED <<peer, announced, pinned, scores>>
  BY DEF Close, peers
<1>2. /\ handler' \in [Channel -> Handlers]
      /\ \A d \in Channel \ {c} : handler'[d] = handler[d]
      /\ handler'[c].at \in {"idle", "remove"}
      /\ handler'[c].at # "remove" => scores[c] = 0
      /\ \A d \in Channel : Sought(d)' => Sought(d)
  <2>1. handler[c].at = "idle"
    BY HandlerTypes DEF Free
  <2>2. CASE NoScores(scores) /\ UNCHANGED handler
    BY <2>1, <2>2 DEF Inv, Typed, Sought, NoScores
  <2>3. CASE \E best \in Best(scores) : Turn(c, At("remove", best))
    <3>1. PICK best \in Channel : Turn(c, At("remove", best))
      BY <2>3 DEF Best
    <3>2. /\ handler' \in [Channel -> Handlers] /\ handler'[c] = At("remove", best)
          /\ \A d \in Channel \ {c} : handler'[d] = handler[d]
      BY <3>1, Turns, HandlerTypes
    <3>3. \A d \in Channel : Sought(d)' => Sought(d)
      BY <3>2 DEF Sought, At
    <3> QED BY <3>2, <3>3, HandlerTypes
  <2> QED BY <2>2, <2>3 DEF Close
<1>3. Typed'
  BY <1>1, <1>2 DEF Inv, Typed
<1>4. Placed'
  BY <1>1, <1>2 DEF Inv, Placed
<1>5. Scored'
  BY <1>1, <1>2 DEF Inv, Typed, Scored
<1> QED BY <1>3, <1>4, <1>5 DEF Inv

LEMMA CloseListenerInv ==
    ASSUME Inv, NEW c \in Channel, CloseListener(c)
    PROVE  Inv'
<1>1. c \notin open /\ UNCHANGED <<peer, announced, open>>
  BY DEF CloseListener, RemoveScore, FindSecond, Switch, Unpin, Listening, peers
<1>2. CASE RemoveScore(c)
  <2>1. PICK k \in {"findSecond", "unpin"} : Turn(c, At(k, NoChannel))
    BY <1>2 DEF RemoveScore
  <2>2. /\ handler' \in [Channel -> Handlers] /\ handler'[c].at = k
        /\ \A d \in Channel \ {c} : handler'[d] = handler[d]
        /\ \A d \in Channel : Sought(d)' => Sought(d)
    BY <2>1, Turns, HandlerTypes, SyncAssumption
  <2>3. /\ scores' \in [Channel -> Nat] /\ scores'[c] = 0 /\ pinned' = pinned
        /\ \A d \in Channel \ {c} : scores'[d] = scores[d]
    BY <1>2 DEF RemoveScore, Inv, Typed
  <2>4. Typed'
    BY <1>1, <2>2, <2>3 DEF Inv, Typed
  <2>5. Placed'
    BY <1>1, <2>2, <2>3 DEF Inv, Placed
  <2>6. Scored'
    BY <1>1, <2>2, <2>3 DEF Inv, Typed, Scored
  <2> QED BY <2>4, <2>5, <2>6 DEF Inv
<1>3. CASE FindSecond(c)
  <2>1. UNCHANGED <<pinned, scores>> /\ scores[c] = 0
    BY <1>3 DEF FindSecond, Listening, Inv, Placed
  <2>2. /\ handler' \in [Channel -> Handlers] /\ handler'[c].at \in {"switch", "unpin"}
        /\ handler'[c].at = "switch" => handler'[c].channel # c
        /\ \A d \in Channel \ {c} : handler'[d] = handler[d]
        /\ \A d \in Channel : Sought(d)' => Sought(d) \/ scores[d] > 0
    <3>1. CASE \E s \in Best(scores) : Turn(c, At("switch", s))
      <4>1. PICK s \in Channel : Turn(c, At("switch", s)) /\ scores[s] > 0
        BY <3>1 DEF Best
      <4>2. s # c
        BY <2>1, <4>1
      <4> QED BY <4>1, <4>2, Turns, HandlerTypes
    <3>2. CASE Turn(c, At("unpin", NoChannel))
      BY <3>2, Turns, HandlerTypes, SyncAssumption
    <3> QED BY <1>3, <3>1, <3>2 DEF FindSecond
  <2>3. Typed'
    BY <1>1, <2>1, <2>2 DEF Inv, Typed
  <2>4. Placed'
    BY <1>1, <2>1, <2>2 DEF Inv, Placed
  <2>5. Scored'
    BY <1>1, <2>1, <2>2 DEF Inv, Typed, Scored
  <2> QED BY <2>3, <2>4, <2>5 DEF Inv
<1>4. CASE Switch(c) \/ Unpin(c)
  <2>1. /\ UNCHANGED scores /\ scores[c] = 0
        /\ Turn(c, Idle) \/ Turn(c, At("unpin", NoChannel))
    BY <1>4 DEF Switch, Unpin, Listening, Inv, Placed
  <2>2. /\ handler' \in [Channel -> Handlers] /\ handler'[c].at \in {"idle", "unpin"}
        /\ \A d \in Channel \ {c} : handler'[d] = handler[d]
        /\ \A d \in Channel : Sought(d)' => Sought(d)
    BY <2>1, Turns, HandlerTypes, SyncAssumption
  <2>3. /\ pinned' \in Channel \cup {NoChannel}
        /\ pinned' \in {pinned, NoChannel} \/ \E d \in Channel : pinned' = d /\ Sought(d)
    <3>1. CASE Unpin(c)
      BY <3>1 DEF Unpin, Inv, Typed
    <3>2. CASE Switch(c) /\ pinned = c
      <4>1. /\ handler[c].at = "switch" /\ handler[c] \in Handlers
            /\ pinned' = handler[c].channel
        BY <3>2 DEF Switch, Listening, Inv, Typed
      <4>2. handler[c] = At("switch", pinned') /\ pinned' \in Channel \cup {NoChannel}
        BY <4>1 DEF Handlers, At
      <4> QED BY <4>2 DEF Sought
    <3>3. CASE Switch(c) /\ pinned # c
      BY <3>3 DEF Switch, Inv, Typed
    <3> QED BY <1>4, <3>1, <3>2, <3>3
  <2>4. Typed'
    BY <1>1, <2>1, <2>2, <2>3 DEF Inv, Typed
  <2>5. Placed'
    BY <1>1, <2>1, <2>2 DEF Inv, Placed
  <2>6. Scored'
    BY <1>1, <2>1, <2>2, <2>3, SyncAssumption DEF Inv, Typed, Scored
  <2> QED BY <2>4, <2>5, <2>6 DEF Inv
<1> QED BY <1>2, <1>3, <1>4 DEF CloseListener

(* The steps that leave the map, the handlers and the open channels alone.  *)
Aside ==
    \/ \E c \in Channel : WriteLoad(c) \/ ReadSignatures(c) \/ Grow(c) \/ ReceiveBlock(c)
    \/ \E c \in Channel : ReadBlocks(c) /\ PreCheck(loader[c].target)
    \/ CoordinatorThread \/ Mine \/ Announce \/ UNCHANGED vars

LEMMA AsideKeeps ==
    ASSUME Inv, Aside
    PROVE  /\ UNCHANGED <<announced, open, scores, handler>> /\ pinned' \in {pinned, NoChannel}
           /\ peer' \in [Channel -> Nat]
<1>1. CASE \E c \in Channel : \/ WriteLoad(c) \/ ReadSignatures(c)
                              \/ ReadBlocks(c) /\ PreCheck(loader[c].target)
  BY <1>1, UpstreamPins DEF WriteLoad, ReadSignatures, ReadBlocks, peers, Inv, Typed
<1>2. CASE \E c \in Channel : Grow(c) \/ ReceiveBlock(c)
  <2> PICK c \in Channel : Grow(c) \/ ReceiveBlock(c)
    BY <1>2
  <2>1. CASE Grow(c)
    BY <2>1 DEF Grow, observer, Inv, Typed
  <2>2. CASE ReceiveBlock(c)
    <3>1. UNCHANGED <<peer, announced, open, pinned, scores, handler>>
      BY <2>2 DEF ReceiveBlock, observer
    <3> QED BY <3>1 DEF Inv, Typed
  <2> QED BY <2>1, <2>2
<1>3. CASE CoordinatorThread \/ Mine \/ Announce
  BY <1>3 DEF CoordinatorThread, StartFork, AppendBlock, FinishFork, Mine, Announce, peers, observer,
              Inv, Typed
<1>4. CASE UNCHANGED vars
  BY <1>4 DEF vars, Inv, Typed
<1> QED BY <1>1, <1>2, <1>3, <1>4 DEF Aside

LEMMA ClosingFree ==
    ASSUME NEW c \in Channel,
           RemoteClose(c) \/ CloseAsked(c) \/ Timeout(c) \/ (ReadBlocks(c) /\ ~PreCheck(loader[c].target))
    PROVE  Free(c) /\ Close(c)
  BY DEF RemoteClose, CloseAsked, Timeout, ReadBlocks, Asked

LEMMA Steps ==
    ASSUME [Next]_vars
    PROVE  \/ \E c \in Channel : \/ ReadScore(c) \/ ExpireScore(c) \/ WriteScore(c) \/ Pin(c)
                                 \/ Free(c) /\ Close(c)
                                 \/ CloseListener(c)
           \/ Aside
  BY ClosingFree DEF Next, Environment, Handler, Aside

LEMMA NextInv ==
    ASSUME Inv, [Next]_vars
    PROVE  Inv'
<1>1. CASE \E c \in Channel : ExpireScore(c)
  <2> PICK c \in Expiring : ExpireScore(c)
    BY <1>1 DEF ExpireScore
  <2>1. UNCHANGED <<peers, open, pinned, handler>> /\ scores' = [scores EXCEPT ![c] = 0]
    BY DEF ExpireScore
  <2>2. scores' \in [Channel -> Nat] /\ \A d \in Channel : scores'[d] = IF d = c THEN 0 ELSE scores[d]
    BY <2>1 DEF Inv, Typed
  <2>3. Typed' /\ Placed'
    BY <2>1, <2>2 DEF Inv, Typed, Placed, peers
  <2>4. Scored'
    BY <2>1, <2>2 DEF Inv, Typed, Scored, Sought
  <2> QED BY <2>3, <2>4 DEF Inv
<1>2. CASE Aside
  BY <1>2, AsideKeeps, KeptBy DEF Inv, Typed
<1> QED BY <1>1, <1>2, Steps, ReadScoreInv, WriteScoreInv, PinInv, CloseInv, CloseListenerInv

(* The listener of a channel has not run before, if it is not left pinned.  *)
LEMMA StillLeft ==
    ASSUME pinned' \in {pinned, NoChannel}, open' = open, handler'[pinned] = handler[pinned],
           LeftPinned'
    PROVE  LeftPinned /\ UNCHANGED pinned
  BY DEF LeftPinned

(* However many channels close, in whatever order their listeners look up   *)
(* and write the fields they share: only a listener that looked up a        *)
(* channel before the score of that channel was removed leaves it pinned.   *)
THEOREM LeftPinnedByRaceAlways == Spec => LeftPinnedByRaceOnly
<1> DEFINE ByRace == /\ pinned \in Channel \ open /\ pinned # pinned'
                     /\ handler[pinned] = At("switch", pinned')
<1>1. ASSUME Inv, [Next]_vars, LeftPinned' PROVE (LeftPinned /\ UNCHANGED pinned) \/ ByRace
  <2>1. ASSUME NEW c \in Channel, Free(c), Close(c) PROVE LeftPinned /\ UNCHANGED pinned
    <3>1. open' = open \ {c} /\ pinned' = pinned
      BY <2>1 DEF Close
    <3>2. CASE pinned = c
      <4>1. scores[c] > 0
        BY <1>1, <2>1, <3>1, <3>2 DEF Inv, Scored, Free, LeftPinned
      <4>2. PICK best \in Channel : Turn(c, At("remove", best))
        BY <2>1, <4>1 DEF Close, NoScores, Best
      <4>3. handler'[c] # Idle
        BY <1>1, <4>2, Turns, HandlerTypes
      <4> QED BY <1>1, <3>1, <3>2, <4>3 DEF LeftPinned
    <3>3. CASE pinned # c
      <4>1. pinned \in Channel
        BY <1>1, <3>1 DEF LeftPinned, Inv, Typed
      <4>2. handler'[pinned] = handler[pinned]
        BY <1>1, <2>1, <3>3, <4>1 DEF Close, Turn, Inv, Typed
      <4> QED BY <1>1, <3>1, <3>3, <4>1, <4>2 DEF LeftPinned
    <3> QED BY <3>2, <3>3
  <2>2. ASSUME NEW c \in Channel, RemoveScore(c) \/ FindSecond(c) \/ (Switch(c) /\ pinned # c)
        PROVE  LeftPinned /\ UNCHANGED pinned
    <3>1. open' = open /\ pinned' = pinned
      BY <2>2 DEF RemoveScore, FindSecond, Switch
    <3>2. PICK h \in Handlers \ {Idle} : Turn(c, h)
      <4>1. CASE RemoveScore(c) \/ (Switch(c) /\ pinned # c)
        BY <4>1, HandlerTypes DEF RemoveScore, Switch
      <4>2. CASE FindSecond(c)
        BY <4>2, HandlerTypes DEF FindSecond, Best
      <4> QED BY <2>2, <4>1, <4>2
    <3>3. handler'[c] # Idle /\ \A d \in Channel \ {c} : handler'[d] = handler[d]
      BY <1>1, <3>2, Turns
    <3> QED BY <1>1, <3>1, <3>3 DEF LeftPinned, Inv, Typed
  <2>3. ASSUME NEW c \in Channel, Switch(c), pinned = c PROVE ByRace
    <3>1. /\ c \notin open /\ handler[c].at = "switch" /\ pinned' = handler[c].channel
          /\ handler[c] \in Handlers
      BY <1>1, <2>3 DEF Switch, Listening, Inv, Typed
    <3>2. handler[c] = At("switch", pinned') /\ pinned' # c
      BY <1>1, <3>1 DEF Inv, Placed, Handlers, At
    <3> QED BY <2>3, <3>1, <3>2
  <2>4. ASSUME NEW c \in Channel, Unpin(c) PROVE LeftPinned /\ UNCHANGED pinned
    <3>1. /\ open' = open /\ pinned' = (IF pinned = c THEN NoChannel ELSE pinned) /\ Turn(c, Idle)
      BY <2>4 DEF Unpin
    <3>2. pinned # c /\ pinned' = pinned /\ pinned \in Channel
      BY <1>1, <3>1 DEF LeftPinned, Inv, Typed
    <3>3. handler'[pinned] = handler[pinned]
      BY <1>1, <3>1, <3>2, Turns, HandlerTypes
    <3> QED BY <1>1, <3>1, <3>2, <3>3, StillLeft
  <2>5. ASSUME NEW c \in Channel, ReadScore(c) \/ WriteScore(c) \/ Pin(c)
        PROVE  LeftPinned /\ UNCHANGED pinned
    <3>1. c \in open /\ open' = open /\ pinned' \in {pinned, c, NoChannel}
      BY <1>1, <2>5, UpstreamPins, HandlerTypes
      DEF ReadScore, WriteScore, Pin, Free, Inv, Placed
    <3>2. pinned' = pinned /\ pinned \in Channel \ {c}
      BY <1>1, <3>1 DEF LeftPinned, Inv, Typed
    <3>3. handler'[pinned] = handler[pinned]
      BY <1>1, <2>5, <3>2 DEF ReadScore, WriteScore, Pin, Turn, Inv, Typed
    <3> QED BY <1>1, <3>1, <3>2, <3>3, StillLeft
  <2>6. ASSUME (\E c \in Channel : ExpireScore(c)) \/ Aside PROVE LeftPinned /\ UNCHANGED pinned
    <3>1. UNCHANGED <<open, handler>> /\ pinned' \in {pinned, NoChannel}
      BY <1>1, <2>6, AsideKeeps DEF ExpireScore
    <3> QED BY <1>1, <3>1, StillLeft
  <2>7. \/ \E c \in Channel : \/ ReadScore(c) \/ ExpireScore(c) \/ WriteScore(c) \/ Pin(c)
                              \/ Free(c) /\ Close(c)
                              \/ CloseListener(c)
        \/ Aside
    BY <1>1, Steps
  <2> QED BY <2>1, <2>2, <2>3, <2>4, <2>5, <2>6, <2>7 DEF CloseListener
<1>2. Inv /\ [Next]_vars
      => [LeftPinned' => (LeftPinned /\ UNCHANGED pinned) \/ ByRace]_vars
  BY <1>1
<1> QED BY InitInv, NextInv, <1>2, PTL DEF Spec, LeftPinnedByRaceOnly

-----------------------------------------------------------------------------
(* Every request is answered.  A loader is a record: what is said of it,    *)
(* and of the height p of its peer, holds of any record and any height.     *)

Block == DOMAIN Reference
Requests == [kind : {"signatures", "blocks"}, ids : Seq(Block)]
Loaders == [lastKnown : Seq(Block), waiting : BOOLEAN,
            target : [parent : Block \cup {<<>>}, ids : Seq(Block)],
            hopefullyNext : Seq(Block), nextBlocks : Seq(Block), discard : BOOLEAN,
            wire : Seq(Requests)]
Messages == [kind : {"score"}, score : Nat \ {0}] \cup [kind : {"load"}, ids : Seq(Block)]
            \cup [kind : {"close"}]

(* The peer of c at height p answers a request with these ids: it has one   *)
(* of them and something after it, or its last block is the only one.       *)
Meets(c, p, ids) ==
    \/ \E i \in 1..Len(ids), j \in 1..(p - 1) : ids[i] = PeerChain[c][j]
    \/ p > 0 /\ Len(ids) = 1 /\ ids[1] = PeerChain[c][p]

(* These blocks follow one another in the chain of that peer. *)
FromPeer(c, p, blocks) ==
    \E h \in 0..(p - Len(blocks)) : \A i \in 1..Len(blocks) : blocks[i] = PeerChain[c][h + i]

(* On the wire are at most one request of each kind, and those whose answer *)
(* a loader waits for.                                                      *)
OneOfEach(l) ==
    /\ \A i, j \in 1..Len(l.wire) : l.wire[i].kind = l.wire[j].kind => i = j
    /\ l.waiting <=> \E i \in 1..Len(l.wire) : l.wire[i].kind = "signatures"
    /\ l.target # NoTarget <=> \E i \in 1..Len(l.wire) : l.wire[i].kind = "blocks"

Answerable(c, p, l) ==
    /\ \A i \in 1..Len(l.wire) : l.wire[i].kind = "signatures" => Meets(c, p, l.wire[i].ids)
    /\ FromPeer(c, p, l.target.ids) /\ FromPeer(c, p, l.nextBlocks)

Sound(c, p, l) == l \in Loaders /\ OneOfEach(l) /\ Answerable(c, p, l)

SoundResult(c, p, r) == Sound(c, p, r.l) /\ (r.up = {} \/ \E b \in Seq(Block) : r.up = {b})

(* The hypothesis under which peers answer: one that is about to be asked,  *)
(* since it had a better score, parted from the chain of the node within    *)
(* the last MaxRollback blocks.                                             *)
PartedWithin == \A c \in Channel : Sought(c) => Meets(c, peer[c], lastSignatures)

NodeTyped ==
    /\ chain \in Seq(Block) \ {<<>>} /\ chain[1] = Start[1] /\ work \in Seq(Block)
    /\ jobs \in Seq([from : Channel, blocks : Seq(Block)]) /\ (busy => jobs # <<>>)
    /\ minted \in Nat /\ localScore \in Nat \ {0} /\ queue \in [Channel -> Seq(Messages)]

Behind ==
    \A c \in Channel : scores[c] <= announced[c] /\ announced[c] <= peer[c]
                       /\ peer[c] <= Len(PeerChain[c])

LoadMeets(c, p, q) == \A i \in 1..Len(q) : q[i].kind = "load" => Meets(c, p, q[i].ids)
QueuesMeet == \A c \in Channel : LoadMeets(c, peer[c], queue[c])

LoadersSound ==
    /\ loader \in [Channel -> Loaders]
    /\ \A c \in Channel : Sound(c, peer[c], loader[c])

NodeInv == Inv /\ NodeTyped /\ Behind
SyncInv == QueuesMeet /\ LoadersSound

-----------------------------------------------------------------------------
(* What the helpers on sequences return. *)

(* The least element of a set of positions is one of them. *)
LEMMA LeastPosition ==
    ASSUME NEW n \in Nat, NEW I \in SUBSET (1..n), I # {}
    PROVE  Min(I) \in I /\ \A j \in I : Min(I) <= j
<1> DEFINE R == {ss \in Nat \X Nat : ss[1] < ss[2]}
<1>1. IsWellFoundedOn(R, Nat)
  BY NatLessThanWellFounded DEF OpToRel
<1>2. I \subseteq Nat
  OBVIOUS
<1>3. PICK x \in I : \A y \in I : ~(<<y, x>> \in R)
  <2> HIDE DEF R
  <2> QED BY <1>1, <1>2, WFMin
<1>4. ASSUME NEW y \in I PROVE x <= y
  <2>1. x \in Nat /\ y \in Nat
    OBVIOUS
  <2>2. ~(<<y, x>> \in R)
    BY <1>3
  <2>3. ~(y < x)
    BY <2>1, <2>2
  <2> QED BY <2>1, <2>3
<1> QED BY <1>4 DEF Min

(* HeightOf: the first position of a block in a chain. *)
LEMMA HeightIsFirst ==
    ASSUME NEW s \in Seq(Block), NEW b
    PROVE  /\ HeightOf(s, b) \in 0..Len(s)
           /\ HeightOf(s, b) > 0 => s[HeightOf(s, b)] = b
           /\ \A j \in 1..Len(s) : s[j] = b => HeightOf(s, b) \in 1..j
<1> DEFINE I == {i \in 1..Len(s) : s[i] = b}
<1>1. HeightOf(s, b) = IF I # {} THEN Min(I) ELSE 0
  BY DEF HeightOf, SelectInSeq
<1>2. Len(s) \in Nat /\ I \in SUBSET (1..Len(s)) /\ \A j \in 1..Len(s) : j \in I <=> s[j] = b
  OBVIOUS
<1> HIDE DEF I
<1>3. CASE I = {}
  BY <1>1, <1>2, <1>3
<1>4. CASE I # {}
  <2>1. Min(I) \in I /\ \A j \in I : Min(I) <= j
    BY <1>2, <1>4, LeastPosition
  <2>2. PICK k \in 1..Len(s) : k = HeightOf(s, b) /\ k \in I /\ \A j \in I : k <= j
    BY <1>1, <1>2, <1>4, <2>1
  <2>3. s[k] = b /\ \A j \in 1..Len(s) : s[j] = b => k <= j
    BY <1>2, <2>2
  <2> QED BY <1>2, <2>2, <2>3
<1> QED BY <1>3, <1>4

(* LastIds: the last blocks, backwards. *)
LEMMA LastIdsAre ==
    ASSUME NEW s \in Seq(Block), NEW n \in Nat \ {0}
    PROVE  /\ LastIds(s, n) \in Seq(Block)
           /\ Len(LastIds(s, n)) = IF Len(s) > n THEN n ELSE Len(s)
           /\ \A i \in 1..Len(LastIds(s, n)) : LastIds(s, n)[i] = s[Len(s) - i + 1]
<1> DEFINE m == IF Len(s) > n THEN Len(s) - n + 1 ELSE 1
           t == SubSeq(s, m, Len(s))
<1>1. Len(s) \in Nat /\ m \in 1..(Len(s) + 1) /\ \A i \in m..Len(s) : s[i] \in Block
  OBVIOUS
<1>2. /\ t \in Seq(Block) /\ Len(t) = Len(s) - m + 1
      /\ \A i \in 1..(Len(s) - m + 1) : t[i] = s[m + i - 1]
  <2> HIDE DEF m
  <2> QED BY <1>1, SubSeqProperties
<1>3. LastIds(s, n) = [i \in 1..Len(t) |-> t[Len(t) - i + 1]]
  BY DEF LastIds, Reverse
<1>4. Len(s) - m + 1 = IF Len(s) > n THEN n ELSE Len(s)
  BY <1>1
<1>5. /\ [i \in 1..Len(t) |-> t[Len(t) - i + 1]] \in Seq(Block)
      /\ Len([i \in 1..Len(t) |-> t[Len(t) - i + 1]]) = Len(t)
      /\ \A i \in 1..Len(t) : t[Len(t) - i + 1] = s[Len(s) - i + 1]
  <2> HIDE DEF m, t
  <2> QED BY <1>1, <1>2
<1> HIDE DEF m, t
<1> QED BY <1>1, <1>2, <1>3, <1>4, <1>5

-----------------------------------------------------------------------------
(* What peers answer. *)

(* A peer that grows has what it had. *)
LEMMA MoreIsKept ==
    ASSUME NEW c, NEW p \in Nat, NEW q \in Nat, p <= q
    PROVE  /\ \A ids : Meets(c, p, ids) => Meets(c, q, ids)
           /\ \A blocks : Len(blocks) \in Nat /\ FromPeer(c, p, blocks) => FromPeer(c, q, blocks)
<1>1. ASSUME NEW ids, Meets(c, p, ids) PROVE Meets(c, q, ids)
  <2>1. CASE \E i \in 1..Len(ids), j \in 1..(p - 1) : ids[i] = PeerChain[c][j]
    BY <2>1 DEF Meets
  <2>2. CASE p > 0 /\ Len(ids) = 1 /\ ids[1] = PeerChain[c][p]
    <3>1. CASE p = q
      BY <2>2, <3>1 DEF Meets
    <3>2. CASE p < q
      <4>1. 1 \in 1..Len(ids) /\ p \in 1..(q - 1)
        BY <2>2, <3>2
      <4> QED BY <2>2, <4>1 DEF Meets
    <3> QED BY <3>1, <3>2
  <2> QED BY <1>1, <2>1, <2>2 DEF Meets
<1>2. ASSUME NEW blocks, Len(blocks) \in Nat, FromPeer(c, p, blocks) PROVE FromPeer(c, q, blocks)
  <2>1. PICK h \in 0..(p - Len(blocks)) : \A i \in 1..Len(blocks) : blocks[i] = PeerChain[c][h + i]
    BY <1>2 DEF FromPeer
  <2>2. h \in 0..(q - Len(blocks))
    BY <1>2
  <2> QED BY <2>1, <2>2 DEF FromPeer
<1> QED BY <1>1, <1>2

LEMMA NothingFromPeer ==
    ASSUME NEW c, NEW p \in Nat
    PROVE  FromPeer(c, p, <<>>)
  BY DEF FromPeer

(* IdsAfter a height: the blocks that follow it, and some if there are any. *)
LEMMA IdsAfterAre ==
    ASSUME NEW s \in Seq(Block), NEW h \in 0..Len(s)
    PROVE  /\ IdsAfter(s, h) \in Seq(Block) /\ h + Len(IdsAfter(s, h)) <= Len(s)
           /\ \A i \in 1..Len(IdsAfter(s, h)) : IdsAfter(s, h)[i] = s[h + i]
           /\ h < Len(s) => IdsAfter(s, h) # <<>>
<1> DEFINE e == IF h + MaxChainLength < Len(s) THEN h + MaxChainLength ELSE Len(s)
<1>1. Len(s) \in Nat /\ h \in Nat /\ e \in h..Len(s) /\ (h < Len(s) => h < e)
      /\ \A i \in (h + 1)..e : s[i] \in Block
  BY SyncAssumption
<1> DEFINE t == SubSeq(s, h + 1, e)
<1>2. IdsAfter(s, h) = t
  BY DEF IdsAfter
<1> HIDE DEF e
<1>3. h + 1 \in Int /\ e \in Int
  BY <1>1
<1>4. /\ t \in Seq(Block)
      /\ Len(t) = IF h + 1 <= e THEN e - (h + 1) + 1 ELSE 0
      /\ \A i \in 1..(e - (h + 1) + 1) : t[i] = s[(h + 1) + i - 1]
  BY ONLY <1>1, <1>3, SubSeqProperties
<1> HIDE DEF t
<1>5. Len(t) = e - h /\ e - (h + 1) + 1 = e - h
  BY ONLY <1>1, <1>4
<1>6. ASSUME NEW i \in 1..Len(t) PROVE t[i] = s[h + i]
  <2>1. (h + 1) + i - 1 = h + i /\ i \in 1..(e - (h + 1) + 1)
    BY <1>1, <1>5
  <2> QED BY <1>4, <2>1
<1>7. h < Len(s) => t # <<>>
  BY <1>1, <1>5
<1>8. h + Len(t) <= Len(s)
  BY <1>1, <1>5
<1> QED BY <1>2, <1>4, <1>6, <1>7, <1>8

(* The reply of a peer to a request it meets: some ids, which end with      *)
(* blocks of its own chain.                                                 *)
LEMMA ReplyMeets ==
    ASSUME NEW c \in Channel, NEW p \in 0..Len(PeerChain[c]),
           NEW ids \in Seq(Block), Meets(c, p, ids),
           NEW sigs, sigs = Signatures(SubSeq(PeerChain[c], 1, p), ids)
    PROVE  /\ sigs \in Seq(Block) /\ sigs # <<>>
           /\ \A n \in 1..Len(sigs) : /\ SubSeq(sigs, n + 1, Len(sigs)) \in Seq(Block)
                                      /\ FromPeer(c, p, SubSeq(sigs, n + 1, Len(sigs)))
<1> DEFINE s == SubSeq(PeerChain[c], 1, p)
           Follows(b) == HeightOf(s, b) > 0 /\ IdsAfter(s, HeightOf(s, b)) # <<>>
           I == {i \in 1..Len(ids) : Follows(ids[i])}
           common == IF I # {} THEN Min(I) ELSE 0
<1>1. /\ PeerChain[c] \in Seq(Block) /\ p \in Nat
      /\ s \in Seq(Block) /\ Len(s) = p /\ \A i \in 1..p : s[i] = PeerChain[c][i]
  <2>1. PeerChain[c] \in Seq(Block) /\ p \in Nat /\ \A i \in 1..p : PeerChain[c][i] \in Block
    BY SyncAssumption DEF Block
  <2> QED BY <2>1, SubSeqProperties
<1>2. sigs = CASE common > 0 -> <<ids[common]>> \o IdsAfter(s, HeightOf(s, ids[common]))
               [] common = 0 /\ ids = <<Last(s)>> -> ids
               [] OTHER -> <<>>
  BY DEF Signatures, SelectInSeq
<1> HIDE DEF s
<1>3. /\ Len(ids) \in Nat /\ I \in SUBSET (1..Len(ids))
      /\ \A i \in 1..Len(ids) : i \in I <=> Follows(ids[i])
  OBVIOUS
<1>4. CASE I # {}
  <2>1. common \in 1..Len(ids) /\ Follows(ids[common]) /\ ids[common] \in Block
    <3>1. Min(I) \in I
      BY <1>3, <1>4, LeastPosition
    <3>2. common = Min(I)
      BY <1>4
    <3> HIDE DEF common, I, Follows
    <3>3. common \in 1..Len(ids) /\ common \in I
      BY <1>3, <3>1, <3>2
    <3> QED BY <1>3, <3>3
  <2> DEFINE h == HeightOf(s, ids[common])
             rest == IdsAfter(s, h)
  <2>2. sigs = <<ids[common]>> \o rest
    <3> HIDE DEF common, I, Follows
    <3> QED BY <1>2, <2>1
  <2>3. h \in 1..p /\ h \in 0..Len(s)
    <3>1. h > 0
      BY <2>1
    <3> HIDE DEF common
    <3>2. h \in 0..Len(s)
      BY <1>1, HeightIsFirst
    <3> QED BY <1>1, <3>1, <3>2
  <2>4. /\ rest \in Seq(Block) /\ h + Len(rest) <= p
        /\ \A i \in 1..Len(rest) : rest[i] = PeerChain[c][h + i]
    <3>1. /\ rest \in Seq(Block) /\ h + Len(rest) <= Len(s)
          /\ \A i \in 1..Len(rest) : rest[i] = s[h + i]
      <4> HIDE DEF h
      <4> QED BY <1>1, <2>3, IdsAfterAre
    <3> HIDE DEF rest, h
    <3>2. ASSUME NEW i \in 1..Len(rest) PROVE rest[i] = PeerChain[c][h + i]
      <4>1. Len(rest) \in Nat
        BY <3>1
      <4>2. h + i \in 1..p
        BY <1>1, <2>3, <3>1, <4>1
      <4> QED BY <1>1, <3>1, <4>2
    <3> QED BY <1>1, <3>1, <3>2
  <2> HIDE DEF rest, h, common, I, Follows
  <2>5. /\ sigs \in Seq(Block) /\ sigs # <<>> /\ Len(sigs) = Len(rest) + 1
        /\ \A i \in 1..Len(rest) : sigs[i + 1] = rest[i]
    <3>1. PICK x \in Block : sigs = <<x>> \o rest
      BY <2>1, <2>2
    <3>2. /\ Len(rest) \in Nat
          /\ sigs \in Seq(Block) /\ Len(sigs) = 1 + Len(rest)
          /\ \A i \in 1..(1 + Len(rest)) : sigs[i] = IF i <= 1 THEN <<x>>[i] ELSE rest[i - 1]
      <4> DEFINE first == <<x>>
      <4>1. first \in Seq(Block) /\ Len(first) = 1
        OBVIOUS
      <4> HIDE DEF first
      <4>2. sigs = first \o rest /\ rest \in Seq(Block)
        BY <2>4, <3>1 DEF first
      <4>3. /\ sigs \in Seq(Block) /\ Len(sigs) = Len(first) + Len(rest)
            /\ \A i \in 1..(Len(first) + Len(rest)) :
                  sigs[i] = IF i <= Len(first) THEN first[i] ELSE rest[i - Len(first)]
        BY ONLY <4>1, <4>2, ConcatProperties
      <4> QED BY <4>1, <4>2, <4>3 DEF first
    <3>3. ASSUME NEW i \in 1..Len(rest) PROVE sigs[i + 1] = rest[i]
      <4>1. i + 1 \in 1..(1 + Len(rest)) /\ ~(i + 1 <= 1) /\ (i + 1) - 1 = i
        BY <3>2
      <4> QED BY <3>2, <4>1
    <3> QED BY <3>2, <3>3
  <2>6. ASSUME NEW n \in 1..Len(sigs)
        PROVE  /\ SubSeq(sigs, n + 1, Len(sigs)) \in Seq(Block)
               /\ FromPeer(c, p, SubSeq(sigs, n + 1, Len(sigs)))
    <3> DEFINE t == SubSeq(sigs, n + 1, Len(sigs))
    <3>1. /\ t \in Seq(Block) /\ Len(t) = Len(sigs) - n
          /\ \A i \in 1..(Len(sigs) - n) : t[i] = sigs[n + i]
      <4>1. n \in Nat /\ Len(sigs) \in Nat /\ \A i \in (n + 1)..Len(sigs) : sigs[i] \in Block
        BY <2>5
      <4> QED BY <4>1, SubSeqProperties
    <3> HIDE DEF t
    <3>2. h + n - 1 \in 0..(p - Len(t)) /\ Len(rest) \in Nat /\ Len(sigs) \in Nat
      BY <2>3, <2>4, <2>5, <3>1
    <3>3. ASSUME NEW i \in 1..Len(t) PROVE t[i] = PeerChain[c][(h + n - 1) + i]
      <4>1. i \in 1..(Len(sigs) - n) /\ n + i - 1 \in 1..Len(rest) /\ (n + i - 1) + 1 = n + i
            /\ h + (n + i - 1) = (h + n - 1) + i
        BY <2>3, <2>5, <3>1, <3>2
      <4>2. t[i] = sigs[n + i] /\ sigs[n + i] = rest[n + i - 1]
        BY <2>5, <3>1, <4>1
      <4> QED BY <2>4, <4>1, <4>2
    <3>4. FromPeer(c, p, t)
      BY <3>2, <3>3 DEF FromPeer
    <3> QED BY <3>1, <3>4 DEF t
  <2> QED BY <2>5, <2>6
<1>5. CASE I = {}
  <2>1. ~(\E i \in 1..Len(ids), j \in 1..(p - 1) : ids[i] = PeerChain[c][j])
    <3> SUFFICES ASSUME NEW i \in 1..Len(ids), NEW j \in 1..(p - 1), ids[i] = PeerChain[c][j]
                 PROVE  Follows(ids[i])
      BY <1>3, <1>5
    <3>1. s[j] = ids[i] /\ j \in 1..Len(s)
      BY <1>1
    <3>2. HeightOf(s, ids[i]) \in 1..j
      BY <1>1, <3>1, HeightIsFirst
    <3>3. IdsAfter(s, HeightOf(s, ids[i])) # <<>>
      BY <1>1, <3>2, IdsAfterAre
    <3> QED BY <3>2, <3>3
  <2>2. p > 0 /\ Len(ids) = 1 /\ ids[1] = PeerChain[c][p]
    BY <2>1 DEF Meets
  <2>3. ids = <<Last(s)>>
    BY <1>1, <2>2 DEF Last
  <2>4. sigs = ids
    <3>1. common = 0
      BY <1>5
    <3> HIDE DEF common
    <3> QED BY <1>2, <2>3, <3>1
  <2>5. ASSUME NEW n \in 1..Len(sigs) PROVE SubSeq(sigs, n + 1, Len(sigs)) = <<>>
    <3>1. n + 1 \in Int /\ Len(sigs) \in Int /\ Len(sigs) < n + 1
      <4>1. Len(sigs) = 1 /\ n \in 1..Len(sigs)
        BY <2>2, <2>4
      <4> QED BY ONLY <4>1
    <3> QED BY <3>1, SubSeqEmpty
  <2>6. sigs \in Seq(Block) /\ sigs # <<>>
    BY <2>2, <2>4
  <2>7. <<>> \in Seq(Block) /\ FromPeer(c, p, <<>>)
    BY <1>1, NothingFromPeer
  <2> QED BY <2>5, <2>6, <2>7
<1> QED BY <1>4, <1>5

(* So a peer meets a request for what follows the blocks it just sent. *)
LEMMA PartsMeet ==
    ASSUME NEW c \in Channel, NEW p \in Nat,
           NEW blocks \in Seq(Block), FromPeer(c, p, blocks), Len(blocks) > 1
    PROVE  LastIds(blocks, Prefetch) \in Seq(Block) /\ Meets(c, p, LastIds(blocks, Prefetch))
<1> DEFINE ids == LastIds(blocks, Prefetch)
<1>1. /\ Prefetch \in Nat \ {0} /\ ids \in Seq(Block)
      /\ Len(ids) = IF Len(blocks) > Prefetch THEN Prefetch ELSE Len(blocks)
      /\ \A i \in 1..Len(ids) : ids[i] = blocks[Len(blocks) - i + 1]
  BY LastIdsAre, SyncAssumption DEF Prefetch
<1> HIDE DEF ids
<1>2. PICK h \in 0..(p - Len(blocks)) : \A i \in 1..Len(blocks) : blocks[i] = PeerChain[c][h + i]
  BY DEF FromPeer
<1>3. CASE Len(ids) >= 2
  <2>1. 2 \in 1..Len(ids) /\ Len(blocks) - 1 \in 1..Len(blocks)
        /\ h + (Len(blocks) - 1) \in 1..(p - 1)
    BY <1>1, <1>2, <1>3
  <2>2. ids[2] = blocks[Len(blocks) - 1]
    BY <1>1, <2>1
  <2> QED BY <1>1, <1>2, <2>1, <2>2 DEF Meets, ids
<1>4. CASE Len(ids) = 1
  <2>1. ids[1] = blocks[Len(blocks)] /\ 1 \in 1..Len(ids) /\ Len(blocks) \in 1..Len(blocks)
    BY <1>1, <1>4
  <2>2. ids[1] = PeerChain[c][h + Len(blocks)] /\ h + Len(blocks) \in 1..p
    BY <1>2, <2>1
  <2>3. Meets(c, p, ids)
    <3>1. CASE h + Len(blocks) = p
      BY <1>4, <2>2, <3>1 DEF Meets
    <3>2. CASE h + Len(blocks) # p
      <4>1. h + Len(blocks) \in 1..(p - 1)
        BY <2>2, <3>2
      <4> QED BY <2>1, <2>2, <4>1 DEF Meets
    <3> QED BY <3>1, <3>2
  <2> QED BY <1>1, <2>3 DEF ids
<1> QED BY <1>1, <1>3, <1>4

-----------------------------------------------------------------------------
(* What the loaders do keeps each request and its answer together. *)

(* Whatever does not touch the requests. *)
LEMMA SameRequests ==
    ASSUME NEW c, NEW p, NEW l, Sound(c, p, l), NEW m \in Loaders,
           m.wire = l.wire, m.waiting = l.waiting, m.target = l.target, FromPeer(c, p, m.nextBlocks)
    PROVE  Sound(c, p, m)
  BY DEF Sound, OneOfEach, Answerable

(* A new request goes last on the wire. *)
LEMMA AskedLast ==
    ASSUME NEW w \in Seq(Requests), NEW k \in {"signatures", "blocks"}, NEW ids \in Seq(Block)
    PROVE  /\ Append(w, Ask(k, ids)) \in Seq(Requests) /\ Ask(k, ids) \in Requests
           /\ Len(w) \in Nat /\ Len(Append(w, Ask(k, ids))) = Len(w) + 1
           /\ \A i \in 1..Len(w) : Append(w, Ask(k, ids))[i] = w[i]
           /\ Append(w, Ask(k, ids))[Len(w) + 1].kind = k
           /\ Append(w, Ask(k, ids))[Len(w) + 1].ids = ids
<1>1. Ask(k, ids) \in Requests /\ Ask(k, ids).kind = k /\ Ask(k, ids).ids = ids
  BY DEF Ask, Requests
<1> HIDE DEF Requests
<1> QED BY <1>1, AppendProperties

LEMMA LoadSignaturesSound ==
    ASSUME NEW c, NEW p, NEW l, Sound(c, p, l), NEW ids \in Seq(Block), Meets(c, p, ids)
    PROVE  Sound(c, p, LoadSignatures(l, ids))
<1>1. CASE l.waiting
  BY <1>1 DEF LoadSignatures
<1>2. CASE ~l.waiting
  <2> DEFINE m == LoadSignatures(l, ids)
             w == Append(l.wire, Ask("signatures", ids))
  <2>1. m = [l EXCEPT !.lastKnown = ids, !.waiting = TRUE, !.wire = w]
    BY <1>2 DEF LoadSignatures
  <2>2. l.wire \in Seq(Requests)
    BY DEF Sound, Loaders
  <2>3. /\ w \in Seq(Requests) /\ Len(l.wire) \in Nat /\ Len(w) = Len(l.wire) + 1
        /\ \A i \in 1..Len(l.wire) : w[i] = l.wire[i]
        /\ w[Len(l.wire) + 1].kind = "signatures" /\ w[Len(l.wire) + 1].ids = ids
    BY <2>2, AskedLast
  <2> HIDE DEF m, w
  <2>4. /\ m \in Loaders /\ m.wire = w /\ m.waiting = TRUE /\ m.target = l.target
        /\ m.nextBlocks = l.nextBlocks
    BY <2>1, <2>3 DEF Sound, Loaders
  <2>5. \A i \in 1..Len(l.wire) : l.wire[i].kind # "signatures"
    BY <1>2 DEF Sound, OneOfEach
  <2>6. \A i \in 1..Len(w) : i \in 1..Len(l.wire) \/ i = Len(l.wire) + 1
    BY <2>3
  <2>7. OneOfEach(m)
    <3>1. \A i, j \in 1..Len(w) : w[i].kind = w[j].kind => i = j
      <4>1. \A i, j \in 1..Len(l.wire) : l.wire[i].kind = l.wire[j].kind => i = j
        BY DEF Sound, OneOfEach
      <4> QED BY <2>3, <2>5, <2>6, <4>1
    <3>2. \E i \in 1..Len(w) : w[i].kind = "signatures"
      <4>1. Len(l.wire) + 1 \in 1..Len(w)
        BY <2>3
      <4> QED BY <2>3, <4>1
    <3>3. (\E i \in 1..Len(w) : w[i].kind = "blocks")
          <=> \E i \in 1..Len(l.wire) : l.wire[i].kind = "blocks"
      <4>1. \A i \in 1..Len(l.wire) : i \in 1..Len(w)
        BY <2>3
      <4> QED BY <2>3, <2>6, <4>1
    <3> QED BY <2>4, <3>1, <3>2, <3>3 DEF Sound, OneOfEach
  <2>8. Answerable(c, p, m)
    BY <2>3, <2>4, <2>6 DEF Sound, Answerable
  <2> QED BY <2>4, <2>7, <2>8 DEF Sound, m
<1> QED BY <1>1, <1>2

LEMMA LoadNextPartSound ==
    ASSUME NEW c \in Channel, NEW p \in Nat, NEW l, Sound(c, p, l),
           NEW blocks \in Seq(Block), FromPeer(c, p, blocks)
    PROVE  Sound(c, p, LoadNextPart(l, blocks))
<1>1. CASE Len(blocks) > 1
  <2> DEFINE ids == LastIds(blocks, Prefetch)
             m == [l EXCEPT !.hopefullyNext = ids]
  <2>1. ids \in Seq(Block) /\ Meets(c, p, ids)
    BY <1>1, PartsMeet
  <2>2. LoadNextPart(l, blocks) = LoadSignatures(m, ids)
    BY <1>1 DEF LoadNextPart
  <2> HIDE DEF ids
  <2>3. m \in Loaders /\ m.wire = l.wire /\ m.waiting = l.waiting /\ m.target = l.target
        /\ m.nextBlocks = l.nextBlocks
    BY <2>1 DEF Sound, Loaders
  <2> HIDE DEF m
  <2>4. Sound(c, p, m)
    BY <2>3, SameRequests DEF Sound, Answerable
  <2> QED BY <2>1, <2>2, <2>4, LoadSignaturesSound
<1>2. CASE ~(Len(blocks) > 1)
  BY <1>2 DEF LoadNextPart
<1> QED BY <1>1, <1>2

(* OptimisticExtensionLoader gives up what it holds, and may ask for more. *)
LEMMA EmptiedSound ==
    ASSUME NEW c, NEW p \in Nat, NEW l, Sound(c, p, l)
    PROVE  Sound(c, p, [l EXCEPT !.nextBlocks = <<>>])
<1> DEFINE m == [l EXCEPT !.nextBlocks = <<>>]
<1>1. m \in Loaders /\ m.wire = l.wire /\ m.waiting = l.waiting /\ m.target = l.target
      /\ m.nextBlocks = <<>>
  BY EmptySeq DEF Sound, Loaders
<1> HIDE DEF m
<1>2. FromPeer(c, p, m.nextBlocks)
  BY <1>1, NothingFromPeer
<1>3. Sound(c, p, m)
  BY <1>1, <1>2, SameRequests
<1> QED BY <1>3 DEF m

LEMMA HandOverSound ==
    ASSUME NEW c \in Channel, NEW p \in Nat, NEW l, Sound(c, p, l)
    PROVE  SoundResult(c, p, HandOver(l))
<1>1. l.nextBlocks \in Seq(Block) /\ FromPeer(c, p, l.nextBlocks)
  BY DEF Sound, Answerable, Loaders
<1>2. Sound(c, p, LoadNextPart(l, l.nextBlocks))
  BY <1>1, LoadNextPartSound
<1>3. Sound(c, p, [LoadNextPart(l, l.nextBlocks) EXCEPT !.nextBlocks = <<>>])
  BY <1>2, EmptiedSound
<1> QED BY <1>1, <1>3 DEF HandOver, SoundResult

LEMMA QuietSound ==
    ASSUME NEW c, NEW p, NEW l, Sound(c, p, l)
    PROVE  SoundResult(c, p, Quiet(l))
  BY DEF Quiet, SoundResult

LEMMA LoadSound ==
    ASSUME NEW c \in Channel, NEW p \in Nat, NEW l, Sound(c, p, l),
           NEW ids \in Seq(Block), Meets(c, p, ids)
    PROVE  SoundResult(c, p, Load(l, ids))
<1>0. ids # <<>>
  BY DEF Meets
<1>1. CASE l.hopefullyNext = ids /\ l.nextBlocks = <<>>
  <2> DEFINE m == [l EXCEPT !.hopefullyNext = <<>>]
  <2>1. m \in Loaders /\ m.wire = l.wire /\ m.waiting = l.waiting /\ m.target = l.target
        /\ m.nextBlocks = l.nextBlocks
    BY EmptySeq DEF Sound, Loaders
  <2>2. Load(l, ids) = Quiet(m)
    BY <1>0, <1>1 DEF Load
  <2> HIDE DEF m
  <2>3. Sound(c, p, m)
    BY <2>1, SameRequests DEF Sound, Answerable
  <2> QED BY <2>2, <2>3, QuietSound
<1>2. CASE l.hopefullyNext = ids /\ l.nextBlocks # <<>>
  <2>1. Load(l, ids) = HandOver(l)
    BY <1>0, <1>2 DEF Load
  <2> QED BY <2>1, HandOverSound
<1>3. CASE l.hopefullyNext # ids /\ l.hopefullyNext = <<>>
  <2>1. Load(l, ids) = Quiet(LoadSignatures(l, ids))
    BY <1>0, <1>3 DEF Load
  <2> QED BY <2>1, LoadSignaturesSound, QuietSound
<1>4. CASE l.hopefullyNext # ids /\ l.hopefullyNext # <<>>
  <2> DEFINE d == IF Unexpected(l, ids) THEN l.nextBlocks = <<>> ELSE l.discard
             m == [l EXCEPT !.discard = d, !.hopefullyNext = <<>>, !.nextBlocks = <<>>]
  <2>1. Load(l, ids) = Quiet(LoadSignatures(m, ids))
    BY <1>0, <1>4 DEF Load
  <2>2. d \in BOOLEAN
    BY DEF Sound, Loaders
  <2> HIDE DEF d
  <2>3. m \in Loaders /\ m.wire = l.wire /\ m.waiting = l.waiting /\ m.target = l.target
        /\ m.nextBlocks = <<>>
    BY <2>2, EmptySeq DEF Sound, Loaders
  <2> HIDE DEF m
  <2>4. Sound(c, p, m)
    BY <2>3, SameRequests, NothingFromPeer
  <2> QED BY <2>1, <2>4, LoadSignaturesSound, QuietSound
<1> QED BY <1>1, <1>2, <1>3, <1>4

LEMMA LoadedSound ==
    ASSUME NEW c \in Channel, NEW p \in Nat, NEW l, Sound(c, p, l),
           NEW blocks \in Seq(Block), FromPeer(c, p, blocks)
    PROVE  SoundResult(c, p, Loaded(l, blocks))
<1>1. CASE l.discard
  <2> DEFINE m == [l EXCEPT !.discard = FALSE]
  <2>1. m \in Loaders /\ m.wire = l.wire /\ m.waiting = l.waiting /\ m.target = l.target
        /\ m.nextBlocks = l.nextBlocks
    BY EmptySeq DEF Sound, Loaders
  <2>2. Loaded(l, blocks) = Quiet(m)
    BY <1>1 DEF Loaded
  <2> HIDE DEF m
  <2>3. Sound(c, p, m)
    BY <2>1, SameRequests DEF Sound, Answerable
  <2> QED BY <2>2, <2>3, QuietSound
<1>2. CASE ~l.discard /\ blocks = <<>>
  <2> DEFINE m == [l EXCEPT !.hopefullyNext = <<>>]
  <2>1. m \in Loaders /\ m.wire = l.wire /\ m.waiting = l.waiting /\ m.target = l.target
        /\ m.nextBlocks = l.nextBlocks
    BY EmptySeq DEF Sound, Loaders
  <2>2. Loaded(l, blocks) = [l |-> m, up |-> {<<>>}]
    BY <1>2 DEF Loaded
  <2> HIDE DEF m
  <2>3. Sound(c, p, m)
    BY <2>1, SameRequests DEF Sound, Answerable
  <2>4. Loaded(l, blocks).l = m /\ \E b \in Seq(Block) : Loaded(l, blocks).up = {b}
    <3>1. Loaded(l, blocks) = [l |-> m, up |-> {blocks}]
      BY <1>2, <2>2
    <3> QED BY <3>1
  <2> QED BY <2>3, <2>4 DEF SoundResult
<1>3. CASE ~l.discard /\ blocks # <<>> /\ l.hopefullyNext = <<>>
  <2>1. Loaded(l, blocks) = [l |-> LoadNextPart(l, blocks), up |-> {blocks}]
    BY <1>3 DEF Loaded
  <2> QED BY <2>1, LoadNextPartSound DEF SoundResult
<1>4. CASE ~l.discard /\ blocks # <<>> /\ l.hopefullyNext # <<>>
  <2> DEFINE m == [l EXCEPT !.nextBlocks = blocks]
  <2>1. m \in Loaders /\ m.wire = l.wire /\ m.waiting = l.waiting /\ m.target = l.target
        /\ m.nextBlocks = blocks
    BY EmptySeq DEF Sound, Loaders
  <2>2. Loaded(l, blocks) = Quiet(m)
    BY <1>4 DEF Loaded
  <2> HIDE DEF m
  <2>3. Sound(c, p, m)
    BY <2>1, SameRequests
  <2> QED BY <2>2, <2>3, QuietSound
<1> QED BY <1>1, <1>2, <1>3, <1>4

LEMMA LoadBlocksSound ==
    ASSUME NEW c \in Channel, NEW p \in Nat, NEW l, Sound(c, p, l), NEW parent \in Block,
           NEW ids \in Seq(Block), FromPeer(c, p, ids)
    PROVE  SoundResult(c, p, LoadBlocks(l, parent, ids))
<1>1. CASE l.target # NoTarget
  BY <1>1, QuietSound DEF LoadBlocks
<1>2. CASE l.target = NoTarget /\ ids = <<>>
  <2>1. LoadBlocks(l, parent, ids) = Loaded(l, <<>>)
    BY <1>2 DEF LoadBlocks
  <2> QED BY <1>2, <2>1, LoadedSound
<1>3. CASE l.target = NoTarget /\ ids # <<>>
  <2> DEFINE t == [parent |-> parent, ids |-> ids]
             w == Append(l.wire, Ask("blocks", ids))
             m == [l EXCEPT !.target = t, !.wire = w]
  <2>1. LoadBlocks(l, parent, ids) = Quiet(m)
    BY <1>3 DEF LoadBlocks
  <2>2. l.wire \in Seq(Requests)
    BY DEF Sound, Loaders
  <2>3. /\ w \in Seq(Requests) /\ Len(l.wire) \in Nat /\ Len(w) = Len(l.wire) + 1
        /\ \A i \in 1..Len(l.wire) : w[i] = l.wire[i]
        /\ w[Len(l.wire) + 1].kind = "blocks"
    BY <2>2, AskedLast
  <2> HIDE DEF w
  <2>4. /\ m \in Loaders /\ m.wire = w /\ m.waiting = l.waiting /\ m.target = t
        /\ m.target.ids = ids /\ m.nextBlocks = l.nextBlocks
    BY <2>3 DEF Sound, Loaders
  <2>5. m.target # NoTarget
    BY <1>3, <2>4 DEF NoTarget
  <2> HIDE DEF m, t
  <2>6. \A i \in 1..Len(l.wire) : l.wire[i].kind # "blocks"
    BY <1>3 DEF Sound, OneOfEach
  <2>7. \A i \in 1..Len(w) : i \in 1..Len(l.wire) \/ i = Len(l.wire) + 1
    BY <2>3
  <2>8. OneOfEach(m)
    <3>1. \A i, j \in 1..Len(w) : w[i].kind = w[j].kind => i = j
      <4>1. \A i, j \in 1..Len(l.wire) : l.wire[i].kind = l.wire[j].kind => i = j
        BY DEF Sound, OneOfEach
      <4> QED BY <2>3, <2>6, <2>7, <4>1
    <3>2. \E i \in 1..Len(w) : w[i].kind = "blocks"
      <4>1. Len(l.wire) + 1 \in 1..Len(w)
        BY <2>3
      <4> QED BY <2>3, <4>1
    <3>3. (\E i \in 1..Len(w) : w[i].kind = "signatures")
          <=> \E i \in 1..Len(l.wire) : l.wire[i].kind = "signatures"
      <4>1. \A i \in 1..Len(l.wire) : i \in 1..Len(w)
        BY <2>3
      <4> QED BY <2>3, <2>7, <4>1
    <3> QED BY <2>4, <2>5, <3>1, <3>2, <3>3 DEF Sound, OneOfEach
  <2>9. Answerable(c, p, m)
    BY <2>3, <2>4, <2>7 DEF Sound, Answerable
  <2>10. Sound(c, p, m)
    BY <2>4, <2>8, <2>9 DEF Sound
  <2> QED BY <2>1, <2>10, QuietSound
<1> QED BY <1>1, <1>2, <1>3

(* The first request leaves the wire: no other of its kind is left. *)
LEMMA FirstTaken ==
    ASSUME NEW w \in Seq(Requests), w # <<>>,
           \A i, j \in 1..Len(w) : w[i].kind = w[j].kind => i = j
    PROVE  /\ Tail(w) \in Seq(Requests)
           /\ \A i \in 1..Len(Tail(w)) : i + 1 \in 1..Len(w) /\ Tail(w)[i] = w[i + 1]
           /\ \A i, j \in 1..Len(Tail(w)) : Tail(w)[i].kind = Tail(w)[j].kind => i = j
           /\ ~ \E i \in 1..Len(Tail(w)) : Tail(w)[i].kind = Head(w).kind
           /\ \A k : k # Head(w).kind => ((\E i \in 1..Len(Tail(w)) : Tail(w)[i].kind = k)
                                           <=> \E i \in 1..Len(w) : w[i].kind = k)
           /\ 1 \in 1..Len(w) /\ Head(w) = w[1]
<1> DEFINE t == Tail(w)
<1>1. /\ t \in Seq(Requests) /\ Len(t) = Len(w) - 1 /\ Len(w) \in Nat /\ Len(t) \in Nat
      /\ \A i \in 1..Len(t) : t[i] = w[i + 1]
      /\ 1 \in 1..Len(w) /\ Head(w) = w[1]
  BY HeadTailProperties
<1> HIDE DEF t
<1>2. \A i \in 1..Len(t) : i + 1 \in 1..Len(w) /\ i + 1 # 1
  BY <1>1
<1>3. ASSUME NEW i \in 1..Len(t), NEW j \in 1..Len(t), t[i].kind = t[j].kind PROVE i = j
  <2>1. i + 1 = j + 1
    BY <1>1, <1>2, <1>3
  <2> QED BY <1>1, <2>1
<1>4. ~ \E i \in 1..Len(t) : t[i].kind = Head(w).kind
  BY <1>1, <1>2
<1>5. ASSUME NEW k, k # Head(w).kind
      PROVE  (\E i \in 1..Len(t) : t[i].kind = k) <=> \E i \in 1..Len(w) : w[i].kind = k
  <2>1. ASSUME NEW i \in 1..Len(t), t[i].kind = k PROVE \E j \in 1..Len(w) : w[j].kind = k
    BY <1>1, <1>2, <2>1
  <2>2. ASSUME NEW i \in 1..Len(w), w[i].kind = k PROVE \E j \in 1..Len(t) : t[j].kind = k
    <3>1. i # 1
      BY <1>1, <1>5, <2>2
    <3>2. i - 1 \in 1..Len(t) /\ (i - 1) + 1 = i
      BY <1>1, <3>1
    <3> QED BY <1>1, <2>2, <3>2
  <2> QED BY <2>1, <2>2
<1> QED BY <1>1, <1>2, <1>3, <1>4, <1>5 DEF t

LEMMA SignaturesTaken ==
    ASSUME NEW c, NEW p, NEW l, Sound(c, p, l), l.wire # <<>>, Head(l.wire).kind = "signatures"
    PROVE  Sound(c, p, [[l EXCEPT !.wire = Tail(@)] EXCEPT !.waiting = FALSE])
<1> DEFINE t == Tail(l.wire)
           m == [[l EXCEPT !.wire = t] EXCEPT !.waiting = FALSE]
<1>1. l.wire \in Seq(Requests) /\ \A i, j \in 1..Len(l.wire) : l.wire[i].kind = l.wire[j].kind => i = j
  BY DEF Sound, OneOfEach, Loaders
<1>2. /\ t \in Seq(Requests)
      /\ \A i \in 1..Len(t) : i + 1 \in 1..Len(l.wire) /\ t[i] = l.wire[i + 1]
      /\ \A i, j \in 1..Len(t) : t[i].kind = t[j].kind => i = j
      /\ ~ \E i \in 1..Len(t) : t[i].kind = "signatures"
      /\ (\E i \in 1..Len(t) : t[i].kind = "blocks")
         <=> \E i \in 1..Len(l.wire) : l.wire[i].kind = "blocks"
  <2>1. /\ t \in Seq(Requests)
        /\ \A i \in 1..Len(t) : i + 1 \in 1..Len(l.wire) /\ t[i] = l.wire[i + 1]
        /\ \A i, j \in 1..Len(t) : t[i].kind = t[j].kind => i = j
        /\ ~ \E i \in 1..Len(t) : t[i].kind = Head(l.wire).kind
        /\ \A k : k # Head(l.wire).kind => ((\E i \in 1..Len(t) : t[i].kind = k)
                                        <=> \E i \in 1..Len(l.wire) : l.wire[i].kind = k)
    BY ONLY l.wire # <<>>, <1>1, FirstTaken
  <2>2. "blocks" # Head(l.wire).kind
    OBVIOUS
  <2> HIDE DEF t
  <2> QED BY <2>1, <2>2
<1> HIDE DEF t
<1>3. /\ m \in Loaders /\ m.wire = t /\ m.waiting = FALSE /\ m.target = l.target
      /\ m.nextBlocks = l.nextBlocks
  BY <1>2 DEF Sound, Loaders
<1> HIDE DEF m
<1>4. OneOfEach(m)
  BY <1>2, <1>3 DEF Sound, OneOfEach
<1>5. Answerable(c, p, m)
  BY <1>2, <1>3 DEF Sound, Answerable
<1>6. Sound(c, p, m)
  BY <1>3, <1>4, <1>5 DEF Sound
<1> QED BY <1>6 DEF m, t

LEMMA BlocksTaken ==
    ASSUME NEW c, NEW p \in Nat, NEW l, Sound(c, p, l), l.wire # <<>>, Head(l.wire).kind = "blocks"
    PROVE  Sound(c, p, [[l EXCEPT !.wire = Tail(@)] EXCEPT !.target = NoTarget])
<1> DEFINE t == Tail(l.wire)
           m == [[l EXCEPT !.wire = t] EXCEPT !.target = NoTarget]
<1>1. l.wire \in Seq(Requests) /\ \A i, j \in 1..Len(l.wire) : l.wire[i].kind = l.wire[j].kind => i = j
  BY DEF Sound, OneOfEach, Loaders
<1>2. /\ t \in Seq(Requests)
      /\ \A i \in 1..Len(t) : i + 1 \in 1..Len(l.wire) /\ t[i] = l.wire[i + 1]
      /\ \A i, j \in 1..Len(t) : t[i].kind = t[j].kind => i = j
      /\ ~ \E i \in 1..Len(t) : t[i].kind = "blocks"
      /\ (\E i \in 1..Len(t) : t[i].kind = "signatures")
         <=> \E i \in 1..Len(l.wire) : l.wire[i].kind = "signatures"
  <2>1. /\ t \in Seq(Requests)
        /\ \A i \in 1..Len(t) : i + 1 \in 1..Len(l.wire) /\ t[i] = l.wire[i + 1]
        /\ \A i, j \in 1..Len(t) : t[i].kind = t[j].kind => i = j
        /\ ~ \E i \in 1..Len(t) : t[i].kind = Head(l.wire).kind
        /\ \A k : k # Head(l.wire).kind => ((\E i \in 1..Len(t) : t[i].kind = k)
                                        <=> \E i \in 1..Len(l.wire) : l.wire[i].kind = k)
    BY ONLY l.wire # <<>>, <1>1, FirstTaken
  <2>2. "signatures" # Head(l.wire).kind
    OBVIOUS
  <2> HIDE DEF t
  <2> QED BY <2>1, <2>2
<1> HIDE DEF t
<1>3. /\ m \in Loaders /\ m.wire = t /\ m.waiting = l.waiting /\ m.target = NoTarget
      /\ m.nextBlocks = l.nextBlocks
  BY <1>2, EmptySeq DEF Sound, Loaders, NoTarget
<1> HIDE DEF m
<1>4. OneOfEach(m)
  BY <1>2, <1>3 DEF Sound, OneOfEach
<1>5. Answerable(c, p, m)
  <2>1. m.target.ids = <<>>
    BY <1>3 DEF NoTarget
  <2> QED BY <1>2, <1>3, <2>1, NothingFromPeer DEF Sound, Answerable
<1>6. Sound(c, p, m)
  BY <1>3, <1>4, <1>5 DEF Sound
<1> QED BY <1>6 DEF m, t

(* The answer to GetSignatures, which is owed: the request meets the peer. *)
LEMMA GotSignaturesSound ==
    ASSUME NEW c \in Channel, NEW p \in 0..Len(PeerChain[c]), NEW l, Sound(c, p, l),
           l.wire # <<>>, Head(l.wire).kind = "signatures",
           NEW sigs, sigs = Signatures(SubSeq(PeerChain[c], 1, p), Head(l.wire).ids)
    PROVE  sigs # <<>> /\ SoundResult(c, p, GotSignatures([l EXCEPT !.wire = Tail(@)], sigs))
<1> DEFINE a == [l EXCEPT !.wire = Tail(@)]
           m == [a EXCEPT !.waiting = FALSE]
           n == KnownIn(a, sigs)
<1>1. Sound(c, p, m)
  BY SignaturesTaken
<1>2. p \in Nat
  BY SyncAssumption
<1>3. Head(l.wire).ids \in Seq(Block) /\ Meets(c, p, Head(l.wire).ids)
  <2>1. l.wire \in Seq(Requests) /\ 1 \in 1..Len(l.wire) /\ Head(l.wire) = l.wire[1]
    BY FirstTaken DEF Sound, OneOfEach, Loaders
  <2>2. Head(l.wire) \in Requests
    BY <2>1
  <2> QED BY <2>1, <2>2 DEF Sound, Answerable, Requests
<1>4. /\ sigs \in Seq(Block) /\ sigs # <<>>
      /\ \A i \in 1..Len(sigs) : /\ SubSeq(sigs, i + 1, Len(sigs)) \in Seq(Block)
                                 /\ FromPeer(c, p, SubSeq(sigs, i + 1, Len(sigs)))
  BY <1>3, ReplyMeets
<1>5. n \in 0..Len(sigs)
  <2> DEFINE I == {i \in 1..Len(sigs) : ~Contains(a.lastKnown, sigs[i])}
             unknown == IF I # {} THEN Min(I) ELSE 0
  <2>1. n = IF unknown = 0 THEN Len(sigs) ELSE unknown - 1
    BY DEF KnownIn, SelectInSeq
  <2>2. Len(sigs) \in Nat /\ I \in SUBSET (1..Len(sigs))
    BY <1>4
  <2> HIDE DEF I
  <2>3. unknown \in 0..Len(sigs)
    <3>1. CASE I = {}
      BY <2>2, <3>1
    <3>2. CASE I # {}
      <4>1. Min(I) \in I
        BY <2>2, <3>2, LeastPosition
      <4>2. unknown = Min(I)
        BY <3>2
      <4> HIDE DEF unknown
      <4>3. Min(I) \in 1..Len(sigs)
        BY ONLY <2>2, <4>1
      <4> QED BY ONLY <2>2, <4>2, <4>3
    <3> QED BY <3>1, <3>2
  <2> HIDE DEF unknown
  <2> QED BY <2>1, <2>2, <2>3
<1>6. GotSignatures(a, sigs) = IF n = 0 THEN Quiet(m)
                               ELSE LoadBlocks(m, sigs[n], SubSeq(sigs, n + 1, Len(sigs)))
  BY DEF GotSignatures, KnownIn
<1> HIDE DEF n, m, a
<1>7. CASE n = 0
  BY <1>1, <1>4, <1>6, <1>7, QuietSound DEF a
<1>8. CASE n # 0
  <2>1. n \in 1..Len(sigs) /\ sigs[n] \in Block
    BY <1>4, <1>5, <1>8
  <2>2. SoundResult(c, p, LoadBlocks(m, sigs[n], SubSeq(sigs, n + 1, Len(sigs))))
    BY <1>1, <1>2, <1>4, <2>1, LoadBlocksSound
  <2> QED BY <1>4, <1>6, <1>8, <2>2 DEF a
<1> QED BY <1>7, <1>8

(* The blocks a peer sends for the ids it was asked about. *)
LEMMA GotBlocksSound ==
    ASSUME NEW c \in Channel, NEW p \in Nat, NEW l, Sound(c, p, l),
           l.wire # <<>>, Head(l.wire).kind = "blocks"
    PROVE  SoundResult(c, p, Loaded([[l EXCEPT !.wire = Tail(@)] EXCEPT !.target = NoTarget], l.target.ids))
<1>1. l.target.ids \in Seq(Block) /\ FromPeer(c, p, l.target.ids)
  BY DEF Sound, Answerable, Loaders
<1> QED BY <1>1, BlocksTaken, LoadedSound

LEMMA FreshSound == ASSUME NEW c, NEW p \in Nat PROVE Sound(c, p, Fresh)
<1>1. /\ Fresh \in Loaders /\ Fresh.wire = <<>> /\ Fresh.waiting = FALSE /\ Fresh.target = NoTarget
      /\ Fresh.target.ids = <<>> /\ Fresh.nextBlocks = <<>>
  BY EmptySeq DEF Fresh, Loaders, NoTarget
<1>2. Len(Fresh.wire) = 0
  BY <1>1
<1> QED BY <1>1, <1>2, NothingFromPeer DEF Sound, OneOfEach, Answerable

-----------------------------------------------------------------------------
(* What is written to a channel by other threads. *)

LEMMA MessageAppended ==
    ASSUME NEW c, NEW p, NEW q \in Seq(Messages), LoadMeets(c, p, q),
           NEW m \in Messages, m.kind = "load" => Meets(c, p, m.ids)
    PROVE  Append(q, m) \in Seq(Messages) /\ LoadMeets(c, p, Append(q, m))
<1>1. /\ Append(q, m) \in Seq(Messages) /\ Len(q) \in Nat /\ Len(Append(q, m)) = Len(q) + 1
      /\ \A i \in 1..Len(q) : Append(q, m)[i] = q[i]
      /\ Append(q, m)[Len(q) + 1] = m
  BY AppendProperties
<1>2. \A i \in 1..Len(Append(q, m)) : i \in 1..Len(q) \/ i = Len(q) + 1
  BY <1>1
<1> QED BY <1>1, <1>2 DEF LoadMeets

LEMMA MessageTaken ==
    ASSUME NEW c, NEW p, NEW q \in Seq(Messages), LoadMeets(c, p, q), q # <<>>
    PROVE  /\ Tail(q) \in Seq(Messages) /\ LoadMeets(c, p, Tail(q))
           /\ Head(q) \in Messages /\ (Head(q).kind = "load" => Meets(c, p, Head(q).ids))
<1>1. /\ Head(q) \in Messages /\ Tail(q) \in Seq(Messages) /\ Len(Tail(q)) = Len(q) - 1
      /\ \A i \in 1..Len(Tail(q)) : Tail(q)[i] = q[i + 1]
      /\ Len(q) \in Nat /\ 1 \in 1..Len(q) /\ Head(q) = q[1]
  <2> HIDE DEF Messages
  <2> QED BY HeadTailProperties
<1>2. \A i \in 1..Len(Tail(q)) : i + 1 \in 1..Len(q)
  BY <1>1
<1> QED BY <1>1, <1>2 DEF LoadMeets

LEMMA NoMessages == ASSUME NEW c, NEW p PROVE <<>> \in Seq(Messages) /\ LoadMeets(c, p, <<>>)
  BY EmptySeq DEF LoadMeets

LEMMA MessageKinds ==
    /\ \A n \in Nat \ {0} : [kind |-> "score", score |-> n] \in Messages
    /\ \A ids \in Seq(Block) : [kind |-> "load", ids |-> ids] \in Messages
    /\ [kind |-> "close"] \in Messages
    /\ \A m \in Messages : m.kind = "score" => m.score \in Nat \ {0}
    /\ \A m \in Messages : m.kind = "load" => m.ids \in Seq(Block)
  BY DEF Messages

-----------------------------------------------------------------------------
(* One step of each thread. *)

Kept == NodeTyped /\ Behind /\ QueuesMeet /\ LoadersSound

LEMMA OwnIds == ASSUME NodeTyped PROVE lastSignatures \in Seq(Block)
  BY LastIdsAre, SyncAssumption DEF NodeTyped, lastSignatures

(* What a handler passes upstream becomes at most one job. *)
LEMMA UpstreamSound ==
    ASSUME NodeTyped, LoadersSound, UNCHANGED peer, NEW c \in Channel,
           NEW r, SoundResult(c, peer[c], r), NEW q, Upstream(c, r, q)
    PROVE  /\ LoadersSound' /\ jobs' \in Seq([from : Channel, blocks : Seq(Block)])
           /\ jobs # <<>> => jobs' # <<>>
<1> DEFINE Jobs == [from : Channel, blocks : Seq(Block)]
           new == [i \in 1..Cardinality(r.up \ {<<>>}) |->
                     [from |-> c, blocks |-> CHOOSE b \in r.up : TRUE]]
<1>1. /\ loader' = [loader EXCEPT ![c] = r.l]
      /\ jobs' = IF q = c THEN jobs \o new ELSE jobs
  BY DEF Upstream
<1>2. LoadersSound'
  <2>1. Sound(c, peer[c], r.l) /\ r.l \in Loaders
    BY DEF SoundResult, Sound
  <2>2. loader' \in [Channel -> Loaders]
    BY <1>1, <2>1 DEF LoadersSound
  <2>3. ASSUME NEW d \in Channel PROVE Sound(d, peer'[d], loader'[d])
    <3>1. CASE d = c
      <4>1. loader'[c] = r.l
        BY <1>1 DEF LoadersSound
      <4> QED BY <2>1, <3>1, <4>1
    <3>2. CASE d # c
      <4>1. loader'[d] = loader[d]
        BY <1>1, <3>2 DEF LoadersSound
      <4> QED BY <4>1 DEF LoadersSound
    <3> QED BY <3>1, <3>2
  <2> QED BY <2>2, <2>3 DEF LoadersSound
<1>3. new \in Seq(Jobs)
  <2>1. CASE r.up \ {<<>>} = {}
    <3>1. Cardinality(r.up \ {<<>>}) = 0
      BY <2>1, FS_EmptySet
    <3>2. new = [i \in 1..0 |-> [from |-> c, blocks |-> CHOOSE b \in r.up : TRUE]]
      BY <3>1
    <3>3. new = <<>>
      <4> HIDE DEF new
      <4> QED BY <3>2
    <3> HIDE DEF new, Jobs
    <3> QED BY <3>3, EmptySeq
  <2>2. CASE r.up \ {<<>>} # {}
    <3>1. PICK b \in Seq(Block) : r.up = {b} /\ b # <<>>
      BY <2>2 DEF SoundResult
    <3>2. r.up \ {<<>>} = {b} /\ (CHOOSE x \in r.up : TRUE) = b
      BY <3>1
    <3>3. Cardinality(r.up \ {<<>>}) = 1
      BY <3>2, FS_Singleton
    <3>4. new = [i \in 1..1 |-> [from |-> c, blocks |-> b]]
      BY <3>2, <3>3
    <3>5. [i \in 1..1 |-> [from |-> c, blocks |-> b]] \in Seq(Jobs)
      OBVIOUS
    <3> HIDE DEF new, Jobs
    <3> QED BY <3>4, <3>5
  <2> QED BY <2>1, <2>2
<1>4. jobs \in Seq(Jobs)
  BY DEF NodeTyped
<1> HIDE DEF new, Jobs
<1>5. jobs' \in Seq(Jobs) /\ (jobs # <<>> => jobs' # <<>>)
  BY <1>1, <1>3, <1>4, ConcatProperties
<1> QED BY <1>2, <1>5 DEF Jobs

LEMMA ReadScoreKept ==
    ASSUME Inv, Kept, NEW c \in Channel, ReadScore(c)
    PROVE  Kept'
<1> USE DEF Kept
<1>1. /\ announced' = [announced EXCEPT ![c] = peer[c]] /\ scores' = [scores EXCEPT ![c] = peer[c]]
      /\ UNCHANGED <<chain, jobs, work, busy, minted, peer, localScore, queue, loader>>
  BY DEF ReadScore, node
<1>2. Behind'
  BY <1>1 DEF Behind, Inv, Typed
<1> QED BY <1>1, <1>2 DEF NodeTyped, QueuesMeet, LoadersSound

(* The channel that is pinned is asked for what follows the blocks of the   *)
(* node, from which its peer parted within MaxRollback.                     *)
LEMMA PinKept ==
    ASSUME Inv, Kept, PartedWithin, NEW c \in Channel, Pin(c)
    PROVE  Kept'
<1> USE DEF Kept
<1>1. UNCHANGED <<chain, peer, announced, localScore, scores, queue, work, busy, minted>> /\ Sought(c)
  BY DEF Pin, peers, Sought
<1>2. Behind' /\ QueuesMeet'
  BY <1>1 DEF Behind, QueuesMeet
<1>3. LoadersSound' /\ jobs' \in Seq([from : Channel, blocks : Seq(Block)])
      /\ (jobs # <<>> => jobs' # <<>>)
  <2>1. CASE Upstream(c, Load(loader[c], lastSignatures), c)
    <3>1. lastSignatures \in Seq(Block) /\ Meets(c, peer[c], lastSignatures)
      BY <1>1, OwnIds DEF PartedWithin
    <3>2. Sound(c, peer[c], loader[c]) /\ peer[c] \in Nat
      BY DEF LoadersSound, Inv, Typed
    <3>3. SoundResult(c, peer[c], Load(loader[c], lastSignatures))
      BY <3>1, <3>2, LoadSound
    <3> QED BY <1>1, <2>1, <3>3, UpstreamSound
  <2>2. CASE UNCHANGED <<pinned, loader, jobs>>
    BY <1>1, <2>2 DEF LoadersSound, NodeTyped
  <2> QED BY <2>1, <2>2 DEF Pin
<1>4. NodeTyped'
  BY <1>1, <1>3 DEF NodeTyped
<1> QED BY <1>2, <1>3, <1>4

(* The first message of a queue is taken from it. *)
LEMMA QueueTaken ==
    ASSUME NodeTyped, QueuesMeet, UNCHANGED peer, NEW c \in Channel, queue[c] # <<>>,
           queue' = [queue EXCEPT ![c] = Tail(@)]
    PROVE  /\ queue' \in [Channel -> Seq(Messages)] /\ QueuesMeet'
           /\ Head(queue[c]) \in Messages
           /\ Head(queue[c]).kind = "load" => Meets(c, peer[c], Head(queue[c]).ids)
<1>1. /\ Tail(queue[c]) \in Seq(Messages) /\ LoadMeets(c, peer[c], Tail(queue[c]))
      /\ Head(queue[c]) \in Messages
      /\ Head(queue[c]).kind = "load" => Meets(c, peer[c], Head(queue[c]).ids)
  BY MessageTaken DEF NodeTyped, QueuesMeet
<1>2. queue' \in [Channel -> Seq(Messages)]
  BY <1>1 DEF NodeTyped
<1>3. ASSUME NEW d \in Channel PROVE LoadMeets(d, peer'[d], queue'[d])
  <2>1. queue'[d] = IF d = c THEN Tail(queue[c]) ELSE queue[d]
    BY DEF NodeTyped
  <2> QED BY <1>1, <2>1 DEF QueuesMeet
<1> QED BY <1>1, <1>2, <1>3 DEF QueuesMeet

LEMMA WriteScoreKept ==
    ASSUME Inv, Kept, NEW c \in Channel, WriteScore(c)
    PROVE  Kept'
<1> USE DEF Kept
<1>1. /\ queue[c] # <<>> /\ Head(queue[c]).kind = "score"
      /\ queue' = [queue EXCEPT ![c] = Tail(@)] /\ localScore' = Head(queue[c]).score
      /\ UNCHANGED <<chain, jobs, work, busy, minted, peer, announced, scores, loader>>
  BY DEF WriteScore, peers, node
<1>2. /\ queue' \in [Channel -> Seq(Messages)] /\ QueuesMeet'
      /\ localScore' \in Nat \ {0}
  BY <1>1, QueueTaken, MessageKinds
<1>3. Behind' /\ LoadersSound'
  BY <1>1 DEF Behind, LoadersSound
<1>4. NodeTyped'
  BY <1>1, <1>2 DEF NodeTyped
<1> QED BY <1>2, <1>3, <1>4

LEMMA WriteLoadKept ==
    ASSUME Inv, Kept, NEW c \in Channel, WriteLoad(c)
    PROVE  Kept'
<1> USE DEF Kept
<1>1. /\ queue[c] # <<>> /\ Head(queue[c]).kind = "load"
      /\ queue' = [queue EXCEPT ![c] = Tail(@)]
      /\ Upstream(c, Load(loader[c], Head(queue[c]).ids), pinned)
      /\ UNCHANGED <<chain, peer, announced, localScore, scores, work, busy, minted>>
  BY DEF WriteLoad, peers
<1>2. /\ queue' \in [Channel -> Seq(Messages)] /\ QueuesMeet'
      /\ Head(queue[c]).ids \in Seq(Block) /\ Meets(c, peer[c], Head(queue[c]).ids)
  BY <1>1, QueueTaken, MessageKinds
<1>3. Sound(c, peer[c], loader[c]) /\ peer[c] \in Nat
  BY DEF LoadersSound, Inv, Typed
<1>4. SoundResult(c, peer[c], Load(loader[c], Head(queue[c]).ids))
  BY <1>2, <1>3, LoadSound
<1>5. LoadersSound' /\ jobs' \in Seq([from : Channel, blocks : Seq(Block)])
      /\ (jobs # <<>> => jobs' # <<>>)
  BY <1>1, <1>4, UpstreamSound
<1>6. NodeTyped' /\ Behind'
  BY <1>1, <1>2, <1>5 DEF NodeTyped, Behind
<1> QED BY <1>2, <1>5, <1>6

(* Whoever closes a channel. *)
LEMMA CloseKept ==
    ASSUME Inv, Kept, NEW c \in Channel, Close(c)
    PROVE  Kept'
<1> USE DEF Kept
<1>1. /\ UNCHANGED <<chain, jobs, work, busy, minted, peer, announced, scores, localScore>>
      /\ loader' = [loader EXCEPT ![c] = Fresh]
      /\ queue' = [queue EXCEPT ![c] = <<>>]
  BY DEF Close, node, peers
<1>2. Behind'
  BY <1>1 DEF Behind
<1>3. LoadersSound'
  <2>1. Fresh \in Loaders /\ peer[c] \in Nat /\ Sound(c, peer[c], Fresh)
    BY FreshSound DEF Sound, Inv, Typed
  <2>2. loader' \in [Channel -> Loaders]
    BY <1>1, <2>1 DEF LoadersSound
  <2>3. ASSUME NEW d \in Channel PROVE Sound(d, peer'[d], loader'[d])
    <3>1. loader'[d] = IF d = c THEN Fresh ELSE loader[d]
      BY <1>1 DEF LoadersSound
    <3> QED BY <1>1, <2>1, <3>1 DEF LoadersSound
  <2> QED BY <2>2, <2>3 DEF LoadersSound
<1>4. queue' \in [Channel -> Seq(Messages)] /\ QueuesMeet'
  <2>1. queue' \in [Channel -> Seq(Messages)]
    BY <1>1, NoMessages DEF NodeTyped
  <2>2. ASSUME NEW d \in Channel PROVE LoadMeets(d, peer'[d], queue'[d])
    <3>1. queue'[d] = IF d = c THEN <<>> ELSE queue[d]
      BY <1>1 DEF NodeTyped
    <3> QED BY <1>1, <3>1, NoMessages DEF QueuesMeet
  <2> QED BY <2>1, <2>2 DEF QueuesMeet
<1>5. NodeTyped'
  BY <1>1, <1>4 DEF NodeTyped
<1> QED BY <1>2, <1>3, <1>4, <1>5

(* The second best is asked for what follows the blocks of the node, too.   *)
LEMMA SwitchKept ==
    ASSUME Inv, Kept, PartedWithin, NEW c \in Channel, Switch(c)
    PROVE  Kept'
<1> USE DEF Kept
<1> DEFINE s == handler[c].channel
           m == [kind |-> "load", ids |-> lastSignatures]
<1>1. /\ UNCHANGED <<chain, jobs, work, busy, minted, peer, announced, scores, localScore, loader>>
      /\ handler[c].at = "switch"
      /\ UNCHANGED queue \/ (s \in open /\ queue' = [queue EXCEPT ![s] = Append(@, m)])
  BY DEF Switch, Listening, node, peers
<1>2. Behind' /\ LoadersSound'
  BY <1>1 DEF Behind, LoadersSound
<1>3. queue' \in [Channel -> Seq(Messages)] /\ QueuesMeet'
  <2>1. CASE UNCHANGED queue
    BY <1>1, <2>1 DEF NodeTyped, QueuesMeet
  <2>2. CASE s \in open /\ queue' = [queue EXCEPT ![s] = Append(@, m)]
    <3>1. s \in Channel
      BY <2>2 DEF Inv, Typed
    <3>2. Sought(s)
      <4>1. handler[c] = At("switch", s)
        BY <1>1 DEF Inv, Typed, Handlers, At
      <4> HIDE DEF s
      <4> QED BY <4>1 DEF Sought
    <3>3. m \in Messages /\ Meets(s, peer[s], m.ids)
      BY <3>1, <3>2, OwnIds, MessageKinds DEF PartedWithin
    <3> HIDE DEF m, s
    <3>4. Append(queue[s], m) \in Seq(Messages) /\ LoadMeets(s, peer[s], Append(queue[s], m))
      BY <3>1, <3>3, MessageAppended DEF NodeTyped, QueuesMeet
    <3>5. queue' \in [Channel -> Seq(Messages)]
      BY <2>2, <3>4 DEF NodeTyped
    <3>6. ASSUME NEW d \in Channel PROVE LoadMeets(d, peer'[d], queue'[d])
      <4>1. queue'[d] = IF d = s THEN Append(queue[s], m) ELSE queue[d]
        BY <2>2 DEF NodeTyped
      <4> QED BY <1>1, <3>4, <4>1 DEF QueuesMeet
    <3> QED BY <3>5, <3>6 DEF QueuesMeet
  <2> HIDE DEF s, m
  <2> QED BY <1>1, <2>1, <2>2
<1>4. NodeTyped'
  BY <1>1, <1>3 DEF NodeTyped
<1> QED BY <1>2, <1>3, <1>4

LEMMA CloseListenerKept ==
    ASSUME Inv, Kept, PartedWithin, NEW c \in Channel, CloseListener(c)
    PROVE  Kept'
<1>1. CASE RemoveScore(c) \/ FindSecond(c) \/ Unpin(c)
  <2>1. UNCHANGED <<chain, jobs, work, busy, minted, peer, announced, localScore, queue, loader>>
    BY <1>1 DEF RemoveScore, FindSecond, Unpin, node, peers
  <2>2. scores' \in {scores, [scores EXCEPT ![c] = 0]}
    BY <1>1 DEF RemoveScore, FindSecond, Unpin
  <2>3. Behind'
    BY <2>1, <2>2 DEF Kept, Behind, Inv, Typed
  <2> QED BY <2>1, <2>3 DEF Kept, NodeTyped, QueuesMeet, LoadersSound
<1> QED BY <1>1, SwitchKept DEF CloseListener

LEMMA ReadSignaturesKept ==
    ASSUME Inv, Kept, NEW c \in Channel, ReadSignatures(c)
    PROVE  Kept'
<1> USE DEF Kept
<1> DEFINE sigs == Signatures(PeerHistory(c), Head(loader[c].wire).ids)
<1>1. /\ loader[c].wire # <<>> /\ Head(loader[c].wire).kind = "signatures"
      /\ UNCHANGED <<chain, peer, announced, localScore, scores, queue, work, busy, minted>>
  BY DEF ReadSignatures, Asked, peers
<1>2. Sound(c, peer[c], loader[c]) /\ peer[c] \in 0..Len(PeerChain[c])
  <2>1. peer[c] \in Nat /\ peer[c] <= Len(PeerChain[c]) /\ Len(PeerChain[c]) \in Nat
    BY SyncAssumption DEF Inv, Typed, Behind
  <2> QED BY <2>1 DEF LoadersSound
<1>3. sigs # <<>> /\ SoundResult(c, peer[c], GotSignatures(Answered(c), sigs))
  BY <1>1, <1>2, GotSignaturesSound DEF PeerHistory, Answered
<1>4. Upstream(c, GotSignatures(Answered(c), sigs), pinned)
  BY <1>3 DEF ReadSignatures
<1>5. LoadersSound' /\ jobs' \in Seq([from : Channel, blocks : Seq(Block)])
      /\ (jobs # <<>> => jobs' # <<>>)
  <2> HIDE DEF sigs
  <2> QED BY <1>1, <1>3, <1>4, UpstreamSound
<1>6. NodeTyped' /\ Behind' /\ QueuesMeet'
  BY <1>1, <1>5 DEF NodeTyped, Behind, QueuesMeet
<1> QED BY <1>5, <1>6

LEMMA ReadBlocksKept ==
    ASSUME Inv, Kept, NEW c \in Channel, ReadBlocks(c)
    PROVE  Kept'
<1>1. CASE PreCheck(loader[c].target)
  <2> USE DEF Kept
  <2> DEFINE r == Loaded([Answered(c) EXCEPT !.target = NoTarget], loader[c].target.ids)
  <2>1. /\ loader[c].wire # <<>> /\ Head(loader[c].wire).kind = "blocks"
        /\ Upstream(c, r, pinned)
        /\ UNCHANGED <<chain, peer, announced, localScore, scores, queue, work, busy, minted>>
    BY <1>1 DEF ReadBlocks, Asked, peers
  <2>2. Sound(c, peer[c], loader[c]) /\ peer[c] \in Nat
    BY DEF Inv, Typed, LoadersSound
  <2>3. SoundResult(c, peer[c], r)
    BY <2>1, <2>2, GotBlocksSound DEF Answered
  <2> HIDE DEF r
  <2>4. LoadersSound' /\ jobs' \in Seq([from : Channel, blocks : Seq(Block)])
      /\ (jobs # <<>> => jobs' # <<>>)
    BY <2>1, <2>3, UpstreamSound
  <2>5. NodeTyped' /\ Behind' /\ QueuesMeet'
    BY <2>1, <2>4 DEF NodeTyped, Behind, QueuesMeet
  <2> QED BY <2>4, <2>5
<1>2. CASE ~PreCheck(loader[c].target)
  BY <1>2, CloseKept DEF ReadBlocks
<1> QED BY <1>1, <1>2

(* Each open channel is told the new score, which is not 0. *)
LEMMA BroadcastKept ==
    ASSUME NodeTyped, QueuesMeet, UNCHANGED peer, NEW score \in Nat \ {0}, Broadcast(score)
    PROVE  queue' \in [Channel -> Seq(Messages)] /\ QueuesMeet'
<1> DEFINE m == [kind |-> "score", score |-> score]
<1>1. m \in Messages /\ m.kind # "load"
  BY MessageKinds
<1>2. queue' = [c \in Channel |-> IF c \in open THEN Append(queue[c], m) ELSE queue[c]]
  BY DEF Broadcast
<1> HIDE DEF m
<1>3. ASSUME NEW c \in Channel
      PROVE  queue'[c] \in Seq(Messages) /\ LoadMeets(c, peer'[c], queue'[c])
  <2>1. Append(queue[c], m) \in Seq(Messages) /\ LoadMeets(c, peer[c], Append(queue[c], m))
    BY <1>1, MessageAppended DEF NodeTyped, QueuesMeet
  <2>2. queue[c] \in Seq(Messages) /\ LoadMeets(c, peer[c], queue[c])
    BY DEF NodeTyped, QueuesMeet
  <2>3. queue'[c] \in {Append(queue[c], m), queue[c]}
    BY <1>2
  <2> QED BY <2>1, <2>2, <2>3
<1> QED BY <1>2, <1>3 DEF QueuesMeet

(* A job that fails leaves with what was to be done for it.                 *)
LEMMA FailsKept ==
    ASSUME NodeTyped, QueuesMeet, UNCHANGED peer, jobs # <<>>, Fails
    PROVE  /\ queue' \in [Channel -> Seq(Messages)] /\ QueuesMeet' /\ work' \in Seq(Block) /\ ~busy'
           /\ jobs' \in Seq([from : Channel, blocks : Seq(Block)])
<1> DEFINE m == [kind |-> "close"]
           c == Head(jobs).from
<1>1. /\ jobs' = Tail(jobs) /\ work' = <<>> /\ ~busy'
      /\ queue' = IF c \in open THEN [queue EXCEPT ![c] = Append(@, m)] ELSE queue
  BY DEF Fails, Blame
<1>2. Head(jobs) \in [from : Channel, blocks : Seq(Block)]
      /\ jobs' \in Seq([from : Channel, blocks : Seq(Block)])
  BY <1>1, HeadTailProperties DEF NodeTyped
<1>3. c \in Channel /\ m \in Messages /\ m.kind # "load"
  BY <1>2, MessageKinds
<1> HIDE DEF m, c
<1>4. Append(queue[c], m) \in Seq(Messages) /\ LoadMeets(c, peer[c], Append(queue[c], m))
  BY <1>3, MessageAppended DEF NodeTyped, QueuesMeet
<1>5. queue' \in [Channel -> Seq(Messages)]
  BY <1>1, <1>4 DEF NodeTyped
<1>6. ASSUME NEW d \in Channel PROVE LoadMeets(d, peer'[d], queue'[d])
  <2>1. queue'[d] = queue[d] \/ (d = c /\ queue'[d] = Append(queue[c], m))
    BY <1>1, <1>3 DEF NodeTyped
  <2> QED BY <1>4, <2>1 DEF QueuesMeet
<1> QED BY <1>1, <1>2, <1>5, <1>6, EmptySeq DEF QueuesMeet

(* The chain of the node keeps the genesis block, whatever is put on it. *)
LEMMA ChainGrows ==
    ASSUME NodeTyped, NEW b \in Block
    PROVE  /\ Append(chain, b) \in Seq(Block) \ {<<>>} /\ Append(chain, b)[1] = Start[1]
           /\ Len(Append(chain, b)) \in Nat \ {0}
<1>1. /\ Append(chain, b) \in Seq(Block) /\ Append(chain, b) # <<>>
      /\ Len(Append(chain, b)) = Len(chain) + 1
      /\ \A i \in 1..Len(chain) : Append(chain, b)[i] = chain[i]
  BY AppendProperties DEF NodeTyped
<1>2. 1 \in 1..Len(chain) /\ chain[1] = Start[1] /\ Len(chain) \in Nat
  BY DEF NodeTyped
<1> QED BY <1>1, <1>2

LEMMA StartForkKept ==
    ASSUME Inv, Kept, StartFork
    PROVE  Kept'
<1> USE DEF Kept
<1> DEFINE blocks == Head(jobs).blocks
           extension == NotInHistory(blocks)
           common == IF extension = <<>> THEN 0 ELSE HeightOf(chain, Reference[Head(extension)])
<1>1. jobs # <<>> /\ UNCHANGED <<peer, announced, scores, localScore, loader, minted>>
  BY DEF StartFork, peers, observer
<1>2. blocks \in Seq(Block)
  <2>1. Head(jobs) \in [from : Channel, blocks : Seq(Block)]
    BY <1>1, HeadTailProperties DEF NodeTyped
  <2> QED BY <2>1
<1>3. extension \in Seq(Block)
  <2> DEFINE I == {i \in 1..Len(blocks) : ~Contains(chain, blocks[i])}
             first == IF I # {} THEN Min(I) ELSE 0
  <2>1. extension = IF first = 0 THEN <<>> ELSE SubSeq(blocks, first, Len(blocks))
    BY DEF NotInHistory, SelectInSeq
  <2>2. Len(blocks) \in Nat /\ I \in SUBSET (1..Len(blocks))
    BY <1>2
  <2> HIDE DEF I, blocks, extension
  <2>3. CASE I = {}
    BY <2>1, <2>3, EmptySeq
  <2>4. CASE I # {}
    <3>1. Min(I) \in 1..Len(blocks) /\ first = Min(I)
      BY <2>2, <2>4, LeastPosition
    <3> HIDE DEF first
    <3>2. first \in Int /\ Len(blocks) \in Int /\ \A i \in first..Len(blocks) : blocks[i] \in Block
      BY <1>2, <2>2, <3>1
    <3>3. SubSeq(blocks, first, Len(blocks)) \in Seq(Block)
      BY ONLY <3>2, SubSeqProperties
    <3> QED BY <2>1, <3>3, EmptySeq
  <2> QED BY <2>3, <2>4
<1>4. \/ work' = <<>> /\ UNCHANGED <<chain, jobs, queue>>
      \/ Fails /\ UNCHANGED chain
      \/ common > 0 /\ chain' = SubSeq(chain, 1, common) /\ work' = extension
         /\ UNCHANGED <<jobs, queue>>
  BY DEF StartFork
<1> HIDE DEF extension, blocks
<1>5. CASE work' = <<>> /\ UNCHANGED <<chain, jobs, queue>>
  BY <1>1, <1>5, EmptySeq DEF NodeTyped, Behind, QueuesMeet, LoadersSound
<1>6. CASE Fails /\ UNCHANGED chain
  <2>1. /\ queue' \in [Channel -> Seq(Messages)] /\ QueuesMeet' /\ work' \in Seq(Block) /\ ~busy'
        /\ jobs' \in Seq([from : Channel, blocks : Seq(Block)])
    BY <1>1, <1>6, FailsKept
  <2> QED BY <1>1, <1>6, <2>1 DEF NodeTyped, Behind, LoadersSound
<1>7. CASE common > 0 /\ chain' = SubSeq(chain, 1, common) /\ work' = extension
           /\ UNCHANGED <<jobs, queue>>
  <2>1. common \in 1..Len(chain)
    <3>1. common = HeightOf(chain, Reference[Head(extension)]) /\ common > 0
      BY <1>7
    <3> HIDE DEF common
    <3>2. common \in 0..Len(chain)
      BY <3>1, HeightIsFirst DEF NodeTyped
    <3> QED BY <3>1, <3>2
  <2> HIDE DEF common
  <2>2. chain \in Seq(Block) /\ Len(chain) \in Nat /\ chain[1] = Start[1]
        /\ \A i \in 1..common : chain[i] \in Block
    BY <2>1 DEF NodeTyped
  <2>3. /\ SubSeq(chain, 1, common) \in Seq(Block) /\ Len(SubSeq(chain, 1, common)) = common
        /\ \A i \in 1..common : SubSeq(chain, 1, common)[i] = chain[i]
    BY <2>1, <2>2, SubSeqProperties
  <2>4. chain' \in Seq(Block) \ {<<>>} /\ chain'[1] = Start[1]
    BY <1>7, <2>1, <2>2, <2>3
  <2> QED BY <1>1, <1>3, <1>7, <2>4 DEF NodeTyped, Behind, QueuesMeet, LoadersSound
<1> QED BY <1>4, <1>5, <1>6, <1>7

LEMMA AppendBlockKept ==
    ASSUME Inv, Kept, AppendBlock
    PROVE  Kept'
<1> USE DEF Kept
<1>1. /\ work # <<>> /\ jobs # <<>>
      /\ UNCHANGED <<peer, announced, scores, localScore, loader, minted>>
  BY DEF AppendBlock, peers, observer, NodeTyped
<1>2. CASE chain' = Append(chain, Head(work)) /\ work' = Tail(work) /\ UNCHANGED <<jobs, busy, queue>>
  <2>1. Head(work) \in Block /\ Tail(work) \in Seq(Block)
    BY <1>1, HeadTailProperties DEF NodeTyped
  <2>2. chain' \in Seq(Block) \ {<<>>} /\ chain'[1] = Start[1]
    BY <1>2, <2>1, ChainGrows
  <2> QED BY <1>1, <1>2, <2>1, <2>2 DEF NodeTyped, Behind, QueuesMeet, LoadersSound
<1>3. CASE Fails /\ UNCHANGED chain
  <2>1. /\ queue' \in [Channel -> Seq(Messages)] /\ QueuesMeet' /\ work' \in Seq(Block) /\ ~busy'
        /\ jobs' \in Seq([from : Channel, blocks : Seq(Block)])
    BY <1>1, <1>3, FailsKept
  <2> QED BY <1>1, <1>3, <2>1 DEF NodeTyped, Behind, LoadersSound
<1> QED BY <1>2, <1>3 DEF AppendBlock

LEMMA FinishForkKept ==
    ASSUME Inv, Kept, FinishFork
    PROVE  Kept'
<1> USE DEF Kept
<1>1. /\ Broadcast(Len(chain)) /\ jobs # <<>> /\ jobs' = Tail(jobs) /\ ~busy'
      /\ UNCHANGED <<chain, peer, announced, scores, localScore, loader, work, minted>>
  BY DEF FinishFork, peers, observer, NodeTyped
<1>2. Len(chain) \in Nat \ {0}
  BY DEF NodeTyped
<1>3. queue' \in [Channel -> Seq(Messages)] /\ QueuesMeet'
  BY <1>1, <1>2, BroadcastKept
<1>4. jobs' \in Seq([from : Channel, blocks : Seq(Block)])
  BY <1>1, HeadTailProperties DEF NodeTyped
<1> QED BY <1>1, <1>3, <1>4 DEF NodeTyped, Behind, LoadersSound

LEMMA ReceiveBlockKept ==
    ASSUME Inv, Kept, NEW c \in Channel, ReceiveBlock(c)
    PROVE  Kept'
<1> USE DEF Kept
<1> DEFINE h == Len(chain) + 1
           b == PeerChain[c][h]
<1>1. /\ h <= peer[c] /\ chain' = Append(chain, b) /\ Broadcast(Len(chain'))
      /\ UNCHANGED <<peer, announced, scores, localScore, loader, jobs, work, busy, minted>>
  BY DEF ReceiveBlock, observer
<1>2. b \in Block
  <2>1. PeerChain[c] \in Seq(Block) /\ peer[c] <= Len(PeerChain[c]) /\ peer[c] \in Nat
    BY SyncAssumption DEF Behind, Inv, Typed, Block
  <2>2. h \in 1..Len(PeerChain[c])
    BY <1>1, <2>1 DEF NodeTyped
  <2> HIDE DEF h
  <2> QED BY <2>1, <2>2
<1> HIDE DEF b, h
<1>3. chain' \in Seq(Block) \ {<<>>} /\ chain'[1] = Start[1] /\ Len(chain') \in Nat \ {0}
  BY <1>1, <1>2, ChainGrows
<1>4. queue' \in [Channel -> Seq(Messages)] /\ QueuesMeet'
  BY <1>1, <1>3, BroadcastKept
<1> QED BY <1>1, <1>3, <1>4 DEF NodeTyped, Behind, LoadersSound

LEMMA MineKept ==
    ASSUME Inv, Kept, Mine \/ Announce
    PROVE  Kept'
<1> USE DEF Kept
<1>1. CASE Mine
  <2>1. PICK b \in Own : chain' = Append(chain, b)
    BY <1>1 DEF Mine
  <2>2. b \in Block
    BY SyncAssumption DEF Block
  <2>3. chain' \in Seq(Block) \ {<<>>} /\ chain'[1] = Start[1] /\ Len(chain') \in Nat \ {0}
    BY <2>1, <2>2, ChainGrows
  <2> QED BY <1>1, <2>3 DEF Mine, NodeTyped, Behind, QueuesMeet, LoadersSound, peers, observer
<1>2. CASE Announce
  <2>1. /\ minted # 0 /\ Broadcast(minted) /\ minted' = 0
        /\ UNCHANGED <<chain, peer, announced, scores, localScore, loader, jobs, work, busy>>
    BY <1>2 DEF Announce, peers, observer
  <2>2. minted \in Nat \ {0}
    BY <2>1 DEF NodeTyped
  <2>3. queue' \in [Channel -> Seq(Messages)] /\ QueuesMeet'
    BY <2>1, <2>2, BroadcastKept
  <2> QED BY <2>1, <2>3 DEF NodeTyped, Behind, LoadersSound
<1> QED BY <1>1, <1>2

(* A peer only adds to its chain: it still meets what it has been asked. *)
LEMMA GrowKept ==
    ASSUME Inv, Kept, NEW c \in Channel, Grow(c)
    PROVE  Kept'
<1> USE DEF Kept
<1>1. /\ peer[c] < Len(PeerChain[c]) /\ peer' = [peer EXCEPT ![c] = peer[c] + 1]
      /\ UNCHANGED <<chain, jobs, work, busy, minted, announced, localScore, scores, queue, loader>>
  BY DEF Grow, node, observer
<1>2. \A d \in Channel : /\ peer[d] \in Nat /\ peer'[d] \in Nat /\ peer[d] <= peer'[d]
                         /\ Len(PeerChain[d]) \in Nat
                         /\ (peer'[d] = peer[d] \/ (d = c /\ peer'[d] = peer[d] + 1))
  BY <1>1, SyncAssumption DEF Inv, Typed
<1>3. Behind'
  <2> SUFFICES ASSUME NEW d \in Channel
               PROVE  announced[d] <= peer'[d] /\ peer'[d] <= Len(PeerChain[d])
    BY <1>1 DEF Behind
  <2>1. announced[d] \in Nat /\ announced[d] <= peer[d] /\ peer[d] <= Len(PeerChain[d])
    BY DEF Behind, Inv, Typed
  <2> QED BY <1>1, <1>2, <2>1
<1>4. QueuesMeet'
  <2> SUFFICES ASSUME NEW d \in Channel PROVE LoadMeets(d, peer'[d], queue[d])
    BY <1>1 DEF QueuesMeet
  <2>1. LoadMeets(d, peer[d], queue[d])
    BY DEF QueuesMeet
  <2>2. \A ids : Meets(d, peer[d], ids) => Meets(d, peer'[d], ids)
    BY <1>2, MoreIsKept
  <2> QED BY <2>1, <2>2 DEF LoadMeets
<1>5. LoadersSound'
  <2> SUFFICES ASSUME NEW d \in Channel PROVE Sound(d, peer'[d], loader[d])
    BY <1>1 DEF LoadersSound
  <2>1. Sound(d, peer[d], loader[d])
    BY DEF LoadersSound
  <2>2. /\ \A ids : Meets(d, peer[d], ids) => Meets(d, peer'[d], ids)
        /\ \A blocks : Len(blocks) \in Nat /\ FromPeer(d, peer[d], blocks)
                       => FromPeer(d, peer'[d], blocks)
    BY <1>2, MoreIsKept
  <2>3. Len(loader[d].target.ids) \in Nat /\ Len(loader[d].nextBlocks) \in Nat
    BY <2>1 DEF Sound, Loaders
  <2> QED BY <2>1, <2>2, <2>3 DEF Sound, Answerable
<1> QED BY <1>1, <1>3, <1>4, <1>5 DEF NodeTyped

LEMMA ExpireScoreKept ==
    ASSUME Inv, Kept, NEW c \in Channel, ExpireScore(c)
    PROVE  Kept'
<1> USE DEF Kept
<1>1. /\ scores' = [scores EXCEPT ![c] = 0]
      /\ UNCHANGED <<chain, jobs, work, busy, minted, peer, announced, localScore, queue, loader>>
  BY DEF ExpireScore, node, peers
<1>2. Behind'
  BY <1>1 DEF Behind, Inv, Typed
<1> QED BY <1>1, <1>2 DEF NodeTyped, QueuesMeet, LoadersSound

LEMMA InitKept == Init => Kept
<1> SUFFICES ASSUME Init PROVE Kept
  OBVIOUS
<1>1. Start \in Seq(Block) \ {<<>>} /\ Len(Start) \in Nat \ {0}
      /\ \A c \in Channel : PeerChain[c] \in Seq(Block) /\ Len(PeerChain[c]) \in Nat
  BY SyncAssumption DEF Block
<1>2. NodeTyped
  <2>1. queue \in [Channel -> Seq(Messages)]
    BY NoMessages DEF Init
  <2> QED BY <1>1, <2>1, EmptySeq DEF Init, NodeTyped
<1>3. Behind
  <2> SUFFICES ASSUME NEW c \in Channel
               PROVE  scores[c] = 0 /\ announced[c] = 0 /\ peer[c] \in Nat
                      /\ peer[c] <= Len(PeerChain[c])
    BY DEF Behind
  <2>1. c \in Growing => Len(Start) <= Len(PeerChain[c])
    BY SyncAssumption DEF IsPrefix
  <2> QED BY <1>1, <2>1 DEF Init
<1>4. QueuesMeet
  BY NoMessages DEF Init, QueuesMeet
<1>5. LoadersSound
  <2>1. \A c \in Channel : peer[c] \in Nat
    BY <1>1 DEF Init
  <2>2. \A c \in Channel : Fresh \in Loaders /\ Sound(c, peer[c], Fresh)
    BY <2>1, FreshSound DEF Sound
  <2> QED BY <2>2 DEF Init, LoadersSound
<1> QED BY <1>2, <1>3, <1>4, <1>5 DEF Kept

LEMMA NextKept ==
    ASSUME Inv, Kept, PartedWithin, [Next]_vars
    PROVE  Kept'
<1>1. CASE \E c \in Channel : RemoteClose(c) \/ CloseAsked(c) \/ Timeout(c) \/ CloseListener(c)
  BY <1>1, CloseKept, CloseListenerKept DEF RemoteClose, CloseAsked, Timeout
<1>2. CASE \E c \in Channel : ReadScore(c) \/ ReadSignatures(c) \/ ReadBlocks(c)
  BY <1>2, ReadScoreKept, ReadSignaturesKept, ReadBlocksKept
<1>3. CASE \E c \in Channel : WriteScore(c) \/ Pin(c) \/ WriteLoad(c)
  BY <1>3, WriteScoreKept, PinKept, WriteLoadKept
<1>4. CASE \E c \in Channel : ExpireScore(c) \/ Grow(c) \/ ReceiveBlock(c)
  BY <1>4, ExpireScoreKept, GrowKept, ReceiveBlockKept
<1>5. CASE CoordinatorThread
  BY <1>5, StartForkKept, AppendBlockKept, FinishForkKept DEF CoordinatorThread
<1>6. CASE Mine \/ Announce
  BY <1>6, MineKept
<1>7. CASE UNCHANGED vars
  BY <1>7 DEF vars, Kept, NodeTyped, Behind, QueuesMeet, LoadersSound
<1> QED BY <1>1, <1>2, <1>3, <1>4, <1>5, <1>6, <1>7 DEF Next, Environment, Handler

(* One request of each kind, and one for each loader that waits, in numbers. *)
LEMMA OneIsOne ==
    ASSUME NEW w \in Seq(Requests), NEW k,
           \A i, j \in 1..Len(w) : w[i].kind = w[j].kind => i = j
    PROVE  Cardinality({i \in DOMAIN w : w[i].kind = k})
           = IF \E i \in 1..Len(w) : w[i].kind = k THEN 1 ELSE 0
<1> DEFINE K == {i \in DOMAIN w : w[i].kind = k}
<1>1. DOMAIN w = 1..Len(w)
  OBVIOUS
<1>2. CASE \E i \in 1..Len(w) : w[i].kind = k
  <2>1. PICK i \in 1..Len(w) : w[i].kind = k
    BY <1>2
  <2>2. K = {i}
    BY <1>1, <2>1
  <2> QED BY <1>2, <2>2, FS_Singleton
<1>3. CASE ~ \E i \in 1..Len(w) : w[i].kind = k
  <2>1. K = {}
    BY <1>1, <1>3
  <2> QED BY <1>3, <2>1, FS_EmptySet
<1> QED BY <1>2, <1>3

LEMMA SoundIsOwed == LoadersSound => AnswerOwed
<1> SUFFICES ASSUME LoadersSound, NEW c \in Channel
             PROVE  LET Unanswered(kind) == {i \in DOMAIN loader[c].wire : loader[c].wire[i].kind = kind}
                    IN /\ Cardinality(Unanswered("signatures")) = (IF loader[c].waiting THEN 1 ELSE 0)
                       /\ Cardinality(Unanswered("blocks"))
                          = (IF loader[c].target = NoTarget THEN 0 ELSE 1)
  BY DEF AnswerOwed
<1> DEFINE w == loader[c].wire
<1>1. /\ w \in Seq(Requests)
      /\ \A i, j \in 1..Len(w) : w[i].kind = w[j].kind => i = j
      /\ loader[c].waiting <=> \E i \in 1..Len(w) : w[i].kind = "signatures"
      /\ loader[c].target # NoTarget <=> \E i \in 1..Len(w) : w[i].kind = "blocks"
  BY DEF LoadersSound, Sound, OneOfEach, Loaders
<1>2. Cardinality({i \in DOMAIN w : w[i].kind = "signatures"})
      = IF \E i \in 1..Len(w) : w[i].kind = "signatures" THEN 1 ELSE 0
  BY <1>1, OneIsOne
<1>3. Cardinality({i \in DOMAIN w : w[i].kind = "blocks"})
      = IF \E i \in 1..Len(w) : w[i].kind = "blocks" THEN 1 ELSE 0
  BY <1>1, OneIsOne
<1> QED BY <1>1, <1>2, <1>3

(* While each peer that is asked parted from the node within the last       *)
(* MaxRollback blocks, a channel never has two GetSignatures or two sets of *)
(* GetBlock unanswered at once, and a loader that waits is owed an answer:  *)
(* for any peers, however often scores change, channels close or the        *)
(* observer asks again.                                                     *)
THEOREM AnswerOwedAlways == Spec /\ []PartedWithin => []AnswerOwed
<1>1. Init => Inv /\ Kept
  BY InitInv, InitKept
<1>2. Inv /\ Kept /\ PartedWithin /\ [Next]_vars => (Inv /\ Kept)'
  BY NextInv, NextKept
<1>3. Inv /\ Kept => AnswerOwed
  BY SoundIsOwed DEF Kept
<1> QED BY <1>1, <1>2, <1>3, PTL DEF Spec

(* No peer parted earlier while the whole chain of the node fits in the ids *)
(* of one request: all chains begin with the genesis block, and a peer that *)
(* is sought has more than that, since its score was above that of the node *)
(* when it was looked up.                                                   *)
Short == Len(chain) <= MaxRollback

SoughtHasMore == \A c \in Channel : Sought(c) => peer[c] > 1

LEMMA PeersGrow ==
    ASSUME Inv, (\E c \in Channel : ExpireScore(c)) \/ Aside
    PROVE  \A d \in Channel : peer'[d] \in Nat /\ peer'[d] >= peer[d]
<1>1. peer' = peer \/ \E c \in Channel : peer' = [peer EXCEPT ![c] = @ + 1]
  BY DEF Aside, ExpireScore, WriteLoad, ReadSignatures, ReadBlocks, Grow, ReceiveBlock, CoordinatorThread,
         StartFork, AppendBlock, FinishFork, Mine, Announce, peers, vars
<1> QED BY <1>1 DEF Inv, Typed

LEMMA NextHasMore ==
    ASSUME Inv, Kept, SoughtHasMore, [Next]_vars
    PROVE  SoughtHasMore'
<1>1. \A c \in Channel : /\ scores[c] \in Nat /\ announced[c] \in Nat /\ peer[c] \in Nat
                         /\ scores[c] <= peer[c]
  BY DEF Inv, Typed, Kept, Behind
<1>2. localScore \in Nat \ {0}
  BY DEF Kept, NodeTyped
<1>3. CASE \E c \in Channel : ReadScore(c)
  <2> PICK c \in Channel : ReadScore(c)
    BY <1>3
  <2>1. UNCHANGED peer /\ (UNCHANGED handler \/ (Turn(c, At("pinIfNone", c)) /\ peer[c] > localScore))
    BY DEF ReadScore
  <2>2. CASE UNCHANGED handler
    BY <2>1, <2>2 DEF SoughtHasMore, Sought
  <2>3. CASE Turn(c, At("pinIfNone", c)) /\ peer[c] > localScore
    <3>1. \A d \in Channel : Sought(d)' => Sought(d) \/ d = c
      BY <2>3, Turns, HandlerTypes
    <3> QED BY <1>1, <1>2, <2>1, <2>3, <3>1 DEF SoughtHasMore
  <2> QED BY <2>1, <2>2, <2>3
<1>4. CASE \E c \in Channel : WriteScore(c)
  <2> PICK c \in Channel : WriteScore(c)
    BY <1>4
  <2>1. /\ UNCHANGED peer
        /\ UNCHANGED handler \/ (Turn(c, At("pin", c)) /\ scores[c] > localScore')
    BY DEF WriteScore, peers
  <2>2. localScore' \in Nat \ {0}
    BY QueueTaken, MessageKinds DEF WriteScore, peers, Kept
  <2>3. CASE UNCHANGED handler
    BY <2>1, <2>3 DEF SoughtHasMore, Sought
  <2>4. CASE Turn(c, At("pin", c)) /\ scores[c] > localScore'
    <3>1. \A d \in Channel : Sought(d)' => Sought(d) \/ d = c
      BY <2>4, Turns, HandlerTypes
    <3> QED BY <1>1, <2>1, <2>2, <2>4, <3>1 DEF SoughtHasMore
  <2> QED BY <2>1, <2>3, <2>4
<1>5. CASE \E c \in Channel : FindSecond(c)
  <2> PICK c \in Channel : FindSecond(c)
    BY <1>5
  <2>1. /\ UNCHANGED peer
        /\ \/ Turn(c, At("unpin", NoChannel))
           \/ \E s \in Channel : Turn(c, At("switch", s)) /\ scores[s] > localScore
    BY DEF FindSecond, peers, Best
  <2>2. \A d \in Channel : Sought(d)' => Sought(d) \/ scores[d] > localScore
    BY <2>1, Turns, HandlerTypes, SyncAssumption
  <2> QED BY <1>1, <1>2, <2>1, <2>2 DEF SoughtHasMore
<1>6. ASSUME NEW c \in Channel, Pin(c) \/ RemoveScore(c) \/ Switch(c) \/ Unpin(c)
      PROVE  SoughtHasMore'
  <2>1. /\ UNCHANGED peer
        /\ Turn(c, Idle) \/ Turn(c, At("unpin", NoChannel)) \/ Turn(c, At("findSecond", NoChannel))
    BY <1>6 DEF Pin, RemoveScore, Switch, Unpin, peers
  <2>2. \A d \in Channel : Sought(d)' => Sought(d)
    BY <2>1, Turns, HandlerTypes, SyncAssumption
  <2> QED BY <2>1, <2>2 DEF SoughtHasMore
<1>7. ASSUME NEW c \in Channel, Close(c) PROVE SoughtHasMore'
  <2>1. UNCHANGED peer /\ (UNCHANGED handler \/ \E b \in Channel : Turn(c, At("remove", b)))
    BY <1>7 DEF Close, peers, Best
  <2>2. \A d \in Channel : Sought(d)' => Sought(d)
    BY <2>1 DEF Sought, Turn, At, Inv, Typed
  <2> QED BY <2>1, <2>2 DEF SoughtHasMore
<1>8. ASSUME (\E c \in Channel : ExpireScore(c)) \/ Aside PROVE SoughtHasMore'
  <2>1. UNCHANGED handler
    BY <1>8, AsideKeeps DEF ExpireScore
  <2>2. \A d \in Channel : peer'[d] \in Nat /\ peer'[d] >= peer[d]
    BY <1>1, <1>8, PeersGrow
  <2> QED BY <1>1, <2>1, <2>2 DEF SoughtHasMore, Sought
<1> QED BY <1>3, <1>4, <1>5, <1>6, <1>7, <1>8, Steps DEF CloseListener

LEMMA ShortChainParts == Inv /\ NodeTyped /\ SoughtHasMore /\ Short => PartedWithin
<1> SUFFICES ASSUME Inv, NodeTyped, Short, NEW c \in Channel, peer[c] > 1
             PROVE  Meets(c, peer[c], lastSignatures)
  BY DEF PartedWithin, SoughtHasMore
<1>1. chain \in Seq(Block) /\ Len(chain) \in Nat \ {0} /\ MaxRollback \in Nat \ {0}
  BY SyncAssumption DEF NodeTyped
<1>2. /\ Len(lastSignatures) = Len(chain)
      /\ \A i \in 1..Len(lastSignatures) : lastSignatures[i] = chain[Len(chain) - i + 1]
  BY <1>1, LastIdsAre DEF lastSignatures, Short
<1>3. lastSignatures[Len(chain)] = chain[1] /\ Len(chain) \in 1..Len(lastSignatures)
  BY <1>1, <1>2
<1>4. chain[1] = PeerChain[c][1]
  BY SyncAssumption DEF NodeTyped
<1>5. 1 \in 1..(peer[c] - 1)
  BY DEF Inv, Typed
<1> QED BY <1>3, <1>4, <1>5 DEF Meets

(* As long as the chain of the node is no longer than max-rollback, every   *)
(* request is answered, whatever chains the peers are on.                   *)
THEOREM AnswerOwedWhileShort == Spec /\ []Short => []AnswerOwed
<1>1. Init => Inv /\ Kept /\ SoughtHasMore
  <2>1. Init => SoughtHasMore
    BY HandlerTypes DEF Init, SoughtHasMore, Sought
  <2> QED BY <2>1, InitInv, InitKept
<1>2. Inv /\ Kept /\ SoughtHasMore /\ Short /\ [Next]_vars => (Inv /\ Kept /\ SoughtHasMore)'
  <2> SUFFICES ASSUME Inv, Kept, SoughtHasMore, Short, [Next]_vars
               PROVE  Inv' /\ Kept' /\ SoughtHasMore'
    OBVIOUS
  <2>1. PartedWithin
    BY ShortChainParts DEF Kept
  <2> QED BY <2>1, NextInv, NextKept, NextHasMore
<1>3. Inv /\ Kept => AnswerOwed
  BY SoundIsOwed DEF Kept
<1> QED BY <1>1, <1>2, <1>3, PTL DEF Spec
=============================================================================
