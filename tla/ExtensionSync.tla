---------------------------- MODULE ExtensionSync ----------------------------
(***************************************************************************)
(* How a node catches up with its peers: RemoteScoreObserver, shared by    *)
(* all channels, picks the channel to load from; the three loaders every   *)
(* channel has of its own turn a request into blocks; the coordinator      *)
(* thread switches the chain and tells every channel the new score.        *)
(*                                                                         *)
(* Abstraction.  The score of a chain is its length.  A handler runs to    *)
(* its end on the event loop of its channel; those of the observer, whose  *)
(* fields the event loops share, are several steps, one for each decision  *)
(* and one for each write that follows from it.  What another thread       *)
(* writes to a channel waits in its queue.  A reply is computed and        *)
(* received in one step: the delay is that of the request.  The blocks of  *)
(* one extension arrive together.  Peers are on chains that only grow.  Of *)
(* a closed channel only the close listener runs: what netty still hands   *)
(* to the handlers before it takes the pipeline apart is left out.         *)
(***************************************************************************)
EXTENDS Integers, Sequences, SequencesExt, FiniteSets

CONSTANTS
    Channel, NoChannel,
    Reference,       \* Block.reference: [block -> block]
    PeerChain,       \* [Channel -> the chain its peer is going to have]
    Own,             \* blocks the miner may add
    Invalid,         \* blocks the coordinator refuses
    BadSignature,    \* blocks whose signature is not valid
    Start,           \* the chain of the node and of the growing peers at the start
    MaxRollback,     \* max-rollback: how many ids a request carries
    MaxChainLength,  \* max-chain-length: how many ids a reply adds
    Silent,          \* channels whose peers may leave a request unanswered
    Closing,         \* channels that may be closed by the other side
    Expiring,        \* channels whose score may expire
    Growing,         \* channels whose peers get new blocks
    Gossip           \* blocks that growing peers broadcast

Prefetch == MaxRollback  \* the 100 of loadNextPart is the default of max-rollback

ASSUME SyncAssumption ==
    /\ NoChannel \notin Channel
    /\ MaxRollback \in Nat \ {0} /\ MaxChainLength \in Nat \ {0}
    /\ Silent \cup Closing \cup Expiring \cup Growing \subseteq Channel
    /\ Start \in Seq(DOMAIN Reference) /\ PeerChain \in [Channel -> Seq(DOMAIN Reference)]
    /\ Own \subseteq DOMAIN Reference /\ Start # <<>>
    /\ \A c \in Channel : PeerChain[c] # <<>> /\ PeerChain[c][1] = Start[1]  \* one genesis block
    /\ \A c \in Growing : IsPrefix(Start, PeerChain[c])

VARIABLES
    chain,       \* History
    peer,        \* [Channel -> the length of the chain of its peer]
    announced,   \* [Channel -> the last score its peer sent]
    heard,       \* [Channel -> the height of the last block its peer broadcast]
    open,        \* the channels that are open
    pinned,      \* RemoteScoreObserver.pinnedChannel
    localScore,  \* RemoteScoreObserver.localScore
    scores,      \* RemoteScoreObserver.scores, 0 when absent
    handler,     \* [Channel -> the next step of its handler in the observer, Idle if none]
    queue,       \* [Channel -> writes and closings other threads asked for]
    loader,      \* [Channel -> the state of its three loaders and its unanswered requests]
    jobs,        \* the extensions handed to the coordinator thread: [from, blocks]
    work,        \* the blocks still to be appended of the first job
    busy,        \* whether the first job has begun
    minted       \* the score the miner is about to broadcast, 0 if none

node == <<chain, jobs, work, busy, minted>>
observer == <<pinned, localScore, scores, handler>>
peers == <<peer, announced, heard>>
vars == <<chain, peer, announced, heard, open, pinned, localScore, scores, handler, queue,
          loader, jobs, work, busy, minted>>

-----------------------------------------------------------------------------
(* History *)

LastIds(s, n) == Reverse(SubSeq(s, IF Len(s) > n THEN Len(s) - n + 1 ELSE 1, Len(s)))
IdsAfter(s, h) == SubSeq(s, h + 1, IF h + MaxChainLength < Len(s) THEN h + MaxChainLength ELSE Len(s))
HeightOf(s, b) == SelectInSeq(s, LAMBDA x : x = b)  \* 0 when absent
lastSignatures == LastIds(chain, MaxRollback)

(* What the peer answers to GetSignatures(ids): the first of the ids it has *)
(* something after, and that; no answer is <<>>.                            *)
Signatures(s, ids) ==
    LET common == SelectInSeq(ids, LAMBDA b : HeightOf(s, b) > 0 /\ IdsAfter(s, HeightOf(s, b)) # <<>>)
    IN CASE common > 0 -> <<ids[common]>> \o IdsAfter(s, HeightOf(s, ids[common]))
         [] common = 0 /\ ids = <<Last(s)>> -> ids
         [] OTHER -> <<>>

-----------------------------------------------------------------------------
(* The loaders of one channel.  What a handler does to them is a record: l, *)
(* the state after it, and up, the extension it passes upstream, if any.    *)

NoTarget == [parent |-> <<>>, ids |-> <<>>]
Fresh == [lastKnown |-> <<>>,      \* ExtensionSignaturesLoader.lastKnownSignatures
          waiting |-> FALSE,       \* its currentTimeout is set
          target |-> NoTarget,     \* ExtensionBlocksLoader.targetExtensionIds
          hopefullyNext |-> <<>>,  \* OptimisticExtensionLoader.hopefullyNextIds
          nextBlocks |-> <<>>,     \* its nextExtensionBlocks
          discard |-> FALSE,       \* its discardNextBlocks
          wire |-> <<>>]           \* requests the peer has not answered

Quiet(l) == [l |-> l, up |-> {}]
Ask(kind, ids) == [kind |-> kind, ids |-> ids]

LoadSignatures(l, ids) ==
    IF l.waiting THEN l
    ELSE [l EXCEPT !.lastKnown = ids, !.waiting = TRUE, !.wire = Append(@, Ask("signatures", ids))]

LoadNextPart(l, blocks) ==
    IF Len(blocks) > 1
    THEN LET ids == LastIds(blocks, Prefetch)
         IN LoadSignatures([l EXCEPT !.hopefullyNext = ids], ids)
    ELSE l

HandOverLost(l) == Quiet(LoadNextPart([l EXCEPT !.nextBlocks = <<>>], l.nextBlocks))
HandOver(l) ==
    [l |-> [LoadNextPart(l, l.nextBlocks) EXCEPT !.nextBlocks = <<>>], up |-> {l.nextBlocks}]

Unexpected(l, ids) == Head(ids) \notin ToSet(l.hopefullyNext)

Load(l, ids) ==
    CASE l.hopefullyNext = ids /\ l.nextBlocks = <<>> -> Quiet([l EXCEPT !.hopefullyNext = <<>>])
      [] l.hopefullyNext = ids /\ l.nextBlocks # <<>> -> HandOver(l)
      [] l.hopefullyNext = <<>> -> Quiet(LoadSignatures(l, ids))
      [] OTHER -> Quiet(LoadSignatures(
            [l EXCEPT !.discard = IF Unexpected(l, ids) THEN l.nextBlocks = <<>> ELSE @,
                      !.hopefullyNext = <<>>, !.nextBlocks = <<>>], ids))

Loaded(l, blocks) ==
    CASE l.discard -> Quiet([l EXCEPT !.discard = FALSE])
      [] ~l.discard /\ blocks = <<>> -> [l |-> [l EXCEPT !.hopefullyNext = <<>>], up |-> {<<>>}]
      [] ~l.discard /\ blocks # <<>> /\ l.hopefullyNext = <<>> ->
            [l |-> LoadNextPart(l, blocks), up |-> {blocks}]
      [] OTHER -> Quiet([l EXCEPT !.nextBlocks = blocks])

LoadBlocks(l, parent, ids) ==
    CASE l.target # NoTarget -> Quiet(l)
      [] l.target = NoTarget /\ ids = <<>> -> Loaded(l, <<>>)
      [] OTHER -> Quiet([l EXCEPT !.target = [parent |-> parent, ids |-> ids],
                                  !.wire = Append(@, Ask("blocks", ids))])

(* The ids at the head of the reply that the request named.                 *)
KnownIn(l, sigs) ==
    LET unknown == SelectInSeq(sigs, LAMBDA b : ~Contains(l.lastKnown, b))
    IN IF unknown = 0 THEN Len(sigs) ELSE unknown - 1

GotSignaturesWaiting(l, sigs) ==
    LET n == KnownIn(l, sigs)
    IN IF n = 0 THEN Quiet(l) ELSE LoadBlocks(l, sigs[n], SubSeq(sigs, n + 1, Len(sigs)))
GotSignatures(l, sigs) ==
    LET l1 == [l EXCEPT !.waiting = FALSE]
        n == KnownIn(l, sigs)
    IN IF n = 0 THEN Quiet(l1)
       ELSE LoadBlocks(l1, sigs[n], SubSeq(sigs, n + 1, Len(sigs)))

PreCheck(target) ==
    /\ Reference[Head(target.ids)] = target.parent
    /\ \A i \in 1..(Len(target.ids) - 1) : Reference[target.ids[i + 1]] = target.ids[i]
    /\ ToSet(target.ids) \cap BadSignature = {}

-----------------------------------------------------------------------------
(* A handler of RemoteScoreObserver that has begun: its next step, and the  *)
(* channel it looked up for it.                                             *)
At(step, channel) == [at |-> step, channel |-> channel]
Idle == At("idle", NoChannel)

Free(c) == c \in open /\ handler[c] = Idle
Turn(c, h) == handler' = [handler EXCEPT ![c] = h]

Init ==
    /\ chain = Start
    /\ peer = [c \in Channel |-> IF c \in Growing THEN Len(Start) ELSE Len(PeerChain[c])]
    /\ announced = [c \in Channel |-> 0] /\ heard = peer
    /\ open = Channel
    /\ pinned = NoChannel /\ localScore = Len(Start) /\ scores = [c \in Channel |-> 0]
    /\ handler = [c \in Channel |-> Idle]
    /\ queue = [c \in Channel |-> <<>>]
    /\ loader = [c \in Channel |-> Fresh]
    /\ jobs = <<>> /\ work = <<>> /\ busy = FALSE /\ minted = 0

(* The end of a handler of channel c with this result for its loaders and   *)
(* pinned at p: the observer takes an extension of the pinned channel only. *)
Upstream(c, result, p) == \E r \in {result} :
    /\ loader' = [loader EXCEPT ![c] = r.l]
    /\ pinned' = IF r.up = {<<>>} /\ p = c THEN NoChannel ELSE p
    /\ jobs' = IF p = c THEN jobs \o [i \in 1..Cardinality(r.up \ {<<>>}) |->
                                         [from |-> c, blocks |-> CHOOSE b \in r.up : TRUE]]
                        ELSE jobs

Best(s) == {c \in Channel : s[c] > 0 /\ \A d \in Channel : s[d] <= s[c]}

NoneBetter(s) == \A c \in Channel : s[c] <= localScore
NoScores(s) == \A c \in Channel : s[c] = 0

(* channelRead of a score: of equal scores the map may answer any.  A peer  *)
(* tells its score when it changes, so it is never lower than the last one. *)
ReadScore(c) ==
    /\ Free(c) /\ announced[c] < peer[c]
    /\ announced' = [announced EXCEPT ![c] = peer[c]]
    /\ scores' = [scores EXCEPT ![c] = peer[c]]
    /\ \/ c \in Best(scores') /\ peer[c] > localScore /\ Turn(c, At("pinIfNone", c))
       \/ (Best(scores') # {c} \/ peer[c] <= localScore) /\ UNCHANGED handler
    /\ UNCHANGED <<node, peer, heard, open, pinned, localScore, queue, loader>>

ExpireScore(c) ==
    /\ c \in Expiring /\ Free(c) /\ scores[c] > 0
    /\ scores' = [scores EXCEPT ![c] = 0]
    /\ UNCHANGED <<node, peers, open, pinned, localScore, handler, queue, loader>>

WriteScore(c) ==
    /\ Free(c) /\ queue[c] # <<>> /\ Head(queue[c]).kind = "score"
    /\ queue' = [queue EXCEPT ![c] = Tail(@)]
    /\ localScore' = Head(queue[c]).score
    /\ pinned' = IF pinned = c THEN NoChannel ELSE pinned
    /\ \/ c \in Best(scores) /\ scores[c] > localScore' /\ Turn(c, At("pin", c))
       \/ (Best(scores) # {c} \/ scores[c] <= localScore') /\ UNCHANGED handler
    /\ UNCHANGED <<node, peers, open, scores, loader>>

(* The end of both: pinnedChannel.set, or compareAndSet of null.            *)
Pin(c) ==
    /\ handler[c] \in {At("pin", c), At("pinIfNone", c)} /\ Turn(c, Idle)
    /\ IF handler[c].at = "pin" \/ pinned = NoChannel
       THEN Upstream(c, Load(loader[c], lastSignatures), c)
       ELSE UNCHANGED <<pinned, loader, jobs>>
    /\ UNCHANGED <<chain, peers, open, localScore, scores, queue, work, busy, minted>>

WriteLoad(c) ==
    /\ Free(c) /\ queue[c] # <<>> /\ Head(queue[c]).kind = "load"
    /\ queue' = [queue EXCEPT ![c] = Tail(@)]
    /\ Upstream(c, Load(loader[c], Head(queue[c]).ids), pinned)
    /\ UNCHANGED <<chain, peers, open, localScore, scores, handler, work, busy, minted>>

-----------------------------------------------------------------------------
(* A channel is closed, with what is left of it, and the listener of its    *)
(* closeFuture begins: which channel has the best score?                    *)
Close(c) ==
    /\ open' = open \ {c}
    /\ loader' = [loader EXCEPT ![c] = Fresh]
    /\ queue' = [queue EXCEPT ![c] = <<>>]
    /\ \/ NoScores(scores) /\ UNCHANGED handler
       \/ ~NoScores(scores) /\ \E best \in Best(scores) : Turn(c, At("remove", best))
    /\ UNCHANGED <<node, peers, pinned, localScore, scores>>

Listening(c, step) == c \notin open /\ handler[c].at = step

RemoveScore(c) ==
    /\ Listening(c, "remove")
    /\ scores' = [scores EXCEPT ![c] = 0]
    /\ Turn(c, At(IF handler[c].channel = c THEN "findSecond" ELSE "unpin", NoChannel))
    /\ UNCHANGED <<node, peers, open, pinned, localScore, queue, loader>>

FindSecond(c) ==
    /\ Listening(c, "findSecond")
    /\ LET better == {s \in Best(scores) : scores[s] > localScore}
       IN \/ \E second \in better : Turn(c, At("switch", second))
          \/ better = {} /\ Turn(c, At("unpin", NoChannel))
    /\ UNCHANGED <<node, peers, open, pinned, localScore, scores, queue, loader>>

(* What is written to a channel that is closed by now is lost.              *)
Switch(c) ==
    /\ Listening(c, "switch")
    /\ LET second == handler[c].channel
       IN IF pinned = c
          THEN /\ pinned' = second /\ Turn(c, Idle)
               /\ queue' = IF second \in open
                           THEN [queue EXCEPT ![second] =
                                   Append(@, [kind |-> "load", ids |-> lastSignatures])]
                           ELSE queue
          ELSE Turn(c, At("unpin", NoChannel)) /\ UNCHANGED <<pinned, queue>>
    /\ UNCHANGED <<node, peers, open, localScore, scores, loader>>

Unpin(c) ==
    /\ Listening(c, "unpin") /\ Turn(c, Idle)
    /\ pinned' = IF pinned = c THEN NoChannel ELSE pinned
    /\ UNCHANGED <<node, peers, open, localScore, scores, queue, loader>>

CloseListener(c) == RemoveScore(c) \/ FindSecond(c) \/ Switch(c) \/ Unpin(c)

RemoteClose(c) == Free(c) /\ c \in Closing /\ Close(c)

CloseAsked(c) == Free(c) /\ queue[c] # <<>> /\ Head(queue[c]).kind = "close" /\ Close(c)

(* One of the two timers: the peer left a request unanswered.               *)
Timeout(c) ==
    /\ Free(c)
    /\ loader[c].waiting \/ loader[c].target # NoTarget
    /\ c \in Silent \/ loader[c].wire = <<>>
    /\ Close(c)

Answered(c) == [loader[c] EXCEPT !.wire = Tail(@)]
Asked(c, kind) == Free(c) /\ loader[c].wire # <<>> /\ Head(loader[c].wire).kind = kind
PeerHistory(c) == SubSeq(PeerChain[c], 1, peer[c])

(* HistoryReplier does not answer when it finds no extension.               *)
ReadSignatures(c) ==
    /\ Asked(c, "signatures")
    /\ LET sigs == Signatures(PeerHistory(c), Head(loader[c].wire).ids)
       IN Upstream(c, IF sigs = <<>> THEN Quiet(Answered(c)) ELSE GotSignatures(Answered(c), sigs), pinned)
    /\ UNCHANGED <<chain, peers, open, localScore, scores, handler, queue, work, busy, minted>>

ReadBlocks(c) ==
    /\ Asked(c, "blocks")
    /\ LET l == loader[c]
           taken == [Answered(c) EXCEPT !.target = NoTarget]
       IN IF PreCheck(l.target)
          THEN /\ Upstream(c, Loaded(taken, l.target.ids), pinned)
               /\ UNCHANGED <<chain, peers, open, localScore, scores, handler, queue, work, busy, minted>>
          ELSE Close(c)

-----------------------------------------------------------------------------
(* The coordinator thread, the miner and the peers.                         *)

Broadcast(score) ==
    queue' = [c \in Channel |-> IF c \in open THEN Append(queue[c], [kind |-> "score", score |-> score])
                                ELSE queue[c]]

(* blacklistAndClose: the channel is closed on its event loop.              *)
Blame(c) ==
    queue' = IF c \in open THEN [queue EXCEPT ![c] = Append(@, [kind |-> "close"])] ELSE queue

Fails ==
    /\ Blame(Head(jobs).from)
    /\ jobs' = Tail(jobs) /\ work' = <<>> /\ busy' = FALSE

(* dropWhile(history.contains).                                             *)
NotInHistory(blocks) ==
    LET first == SelectInSeq(blocks, LAMBDA b : ~Contains(chain, b))
    IN IF first = 0 THEN <<>> ELSE SubSeq(blocks, first, Len(blocks))

StartFork ==
    /\ jobs # <<>> /\ ~busy
    /\ LET extension == NotInHistory(Head(jobs).blocks)
           common == IF extension = <<>> THEN 0 ELSE HeightOf(chain, Reference[Head(extension)])
       IN \/ extension = <<>> /\ busy' = TRUE /\ work' = <<>> /\ UNCHANGED <<chain, jobs, queue>>
          \/ extension # <<>> /\ common = 0 /\ Fails /\ UNCHANGED chain
          \/ /\ extension # <<>> /\ common > 0
             /\ chain' = SubSeq(chain, 1, common)
             /\ work' = extension /\ busy' = TRUE /\ UNCHANGED <<jobs, queue>>
    /\ UNCHANGED <<peers, open, observer, loader, minted>>

AppendBlock ==
    /\ busy /\ work # <<>>
    /\ IF Reference[Head(work)] = Last(chain) /\ Head(work) \notin Invalid
       THEN chain' = Append(chain, Head(work)) /\ work' = Tail(work) /\ UNCHANGED <<jobs, busy, queue>>
       ELSE Fails /\ UNCHANGED chain
    /\ UNCHANGED <<peers, open, observer, loader, minted>>

FinishFork ==
    /\ busy /\ work = <<>>
    /\ Broadcast(Len(chain))
    /\ jobs' = Tail(jobs) /\ busy' = FALSE
    /\ UNCHANGED <<chain, peers, open, observer, loader, work, minted>>

(* A block a peer broadcasts when it gets it: one that the loader waits for *)
(* is taken by it, one that is not next is dropped.                         *)
ReceiveBlock(c) ==
    /\ c \in open /\ ~busy
    /\ LET h == Len(chain) + 1
           b == PeerChain[c][h]
       IN /\ h > heard[c] /\ h <= peer[c]
          /\ b \in Gossip /\ Reference[b] = Last(chain) /\ b \notin Invalid \cup BadSignature
          /\ ~Contains(loader[c].target.ids, b)
          /\ chain' = Append(chain, b) /\ heard' = [heard EXCEPT ![c] = h]
    /\ Broadcast(Len(chain'))
    /\ UNCHANGED <<peer, announced, open, observer, loader, jobs, work, busy, minted>>

Mine ==
    /\ minted = 0
    /\ \E b \in Own : Reference[b] = Last(chain) /\ chain' = Append(chain, b)
    /\ minted' = Len(chain')
    /\ UNCHANGED <<peers, open, observer, queue, loader, jobs, work, busy>>

Announce ==
    /\ minted # 0 /\ Broadcast(minted) /\ minted' = 0
    /\ UNCHANGED <<chain, peers, open, observer, loader, jobs, work, busy>>

Grow(c) ==
    /\ c \in Growing /\ peer[c] < Len(PeerChain[c])
    /\ peer' = [peer EXCEPT ![c] = @ + 1]
    /\ UNCHANGED <<node, announced, heard, open, observer, queue, loader>>

Environment == \E c \in Channel : RemoteClose(c) \/ ExpireScore(c) \/ Grow(c) \/ ReceiveBlock(c)

Handler(c) ==
    \/ ReadScore(c) \/ WriteScore(c) \/ Pin(c) \/ WriteLoad(c) \/ CloseAsked(c) \/ Timeout(c)
    \/ ReadSignatures(c) \/ ReadBlocks(c) \/ CloseListener(c)

CoordinatorThread == StartFork \/ AppendBlock \/ FinishFork

Next == Environment \/ (\E c \in Channel : Handler(c)) \/ CoordinatorThread \/ Mine \/ Announce

Spec == Init /\ [][Next]_vars

(* Event loops and executors run what is waiting; what a peer or the user   *)
(* may do need not happen.  Ready is ENABLED Handler(c), in a form that is  *)
(* cheaper to evaluate.                                                     *)
Ready(c) ==
    \/ handler[c] # Idle
    \/ /\ c \in open
       /\ \/ announced[c] < peer[c] \/ queue[c] # <<>> \/ loader[c].wire # <<>>
          \/ loader[c].waiting

LiveSpec ==
    /\ Spec
    /\ \A c \in Channel : []<>~Ready(c) \/ []<><<Handler(c)>>_vars
    /\ WF_vars(CoordinatorThread)

-----------------------------------------------------------------------------
(* A channel never has two GetSignatures or two sets of GetBlock unanswered *)
(* at once, whatever the observer asks for in between, and a loader that    *)
(* waits is always owed an answer: only a peer that is silent runs into the *)
(* timeouts of the loaders, as long as it parted within MaxRollback blocks. *)
AnswerOwed ==
    \A c \in Channel :
        LET Unanswered(kind) == {i \in DOMAIN loader[c].wire : loader[c].wire[i].kind = kind}
        IN /\ Cardinality(Unanswered("signatures")) = (IF loader[c].waiting THEN 1 ELSE 0)
           /\ Cardinality(Unanswered("blocks")) = (IF loader[c].target = NoTarget THEN 0 ELSE 1)

(* Once its peers are done growing and stay, the node has a chain as good   *)
(* as the best of theirs, however many parts it takes to load it.           *)
CatchesUp == <>[](\A c \in Channel : Len(chain) >= peer[c])

(* The listener of a channel is the last to unpin it: once it has run, only *)
(* the listener of another channel pins it, if that one looked it up as     *)
(* second best before.  (A score that expires is out of the map before the  *)
(* channel closes, and the listener may do nothing; messages that were read *)
(* together with the one that closed the channel are not in the model.)     *)
LeftPinned == pinned \notin open \cup Expiring \cup {NoChannel} /\ handler[pinned] = Idle

LeftPinnedByRaceOnly ==
    [][LeftPinned' =>
          \/ LeftPinned /\ UNCHANGED pinned
          \/ /\ pinned \in Channel \ open /\ pinned # pinned'
             /\ handler[pinned] = At("switch", pinned')]_vars
=============================================================================
