---------------------------- MODULE Connections ----------------------------
(***************************************************************************)
(* NetworkServer, InboundConnectionFilter and HandshakeHandler: channels   *)
(* are dialled by a task and by the REST API, accepted within limits,      *)
(* admitted by a handshake, and written into books that several event      *)
(* loops share.  What is written is taken back by the listeners of the     *)
(* channel's close future, one after another.                              *)
(***************************************************************************)
EXTENDS PeerDatabase, FiniteSets

CONSTANTS
    Channels,       \* channels, a name of which is used again after its close
    MaxOutbound,    \* maxOutboundConnections
    MaxInbound,     \* maxInboundConnections
    MaxPerHost,     \* maxConnectionsPerHost
    Declaring       \* the peers whose handshake declares their address

\* An address whose channel is gone, but not its entry.
Gone == "gone"

ASSUME LimitsAssumption ==
    /\ IsFiniteSet(Channels) /\ None \notin Channels
    /\ Gone \notin Channels /\ Gone # None
    /\ MaxOutbound \in Nat /\ MaxInbound \in Nat /\ MaxPerHost \in Nat

VARIABLES
    chan,                    \* channel -> how far it is, and what its close owes
    outgoingChannels,        \* address -> channel
    outgoingChannelCount,
    inboundConnectionCount,
    perHostConnectionCount,
    connections,             \* side -> peer -> channel (one map in each handler)
    peerInfo,                \* the channels of establishedConnections
    allChannels,
    task,                    \* the connect task: waiting, about to dial, or dead
    shutdownInitiated

bookVars == <<outgoingChannels, outgoingChannelCount, inboundConnectionCount,
              perHostConnectionCount, connections, peerInfo, allChannels>>

vars == <<peerVars, chan, bookVars, task, shutdownInitiated>>

Free == [stage |-> "free"]

\* "late" is an open channel whose handshake timer has fired, "stuck" one whose
\* handshake decoder has been removed, both with an exception.
Open == {"open", "late", "stuck", "established"}

Sides == {"out", "in"}

\* total and ofHost are what accept counted, cut is a listener of the dial that
\* threw, and owes the listeners of the close future that are still to run.
Channel(stage, side, peer, total, ofHost, cut, owes) ==
    [stage |-> stage, side |-> side, peer |-> peer, total |-> total, ofHost |-> ofHost,
     cut |-> cut, owes |-> owes]

Becomes(c, record) == chan' = [chan EXCEPT ![c] = record]

Moves(c, stage, owes) ==
    Becomes(c, Channel(stage, chan[c].side, chan[c].peer, chan[c].total, chan[c].ofHost,
                       chan[c].cut, owes))

InStage(c, stages) == chan[c] # Free /\ chan[c].stage \in stages

Init ==
    /\ PeerInit
    /\ chan = [c \in Channels |-> Free]
    /\ outgoingChannels = [a \in Addresses |-> None]
    /\ outgoingChannelCount = 0 /\ inboundConnectionCount = 0
    /\ perHostConnectionCount = [h \in Hosts |-> 0]
    /\ connections = [s \in Sides |-> [a \in Addresses |-> None]]
    /\ peerInfo = {} /\ allChannels = {}
    /\ task = "waiting" /\ shutdownInitiated = FALSE

HostOfChannel(c) == HostOf[chan[c].peer]

-----------------------------------------------------------------------------
(* Outbound. *)

\* outgoingChannels.computeIfAbsent: the listeners of the dial wait for it
connect(a) ==
    IF outgoingChannels[a] # None THEN UNCHANGED <<chan, outgoingChannels>>
    ELSE \E c \in Channels :
            /\ chan[c] = Free
            /\ Becomes(c, Channel("dialling", "out", a, 0, 0, FALSE, <<>>))
            /\ outgoingChannels' = [outgoingChannels EXCEPT ![a] = c]

\* POST /peers/connect
ConnectApi ==
    /\ \E a \in Addresses : outgoingChannels[a] = None /\ connect(a)
    /\ UNCHANGED <<peerVars, outgoingChannelCount, inboundConnectionCount, perHostConnectionCount,
                   connections, peerInfo, allChannels, task, shutdownInitiated>>

Excluded ==
    {a \in Addresses : outgoingChannels[a] # None}
        \cup {chan[c].peer : c \in {d \in peerInfo : chan[d].peer \in Declaring}}

\* The task finds room and looks for a peer.
TaskDraws ==
    /\ task = "waiting" /\ ~shutdownInitiated
    /\ outgoingChannelCount < MaxOutbound
    /\ Draw(Excluded)
    /\ UNCHANGED <<chan, bookVars, task, shutdownInitiated>>

\* An exception out of randomPeer ends the periodic task for good.
TaskDies ==
    /\ task = "waiting" /\ ~shutdownInitiated
    /\ outgoingChannelCount < MaxOutbound
    /\ Throws
    /\ task' = "dead"
    /\ UNCHANGED <<chan, bookVars, shutdownInitiated>>

TaskTakes ==
    /\ \E a \in Addresses \cup {None} : Take(a) /\ task' = IF a = None THEN "waiting" ELSE a
    /\ UNCHANGED <<chan, bookVars, shutdownInitiated>>

TaskConnects ==
    /\ task \in Addresses
    /\ connect(task)
    /\ task' = "waiting"
    /\ UNCHANGED <<peerVars, outgoingChannelCount, inboundConnectionCount, perHostConnectionCount,
                   connections, peerInfo, allChannels, shutdownInitiated>>

\* A channel that never connected has no remote address to suspend, so the
\* listener only takes the entry back.
DialFails(c) ==
    /\ InStage(c, {"dialling"})
    /\ outgoingChannels' = [outgoingChannels EXCEPT ![chan[c].peer] = None]
    /\ Becomes(c, Free)
    /\ UNCHANGED <<peerVars, outgoingChannelCount, inboundConnectionCount, perHostConnectionCount,
                   connections, peerInfo, allChannels, task, shutdownInitiated>>

DialSucceeds(c) ==
    /\ InStage(c, {"dialling"})
    /\ touch(chan[c].peer)
    /\ outgoingChannelCount' = outgoingChannelCount + 1
    /\ allChannels' = allChannels \cup {c}
    /\ Moves(c, "open", <<"forget", "suspend">>)
    /\ UNCHANGED <<outgoingChannels, inboundConnectionCount, perHostConnectionCount,
                   connections, peerInfo, task, shutdownInitiated>>

\* An exception out of touch ends the listener before it has counted the
\* channel and before it has asked to be told of its close.
DialIsCut(c) ==
    /\ InStage(c, {"dialling"})
    /\ Throws
    /\ Becomes(c, Channel("open", "out", chan[c].peer, 0, 0, TRUE, <<>>))
    /\ UNCHANGED <<bookVars, task, shutdownInitiated>>

-----------------------------------------------------------------------------
(* Inbound: accept counts the channel before it looks at the limits. *)

CountTotal(c) ==
    /\ chan[c] = Free /\ ~shutdownInitiated
    /\ inboundConnectionCount' = inboundConnectionCount + 1
    /\ \E a \in Addresses :
          Becomes(c, Channel("arriving", "in", a, inboundConnectionCount + 1, 0, FALSE, <<"uncount">>))
    /\ UNCHANGED <<peerVars, outgoingChannels, outgoingChannelCount, perHostConnectionCount,
                   connections, peerInfo, allChannels, task, shutdownInitiated>>

CountHost(c) ==
    /\ InStage(c, {"arriving"})
    /\ perHostConnectionCount' = [perHostConnectionCount EXCEPT ![HostOfChannel(c)] = @ + 1]
    /\ Becomes(c, Channel("counted", "in", chan[c].peer, chan[c].total,
                          perHostConnectionCount[HostOfChannel(c)] + 1, FALSE, chan[c].owes))
    /\ UNCHANGED <<peerVars, outgoingChannels, outgoingChannelCount, inboundConnectionCount,
                   connections, peerInfo, allChannels, task, shutdownInitiated>>

\* Fault: the limits are looked at as if the channel were not counted yet.
WithinLimitsBefore(c) ==
    /\ chan[c].total - 1 <= MaxInbound
    /\ chan[c].ofHost - 1 <= MaxPerHost
    /\ HostOfChannel(c) \notin blacklist

WithinLimits(c) ==
    /\ chan[c].total <= MaxInbound
    /\ chan[c].ofHost <= MaxPerHost
    /\ HostOfChannel(c) \notin blacklist

\* channelAccepted and channelRejected both take the counts back, the one when
\* the channel closes and the other at once.
Judge(c) ==
    /\ InStage(c, {"counted"})
    /\ Becomes(c, Channel(IF WithinLimits(c) THEN "open" ELSE "closed", "in", chan[c].peer, 0, 0,
                          FALSE, chan[c].owes))
    /\ UNCHANGED <<peerVars, bookVars, task, shutdownInitiated>>

-----------------------------------------------------------------------------
(* The handshake, and what follows it. *)

\* PeerSynchronizer touches the declared address, and a throw changes nothing else.
TouchDeclared(c) ==
    IF chan[c].peer \in Declaring THEN touch(chan[c].peer) \/ Throws ELSE UNCHANGED peerVars

\* Fault: a second channel of the same peer is put over the first.
previousPeerIgnored(c) == None

previousPeer(c) == connections[chan[c].side][chan[c].peer]

\* Fault: the close of an accepted channel leaves its key behind.
NegotiatedKeyless(c) == Moves(c, "established", chan[c].owes \o <<"leave">>)

\* The listeners that an accepted handshake adds.
Negotiated(c) ==
    Moves(c, "established",
          chan[c].owes \o IF chan[c].side = "in" THEN <<"unkey", "leave">> ELSE <<"unkey">>)

Handshake(c) ==
    /\ InStage(c, {"open", "late"})
    /\ IF previousPeer(c) # None
       THEN /\ Moves(c, "closed", chan[c].owes)
            /\ UNCHANGED <<peerVars, connections, peerInfo, allChannels>>
       ELSE /\ connections' = [connections EXCEPT ![chan[c].side][chan[c].peer] = c]
            /\ peerInfo' = peerInfo \cup {c}
            /\ allChannels' = IF chan[c].side = "in" THEN allChannels \cup {c} ELSE allChannels
            /\ Negotiated(c)
            /\ TouchDeclared(c)
    /\ UNCHANGED <<outgoingChannels, outgoingChannelCount, inboundConnectionCount,
                   perHostConnectionCount, task, shutdownInitiated>>

\* blacklistAndClose, which an exception ends before the close
BlacklistAndClose(c, otherwise) ==
    /\ \/ Blacklist(HostOfChannel(c)) /\ Moves(c, "closed", chan[c].owes)
       \/ Throws /\ Moves(c, otherwise, chan[c].owes)
    /\ UNCHANGED <<bookVars, task, shutdownInitiated>>

\* The decoder leaves the pipeline with the handshake it passes on, and stays
\* when it is the one that refuses.
HandshakeFails(c) ==
    /\ InStage(c, {"open", "late"})
    /\ \E otherwise \in {"stuck", chan[c].stage} : BlacklistAndClose(c, otherwise)

HandshakeTimeout(c) == InStage(c, {"open"}) /\ BlacklistAndClose(c, "late")

\* A message of an established peer that a later handler refuses.
Misbehaves(c) == InStage(c, {"established"}) /\ BlacklistAndClose(c, "established")

\* An answer to GetPeers, one address of it.
KnownPeersArrive(c) ==
    /\ InStage(c, {"established"})
    /\ \E a \in Addresses : addCandidate(a)
    /\ UNCHANGED <<peersPersistence, blacklist, suspension, drawing, chan, bookVars, task, shutdownInitiated>>

\* Any message of a peer that declared its address.
MessageTouches(c) ==
    /\ InStage(c, {"established"}) /\ chan[c].peer \in Declaring
    /\ TouchDeclared(c)
    /\ UNCHANGED <<chan, bookVars, task, shutdownInitiated>>

Closes(c) ==
    /\ InStage(c, Open)
    /\ Moves(c, "closed", chan[c].owes)
    /\ UNCHANGED <<peerVars, bookVars, task, shutdownInitiated>>

-----------------------------------------------------------------------------
(* The listeners of the close future, on the channel's event loop. *)

Owes(c, listener) ==
    InStage(c, {"closed"}) /\ chan[c].owes # <<>> /\ Head(chan[c].owes) = listener

Paid(c) == Moves(c, "closed", Tail(chan[c].owes))

\* InboundConnectionFilter.dec
Uncount(c) ==
    /\ Owes(c, "uncount")
    /\ Paid(c)
    /\ inboundConnectionCount' = inboundConnectionCount - 1
    /\ perHostConnectionCount' = [perHostConnectionCount EXCEPT ![HostOfChannel(c)] = @ - 1]
    /\ UNCHANGED <<peerVars, outgoingChannels, outgoingChannelCount, connections, peerInfo,
                   allChannels, task, shutdownInitiated>>

\* Fault: the entry of the address is left in outgoingChannels.
ForgetCountOnly(c) ==
    /\ Owes(c, "forget")
    /\ Paid(c)
    /\ outgoingChannelCount' = outgoingChannelCount - 1
    /\ allChannels' = allChannels \ {c}
    /\ UNCHANGED <<peerVars, outgoingChannels, inboundConnectionCount, perHostConnectionCount,
                   connections, peerInfo, task, shutdownInitiated>>

\* The listener of connect; the address may be dialled again before it is suspended.
Forget(c) ==
    /\ Owes(c, "forget")
    /\ Paid(c)
    /\ outgoingChannelCount' = outgoingChannelCount - 1
    /\ allChannels' = allChannels \ {c}
    /\ outgoingChannels' = [outgoingChannels EXCEPT ![chan[c].peer] = IF @ = c THEN None ELSE @]
    /\ UNCHANGED <<peerVars, inboundConnectionCount, perHostConnectionCount, connections,
                   peerInfo, task, shutdownInitiated>>

Suspend(c) ==
    /\ Owes(c, "suspend")
    /\ Paid(c)
    /\ IF shutdownInitiated THEN UNCHANGED peerVars ELSE suspend(HostOfChannel(c)) \/ Throws
    /\ UNCHANGED <<bookVars, task, shutdownInitiated>>

Unkey(c) ==
    /\ Owes(c, "unkey")
    /\ Paid(c)
    /\ connections' = [connections EXCEPT ![chan[c].side][chan[c].peer] = IF @ = c THEN None ELSE @]
    /\ peerInfo' = peerInfo \ {c}
    /\ UNCHANGED <<peerVars, outgoingChannels, outgoingChannelCount, inboundConnectionCount,
                   perHostConnectionCount, allChannels, task, shutdownInitiated>>

Leave(c) ==
    /\ Owes(c, "leave")
    /\ Paid(c)
    /\ allChannels' = allChannels \ {c}
    /\ UNCHANGED <<peerVars, outgoingChannels, outgoingChannelCount, inboundConnectionCount,
                   perHostConnectionCount, connections, peerInfo, task, shutdownInitiated>>

\* The channel is garbage; what still refers to it never will to another.
Vanishes(c) ==
    /\ InStage(c, {"closed"}) /\ chan[c].owes = <<>>
    /\ Becomes(c, Free)
    /\ outgoingChannels' = [a \in Addresses |-> IF outgoingChannels[a] = c THEN Gone
                                                ELSE outgoingChannels[a]]
    /\ UNCHANGED <<peerVars, outgoingChannelCount, inboundConnectionCount, perHostConnectionCount,
                   connections, peerInfo, allChannels, task, shutdownInitiated>>

Forgotten == (Obsolete \/ clearBlacklist) /\ UNCHANGED <<chan, bookVars, task, shutdownInitiated>>

\* The task is cancelled and the server channel closed, then all channels are.
Shutdown ==
    /\ ~shutdownInitiated
    /\ shutdownInitiated' = TRUE
    /\ UNCHANGED <<peerVars, chan, bookVars, task>>

ConnectTask == TaskDraws \/ TaskDies \/ TaskTakes \/ TaskConnects

Next ==
    \/ ConnectTask \/ ConnectApi \/ Forgotten \/ Shutdown
    \/ \E c \in Channels :
          \/ DialFails(c) \/ DialSucceeds(c) \/ DialIsCut(c)
          \/ CountTotal(c) \/ CountHost(c) \/ Judge(c)
          \/ Handshake(c) \/ HandshakeFails(c) \/ HandshakeTimeout(c)
          \/ Misbehaves(c) \/ KnownPeersArrive(c) \/ MessageTouches(c) \/ Closes(c)
          \/ Uncount(c) \/ Forget(c) \/ Suspend(c) \/ Unkey(c) \/ Leave(c) \/ Vanishes(c)

Spec == Init /\ [][Next]_vars

-----------------------------------------------------------------------------
Inbound == {c \in Channels : InStage(c, Open) /\ chan[c].side = "in"}

\* The open inbound channels are never more than the limits allow, in all or
\* from one host, however the counts and the checks of accept interleave.
InboundBounded ==
    /\ Cardinality(Inbound) <= MaxInbound
    /\ \A h \in Hosts : Cardinality({c \in Inbound : HostOfChannel(c) = h}) <= MaxPerHost

\* An address never has two outbound channels, although the task and the API
\* both dial and an entry is removed while its channel is still closing; and at
\* most one channel of a peer is established on either side, the one the
\* handler would refuse the next for.
OneChannelPerPeer ==
    /\ \A c, d \in {x \in Channels : InStage(x, {"dialling"} \cup Open) /\ chan[x].side = "out"} :
          chan[c].peer = chan[d].peer => c = d
    /\ \A c \in Channels :
          InStage(c, {"established"}) => connections[chan[c].side][chan[c].peer] = c /\ c \in peerInfo

\* When the last channel has closed no book remembers any: the counts are zero
\* and no peer is taken for connected.  Only outgoingChannels may keep addresses.
NothingLeftBehind ==
    (\A c \in Channels : chan[c] = Free) =>
       /\ outgoingChannelCount = 0 /\ inboundConnectionCount = 0
       /\ \A h \in Hosts : perHostConnectionCount[h] = 0
       /\ \A s \in Sides, a \in Addresses : connections[s][a] = None
       /\ peerInfo = {} /\ allChannels = {}

\* An entry outlives its channel, and bars its address from ever being dialled
\* again, only when the listener of the dial was cut short.
StaleOnlyWhenCut ==
    [][\A a \in Addresses :
          outgoingChannels[a] \in Channels /\ outgoingChannels'[a] = Gone
             => chan[outgoingChannels[a]].cut]_vars

\* The connect task takes an address of a banned host only when the candidate
\* it had checked was evicted from the queue in the meantime.
BannedOnlyByEviction ==
    [][\A a \in Addresses :
          ~Unlocked /\ task' = a /\ Banned(a) => a \notin {drawing.unverified, drawing.verified}]_vars
=============================================================================
