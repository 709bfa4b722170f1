--------------------------- MODULE MCConnections ---------------------------
EXTENDS Connections, TLC

CONSTANTS peer1, peer2, host1, host2, link1, link2, link3

\* Two peers, each on a host of its own.
MCHostOf == peer1 :> host1 @@ peer2 :> host2

\* Bounds: never more than one ban at once, and a third channel, or what
\* comes after the shutdown, only while nobody is banned or queued.
Quiet ==
    blacklist = {} /\ suspension = {} /\ unverifiedPeers = <<>> /\ Unlocked /\ task = "waiting"

Bounded ==
    /\ Cardinality(blacklist) + Cardinality(suspension) <= 1
    /\ shutdownInitiated \/ (\A c \in Channels : chan[c] # Free) => Quiet

Interchangeable == Permutations(Channels)
=============================================================================
