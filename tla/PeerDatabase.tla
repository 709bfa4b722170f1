---------------------------- MODULE PeerDatabase ----------------------------
(***************************************************************************)
(* PeerDatabaseImpl: the addresses a node knows, the queue of those it has *)
(* only heard of, and the hosts it will not dial.  The lock of the queue   *)
(* is taken by every operation but addCandidate, whose additions may fall  *)
(* between two steps of any of them.                                       *)
(***************************************************************************)
EXTENDS Naturals, Sequences

CONSTANTS
    Addresses,      \* socket addresses
    HostOf,         \* address -> host
    Configured,     \* settings.knownPeers
    MaxUnverified,  \* settings.maxUnverifiedPeers
    None

ASSUME PeersAssumption ==
    /\ Configured \subseteq Addresses /\ MaxUnverified \in Nat \ {0}
    /\ None \notin Addresses

Hosts == {HostOf[a] : a \in Addresses}

VARIABLES
    peersPersistence,  \* addresses a connection was made to
    unverifiedPeers,   \* the evicting queue
    blacklist,         \* hosts that misbehaved
    suspension,        \* hosts a connection to which was closed
    drawing            \* what randomPeer, under the lock, has found so far

peerVars == <<peersPersistence, unverifiedPeers, blacklist, suspension, drawing>>

PeerInit ==
    /\ peersPersistence = Configured
    /\ unverifiedPeers = <<>>
    /\ blacklist = {} /\ suspension = {}
    /\ drawing = None

\* unverifiedPeers.synchronized, held over several steps only by randomPeer
Unlocked == drawing = None

Queued == {unverifiedPeers[i] : i \in DOMAIN unverifiedPeers}

Banned(a) == HostOf[a] \in blacklist \cup suspension

-----------------------------------------------------------------------------
\* addCandidate takes no lock; EvictingQueue.add drops the head of a full queue.
addCandidate(a) ==
    /\ a \notin peersPersistence \cup Queued
    /\ unverifiedPeers' =
          Append(IF Len(unverifiedPeers) = MaxUnverified THEN Tail(unverifiedPeers)
                 ELSE unverifiedPeers, a)

\* removeIf walks a queue nobody else adds to in the meantime ...
removeIf(S) == unverifiedPeers' = SelectSeq(unverifiedPeers, LAMBDA a : a \notin S)

\* ... or finds that somebody did, and throws ConcurrentModificationException
\* out of the operation that called it.
removeIfThrows == unverifiedPeers # <<>> /\ \E a \in Addresses : addCandidate(a)

touch(a) ==
    /\ Unlocked
    /\ removeIf({a})
    /\ peersPersistence' = peersPersistence \cup {a}
    /\ UNCHANGED <<blacklist, suspension, drawing>>

Throws == Unlocked /\ removeIfThrows /\ UNCHANGED <<peersPersistence, blacklist, suspension, drawing>>

AddressesOf(h) == {a \in Addresses : HostOf[a] = h}

\* Fault: a host is only put on the blacklist, without the lock.
BlacklistUnlocked(h) ==
    blacklist' = blacklist \cup {h} /\ UNCHANGED <<peersPersistence, unverifiedPeers, suspension, drawing>>

Blacklist(h) ==
    /\ Unlocked
    /\ removeIf(AddressesOf(h))
    /\ blacklist' = blacklist \cup {h}
    /\ UNCHANGED <<peersPersistence, suspension, drawing>>

suspend(h) ==
    /\ Unlocked
    /\ removeIf(AddressesOf(h))
    /\ suspension' = suspension \cup {h}
    /\ UNCHANGED <<peersPersistence, blacklist, drawing>>

\* removeObsoleteRecords of the three maps: a record goes when its time has come
Obsolete ==
    /\ \/ \E h \in blacklist : blacklist' = blacklist \ {h} /\ UNCHANGED <<peersPersistence, suspension>>
       \/ \E h \in suspension : suspension' = suspension \ {h} /\ UNCHANGED <<peersPersistence, blacklist>>
       \/ \E a \in peersPersistence \ Configured :
             peersPersistence' = peersPersistence \ {a} /\ UNCHANGED <<blacklist, suspension>>
    /\ UNCHANGED <<unverifiedPeers, drawing>>

clearBlacklist ==
    blacklist # {} /\ blacklist' = {} /\ UNCHANGED <<peersPersistence, unverifiedPeers, suspension, drawing>>

(* randomPeer: the candidates are found and checked first, and one of them *)
(* is taken afterwards: the head of the queue is polled, whatever it is    *)
(* by then.                                                                *)

Draw(excluded) ==
    /\ Unlocked
    /\ removeIf(excluded)
    /\ LET known == {a \in peersPersistence : HostOf[a] \notin blacklist} \ excluded
           checked(a) == IF Banned(a) THEN None ELSE a
       IN  \E v \in IF known = {} THEN {None} ELSE {checked(a) : a \in known} :
              drawing' = [unverified |-> IF unverifiedPeers' = <<>> THEN None
                                         ELSE checked(Head(unverifiedPeers')),
                          verified |-> v]
    /\ UNCHANGED <<peersPersistence, blacklist, suspension>>

Take(a) ==
    /\ ~Unlocked
    /\ \/ drawing.unverified # None
          /\ a = Head(unverifiedPeers) /\ unverifiedPeers' = Tail(unverifiedPeers)
       \/ drawing.verified # None /\ a = drawing.verified /\ UNCHANGED unverifiedPeers
       \/ drawing.unverified = None /\ drawing.verified = None
          /\ a = None /\ UNCHANGED unverifiedPeers
    /\ drawing' = None
    /\ UNCHANGED <<peersPersistence, blacklist, suspension>>
=============================================================================
