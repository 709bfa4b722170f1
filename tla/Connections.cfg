CONSTANTS
    peer1 = peer1
    peer2 = peer2
    host1 = host1
    host2 = host2
    link1 = link1
    link2 = link2
    link3 = link3
    Addresses = {peer1, peer2}
    HostOf <- MCHostOf
    Configured = {}
    Declaring = {peer1}
    MaxUnverified = 1
    None = None
    Channels = {link1, link2, link3}
    MaxOutbound = 1
    MaxInbound = 2
    MaxPerHost = 2
SYMMETRY Interchangeable
CONSTRAINT Bounded
SPECIFICATION Spec
INVARIANTS InboundBounded OneChannelPerPeer NothingLeftBehind
PROPERTIES StaleOnlyWhenCut BannedOnlyByEviction
CHECK_DEADLOCK FALSE
