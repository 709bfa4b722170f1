CONSTANTS
  g = g  t1 = t1  t2 = t2  t3 = t3  t4 = t4  t5 = t5  x1 = x1  o1 = o1
  n1 = n1  n2 = n2
  Channel = {n1}
  NoChannel = NoChannel
  Reference <- ByHeight
  PeerChain <- LongChain
  Own = {}
  Invalid = {}
  BadSignature = {}
  Start <- FirstBlock
  MaxRollback = 3
  MaxChainLength = 4
  Silent = {}
  Closing = {}
  Expiring = {}
  Growing = {}
  Gossip = {}
SPECIFICATION LiveSpec
PROPERTIES CatchesUp
CHECK_DEADLOCK FALSE
