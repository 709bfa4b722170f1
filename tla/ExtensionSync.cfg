CONSTANTS
  g = g  t1 = t1  t2 = t2  t3 = t3  t4 = t4  t5 = t5  x1 = x1  o1 = o1
  n1 = n1  n2 = n2
  Channel = {n1, n2}
  NoChannel = NoChannel
  Reference <- MCReference
  PeerChain <- Forked
  Own = {o1}
  Invalid = {}
  BadSignature = {t3}
  Start <- MCStart
  MaxRollback = 4
  MaxChainLength = 2
  Silent = {n1, n2}
  Closing = {n1, n2}
  Expiring = {n1}
  Growing = {n1}
  Gossip = {t2}
SPECIFICATION Spec
INVARIANTS AnswerOwed
PROPERTIES LeftPinnedByRaceOnly
CHECK_DEADLOCK FALSE
