CONSTANTS
  g = g  b1 = b1  b2 = b2  b3 = b3  c1 = c1  c2 = c2
  o0 = o0  o1 = o1  o2 = o2  oc = oc  t1 = t1  t2 = t2
  NoBlock = NoBlock
  Block = {g, b1, b2, b3, c1, c2, o0, o1, o2, oc}
  Genesis = g
  Reference <- MCReference
  Valid <- MCValid
  Own <- MCOwn
  Timestamp <- MCTimestamp
  Slot <- Always
  Verdict <- Lax
  Tx = {t1, t2}
  Content <- MCContent
  Needs <- MCNeeds
  Net = Net  Api = Api
  Miners = {m1}
  Jobs <- FewForks
  Targets = {g, b1}
  MaxJobs = 2
  MaxHorizon = 0
SPECIFICATION LiveSpec
INVARIANTS MinerArmed
PROPERTIES StaleAttemptReplaced
