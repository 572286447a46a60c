SPECIFICATION FairSpec
CONSTANTS
  m1 = m1  g1 = g1
  s1 = s1  s2 = s2  w1 = w1  w2 = w2  h1 = h1  h2 = h2
  Message = {m1}
  Incoming = {}
  Sender = {s1, s2}
  Worker = {w1, w2}
  Hook = {}
  None = None
  Limit = 2
  Recipients = 1
  MaxRetries = 2
  MaxStalled = 1
  MaxFaults = 2
  SharesId = TRUE
INVARIANTS SendsExplained UsageExplained
PROPERTY EveryJobEnds
CHECK_DEADLOCK FALSE
