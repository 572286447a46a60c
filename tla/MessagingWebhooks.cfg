SPECIFICATION Spec
CONSTANTS
  m1 = m1  g1 = g1
  s1 = s1  s2 = s2  w1 = w1  w2 = w2  h1 = h1  h2 = h2
  Message = {m1}
  Incoming = {g1}
  Sender = {s1}
  Worker = {w1}
  Hook = {h1, h2}
  None = None
  Limit = 2
  Recipients = 1
  MaxRetries = 2
  MaxStalled = 1
  MaxFaults = 0
  SharesId = TRUE
INVARIANTS EventsAppliedOnce
PROPERTIES DroppedStaysDropped
SYMMETRY Symmetry
CHECK_DEADLOCK FALSE
