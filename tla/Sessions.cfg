\* One account, two sessions, two calls at once.
SPECIFICATION Spec
CONSTANTS
  s1 = s1  s2 = s2  b1 = b1  b2 = b2  q1 = q1  q2 = q2  q3 = q3
  a1 = a1  a2 = a2  m1 = m1  m2 = m2  t1 = t1
  Session = {s1, s2}
  Browser = {b1}
  Request = {q1, q2}
  Address = {a1, a2}
  ResetToken = {t1}
  MailToken = {m1, m2}
  NoToken = NoToken
  Threshold = 1
  MaxIssued = 3
  MaxChanges = 1
  MaxLost = 1
INVARIANTS ReuseMeansOverlap ChangesEndSessions VerifiedAddressProved
           FailuresBounded
PROPERTIES SessionBookKept
SYMMETRY Symmetry
CHECK_DEADLOCK FALSE
