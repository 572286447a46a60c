\* Each page beside its row, two requests at once.
SPECIFICATION Spec
CONSTANTS
  q1 = q1  q2 = q2  f1 = f1  f2 = f2
  Request = {q1, q2}
  Filter = {f1, f2}
  NoFilter = NoFilter
  Stay <- Stays
  FormId = {1, 2}
  MaxVersion = 2
  MaxLost = 1
INVARIANTS OneEffectPerForm LatestLoadTells FlagFollowsSubmission
PROPERTIES NothingOverwrittenUnseen RemovedStaysRemoved
SYMMETRY Symmetry
CHECK_DEADLOCK FALSE
