\* One company on two plans, two requests at once.
SPECIFICATION Spec
CONSTANTS
  q1 = q1  q2 = q2  q3 = q3  starter = starter  pro = pro  e1 = e1
  Request = {q1, q2}
  Plan = {starter, pro}
  Kind = {"room", "property"}
  Limit <- SmallLimits
  Bulk <- SmallBulk
  Event = {e1}
  Seeds <- SomeSeeds
  MaxMade = 2
  NoPlan = NoPlan
  MaxDuplicates = 1
INVARIANTS LimitsHeld PlanSettled EventBookedOnce
           RouteAgreesWithGuard
SYMMETRY Symmetry
CHECK_DEADLOCK FALSE
