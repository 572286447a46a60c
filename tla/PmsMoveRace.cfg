\* A room change decided on dates a calendar move has since changed.
SPECIFICATION Spec
CONSTANTS
  r1 = r1  r2 = r2  A = A  B = B
  q1 = q1  q2 = q2  q3 = q3  q4 = q4  q5 = q5  q6 = q6
  k1 = k1  b1 = b1  b2 = b2
  Room = {A, B}
  NoKey = NoKey
  NoReservation = NoReservation
  Policy <- DefaultPolicy
  Reservation = {r1, r2}
  Request = {q1, q2, q3, q4, q5}
  Block = {}
  IdemKey = {}
  Horizon = 2
  RoomLists <- SingleRooms
  CreateStatuses = {"CONFIRMED"}
  StopSell = {}
  RoomUpdates <- None
  Ops = {"create", "change", "move"}
  Concurrency = 2
  MaxAttempts = 1
SYMMETRY RequestSymmetry
INVARIANTS NoDoubleBooking
CHECK_DEADLOCK FALSE
