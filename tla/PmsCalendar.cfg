\* Creations, assignments, moves and blocks, two at once; no stay is written under an
\* open block request, and no blind write lands under a block.
SPECIFICATION BlocksSpec
CONSTANTS
  r1 = r1  r2 = r2  A = A  B = B
  q1 = q1  q2 = q2  q3 = q3  q4 = q4  q5 = q5  q6 = q6
  k1 = k1  b1 = b1  b2 = b2
  Room = {A, B}
  NoKey = NoKey
  NoReservation = NoReservation
  Policy <- DefaultPolicy
  Reservation = {r1, r2}
  Request = {q1, q2, q3, q4, q5}
  Block = {b1}
  IdemKey = {}
  Horizon = 2
  RoomLists <- SingleRooms
  CreateStatuses = {"CONFIRMED"}
  StopSell = {}
  RoomUpdates <- None
  Ops = {"create", "assign", "move", "blockCreate", "blockUpdate", "blockDelete"}
  Concurrency = 2
  MaxAttempts = 1
SYMMETRY FullSymmetry
INVARIANTS NoDoubleBooking NoStayUnderBlock
CHECK_DEADLOCK FALSE
