\* Every front desk operation and moves, two at once; no two of one reservation that
\* write its status, and no check-out beside an operation that gives it a room.
SPECIFICATION StaysSpec
CONSTANTS
  r1 = r1  r2 = r2  A = A  B = B
  q1 = q1  q2 = q2  q3 = q3  q4 = q4  q5 = q5  q6 = q6
  k1 = k1  b1 = b1  b2 = b2
  Room = {A, B}
  NoKey = NoKey
  NoReservation = NoReservation
  Policy <- DefaultPolicy
  Reservation = {r1}
  Request = {q1, q2, q3, q4, q5}
  Block = {}
  IdemKey = {}
  Horizon = 2
  RoomLists <- ManyRooms
  CreateStatuses = {"PENDING", "CONFIRMED"}
  StopSell = {1}
  RoomUpdates <- Cleaning
  Ops = {"create", "assign", "change", "checkIn", "checkOut", "noShow", "roomStatus", "housekeeping", "maintenance", "move"}
  Concurrency = 2
  MaxAttempts = 1
SYMMETRY RequestSymmetry
INVARIANTS TypeOK OneCheckoutInvoice
PROPERTIES LegalTransitions CheckedOutRoomsReleased
CHECK_DEADLOCK FALSE
