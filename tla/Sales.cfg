\* Two catalogue requests at a time, but not two upserts of one override that
\* names no room.
SPECIFICATION CatalogueSpec
CONSTANTS
  A = A  B = B  o1 = o1  o2 = o2  double = double  suite = suite
  Room = {A, B}
  RoomType = {double, suite}
  Override = {o1, o2}
  Booking = {r1}
  Clerk = {c1, c2}
  CreateStatuses = {"CONFIRMED"}
  NoRoom = NoRoom
  NoOverride = NoOverride
  Horizon = 1
  MaxBlocks = 1
  Upserts <- SomeUpserts
  TypePatches <- Shut
  RoomPatches <- SomePatches
  Restricted <- SuiteClosed
SYMMETRY Symmetry
INVARIANTS TypeOK OfferBackedByRooms OneOverridePerNight
CHECK_DEADLOCK FALSE
