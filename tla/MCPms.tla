------------------------------- MODULE MCPms -------------------------------
(***************************************************************************)
(* Instances of Pms for TLC: small sets, the room lists and the policy.    *)
(***************************************************************************)
EXTENDS Pms, TLC

CONSTANTS r1, r2, A, B, q1, q2, q3, q4, q5, q6, k1, b1, b2

SingleRooms == {<<A>>, <<B>>}
ManyRooms   == {<<>>, <<A, B>>}

(* The defaults of getOperationalPolicy. *)
DefaultPolicy ==
  [requireCleanRoomForCheckIn |-> TRUE,
   autoGenerateInvoiceOnCheckout |-> TRUE,
   createHousekeepingTaskOnCheckout |-> TRUE]

None == {}

(* Housekeeping reports a room ready; the front desk frees it again. *)
Cleaning ==
  {[status |-> Keep, cleaningStatus |-> "READY", maintenanceStatus |-> Keep],
   [status |-> "AVAILABLE", cleaningStatus |-> Keep,
    maintenanceStatus |-> "AVAILABLE"]}

RequestSymmetry == Permutations(Request)

(* Where the room lists do not tell the rooms apart. *)
FullSymmetry ==
  Permutations(Request) \cup Permutations(Room) \cup Permutations(Reservation)
=============================================================================
