-------------------------- MODULE ReservationRules --------------------------
(***************************************************************************)
(* The constant-level rules of the booking engine: the reservation life    *)
(* cycle, the status lists each service filters on, and the half-open      *)
(* interval overlap all of them share.  Nothing here has state.            *)
(***************************************************************************)
EXTENDS Naturals

(* enum ReservationStatus of the database schema. *)
ReservationStatus ==
  {"PENDING", "CONFIRMED", "CHECKED_IN", "CHECKED_OUT",
   "CANCELLED", "NO_SHOW", "BLOCKED", "MAINTENANCE"}

(* enum RoomStatus: one enum serves status, cleaningStatus and             *)
(* maintenanceStatus of a room.                                            *)
RoomStatus ==
  {"AVAILABLE", "OCCUPIED", "RESERVED", "DIRTY",
   "CLEANING", "READY", "MAINTENANCE", "OUT_OF_SERVICE"}

(* enum CalendarBlockType. *)
CalendarBlockType == {"BLOCKED", "MAINTENANCE"}

(* The table of reservation-transition.ts, as a set of edges. *)
allowedTransitions ==
  ({"PENDING"} \X {"CONFIRMED", "CANCELLED", "NO_SHOW"})
    \cup ({"CONFIRMED"} \X {"CHECKED_IN", "CANCELLED", "NO_SHOW"})
    \cup {<<"CHECKED_IN", "CHECKED_OUT">>}

(* assertReservationTransition: asking for the present status is accepted. *)
TransitionAllowed(current, requested) ==
  current = requested \/ <<current, requested>> \in allowedTransitions

(* assertAssignableReservation. *)
assignableStatuses == {"PENDING", "CONFIRMED", "CHECKED_IN"}

(* Statuses that hold a room against an assignment, a move or a block. *)
blockingReservationStatuses ==
  {"PENDING", "CONFIRMED", "CHECKED_IN", "BLOCKED", "MAINTENANCE"}

(* Creation is stricter: every status but these two holds the room. *)
releasedForCreate == {"CANCELLED", "NO_SHOW"}

(* Statuses a calendar move refuses. *)
terminalStatuses == {"CHECKED_OUT", "CANCELLED", "NO_SHOW"}

(* Housekeeping statuses accepted by a check-in that requires a ready room.*)
readyStatuses == {"READY", "AVAILABLE"}

(* checkInDate < other.checkOut AND checkOutDate > other.checkIn. *)
Overlap(a, b) == a.in < b.out /\ a.out > b.in
=============================================================================
