----------------------------- MODULE RoomDiary -----------------------------
(***************************************************************************)
(* What the front desk and the calendar together promise a hotelier: a     *)
(* diary in which every reservation holds some rooms for some nights, no   *)
(* room is held twice for a night, and one reservation's line is rewritten *)
(* at a time.  It says nothing of requests, versions or transactions.      *)
(***************************************************************************)
EXTENDS Naturals

CONSTANTS Reservation, Room, Night

VARIABLE entry \* the rooms and the nights each reservation holds

Line    == [rooms : SUBSET Room, nights : SUBSET Night]
Nowhere == [rooms |-> {}, nights |-> {}]

(* Nobody else holds a room of line e for a night of it. *)
Fits(r, e) ==
  \A o \in Reservation \ {r} :
    entry[o].nights \cap e.nights # {} => entry[o].rooms \cap e.rooms = {}

Init == entry = [r \in Reservation |-> Nowhere]

(* A booking, a change of room or dates, or (with Nowhere) a release. *)
Enter(r, e) ==
  /\ Fits(r, e)
  /\ entry' = [entry EXCEPT ![r] = e]

Next == \E r \in Reservation, e \in Line : Enter(r, e)

Spec == Init /\ [][Next]_entry
=============================================================================
