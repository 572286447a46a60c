------------------------------- MODULE MCSales -------------------------------
(***************************************************************************)
(* Instances of Sales for TLC.                                             *)
(***************************************************************************)
EXTENDS Sales, TLC

CONSTANTS A, B, o1, o2, double, suite

Shut == {[open |-> FALSE]}

(* A room is given another type. *)
SomePatches == {[type |-> suite]}

SuiteClosed == {<<suite, 0>>}

(* The night closed by an override of the type or of one room. *)
SomeUpserts ==
  {[key |-> [type |-> double, room |-> rm, night |-> 0],
    quantity |-> 1, stopSell |-> TRUE] : rm \in {NoRoom, A, B}}

Symmetry ==
  Permutations(Room) \cup Permutations(Override) \cup Permutations(Clerk)
==============================================================================
