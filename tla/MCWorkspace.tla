---------------------------- MODULE MCWorkspace ----------------------------
(***************************************************************************)
(* An instance of Workspace for TLC.                                       *)
(***************************************************************************)
EXTENDS Workspace, TLC

CONSTANTS q1, q2, f1, f2

(* A paid stay that should have begun: before check-in it is on one list of *)
(* the overview, after it on another.                                      *)
Stays == {[arrives |-> "past", departs |-> "future", new |-> FALSE, paid |-> TRUE]}

Symmetry == Permutations(Request) \cup Permutations(Filter)
=============================================================================
