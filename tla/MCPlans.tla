------------------------------ MODULE MCPlans ------------------------------
(***************************************************************************)
(* An instance of Plans for TLC.                                           *)
(***************************************************************************)
EXTENDS Plans, TLC

CONSTANTS q1, q2, q3, starter, pro, e1

SmallLimits ==
  [p \in Plan |-> IF p = starter THEN [room |-> 1, property |-> 1]
                                 ELSE [room |-> 2, property |-> 2]]
SmallBulk == [room |-> 2, property |-> 1]

(* A company that registered, and the companies of e2e-seed.ts. *)
SomeSeeds ==
  {None,
   [exists |-> TRUE, plan |-> pro, status |-> "active", lifecycle |-> "ACTIVE",
    cancelAtPeriodEnd |-> FALSE],
   [exists |-> TRUE, plan |-> pro, status |-> "canceled",
    lifecycle |-> "CANCELED", cancelAtPeriodEnd |-> FALSE]}

Symmetry == Permutations(Request)
=============================================================================
