---------------------------- MODULE MCMessaging ----------------------------
(***************************************************************************)
(* Instances of Messaging for TLC.                                         *)
(***************************************************************************)
EXTENDS Messaging, TLC

CONSTANTS m1, g1, s1, s2, w1, w2, h1, h2

Symmetry == Permutations(Worker) \cup Permutations(Sender) \cup Permutations(Hook)
=============================================================================
