----------------------------- MODULE MCSessions -----------------------------
(***************************************************************************)
(* An instance of Sessions for TLC.                                        *)
(***************************************************************************)
EXTENDS Sessions, TLC

CONSTANTS s1, s2, b1, b2, q1, q2, q3, a1, a2, m1, m2, t1

Symmetry == Permutations(Session) \cup Permutations(Browser)
            \cup Permutations(Request) \cup Permutations(Address)
            \cup Permutations(MailToken)
=============================================================================
