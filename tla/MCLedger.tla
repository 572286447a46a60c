------------------------------ MODULE MCLedger ------------------------------
(***************************************************************************)
(* Instances of Ledger for TLC.                                            *)
(***************************************************************************)
EXTENDS Ledger, TLC

CONSTANTS r1, r2, q1, q2, q3, q4, q5, k1

NoPolicy ==
  [requireDepositBeforeCheckIn |-> FALSE, minimumDepositValue |-> 0,
   requireFullPaymentBeforeCheckout |-> FALSE, allowForceCheckout |-> TRUE,
   autoGenerateInvoiceOnCheckout |-> TRUE]

(* The defaults of getOperationalPolicy, a property that wants a deposit of *)
(* the whole price, and one that wants everything paid at the end.         *)
SomePolicies ==
  {NoPolicy,
   [NoPolicy EXCEPT !.requireDepositBeforeCheckIn = TRUE,
                    !.minimumDepositValue = 2],
   [NoPolicy EXCEPT !.requireFullPaymentBeforeCheckout = TRUE]}

Symmetry == Permutations(Request) \cup Permutations(Reservation)
=============================================================================
