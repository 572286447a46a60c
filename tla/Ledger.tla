------------------------------- MODULE Ledger -------------------------------
(***************************************************************************)
(* The money side of ReservationsService: payments and refunds under an    *)
(* idempotency key, invoices, and the checks of check-in and check-out that*)
(* read the balance.  Rooms and dates are the business of Pms.             *)
(*                                                                         *)
(* Every operation first reads the reservation with its payments (the      *)
(* context) and decides on that.  recordPayment then runs at READ          *)
(* COMMITTED: it looks its key up, inserts the key's record and the payment*)
(* and sums up, and commits, in separate steps.  Invoices and the status   *)
(* changes are Serializable transactions, one step each; an attempt that   *)
(* is aborted and retried changes nothing.                                 *)
(***************************************************************************)
EXTENDS Integers, FiniteSets

CONSTANTS
  Reservation,
  Request,      \* HTTP requests, each used once
  Key,          \* Idempotency-Key values of payments
  NoKey,
  Total,        \* totalAmount of each reservation
  Amount,       \* amounts clients pay and give back
  Policies,     \* operational policies of the property
  Concurrency   \* bound: requests being handled at once

ASSUME KeyAssumption    == NoKey \notin Key
\* The amount column is a Decimal(65, 30): there is a largest amount.
ASSUME AmountAssumption ==
  /\ Total \in Nat /\ Amount \subseteq Nat \ {0}
  /\ \E most \in Amount : \A a \in Amount : a <= most
ASSUME ConcurrencyAssumption == Concurrency \in Nat \ {0}
ASSUME PoliciesAssumption ==
  Policies \subseteq [requireDepositBeforeCheckIn : BOOLEAN,
                      minimumDepositValue : Nat,
                      requireFullPaymentBeforeCheckout : BOOLEAN,
                      allowForceCheckout : BOOLEAN,
                      autoGenerateInvoiceOnCheckout : BOOLEAN]

VARIABLES
  stay,          \* status of each reservation, the part the money depends on
  paid,          \* calculatePaid: payments less refunds of each reservation
  payments,      \* Payment rows
  paymentStatus, \* Reservation.paymentStatus
  keys,          \* committed PaymentIdempotencyRecord rows
  invoices,      \* Invoice rows
  policy,        \* PropertyOperationalPolicy
  req,           \* what each request has read and where it stands
  overlapped     \* reservations of which two requests were under way at once

rows == <<stay, paid, payments, paymentStatus, keys, invoices>>
vars == <<stay, paid, payments, paymentStatus, keys, invoices, policy, req,
          overlapped>>

PaymentDto == [of : Reservation, key : Key \cup {NoKey}, refund : BOOLEAN,
               amount : Amount]
StayStatus    == {"CONFIRMED", "CHECKED_IN", "CHECKED_OUT"}

PaymentStatus == {"UNPAID", "PARTIALLY_PAID", "PAID"}

Idle       == [op |-> "idle"]
NoRecord   == [status |-> "NONE"]
PayReq     == [op : {"pay"}, dto : PaymentDto, of : Reservation,
               step : {"read", "checked", "summed"},
               summary : PaymentStatus \cup {"NONE"}]
InvoiceReq == [op : {"invoice"}, of : Reservation, allowDuplicate : BOOLEAN,
               paid : Int]
StayReq    == [op : {"checkIn", "checkOut"}, of : Reservation, paid : Int,
               force : BOOLEAN]
DoneReq    == [op : {"failed", "answered"}]
PaidReq    == [op : {"paid"}, dto : PaymentDto]
InvoiceRow == [of : Reservation, number : Nat, by : Request,
               allowDuplicate : BOOLEAN, paidAmount : Int,
               remainingAmount : Nat]

Stage      == PayReq \cup InvoiceReq \cup StayReq \cup DoneReq \cup PaidReq
                \cup {Idle}

Open == {q \in Request : req[q].op \in {"pay", "invoice", "checkIn", "checkOut"}}

(* p handles the same keyed payment again. *)
Repeats(p, key) == key \in Key /\ req[p].op = "pay" /\ req[p].dto.key = key

(* A request about reservation r, under a key when it is a payment.  What  *)
(* overlaps is noted, but for a payment that is sent again.                *)
Arrive(q, r, key, shape) ==
  /\ req[q] = Idle
  /\ Cardinality(Open) < Concurrency
  /\ overlapped' = IF \E p \in Open : req[p].of = r /\ ~Repeats(p, key)
                   THEN overlapped \cup {r} ELSE overlapped
  /\ req' = [req EXCEPT ![q] = shape]
  /\ UNCHANGED <<rows, policy>>

Begin(q, shape) == req' = [req EXCEPT ![q] = shape]
End(q, op)      == req' = [req EXCEPT ![q] = [op |-> op]]

(* An error answer; a transaction that was open rolls back. *)
Fail(q) ==
  /\ q \in Open
  /\ End(q, "failed")
  /\ UNCHANGED <<rows, policy, overlapped>>

-----------------------------------------------------------------------------
(* buildFinancialSummary. *)
Signed(dto)    == IF dto.refund THEN -dto.amount ELSE dto.amount
Balance(sum)   == IF sum < Total THEN Total - sum ELSE 0
StatusFor(sum) == IF Balance(sum) = 0 THEN "PAID"
                  ELSE IF sum > 0 THEN "PARTIALLY_PAID" ELSE "UNPAID"

(* Mutant: a refund is compared with the price, not with what was paid. *)
RefundWithinTotal(dto, sum) == dto.refund => dto.amount <= Total

(* A refund may not exceed what the context says was paid. *)
RefundAllowed(dto, sum) == dto.refund => dto.amount <= sum

ReadForPayment(q, dto) ==
  /\ RefundAllowed(dto, paid[dto.of])
  /\ Arrive(q, dto.of, dto.key,
            [op |-> "pay", dto |-> dto, of |-> dto.of,
             step |-> IF dto.key = NoKey THEN "checked" ELSE "read",
             summary |-> "NONE"])

Paying(q, step) == req[q].op = "pay" /\ req[q].step = step

SameReservation(old, new) == old.of = new.of \* mutant: amount not hashed

(* hashPaymentRequest, compared. *)
SamePayment(old, new) == old = new

(* The key has no record: the transaction goes on to insert one. *)
LookUpKey(q) ==
  /\ Paying(q, "read")
  /\ keys[req[q].dto.key] = NoRecord
  /\ Begin(q, [req[q] EXCEPT !.step = "checked"])
  /\ UNCHANGED <<rows, policy, overlapped>>

(* The key was used: the first payment answers, if the payload is the same;*)
(* otherwise the request conflicts.                                        *)
ReplayPayment(q) ==
  LET record == keys[req[q].dto.key] IN
  /\ Paying(q, "read")
  /\ record # NoRecord
  /\ IF SamePayment(record.dto, req[q].dto)
     THEN Begin(q, [op |-> "paid", dto |-> req[q].dto])
     ELSE End(q, "failed")
  /\ UNCHANGED <<rows, policy, overlapped>>

KeyUnlocked(key) == TRUE \* mutant: no unique index behind the key

(* No other transaction has the key's row, committed or not.  An insert    *)
(* waits for an uncommitted one.                                           *)
KeyFree(key) ==
  key \in Key =>
    /\ keys[key] = NoRecord
    /\ \A p \in Request : ~(Paying(p, "summed") /\ req[p].dto.key = key)

StatusBefore(dto) == StatusFor(paid[dto.of]) \* mutant: own payment left out

(* financialSummary of what is committed and the payment just inserted. *)
StatusAfter(dto) == StatusFor(paid[dto.of] + Signed(dto))

(* Inserts the record of the key and the payment, and sums up; nothing of  *)
(* it is visible to others yet.                                            *)
InsertPayment(q) ==
  LET o == req[q] IN
  /\ Paying(q, "checked")
  /\ KeyFree(o.dto.key)
  /\ Begin(q, [o EXCEPT !.step = "summed", !.summary = StatusAfter(o.dto)])
  /\ UNCHANGED <<rows, policy, overlapped>>

(* The key's row was committed since it was looked up: the unique index    *)
(* refuses the insert.                                                     *)
KeyTaken(q) ==
  /\ Paying(q, "checked")
  /\ req[q].dto.key \in Key
  /\ keys[req[q].dto.key] # NoRecord
  /\ Fail(q)

(* The reservation gets the status summed up before, and all of it commits.*)
CommitPayment(q) ==
  LET o == req[q] IN
  /\ Paying(q, "summed")
  /\ payments' = payments \cup {[dto |-> o.dto, by |-> q]}
  /\ paid' = [paid EXCEPT ![o.of] = @ + Signed(o.dto)]
  /\ paymentStatus' = [paymentStatus EXCEPT ![o.of] = o.summary]
  /\ keys' = [k \in Key |-> IF k = o.dto.key
                            THEN [status |-> "COMPLETED", dto |-> o.dto]
                            ELSE keys[k]]
  /\ Begin(q, [op |-> "paid", dto |-> o.dto])
  /\ UNCHANGED <<stay, invoices, policy, overlapped>>

-----------------------------------------------------------------------------
(* Invoices. *)

Numbers == {i.number : i \in invoices}

Least(S) == CHOOSE n \in S : \A m \in S : n <= m

NextInvoiceNumberOf(r) == \* mutant: counts the reservation's, tries once
  Cardinality({i \in invoices : i.of = r}) + 1

(* nextInvoiceNumber: one more than the count, or one of the next four; 0  *)
(* stands for the number made from the clock when all five are taken.      *)
NextInvoiceNumber(r) ==
  LET free == (Cardinality(invoices) + 1 .. Cardinality(invoices) + 5) \ Numbers
  IN  IF free = {} THEN 0 ELSE Least(free)

Invoice(q, r, allowDuplicate, sum) ==
  [of |-> r, number |-> NextInvoiceNumber(r), by |-> q,
   allowDuplicate |-> allowDuplicate, paidAmount |-> sum,
   remainingAmount |-> Balance(sum)]

ReadForInvoice(q, r, allowDuplicate) ==
  Arrive(q, r, NoKey, [op |-> "invoice", of |-> r,
                       allowDuplicate |-> allowDuplicate, paid |-> paid[r]])

NotInvoiced(r) == ~\E i \in invoices : i.of = r

GenerateInvoice(q) ==
  LET o == req[q] IN
  /\ o.op = "invoice"
  /\ IF o.allowDuplicate \/ NotInvoiced(o.of)
     THEN /\ invoices' = invoices
                \cup {Invoice(q, o.of, o.allowDuplicate, o.paid)}
          /\ End(q, "answered")
     ELSE UNCHANGED invoices /\ End(q, "failed")
  /\ UNCHANGED <<stay, paid, payments, paymentStatus, keys, policy, overlapped>>

-----------------------------------------------------------------------------
(* Check-in and check-out, as far as money decides. *)

DepositMet(sum) ==
  policy.requireDepositBeforeCheckIn => sum >= policy.minimumDepositValue

(* Mutant: the clerk's override is taken without asking the policy. *)
ForceSettles(sum, force) == Balance(sum) = 0 \/ force

(* A balance is let through only when the clerk forces it, the policy lets *)
(* clerks force it and does not require full payment.                      *)
SettledOrForced(sum, force) ==
  \/ Balance(sum) = 0
  \/ /\ force
     /\ policy.allowForceCheckout
     /\ ~policy.requireFullPaymentBeforeCheckout

ReadForCheckIn(q, r) ==
  /\ stay[r] \in {"CONFIRMED", "CHECKED_IN"}
  /\ DepositMet(paid[r])
  /\ Arrive(q, r, NoKey, [op |-> "checkIn", of |-> r, paid |-> paid[r], force |-> FALSE])

CheckIn(q) ==
  /\ req[q].op = "checkIn"
  /\ stay' = [stay EXCEPT ![req[q].of] = "CHECKED_IN"]
  /\ End(q, "answered")
  /\ UNCHANGED <<paid, payments, paymentStatus, keys, invoices, policy, overlapped>>

ReadForCheckOut(q, r, force) ==
  /\ stay[r] = "CHECKED_IN"
  /\ SettledOrForced(paid[r], force)
  /\ Arrive(q, r, NoKey, [op |-> "checkOut", of |-> r, paid |-> paid[r], force |-> force])

CheckOut(q) ==
  LET o == req[q] IN
  /\ o.op = "checkOut"
  /\ stay' = [stay EXCEPT ![o.of] = "CHECKED_OUT"]
  /\ invoices' = IF policy.autoGenerateInvoiceOnCheckout
                 THEN invoices \cup {Invoice(q, o.of, TRUE, o.paid)}
                 ELSE invoices
  /\ End(q, "answered")
  /\ UNCHANGED <<paid, payments, paymentStatus, keys, policy, overlapped>>

-----------------------------------------------------------------------------
Init ==
  /\ stay = [r \in Reservation |-> "CONFIRMED"]
  /\ paid = [r \in Reservation |-> 0]
  /\ payments = {}
  /\ paymentStatus = [r \in Reservation |-> "UNPAID"]
  /\ keys = [k \in Key |-> NoRecord]
  /\ invoices = {}
  /\ policy \in Policies
  /\ req = [q \in Request |-> Idle]
  /\ overlapped = {}

Start(q) ==
  \/ \E dto \in PaymentDto : ReadForPayment(q, dto)
  \/ \E r \in Reservation :
       \/ ReadForCheckIn(q, r)
       \/ \E flag \in BOOLEAN :
            ReadForInvoice(q, r, flag) \/ ReadForCheckOut(q, r, flag)

Proceed(q) ==
  \/ LookUpKey(q) \/ ReplayPayment(q) \/ InsertPayment(q) \/ KeyTaken(q)
  \/ CommitPayment(q)
  \/ GenerateInvoice(q)
  \/ CheckIn(q) \/ CheckOut(q)

Next == \E q \in Request : Start(q) \/ Proceed(q) \/ Fail(q)

Spec == Init /\ [][Next]_vars

-----------------------------------------------------------------------------
TypeOK ==
  /\ stay \in [Reservation -> StayStatus]
  /\ paid \in [Reservation -> Int]
  /\ payments \subseteq [dto : PaymentDto, by : Request]
  /\ paymentStatus \in [Reservation -> PaymentStatus]
  /\ keys \in [Key -> [status : {"COMPLETED"}, dto : PaymentDto] \cup {NoRecord}]
  /\ invoices \subseteq InvoiceRow
  /\ policy \in Policies
  /\ req \in [Request -> Stage]
  /\ overlapped \subseteq Reservation

(* A payment is recorded once per Idempotency-Key, however often the client *)
(* sends it and however the transactions interleave.                       *)
OnePaymentPerKey ==
  \A m, n \in payments :
    m.dto.key \in Key /\ m.dto.key = n.dto.key => m = n

(* A payment answered as recorded is recorded, as it was asked for: a reply *)
(* from an idempotency record never stands for another payment.            *)
AnsweredPaymentsRecorded ==
  \A q \in Request :
    req[q].op = "paid" => \E m \in payments : m.dto = req[q].dto

(* Refunds never exceed what was paid, unless requests for the reservation *)
(* overlapped; then the excess is at most what all handlers but one can    *)
(* give back (recordPayment compares a refund with the payments of its     *)
(* context).                                                               *)
RefundsCovered ==
  \A r \in Reservation :
    \/ paid[r] >= 0
    \/ /\ r \in overlapped
       /\ \E most \in Amount : paid[r] >= -((Concurrency - 1) * most)

(* The payment status shown on a reservation is the one its payments give, *)
(* unless requests for it overlapped (financialSummary sums up what was    *)
(* committed before).                                                      *)
PaymentStatusCurrent ==
  \A r \in Reservation :
    r \notin overlapped /\ (\E m \in payments : m.dto.of = r) =>
      /\ paymentStatus[r] = "PAID" <=> paid[r] >= Total
      /\ paymentStatus[r] = "UNPAID" => paid[r] <= 0

(* Invoice numbers count up without a gap or a repetition, whoever asks.   *)
InvoiceNumbersContiguous == Numbers = 1 .. Cardinality(invoices)

(* No stay begins without the deposit the policy asks for, and none ends   *)
(* owing money unless the clerk forced it and the policy lets clerks force *)
(* it - or requests for the reservation overlapped (checkIn and checkOut   *)
(* decide on the sums of their context).                                   *)
StaysPaidFor ==
  [][\A r \in Reservation :
       r \in overlapped \/
       /\ /\ stay[r] = "CONFIRMED" /\ stay'[r] = "CHECKED_IN"
          /\ policy.requireDepositBeforeCheckIn
          => paid[r] >= policy.minimumDepositValue
       /\ stay[r] # "CHECKED_OUT" /\ stay'[r] = "CHECKED_OUT"
          => \/ paid[r] >= Total
             \/ policy.allowForceCheckout
                  /\ ~policy.requireFullPaymentBeforeCheckout]_vars
=============================================================================
