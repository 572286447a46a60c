----------------------------- MODULE LedgerProofs -----------------------------
(***************************************************************************)
(* Theorems about Ledger, for any number of reservations, requests, keys   *)
(* and amounts, any policies and any number of requests handled at once.   *)
(***************************************************************************)
EXTENDS Ledger, FiniteSetTheorems, TLAPS

(* What a stage carries. *)
LEMMA Carried ==
  ASSUME TypeOK, NEW q \in Request
  PROVE  /\ req[q].op = "pay" =>
              /\ req[q] \in PayReq /\ req[q].of \in Reservation
              /\ req[q].dto \in PaymentDto /\ req[q].dto.of \in Reservation
              /\ req[q].dto.key \in Key \cup {NoKey}
              /\ req[q].dto.amount \in Amount /\ req[q].dto.refund \in BOOLEAN
              /\ req[q].step \in {"read", "checked", "summed"}
              /\ req[q].summary \in PaymentStatus \cup {"NONE"}
         /\ req[q].op = "invoice" => /\ req[q] \in InvoiceReq
                                     /\ req[q].of \in Reservation
                                     /\ req[q].allowDuplicate \in BOOLEAN
                                     /\ req[q].paid \in Int
         /\ req[q].op \in {"checkIn", "checkOut"} =>
              /\ req[q] \in StayReq /\ req[q].of \in Reservation
              /\ req[q].paid \in Int /\ req[q].force \in BOOLEAN
         /\ req[q].op = "paid" => req[q] \in PaidReq /\ req[q].dto \in PaymentDto
<1>1. req[q] \in Stage
  BY DEF TypeOK
<1> QED
  BY <1>1 DEF Stage, Idle, PayReq, InvoiceReq, StayReq, DoneReq, PaidReq, PaymentDto

LEMMA Stages ==
  /\ Idle \in Stage /\ [op |-> "failed"] \in Stage /\ [op |-> "answered"] \in Stage
  /\ \A dto \in PaymentDto : [op |-> "paid", dto |-> dto] \in Stage
BY DEF Stage, DoneReq, PaidReq

LEMMA Sums ==
  /\ \A dto \in PaymentDto : dto.amount \in Nat /\ dto.amount > 0 /\ Signed(dto) \in Int
  /\ \A sum \in Int : Balance(sum) \in Nat /\ StatusFor(sum) \in PaymentStatus
<1>1. \A dto \in PaymentDto : dto.amount \in Nat /\ dto.amount > 0
  <2>1. \A a \in Amount : a \in Nat /\ a > 0
    <3>1. Amount \subseteq Nat \ {0}
      BY AmountAssumption
    <3> QED
      BY <3>1
  <2> QED
    BY <2>1 DEF PaymentDto
<1>2. \A dto \in PaymentDto : Signed(dto) \in Int
  BY <1>1 DEF Signed
<1>3. \A sum \in Int : Balance(sum) \in Nat /\ StatusFor(sum) \in PaymentStatus
  <2> TAKE sum \in Int
  <2>1. Total \in Int
    BY AmountAssumption
  <2>2. Balance(sum) \in Nat
    BY <2>1 DEF Balance
  <2>3. StatusFor(sum) \in PaymentStatus
    BY DEF StatusFor, PaymentStatus
  <2> QED
    BY <2>2, <2>3
<1> QED
  BY <1>1, <1>2, <1>3

-----------------------------------------------------------------------------
(* Invoices are numbered without a gap, so the first candidate is free. *)
BooksInv == IsFiniteSet(invoices) /\ InvoiceNumbersContiguous

(* A payment is about the reservation it names; only keyed ones look up.   *)
PayInv == \A q \in Request : req[q].op = "pay" =>
  /\ req[q].of = req[q].dto.of
  /\ req[q].step = "read" => req[q].dto.key \in Key
  /\ req[q].step = "summed" => req[q].summary \in PaymentStatus

Inv == TypeOK /\ BooksInv /\ PayInv

LEMMA NextNumber ==
  ASSUME BooksInv, NEW r
  PROVE  /\ NextInvoiceNumber(r) = Cardinality(invoices) + 1
         /\ Cardinality(invoices) \in Nat
<1> DEFINE n == Cardinality(invoices)
           free == (n + 1 .. n + 5) \ Numbers
<1>1. n \in Nat
  BY FS_CardinalityType DEF BooksInv
<1>2. Numbers = 1 .. n
  BY DEF BooksInv, InvoiceNumbersContiguous
<1> HIDE DEF n
<1>3. free = n + 1 .. n + 5
  BY <1>1, <1>2
<1>4. n + 1 \in free /\ \A m \in free : n + 1 <= m /\ m \in Nat
  BY <1>1, <1>3
<1>5. Least(free) = n + 1
  <2>1. Least(free) \in free /\ \A m \in free : Least(free) <= m
    BY <1>4 DEF Least
  <2>2. Least(free) <= n + 1 /\ n + 1 <= Least(free) /\ Least(free) \in Nat
    BY <1>4, <2>1
  <2> QED
    BY <1>1, <2>2
<1>6. NextInvoiceNumber(r) = IF free = {} THEN 0 ELSE Least(free)
  BY DEF NextInvoiceNumber, n
<1> HIDE DEF free
<1>7. free # {}
  BY <1>4
<1> QED
  BY <1>1, <1>5, <1>6, <1>7 DEF n

(* One more invoice. *)
LEMMA OneMoreInvoice ==
  ASSUME Inv, NEW q \in Request, NEW r \in Reservation, NEW again \in BOOLEAN,
         NEW sum \in Int, invoices' = invoices \cup {Invoice(q, r, again, sum)}
  PROVE  invoices' \subseteq InvoiceRow /\ BooksInv'
<1> DEFINE n == Cardinality(invoices)
           row == Invoice(q, r, again, sum)
<1>1. NextInvoiceNumber(r) = n + 1 /\ n \in Nat
  BY NextNumber DEF Inv
<1>2. row \in InvoiceRow /\ row.number = n + 1
  BY <1>1, Sums DEF Invoice, InvoiceRow
<1> HIDE DEF n, row
<1>3. Numbers = 1 .. n /\ IsFiniteSet(invoices)
  BY DEF Inv, BooksInv, InvoiceNumbersContiguous, n
<1>4. row \notin invoices
  BY <1>1, <1>2, <1>3 DEF Numbers
<1>5. invoices' = invoices \cup {row}
  BY DEF row
<1>6. IsFiniteSet(invoices') /\ Cardinality(invoices') = n + 1
  BY <1>3, <1>4, <1>5, FS_AddElement DEF n
<1>7. Numbers' = Numbers \cup {n + 1}
  BY <1>2, <1>5 DEF Numbers
<1>8. Numbers' = 1 .. n + 1
  BY <1>1, <1>3, <1>7
<1>9. InvoiceNumbersContiguous'
  BY <1>6, <1>8 DEF InvoiceNumbersContiguous
<1> QED
  BY <1>2, <1>5, <1>6, <1>9 DEF BooksInv, Inv, TypeOK

(* What a step makes of the requests when one of them moves. *)
LEMMA Moved ==
  ASSUME TypeOK, NEW q \in Request, NEW x, Begin(q, x)
  PROVE  /\ req'[q] = x
         /\ \A p \in Request : p # q => req'[p] = req[p]
         /\ x \in Stage => req' \in [Request -> Stage]
BY DEF TypeOK, Begin

LEMMA ArriveKeeps ==
  ASSUME Inv, NEW q \in Request, NEW r \in Reservation, NEW key, NEW x \in Stage,
         Arrive(q, r, key, x),
         x.op = "pay" => /\ x.of = x.dto.of
                         /\ x.step = "read" => x.dto.key \in Key
                         /\ x.step # "summed"
  PROVE  Inv'
<1>1. Begin(q, x) /\ UNCHANGED <<rows, policy>>
  BY DEF Arrive, Begin
<1>2. overlapped' \subseteq Reservation
  BY DEF Arrive, Inv, TypeOK
<1>3. /\ req'[q] = x /\ \A p \in Request : p # q => req'[p] = req[p]
      /\ req' \in [Request -> Stage]
  BY <1>1, Moved DEF Inv
<1>4. TypeOK'
  BY <1>1, <1>2, <1>3 DEF Inv, TypeOK, rows
<1>5. PayInv'
  BY <1>3 DEF Inv, PayInv
<1>6. BooksInv'
  BY <1>1 DEF Inv, BooksInv, InvoiceNumbersContiguous, Numbers, rows
<1> QED
  BY <1>4, <1>5, <1>6 DEF Inv

(* A request that is over, or a payment that goes on, with the rows typed. *)
LEMMA ProceedKeeps ==
  ASSUME Inv, NEW q \in Request, NEW x \in Stage, Begin(q, x),
         x.op = "pay" => /\ x.of = x.dto.of
                         /\ x.step = "read" => x.dto.key \in Key
                         /\ x.step = "summed" => x.summary \in PaymentStatus,
         UNCHANGED <<policy, overlapped>>,
         stay' \in [Reservation -> StayStatus],
         paid' \in [Reservation -> Int],
         payments' \subseteq [dto : PaymentDto, by : Request],
         paymentStatus' \in [Reservation -> PaymentStatus],
         keys' \in [Key -> [status : {"COMPLETED"}, dto : PaymentDto] \cup {NoRecord}],
         invoices' \subseteq InvoiceRow, BooksInv'
  PROVE  Inv'
<1>1. /\ req'[q] = x /\ \A p \in Request : p # q => req'[p] = req[p]
      /\ req' \in [Request -> Stage]
  BY Moved DEF Inv
<1>2. TypeOK'
  BY <1>1 DEF Inv, TypeOK
<1>3. PayInv'
  BY <1>1 DEF Inv, PayInv
<1> QED
  BY <1>2, <1>3 DEF Inv

LEMMA BooksSame ==
  ASSUME BooksInv, invoices' = invoices
  PROVE  BooksInv'
BY DEF BooksInv, InvoiceNumbersContiguous, Numbers

(* Whatever ends or goes on without touching a row. *)
LEMMA QuietKeeps ==
  ASSUME Inv, NEW q \in Request, NEW x \in Stage, Begin(q, x),
         x.op = "pay" => /\ x.of = x.dto.of
                         /\ x.step = "read" => x.dto.key \in Key
                         /\ x.step = "summed" => x.summary \in PaymentStatus,
         UNCHANGED <<rows, policy, overlapped>>
  PROVE  Inv'
<1>1. BooksInv'
  BY BooksSame DEF Inv, rows
<1> QED
  BY <1>1, ProceedKeeps DEF Inv, TypeOK, rows

(* Stages a request reaches. *)
LEMMA PayStages ==
  ASSUME Inv, NEW q \in Request, req[q].op = "pay"
  PROVE  /\ \A s \in {"read", "checked", "summed"} :
              LET x == [req[q] EXCEPT !.step = s] IN
              /\ x \in Stage /\ x.op = "pay" /\ x.of = req[q].of
              /\ x.dto = req[q].dto /\ x.step = s
         /\ \A m \in PaymentStatus :
              LET x == [req[q] EXCEPT !.step = "summed", !.summary = m] IN
              /\ x \in Stage /\ x.op = "pay" /\ x.of = req[q].of
              /\ x.dto = req[q].dto /\ x.step = "summed" /\ x.summary = m
<1>1. req[q] \in PayReq
  BY Carried DEF Inv
<1> QED
  BY <1>1 DEF PayReq, Stage

LEMMA StartKeeps ==
  ASSUME Inv, NEW q \in Request, Start(q)
  PROVE  Inv'
<1>0. paid \in [Reservation -> Int]
  BY DEF Inv, TypeOK
<1>1. ASSUME NEW dto \in PaymentDto, ReadForPayment(q, dto) PROVE Inv'
  <2> DEFINE x == [op |-> "pay", dto |-> dto, of |-> dto.of,
                   step |-> IF dto.key = NoKey THEN "checked" ELSE "read",
                   summary |-> "NONE"]
  <2>1. x \in Stage /\ dto.of \in Reservation
    BY DEF Stage, PayReq, PaymentDto
  <2>2. /\ x.op = "pay" /\ x.of = x.dto.of /\ x.step # "summed"
        /\ x.step = "read" => x.dto.key \in Key
    BY DEF PaymentDto
  <2>3. Arrive(q, dto.of, dto.key, x)
    BY <1>1 DEF ReadForPayment
  <2> HIDE DEF x
  <2> QED
    BY <2>1, <2>2, <2>3, ArriveKeeps
<1>2. ASSUME NEW r \in Reservation, NEW flag \in BOOLEAN, ReadForInvoice(q, r, flag)
      PROVE  Inv'
  <2> DEFINE x == [op |-> "invoice", of |-> r, allowDuplicate |-> flag,
                   paid |-> paid[r]]
  <2>1. x \in Stage /\ x.op = "invoice"
    BY <1>0 DEF Stage, InvoiceReq
  <2>2. Arrive(q, r, NoKey, x)
    BY <1>2 DEF ReadForInvoice
  <2> HIDE DEF x
  <2> QED
    BY <2>1, <2>2, ArriveKeeps
<1>3. ASSUME NEW r \in Reservation, ReadForCheckIn(q, r) PROVE Inv'
  <2> DEFINE x == [op |-> "checkIn", of |-> r, paid |-> paid[r], force |-> FALSE]
  <2>1. x \in Stage /\ x.op = "checkIn"
    BY <1>0 DEF Stage, StayReq
  <2>2. Arrive(q, r, NoKey, x)
    BY <1>3 DEF ReadForCheckIn
  <2> HIDE DEF x
  <2> QED
    BY <2>1, <2>2, ArriveKeeps
<1>4. ASSUME NEW r \in Reservation, NEW flag \in BOOLEAN, ReadForCheckOut(q, r, flag)
      PROVE  Inv'
  <2> DEFINE x == [op |-> "checkOut", of |-> r, paid |-> paid[r], force |-> flag]
  <2>1. x \in Stage /\ x.op = "checkOut"
    BY <1>0 DEF Stage, StayReq
  <2>2. Arrive(q, r, NoKey, x)
    BY <1>4 DEF ReadForCheckOut
  <2> HIDE DEF x
  <2> QED
    BY <2>1, <2>2, ArriveKeeps
<1> QED
  BY <1>1, <1>2, <1>3, <1>4 DEF Start

LEMMA StepKeeps ==
  ASSUME Inv, NEW q \in Request, Proceed(q) \/ Fail(q)
  PROVE  Inv'
<1>0. /\ [op |-> "failed"].op = "failed" /\ [op |-> "answered"].op = "answered"
      /\ \A dto : [op |-> "paid", dto |-> dto].op = "paid"
  OBVIOUS
<1>1. CASE Fail(q)
  BY <1>0, <1>1, Stages, QuietKeeps DEF Fail, End, Begin
<1>2. CASE KeyTaken(q)
  BY <1>1, <1>2 DEF KeyTaken
<1>3. CASE LookUpKey(q)
  <2>1. req[q].op = "pay" /\ req[q].of = req[q].dto.of
    BY <1>3 DEF LookUpKey, Paying, Inv, PayInv
  <2> DEFINE x == [req[q] EXCEPT !.step = "checked"]
  <2>2. /\ x \in Stage /\ x.op = "pay" /\ x.of = req[q].of
        /\ x.dto = req[q].dto /\ x.step = "checked"
    BY <2>1, PayStages
  <2>3. Begin(q, x) /\ UNCHANGED <<rows, policy, overlapped>>
    BY <1>3 DEF LookUpKey
  <2> HIDE DEF x
  <2> QED
    BY <2>1, <2>2, <2>3, QuietKeeps
<1>4. CASE ReplayPayment(q)
  <2>1. req[q].dto \in PaymentDto
    BY <1>4, Carried DEF ReplayPayment, Paying, Inv
  <2>2. \/ Begin(q, [op |-> "paid", dto |-> req[q].dto])
        \/ Begin(q, [op |-> "failed"])
    BY <1>4 DEF ReplayPayment, End, Begin
  <2>3. UNCHANGED <<rows, policy, overlapped>>
    BY <1>4 DEF ReplayPayment
  <2> QED
    BY <1>0, <2>1, <2>2, <2>3, Stages, QuietKeeps
<1>5. CASE InsertPayment(q)
  <2>1. req[q].op = "pay" /\ req[q].dto \in PaymentDto
        /\ paid[req[q].dto.of] \in Int
    BY <1>5, Carried DEF InsertPayment, Paying, Inv, TypeOK
  <2>2. StatusAfter(req[q].dto) \in PaymentStatus
    BY <2>1, Sums DEF StatusAfter
  <2> DEFINE x == [req[q] EXCEPT !.step = "summed", !.summary = StatusAfter(req[q].dto)]
  <2>3. /\ x \in Stage /\ x.op = "pay" /\ x.of = req[q].of
        /\ x.dto = req[q].dto /\ x.step = "summed" /\ x.summary \in PaymentStatus
    BY <2>1, <2>2, PayStages
  <2>4. Begin(q, x) /\ UNCHANGED <<rows, policy, overlapped>>
    BY <1>5 DEF InsertPayment
  <2>5. req[q].of = req[q].dto.of
    BY <2>1 DEF Inv, PayInv
  <2> HIDE DEF x
  <2> QED
    BY <2>3, <2>4, <2>5, QuietKeeps
<1>6. CASE CommitPayment(q)
  <2>1. /\ req[q].op = "pay" /\ req[q].dto \in PaymentDto /\ req[q].of \in Reservation
        /\ req[q].summary \in PaymentStatus
    BY <1>6, Carried DEF CommitPayment, Paying, Inv, PayInv
  <2>2. payments' \subseteq [dto : PaymentDto, by : Request]
    BY <1>6, <2>1 DEF CommitPayment, Inv, TypeOK
  <2>3. paid' \in [Reservation -> Int]
    BY <1>6, <2>1, Sums DEF CommitPayment, Inv, TypeOK
  <2>4. paymentStatus' \in [Reservation -> PaymentStatus]
    BY <1>6, <2>1 DEF CommitPayment, Inv, TypeOK
  <2>5. keys' \in [Key -> [status : {"COMPLETED"}, dto : PaymentDto] \cup {NoRecord}]
    BY <1>6, <2>1 DEF CommitPayment, Inv, TypeOK
  <2>6. Begin(q, [op |-> "paid", dto |-> req[q].dto])
        /\ UNCHANGED <<stay, invoices, policy, overlapped>>
    BY <1>6 DEF CommitPayment
  <2>7. BooksInv'
    BY <2>6, BooksSame DEF Inv
  <2> QED
    BY <1>0, <2>1, <2>2, <2>3, <2>4, <2>5, <2>6, <2>7, Stages, ProceedKeeps
    DEF Inv, TypeOK
<1>7. CASE GenerateInvoice(q)
  <2>1. /\ req[q].of \in Reservation /\ req[q].allowDuplicate \in BOOLEAN
        /\ req[q].paid \in Int
    BY <1>7, Carried DEF GenerateInvoice, Inv
  <2>2. /\ UNCHANGED <<stay, paid, payments, paymentStatus, keys, policy, overlapped>>
        /\ \/ /\ invoices' = invoices \cup {Invoice(q, req[q].of,
                                              req[q].allowDuplicate, req[q].paid)}
              /\ Begin(q, [op |-> "answered"])
           \/ invoices' = invoices /\ Begin(q, [op |-> "failed"])
    BY <1>7 DEF GenerateInvoice, End, Begin
  <2>3. invoices' \subseteq InvoiceRow /\ BooksInv'
    BY <2>1, <2>2, OneMoreInvoice, BooksSame DEF Inv, TypeOK
  <2> QED
    BY <1>0, <2>2, <2>3, Stages, ProceedKeeps DEF Inv, TypeOK
<1>8. CASE CheckIn(q)
  <2>1. stay' \in [Reservation -> StayStatus]
    BY <1>8 DEF CheckIn, Inv, TypeOK, StayStatus
  <2>2. /\ Begin(q, [op |-> "answered"])
        /\ UNCHANGED <<paid, payments, paymentStatus, keys, invoices, policy, overlapped>>
    BY <1>8 DEF CheckIn, End, Begin
  <2>3. BooksInv'
    BY <2>2, BooksSame DEF Inv
  <2> QED
    BY <1>0, <2>1, <2>2, <2>3, Stages, ProceedKeeps DEF Inv, TypeOK
<1>9. CASE CheckOut(q)
  <2>1. stay' \in [Reservation -> StayStatus]
    BY <1>9 DEF CheckOut, Inv, TypeOK, StayStatus
  <2>2. /\ Begin(q, [op |-> "answered"])
        /\ UNCHANGED <<paid, payments, paymentStatus, keys, policy, overlapped>>
        /\ \/ invoices' = invoices \cup {Invoice(q, req[q].of, TRUE, req[q].paid)}
           \/ invoices' = invoices
    BY <1>9 DEF CheckOut, End, Begin
  <2>3. req[q].of \in Reservation /\ req[q].paid \in Int
    BY <1>9, Carried DEF CheckOut, Inv
  <2>4. invoices' \subseteq InvoiceRow /\ BooksInv'
    BY <2>2, <2>3, OneMoreInvoice, BooksSame DEF Inv, TypeOK
  <2> QED
    BY <1>0, <2>1, <2>2, <2>4, Stages, ProceedKeeps DEF Inv, TypeOK
<1> QED
  BY <1>1, <1>2, <1>3, <1>4, <1>5, <1>6, <1>7, <1>8, <1>9 DEF Proceed

LEMMA InvHolds == Spec => []Inv
<1>1. Init => Inv
  <2> SUFFICES ASSUME Init PROVE Inv
    OBVIOUS
  <2>1. TypeOK
    BY Stages DEF Init, TypeOK, StayStatus, PaymentStatus
  <2>2. BooksInv
    <3>1. IsFiniteSet({}) /\ Cardinality({}) = 0
      BY FS_EmptySet
    <3>2. Numbers = {} /\ 1 .. 0 = {}
      BY DEF Init, Numbers
    <3> QED
      BY <3>1, <3>2 DEF Init, BooksInv, InvoiceNumbersContiguous
  <2>3. PayInv
    BY DEF Init, PayInv, Idle
  <2> QED
    BY <2>1, <2>2, <2>3 DEF Inv
<1>2. Inv /\ [Next]_vars => Inv'
  <2> SUFFICES ASSUME Inv, [Next]_vars PROVE Inv'
    OBVIOUS
  <2>1. CASE UNCHANGED vars
    BY <2>1, BooksSame DEF vars, Inv, TypeOK, PayInv
  <2> QED
    BY <2>1, StartKeeps, StepKeeps DEF Next
<1> QED
  BY <1>1, <1>2, PTL DEF Spec

(* Types are kept: no sum, status or number escapes its range. *)
THEOREM LedgerType == Spec => []TypeOK
<1>1. Inv => TypeOK
  BY DEF Inv
<1> QED
  BY <1>1, InvHolds, PTL

(* nextInvoiceNumber inside Serializable transactions: however invoices    *)
(* and check-outs interleave, numbers have no gap and no repetition.       *)
THEOREM InvoiceNumbersHold == Spec => []InvoiceNumbersContiguous
<1>1. Inv => InvoiceNumbersContiguous
  BY DEF Inv, BooksInv
<1> QED
  BY <1>1, InvHolds, PTL

-----------------------------------------------------------------------------
(* The two kinds of steps that matter below: a request that asks, and one  *)
(* that is over without a payment.                                         *)
Asked(q, r, key, x) ==
  /\ Arrive(q, r, key, x)
  /\ x \in Stage /\ x.of = r
  /\ x.op \in {"pay", "invoice", "checkIn", "checkOut"}
  /\ key \in Key => x.op = "pay"
  /\ x.op = "pay" => /\ x.dto \in PaymentDto /\ x.dto.of = r /\ x.dto.key = key
                     /\ x.step # "summed"
                     /\ x.dto.refund => x.dto.amount <= paid[r]
  /\ x.op \in {"checkIn", "checkOut"} => x.paid = paid[r]
  /\ x.op = "checkIn" => DepositMet(x.paid)
  /\ x.op = "checkOut" => SettledOrForced(x.paid, x.force)

Over(q) ==
  /\ q \in Open
  /\ \/ Begin(q, [op |-> "failed"])
     \/ Begin(q, [op |-> "answered"])
  /\ UNCHANGED <<paid, payments, paymentStatus, keys, policy, overlapped>>

LEMMA Starts ==
  ASSUME Inv, NEW q \in Request, Start(q)
  PROVE  \E r \in Reservation : \E key, x : Asked(q, r, key, x)
<1>0. paid \in [Reservation -> Int] /\ NoKey \notin Key
  BY KeyAssumption DEF Inv, TypeOK
<1>1. ASSUME NEW dto \in PaymentDto, ReadForPayment(q, dto)
      PROVE  \E r \in Reservation : \E key, x : Asked(q, r, key, x)
  <2> DEFINE x == [op |-> "pay", dto |-> dto, of |-> dto.of,
                   step |-> IF dto.key = NoKey THEN "checked" ELSE "read",
                   summary |-> "NONE"]
  <2>1. x \in Stage /\ dto.of \in Reservation
    BY DEF Stage, PayReq, PaymentDto
  <2>2. /\ x.op = "pay" /\ x.of = dto.of /\ x.dto = dto /\ x.step # "summed"
    OBVIOUS
  <2>3. /\ Arrive(q, dto.of, dto.key, x)
        /\ dto.refund => dto.amount <= paid[dto.of]
    BY <1>1 DEF ReadForPayment, RefundAllowed
  <2> HIDE DEF x
  <2> QED
    BY <2>1, <2>2, <2>3 DEF Asked
<1>2. ASSUME NEW r \in Reservation, NEW flag \in BOOLEAN, ReadForInvoice(q, r, flag)
      PROVE  \E key, x : Asked(q, r, key, x)
  <2> DEFINE x == [op |-> "invoice", of |-> r, allowDuplicate |-> flag,
                   paid |-> paid[r]]
  <2>1. x \in Stage /\ x.op = "invoice" /\ x.of = r
    BY <1>0 DEF Stage, InvoiceReq
  <2>2. Arrive(q, r, NoKey, x)
    BY <1>2 DEF ReadForInvoice
  <2> HIDE DEF x
  <2> QED
    BY <1>0, <2>1, <2>2 DEF Asked
<1>3. ASSUME NEW r \in Reservation, ReadForCheckIn(q, r)
      PROVE  \E key, x : Asked(q, r, key, x)
  <2> DEFINE x == [op |-> "checkIn", of |-> r, paid |-> paid[r], force |-> FALSE]
  <2>1. x \in Stage /\ x.op = "checkIn" /\ x.of = r /\ x.paid = paid[r]
    BY <1>0 DEF Stage, StayReq
  <2>2. Arrive(q, r, NoKey, x) /\ DepositMet(paid[r])
    BY <1>3 DEF ReadForCheckIn
  <2> HIDE DEF x
  <2> QED
    BY <1>0, <2>1, <2>2 DEF Asked
<1>4. ASSUME NEW r \in Reservation, NEW flag \in BOOLEAN, ReadForCheckOut(q, r, flag)
      PROVE  \E key, x : Asked(q, r, key, x)
  <2> DEFINE x == [op |-> "checkOut", of |-> r, paid |-> paid[r], force |-> flag]
  <2>1. /\ x \in Stage /\ x.op = "checkOut" /\ x.of = r /\ x.paid = paid[r]
        /\ x.force = flag
    BY <1>0 DEF Stage, StayReq
  <2>2. Arrive(q, r, NoKey, x) /\ SettledOrForced(paid[r], flag)
    BY <1>4 DEF ReadForCheckOut
  <2> HIDE DEF x
  <2> QED
    BY <1>0, <2>1, <2>2 DEF Asked
<1> QED
  BY <1>1, <1>2, <1>3, <1>4 DEF Start

(* Every other step is over, or goes on with a payment. *)
LEMMA Proceeds ==
  ASSUME Inv, NEW q \in Request, Proceed(q) \/ Fail(q)
  PROVE  \/ Over(q)
         \/ LookUpKey(q)
         \/ /\ ReplayPayment(q)
            /\ keys[req[q].dto.key].dto = req[q].dto
            /\ Begin(q, [op |-> "paid", dto |-> req[q].dto])
         \/ InsertPayment(q)
         \/ CommitPayment(q)
<1>1. CASE Fail(q)
  BY <1>1 DEF Fail, End, Begin, Over, rows
<1>2. CASE KeyTaken(q)
  BY <1>1, <1>2 DEF KeyTaken
<1>3. CASE ReplayPayment(q)
  BY <1>3 DEF ReplayPayment, SamePayment, End, Begin, Over, Open, Paying, rows
<1>4. CASE GenerateInvoice(q)
  BY <1>4 DEF GenerateInvoice, End, Begin, Over, Open
<1>5. CASE CheckIn(q)
  BY <1>5 DEF CheckIn, End, Begin, Over, Open
<1>6. CASE CheckOut(q)
  BY <1>6 DEF CheckOut, End, Begin, Over, Open
<1> QED
  BY <1>1, <1>2, <1>3, <1>4, <1>5, <1>6 DEF Proceed

(* What the two payment steps do, in terms of the fields. *)
LEMMA LooksUp ==
  ASSUME Inv, NEW q \in Request, LookUpKey(q)
  PROVE  /\ UNCHANGED <<rows, policy, overlapped>> /\ Paying(q, "read")
         /\ \E x : /\ Begin(q, x) /\ x \in Stage /\ x.op = "pay"
                   /\ x.of = req[q].of /\ x.dto = req[q].dto /\ x.step = "checked"
<1>1. Paying(q, "read") /\ UNCHANGED <<rows, policy, overlapped>>
      /\ Begin(q, [req[q] EXCEPT !.step = "checked"])
  BY DEF LookUpKey
<1> DEFINE x == [req[q] EXCEPT !.step = "checked"]
<1>2. /\ x \in Stage /\ x.op = "pay" /\ x.of = req[q].of
      /\ x.dto = req[q].dto /\ x.step = "checked"
  BY <1>1, PayStages DEF Paying
<1>3. Begin(q, x)
  BY <1>1
<1> HIDE DEF x
<1> QED
  BY <1>1, <1>2, <1>3

LEMMA Inserts ==
  ASSUME Inv, NEW q \in Request, InsertPayment(q)
  PROVE  /\ UNCHANGED <<rows, policy, overlapped>> /\ Paying(q, "checked")
         /\ KeyFree(req[q].dto.key)
         /\ \E x : /\ Begin(q, x) /\ x \in Stage /\ x.op = "pay"
                   /\ x.of = req[q].of /\ x.dto = req[q].dto /\ x.step = "summed"
                   /\ x.summary = StatusFor(paid[req[q].of] + Signed(req[q].dto))
<1>1. /\ Paying(q, "checked") /\ UNCHANGED <<rows, policy, overlapped>>
      /\ Begin(q, [req[q] EXCEPT !.step = "summed", !.summary = StatusAfter(req[q].dto)])
      /\ KeyFree(req[q].dto.key)
  BY DEF InsertPayment
<1>2. req[q].op = "pay" /\ req[q].dto \in PaymentDto /\ req[q].of = req[q].dto.of
      /\ paid[req[q].dto.of] \in Int
  BY <1>1, Carried DEF Paying, Inv, PayInv, TypeOK
<1>3. StatusAfter(req[q].dto) = StatusFor(paid[req[q].of] + Signed(req[q].dto))
  BY <1>2 DEF StatusAfter
<1>4. StatusAfter(req[q].dto) \in PaymentStatus
  BY <1>2, Sums DEF StatusAfter
<1> DEFINE x == [req[q] EXCEPT !.step = "summed", !.summary = StatusAfter(req[q].dto)]
<1>5. /\ x \in Stage /\ x.op = "pay" /\ x.of = req[q].of /\ x.dto = req[q].dto
      /\ x.step = "summed" /\ x.summary = StatusAfter(req[q].dto)
  BY <1>2, <1>4, PayStages
<1>6. Begin(q, x)
  BY <1>1
<1> HIDE DEF x
<1> QED
  BY <1>1, <1>3, <1>5, <1>6

-----------------------------------------------------------------------------
(* Keys.  A committed record and its payment go together, and only one     *)
(* transaction has inserted a record of a key that has none yet.           *)
PaymentsKeyed ==
  \A m \in payments : m.dto.key \in Key =>
    keys[m.dto.key] # NoRecord /\ keys[m.dto.key].dto = m.dto

RecordsPaid ==
  \A k \in Key : keys[k] # NoRecord => \E m \in payments : m.dto = keys[k].dto

OneInserter ==
  \A p \in Request : Paying(p, "summed") /\ req[p].dto.key \in Key =>
    /\ keys[req[p].dto.key] = NoRecord
    /\ \A q \in Request \ {p} :
         ~(Paying(q, "summed") /\ req[q].dto.key = req[p].dto.key)

KeysInv == /\ PaymentsKeyed /\ RecordsPaid /\ OneInserter
           /\ OnePaymentPerKey /\ AnsweredPaymentsRecorded

LEMMA KeysQuiet ==
  ASSUME Inv, KeysInv, NEW q \in Request, NEW x, Begin(q, x),
         UNCHANGED <<payments, keys>>,
         x.op = "pay" => (x.step = "summed" => KeyFree(x.dto.key)),
         x.op = "paid" => \E m \in payments : m.dto = x.dto
  PROVE  KeysInv'
<1>1. /\ req'[q] = x /\ \A p \in Request : p # q => req'[p] = req[p]
  BY Moved DEF Inv
<1>2. (PaymentsKeyed /\ RecordsPaid /\ OnePaymentPerKey)'
  BY DEF KeysInv, PaymentsKeyed, RecordsPaid, OnePaymentPerKey
<1>3. AnsweredPaymentsRecorded'
  BY <1>1 DEF KeysInv, AnsweredPaymentsRecorded
<1>4. OneInserter'
  BY <1>1 DEF KeysInv, OneInserter, Paying, KeyFree
<1> QED
  BY <1>2, <1>3, <1>4 DEF KeysInv

(* A commit's rows. *)
LEMMA Commits ==
  ASSUME Inv, NEW q \in Request, CommitPayment(q)
  PROVE  /\ Paying(q, "summed") /\ req[q].dto \in PaymentDto
         /\ req[q].of \in Reservation /\ req[q].of = req[q].dto.of
         /\ payments' = payments \cup {[dto |-> req[q].dto, by |-> q]}
         /\ paid'[req[q].of] = paid[req[q].of] + Signed(req[q].dto)
         /\ \A r \in Reservation : r # req[q].of => /\ paid'[r] = paid[r]
                                                   /\ paymentStatus'[r] = paymentStatus[r]
         /\ paymentStatus'[req[q].of] = req[q].summary
         /\ \A k \in Key : k # req[q].dto.key => keys'[k] = keys[k]
         /\ req[q].dto.key \in Key =>
              keys'[req[q].dto.key] # NoRecord /\ keys'[req[q].dto.key].dto = req[q].dto
         /\ Begin(q, [op |-> "paid", dto |-> req[q].dto])
         /\ UNCHANGED <<policy, overlapped>>
<1>1. /\ Paying(q, "summed") /\ UNCHANGED <<policy, overlapped>>
      /\ payments' = payments \cup {[dto |-> req[q].dto, by |-> q]}
      /\ paid' = [paid EXCEPT ![req[q].of] = @ + Signed(req[q].dto)]
      /\ paymentStatus' = [paymentStatus EXCEPT ![req[q].of] = req[q].summary]
      /\ keys' = [k \in Key |-> IF k = req[q].dto.key
                                THEN [status |-> "COMPLETED", dto |-> req[q].dto]
                                ELSE keys[k]]
      /\ Begin(q, [op |-> "paid", dto |-> req[q].dto])
  BY DEF CommitPayment
<1>2. req[q].dto \in PaymentDto /\ req[q].of \in Reservation
      /\ req[q].of = req[q].dto.of
  BY <1>1, Carried DEF Paying, Inv, PayInv
<1>3. /\ paid'[req[q].of] = paid[req[q].of] + Signed(req[q].dto)
      /\ paymentStatus'[req[q].of] = req[q].summary
      /\ \A r \in Reservation : r # req[q].of => /\ paid'[r] = paid[r]
                                                /\ paymentStatus'[r] = paymentStatus[r]
  BY <1>1, <1>2 DEF Inv, TypeOK
<1>4. [status |-> "COMPLETED", dto |-> req[q].dto] # NoRecord
  <2>1. [status |-> "COMPLETED", dto |-> req[q].dto].status # NoRecord.status
    BY DEF NoRecord
  <2> QED
    BY <2>1
<1> QED
  BY <1>1, <1>2, <1>3, <1>4

LEMMA KeysCommit ==
  ASSUME Inv, KeysInv, NEW q \in Request, CommitPayment(q)
  PROVE  KeysInv'
<1> DEFINE x == [op |-> "paid", dto |-> req[q].dto]
           row == [dto |-> req[q].dto, by |-> q]
<1>1. x.op = "paid" /\ x.dto = req[q].dto /\ row.dto = req[q].dto
  OBVIOUS
<1>2. /\ Paying(q, "summed") /\ payments' = payments \cup {row}
      /\ \A k \in Key : k # req[q].dto.key => keys'[k] = keys[k]
      /\ req[q].dto.key \in Key =>
           keys'[req[q].dto.key] # NoRecord /\ keys'[req[q].dto.key].dto = req[q].dto
      /\ Begin(q, x)
  BY Commits
<1> HIDE DEF x, row
<1>3. req'[q] = x /\ \A p \in Request : p # q => req'[p] = req[p]
  BY <1>2, Moved DEF Inv
<1>4. req[q].dto.key \in Key =>
        /\ keys[req[q].dto.key] = NoRecord
        /\ \A m \in payments : m.dto.key # req[q].dto.key
  BY <1>2 DEF KeysInv, OneInserter, PaymentsKeyed
<1>5. PaymentsKeyed'
  BY <1>1, <1>2, <1>4 DEF KeysInv, PaymentsKeyed
<1>6. RecordsPaid'
  BY <1>1, <1>2 DEF KeysInv, RecordsPaid
<1>7. OneInserter'
  BY <1>1, <1>2, <1>3 DEF KeysInv, OneInserter, Paying
<1>8. OnePaymentPerKey'
  BY <1>1, <1>2, <1>4 DEF KeysInv, OnePaymentPerKey
<1>9. AnsweredPaymentsRecorded'
  BY <1>1, <1>2, <1>3 DEF KeysInv, AnsweredPaymentsRecorded
<1> QED
  BY <1>5, <1>6, <1>7, <1>8, <1>9 DEF KeysInv

LEMMA KeysHold == Spec => []KeysInv
<1>1. Init => KeysInv
  BY DEF Init, KeysInv, PaymentsKeyed, RecordsPaid, OneInserter, OnePaymentPerKey,
         AnsweredPaymentsRecorded, Paying, Idle
<1>2. Inv /\ KeysInv /\ [Next]_vars => KeysInv'
  <2> SUFFICES ASSUME Inv, KeysInv, [Next]_vars PROVE KeysInv'
    OBVIOUS
  <2>1. CASE UNCHANGED vars
    BY <2>1 DEF vars, rows, KeysInv, PaymentsKeyed, RecordsPaid, OneInserter,
                OnePaymentPerKey, AnsweredPaymentsRecorded, Paying
  <2>2. ASSUME NEW q \in Request, Start(q) PROVE KeysInv'
    <3>1. PICK r \in Reservation : \E key, x : Asked(q, r, key, x)
      BY <2>2, Starts
    <3>2. PICK key, x : Asked(q, r, key, x)
      BY <3>1
    <3>3. /\ Begin(q, x) /\ UNCHANGED <<payments, keys>> /\ x.op # "paid"
          /\ x.op = "pay" => x.step # "summed"
      BY <3>2 DEF Asked, Arrive, Begin, rows
    <3> QED
      BY <3>3, KeysQuiet
  <2>3. ASSUME NEW q \in Request, Proceed(q) \/ Fail(q) PROVE KeysInv'
    <3>1. CASE Over(q)
      <4>1. [op |-> "failed"].op = "failed" /\ [op |-> "answered"].op = "answered"
        OBVIOUS
      <4> QED
        BY <3>1, <4>1, KeysQuiet DEF Over
    <3>2. CASE LookUpKey(q)
      BY <3>2, LooksUp, KeysQuiet DEF rows
    <3>3. CASE /\ ReplayPayment(q)
               /\ keys[req[q].dto.key].dto = req[q].dto
               /\ Begin(q, [op |-> "paid", dto |-> req[q].dto])
      <4> DEFINE x == [op |-> "paid", dto |-> req[q].dto]
      <4>1. x.op = "paid" /\ x.dto = req[q].dto
        OBVIOUS
      <4>2. /\ Begin(q, x) /\ UNCHANGED <<payments, keys>>
            /\ Paying(q, "read") /\ keys[req[q].dto.key] # NoRecord
        BY <3>3 DEF ReplayPayment, rows
      <4>3. req[q].dto.key \in Key
        BY <4>2 DEF Paying, Inv, PayInv
      <4>4. \E m \in payments : m.dto = req[q].dto
        BY <3>3, <4>2, <4>3 DEF KeysInv, RecordsPaid
      <4> HIDE DEF x
      <4> QED
        BY <4>1, <4>2, <4>4, KeysQuiet
    <3>4. CASE InsertPayment(q)
      BY <3>4, Inserts, KeysQuiet DEF rows
    <3>5. CASE CommitPayment(q)
      BY <3>5, KeysCommit
    <3> QED
      BY <2>3, <3>1, <3>2, <3>3, <3>4, <3>5, Proceeds
  <2> QED
    BY <2>1, <2>2, <2>3 DEF Next
<1> QED
  BY <1>1, <1>2, InvHolds, PTL DEF Spec

(* recordPayment and the unique index of the key: a payment is recorded    *)
(* once per Idempotency-Key.                                               *)
THEOREM OnePaymentPerKeyHolds == Spec => []OnePaymentPerKey
<1>1. KeysInv => OnePaymentPerKey
  BY DEF KeysInv
<1> QED
  BY <1>1, KeysHold, PTL

(* What recordPayment answered as recorded is recorded, also when the      *)
(* answer is replayed from the record of the key.                          *)
THEOREM AnsweredPaymentsHold == Spec => []AnsweredPaymentsRecorded
<1>1. KeysInv => AnsweredPaymentsRecorded
  BY DEF KeysInv
<1> QED
  BY <1>1, KeysHold, PTL

-----------------------------------------------------------------------------
(* Requests that did not overlap.  Of two that are under way about such a  *)
(* reservation both pay under one key, so one of them at most commits; what *)
(* the others read is still so when they write.                            *)
OverlapNoted ==
  \A p, q \in Open : p # q /\ req[p].of = req[q].of /\ req[p].of \notin overlapped =>
    /\ req[p].op = "pay" /\ req[q].op = "pay"
    /\ req[p].dto.key \in Key /\ req[p].dto.key = req[q].dto.key

ContextCurrent ==
  \A q \in Open : req[q].of \notin overlapped =>
    /\ req[q].op \in {"checkIn", "checkOut"} => req[q].paid = paid[req[q].of]
    /\ req[q].op = "checkIn" => DepositMet(req[q].paid)
    /\ req[q].op = "checkOut" => SettledOrForced(req[q].paid, req[q].force)

SummaryCurrent ==
  \A q \in Request : Paying(q, "summed") /\ req[q].of \notin overlapped =>
    req[q].summary = StatusFor(paid[req[q].of] + Signed(req[q].dto))

StatusKept ==
  \A r \in Reservation : r \notin overlapped /\ (\E m \in payments : m.dto.of = r) =>
    paymentStatus[r] = StatusFor(paid[r])

RefundsRead ==
  \A q \in Open :
    /\ req[q].op = "pay" /\ req[q].of \notin overlapped /\ req[q].dto.refund
    /\ req[q].dto.key \in Key => keys[req[q].dto.key] = NoRecord
    => req[q].dto.amount <= paid[req[q].of]

NotOverdrawn == \A r \in Reservation : r \notin overlapped => paid[r] >= 0

AloneInv == /\ OverlapNoted /\ ContextCurrent /\ SummaryCurrent
            /\ StatusKept /\ RefundsRead /\ NotOverdrawn

OpenOps == {"pay", "invoice", "checkIn", "checkOut"}

LEMMA AloneQuiet ==
  ASSUME Inv, AloneInv, NEW q \in Request, NEW x, Begin(q, x), q \in Open,
         UNCHANGED <<paid, payments, paymentStatus, keys, policy, overlapped>>,
         \/ x.op \notin OpenOps
         \/ /\ x.op = "pay" /\ req[q].op = "pay"
            /\ x.of = req[q].of /\ x.dto = req[q].dto
            /\ x.step = "summed" =>
                 x.summary = StatusFor(paid[x.of] + Signed(x.dto))
  PROVE  AloneInv'
<1>1. /\ req'[q] = x /\ \A p \in Request : p # q => req'[p] = req[p]
  BY Moved DEF Inv
<1>2. Open' \subseteq Open
  BY <1>1 DEF Open, OpenOps
<1>3. OverlapNoted'
  BY <1>1, <1>2 DEF AloneInv, OverlapNoted, Open, OpenOps
<1>4. ContextCurrent'
  BY <1>1, <1>2 DEF AloneInv, ContextCurrent, Open, OpenOps, DepositMet, SettledOrForced
<1>5. SummaryCurrent'
  BY <1>1 DEF AloneInv, SummaryCurrent, Paying, OpenOps
<1>6. (StatusKept /\ NotOverdrawn)'
  BY DEF AloneInv, StatusKept, NotOverdrawn
<1>7. RefundsRead'
  BY <1>1, <1>2 DEF AloneInv, RefundsRead, Open, OpenOps
<1> QED
  BY <1>3, <1>4, <1>5, <1>6, <1>7 DEF AloneInv

LEMMA AloneAsked ==
  ASSUME Inv, AloneInv, NEW q \in Request, NEW r \in Reservation, NEW key, NEW x,
         Asked(q, r, key, x)
  PROVE  AloneInv'
<1>1. /\ Begin(q, x) /\ UNCHANGED <<rows, policy>> /\ x.of = r
      /\ overlapped' = IF \E p \in Open : req[p].of = r /\ ~Repeats(p, key)
                       THEN overlapped \cup {r} ELSE overlapped
  BY DEF Asked, Arrive, Begin
<1>2. /\ req'[q] = x /\ \A p \in Request : p # q => req'[p] = req[p]
  BY <1>1, Moved DEF Inv
<1>3. overlapped \subseteq overlapped' /\ UNCHANGED <<paid, payments, paymentStatus, keys>>
  BY <1>1 DEF rows
<1>4. Open' \subseteq Open \cup {q}
  BY <1>2 DEF Open
<1>5. q \notin Open
  BY DEF Asked, Arrive, Idle, Open
<1>6. \A p \in Open : req[p].of = r /\ r \notin overlapped' =>
        /\ key \in Key /\ req[p].op = "pay" /\ req[p].dto.key = key
        /\ x.op = "pay" /\ x.dto.key = key
  BY <1>1 DEF Repeats, Asked
<1>7. OverlapNoted'
  <2> SUFFICES ASSUME NEW p1 \in Open', NEW p2 \in Open', p1 # p2,
                      req'[p1].of = req'[p2].of, req'[p1].of \notin overlapped'
               PROVE  /\ req'[p1].op = "pay" /\ req'[p2].op = "pay"
                      /\ req'[p1].dto.key \in Key
                      /\ req'[p1].dto.key = req'[p2].dto.key
    BY DEF OverlapNoted
  <2>1. CASE p1 = q
    BY <1>1, <1>2, <1>4, <1>6, <2>1 DEF Open
  <2>2. CASE p2 = q
    BY <1>1, <1>2, <1>4, <1>6, <2>2 DEF Open
  <2>3. CASE p1 # q /\ p2 # q
    BY <1>2, <1>3, <1>4, <2>3 DEF AloneInv, OverlapNoted, Open
  <2> QED
    BY <2>1, <2>2, <2>3
<1>8. ContextCurrent'
  <2> SUFFICES ASSUME NEW p \in Open', req'[p].of \notin overlapped'
               PROVE  /\ req'[p].op \in {"checkIn", "checkOut"} =>
                           req'[p].paid = paid[req'[p].of]
                      /\ req'[p].op = "checkIn" => DepositMet(req'[p].paid)
                      /\ req'[p].op = "checkOut" =>
                           SettledOrForced(req'[p].paid, req'[p].force)
    BY <1>1, <1>3 DEF ContextCurrent, DepositMet, SettledOrForced
  <2>1. CASE p = q
    BY <1>1, <1>2, <2>1 DEF Asked
  <2>2. CASE p # q
    <3>1. p \in Open /\ req'[p] = req[p]
      BY <1>2, <1>4, <2>2 DEF Open
    <3>2. req[p].of \notin overlapped
      BY <1>3, <3>1
    <3> QED
      BY <3>1, <3>2 DEF AloneInv, ContextCurrent
  <2> QED
    BY <2>1, <2>2
<1>9. SummaryCurrent'
  BY <1>2, <1>3 DEF AloneInv, SummaryCurrent, Paying, Asked
<1>10. (StatusKept /\ NotOverdrawn)'
  BY <1>3 DEF AloneInv, StatusKept, NotOverdrawn
<1>11. RefundsRead'
  BY <1>1, <1>2, <1>3, <1>4 DEF AloneInv, RefundsRead, Asked, Open
<1> QED
  BY <1>7, <1>8, <1>9, <1>10, <1>11 DEF AloneInv

LEMMA AloneCommit ==
  ASSUME Inv, KeysInv, AloneInv, NEW q \in Request, CommitPayment(q)
  PROVE  AloneInv'
<1> DEFINE x == [op |-> "paid", dto |-> req[q].dto]
           row == [dto |-> req[q].dto, by |-> q]
<1>0. PICK r \in Reservation : r = req[q].of
  BY Commits
<1>1. x.op = "paid" /\ row.dto = req[q].dto
  OBVIOUS
<1>2. /\ Paying(q, "summed") /\ req[q].dto \in PaymentDto /\ r = req[q].dto.of
      /\ payments' = payments \cup {row}
      /\ paid'[r] = paid[r] + Signed(req[q].dto)
      /\ \A s \in Reservation : s # r => /\ paid'[s] = paid[s]
                                        /\ paymentStatus'[s] = paymentStatus[s]
      /\ paymentStatus'[r] = req[q].summary
      /\ \A k \in Key : k # req[q].dto.key => keys'[k] = keys[k]
      /\ req[q].dto.key \in Key => keys'[req[q].dto.key] # NoRecord
      /\ Begin(q, x)
      /\ UNCHANGED <<policy, overlapped>>
  BY <1>0, Commits
<1> HIDE DEF x, row
<1>3. req'[q] = x /\ \A p \in Request : p # q => req'[p] = req[p]
  BY <1>2, Moved DEF Inv
<1>4. Open' \subseteq Open \ {q} /\ q \in Open
  BY <1>1, <1>2, <1>3 DEF Open, Paying
<1>5. \A p \in Open \ {q} : req[p].of = r /\ r \notin overlapped =>
        /\ req[p].op = "pay" /\ req[q].dto.key \in Key
        /\ req[p].dto.key = req[q].dto.key
  BY <1>0, <1>4 DEF AloneInv, OverlapNoted
<1>6. OverlapNoted'
  BY <1>2, <1>3, <1>4 DEF AloneInv, OverlapNoted, Open
<1>7. \A p \in Open' : /\ p \in Open \ {q} /\ req'[p] = req[p]
                       /\ req[p].of \in Reservation
  BY <1>3, <1>4, Carried DEF Open, Inv
<1>8. ContextCurrent'
  <2> SUFFICES ASSUME NEW p \in Open', req[p].of \notin overlapped
               PROVE  /\ req[p].op \in {"checkIn", "checkOut"} =>
                           req[p].paid = paid'[req[p].of]
                      /\ req[p].op = "checkIn" => DepositMet(req[p].paid)
                      /\ req[p].op = "checkOut" =>
                           SettledOrForced(req[p].paid, req[p].force)
    BY <1>2, <1>7 DEF ContextCurrent, DepositMet, SettledOrForced
  <2>1. CASE req[p].of = r
    BY <1>5, <1>7, <2>1
  <2>2. CASE req[p].of # r
    BY <1>2, <1>7, <2>2 DEF AloneInv, ContextCurrent
  <2> QED
    BY <2>1, <2>2
<1>9. SummaryCurrent'
  <2> SUFFICES ASSUME NEW p \in Request, Paying(p, "summed")',
                      req'[p].of \notin overlapped
               PROVE  req'[p].summary = StatusFor(paid'[req'[p].of] + Signed(req'[p].dto))
    BY <1>2 DEF SummaryCurrent
  <2>1. p # q /\ req'[p] = req[p] /\ Paying(p, "summed") /\ p \in Open
    BY <1>1, <1>3 DEF Paying, Open
  <2>2. req[p].of # r
    BY <1>2, <1>5, <2>1 DEF KeysInv, OneInserter
  <2>3. req[p].of \in Reservation
    BY <2>1, Carried DEF Inv, Paying
  <2> QED
    BY <1>2, <2>1, <2>2, <2>3 DEF AloneInv, SummaryCurrent
<1>10. StatusKept'
  <2> SUFFICES ASSUME NEW s \in Reservation, s \notin overlapped,
                      NEW m \in payments', m.dto.of = s
               PROVE  paymentStatus'[s] = StatusFor(paid'[s])
    BY <1>2 DEF StatusKept
  <2>1. CASE s = r
    BY <1>0, <1>2, <2>1 DEF AloneInv, SummaryCurrent
  <2>2. CASE s # r
    <3>1. m \in payments
      BY <1>1, <1>2, <2>2
    <3> QED
      BY <1>2, <2>2, <3>1 DEF AloneInv, StatusKept
  <2> QED
    BY <2>1, <2>2
<1>11. RefundsRead'
  <2> SUFFICES ASSUME NEW p \in Open', req[p].op = "pay", req[p].of \notin overlapped,
                      req[p].dto.refund,
                      req[p].dto.key \in Key => keys'[req[p].dto.key] = NoRecord
               PROVE  req[p].dto.amount <= paid'[req[p].of]
    BY <1>2, <1>7 DEF RefundsRead
  <2>1. CASE req[p].of = r
    BY <1>2, <1>5, <1>7, <2>1
  <2>2. CASE req[p].of # r
    <3>1. req[p].dto.key \in Key => keys[req[p].dto.key] = NoRecord
      BY <1>2
    <3> QED
      BY <1>2, <1>7, <2>2, <3>1 DEF AloneInv, RefundsRead
  <2> QED
    BY <2>1, <2>2
<1>12. NotOverdrawn'
  <2> SUFFICES ASSUME NEW s \in Reservation, s \notin overlapped PROVE paid'[s] >= 0
    BY <1>2 DEF NotOverdrawn
  <2>1. paid[s] >= 0 /\ paid[s] \in Int
    BY DEF AloneInv, NotOverdrawn, Inv, TypeOK
  <2>2. CASE s # r
    BY <1>2, <2>1, <2>2
  <2>3. CASE s = r /\ ~req[q].dto.refund
    <3>1. Signed(req[q].dto) = req[q].dto.amount /\ req[q].dto.amount \in Nat
      BY <1>2, <2>3, Sums DEF Signed
    <3> QED
      BY <1>2, <2>1, <2>3, <3>1
  <2>4. CASE s = r /\ req[q].dto.refund
    <3>1. Signed(req[q].dto) = -req[q].dto.amount /\ req[q].dto.amount \in Nat
      BY <1>2, <2>4, Sums DEF Signed
    <3>2. req[q].dto.key \in Key => keys[req[q].dto.key] = NoRecord
      BY <1>2 DEF KeysInv, OneInserter
    <3>3. req[q].op = "pay"
      BY <1>2 DEF Paying
    <3>4. req[q].dto.amount <= paid[r]
      BY <1>0, <1>4, <2>4, <3>2, <3>3 DEF AloneInv, RefundsRead
    <3> QED
      BY <1>2, <2>1, <2>4, <3>1, <3>4
  <2> QED
    BY <2>2, <2>3, <2>4
<1> QED
  BY <1>6, <1>8, <1>9, <1>10, <1>11, <1>12 DEF AloneInv

LEMMA AloneHolds == Spec => []AloneInv
<1>1. Init => AloneInv
  BY DEF Init, AloneInv, OverlapNoted, ContextCurrent, SummaryCurrent, StatusKept,
         RefundsRead, NotOverdrawn, Open, Paying, Idle
<1>2. Inv /\ KeysInv /\ AloneInv /\ [Next]_vars => AloneInv'
  <2> SUFFICES ASSUME Inv, KeysInv, AloneInv, [Next]_vars PROVE AloneInv'
    OBVIOUS
  <2>1. CASE UNCHANGED vars
    BY <2>1 DEF vars, rows, AloneInv, OverlapNoted, ContextCurrent, SummaryCurrent,
      StatusKept, RefundsRead, NotOverdrawn, Open, Paying, DepositMet, SettledOrForced
  <2>2. ASSUME NEW q \in Request, Start(q) PROVE AloneInv'
    <3>1. PICK r \in Reservation : \E key, x : Asked(q, r, key, x)
      BY <2>2, Starts
    <3> QED
      BY <3>1, AloneAsked
  <2>3. ASSUME NEW q \in Request, Proceed(q) \/ Fail(q) PROVE AloneInv'
    <3>1. CASE Over(q)
      <4>1. [op |-> "failed"].op \notin OpenOps /\ [op |-> "answered"].op \notin OpenOps
        BY DEF OpenOps
      <4> QED
        BY <3>1, <4>1, AloneQuiet DEF Over
    <3>2. CASE LookUpKey(q)
      BY <3>2, LooksUp, AloneQuiet DEF rows, Paying, Open
    <3>3. CASE /\ ReplayPayment(q)
               /\ keys[req[q].dto.key].dto = req[q].dto
               /\ Begin(q, [op |-> "paid", dto |-> req[q].dto])
      <4>1. [op |-> "paid", dto |-> req[q].dto].op \notin OpenOps
        BY DEF OpenOps
      <4>2. /\ UNCHANGED <<paid, payments, paymentStatus, keys, policy, overlapped>>
            /\ q \in Open
        BY <3>3 DEF ReplayPayment, rows, Paying, Open
      <4> QED
        BY <3>3, <4>1, <4>2, AloneQuiet
    <3>4. CASE InsertPayment(q)
      BY <3>4, Inserts, AloneQuiet DEF rows, Paying, Open
    <3>5. CASE CommitPayment(q)
      BY <3>5, AloneCommit
    <3> QED
      BY <2>3, <3>1, <3>2, <3>3, <3>4, <3>5, Proceeds
  <2> QED
    BY <2>1, <2>2, <2>3 DEF Next
<1> QED
  BY <1>1, <1>2, InvHolds, KeysHold, PTL DEF Spec

LEMMA Settles ==
  ASSUME NEW sum \in Int
  PROVE  /\ Balance(sum) = 0 <=> sum >= Total
         /\ StatusFor(sum) = "PAID" <=> sum >= Total
         /\ StatusFor(sum) = "UNPAID" => sum <= 0
<1>1. Total \in Int
  BY AmountAssumption
<1>2. Balance(sum) = 0 <=> sum >= Total
  BY <1>1 DEF Balance
<1> QED
  BY <1>2 DEF StatusFor

(* financialSummary: the status a reservation shows is the one its payments *)
(* give, however many reservations are paid at once, unless requests for it *)
(* overlapped.                                                             *)
THEOREM PaymentStatusHolds == Spec => []PaymentStatusCurrent
<1>1. Inv /\ AloneInv => PaymentStatusCurrent
  <2> SUFFICES ASSUME Inv, AloneInv, NEW r \in Reservation, r \notin overlapped,
                      \E m \in payments : m.dto.of = r
               PROVE  /\ paymentStatus[r] = "PAID" <=> paid[r] >= Total
                      /\ paymentStatus[r] = "UNPAID" => paid[r] <= 0
    BY DEF PaymentStatusCurrent
  <2>1. paymentStatus[r] = StatusFor(paid[r]) /\ paid[r] \in Int
    BY DEF AloneInv, StatusKept, Inv, TypeOK
  <2> QED
    BY <2>1, Settles
<1> QED
  BY <1>1, InvHolds, AloneHolds, PTL

(* checkIn and checkOut decide on what their context read; it is still so  *)
(* when they write, so deposits and balances are asked for.                *)
THEOREM StaysPaidForHolds == Spec => StaysPaidFor
<1> DEFINE Kept == \A r \in Reservation :
       r \in overlapped \/
       /\ /\ stay[r] = "CONFIRMED" /\ stay'[r] = "CHECKED_IN"
          /\ policy.requireDepositBeforeCheckIn
          => paid[r] >= policy.minimumDepositValue
       /\ stay[r] # "CHECKED_OUT" /\ stay'[r] = "CHECKED_OUT"
          => \/ paid[r] >= Total
             \/ policy.allowForceCheckout
                  /\ ~policy.requireFullPaymentBeforeCheckout
<1>1. Inv /\ AloneInv /\ [Next]_vars => [Kept]_vars
  <2> SUFFICES ASSUME Inv, AloneInv, Next, NEW r \in Reservation, r \notin overlapped,
                      stay'[r] # stay[r]
               PROVE  \/ /\ stay'[r] = "CHECKED_IN"
                         /\ policy.requireDepositBeforeCheckIn =>
                              paid[r] >= policy.minimumDepositValue
                      \/ /\ stay'[r] = "CHECKED_OUT"
                         /\ \/ paid[r] >= Total
                            \/ policy.allowForceCheckout
                                 /\ ~policy.requireFullPaymentBeforeCheckout
    OBVIOUS
  <2>1. PICK q \in Request : Start(q) \/ Proceed(q) \/ Fail(q)
    BY DEF Next
  <2>2. CheckIn(q) \/ CheckOut(q)
    BY <2>1 DEF Start, Proceed, Fail, ReadForPayment, ReadForInvoice, ReadForCheckIn,
      ReadForCheckOut, Arrive, LookUpKey, ReplayPayment, InsertPayment, KeyTaken,
      CommitPayment, GenerateInvoice, rows
  <2>3. CASE CheckIn(q)
    <3>1. req[q].op = "checkIn" /\ stay' = [stay EXCEPT ![req[q].of] = "CHECKED_IN"]
      BY <2>3 DEF CheckIn
    <3>2. req[q].of = r /\ stay'[r] = "CHECKED_IN" /\ q \in Open
      BY <3>1 DEF Open, Inv, TypeOK
    <3>3. DepositMet(paid[r])
      BY <3>1, <3>2 DEF AloneInv, ContextCurrent
    <3> QED
      BY <3>2, <3>3 DEF DepositMet
  <2>4. CASE CheckOut(q)
    <3>1. req[q].op = "checkOut" /\ stay' = [stay EXCEPT ![req[q].of] = "CHECKED_OUT"]
      BY <2>4 DEF CheckOut
    <3>2. req[q].of = r /\ stay'[r] = "CHECKED_OUT" /\ q \in Open
      BY <3>1 DEF Open, Inv, TypeOK
    <3>3. SettledOrForced(paid[r], req[q].force) /\ paid[r] \in Int
      BY <3>1, <3>2 DEF AloneInv, ContextCurrent, Inv, TypeOK
    <3> QED
      BY <3>2, <3>3, Settles DEF SettledOrForced
  <2> QED
    BY <2>2, <2>3, <2>4
<1> QED
  BY <1>1, InvHolds, AloneHolds, PTL DEF Spec, StaysPaidFor

-----------------------------------------------------------------------------
(* Overlapping refunds.  With F the refunds under way for a reservation,   *)
(* either one of them, taken off what was paid, leaves (|F| - Concurrency) *)
(* times the largest amount, or what was paid is one largest amount above  *)
(* that.  Each commit takes one out of F and at most that amount off.      *)
Refunds(r) == {q \in Open : req[q].op = "pay" /\ req[q].of = r /\ req[q].dto.refund}

Margin(sum, most, n) == sum >= (n - Concurrency) * most

MarginInv(most) ==
  /\ IsFiniteSet(Open) /\ Cardinality(Open) <= Concurrency
  /\ \A r \in Reservation :
       \/ Margin(paid[r] - most, most, Cardinality(Refunds(r)))
       \/ \E q \in Refunds(r) :
            Margin(paid[r] - req[q].dto.amount, most, Cardinality(Refunds(r)))

(* The arithmetic of a margin. *)
LEMMA Margins ==
  ASSUME NEW sum \in Int, NEW most \in Nat, NEW n \in Nat
  PROVE  /\ \A less \in Nat : less <= n /\ Margin(sum, most, n) => Margin(sum, most, less)
         /\ \A more \in Int : sum <= more /\ Margin(sum, most, n) => Margin(more, most, n)
         /\ Margin(sum, most, n) => Margin(sum - most, most, n - 1)
         /\ n <= Concurrency /\ sum >= 0 => Margin(sum, most, n)
<1> USE ConcurrencyAssumption DEF Margin
<1>1. \A a, b \in Int : a <= b => a * most <= b * most
  OBVIOUS
<1>2. ASSUME NEW less \in Nat, less <= n, Margin(sum, most, n)
      PROVE  Margin(sum, most, less)
  <2>1. (less - Concurrency) * most <= (n - Concurrency) * most
    BY <1>1, <1>2
  <2>2. (less - Concurrency) * most \in Int /\ (n - Concurrency) * most \in Int
    OBVIOUS
  <2> QED
    BY <1>2, <2>1, <2>2
<1>3. ASSUME NEW more \in Int, sum <= more, Margin(sum, most, n)
      PROVE  Margin(more, most, n)
  <2>1. (n - Concurrency) * most \in Int
    OBVIOUS
  <2> QED
    BY <1>3, <2>1
<1>4. Margin(sum, most, n) => Margin(sum - most, most, n - 1)
  <2>1. \A a \in Int : a * most \in Int /\ (a - 1) * most = a * most - most
    OBVIOUS
  <2>2. n - Concurrency \in Int /\ (n - 1) - Concurrency = (n - Concurrency) - 1
    OBVIOUS
  <2>3. /\ (n - Concurrency) * most \in Int
        /\ ((n - 1) - Concurrency) * most = (n - Concurrency) * most - most
    BY <2>1, <2>2
  <2> QED
    BY <2>3
<1>5. n <= Concurrency /\ sum >= 0 => Margin(sum, most, n)
  <2>1. n <= Concurrency => (n - Concurrency) * most <= 0 * most
    BY <1>1
  <2>2. 0 * most = 0 /\ (n - Concurrency) * most \in Int
    OBVIOUS
  <2> QED
    BY <2>1, <2>2
<1> QED
  BY <1>2, <1>3, <1>4, <1>5

(* Requests that are over leave the margin, and so does a commit of q.     *)
LEMMA MarginLeaves ==
  ASSUME Inv, NEW most \in Amount, \A a \in Amount : a <= most,
         MarginInv(most), NEW q \in Open, NEW x, Begin(q, x), x.op \notin OpenOps,
         paid' \in [Reservation -> Int],
         \A r \in Reservation :
           \/ paid'[r] >= paid[r]
           \/ q \in Refunds(r) /\ paid'[r] = paid[r] - req[q].dto.amount
  PROVE  MarginInv(most)'
<1>1. /\ req'[q] = x /\ \A p \in Request : p # q => req'[p] = req[p]
      /\ q \in Request
  BY Moved DEF Inv, Open
<1>2. Open' = Open \ {q}
  BY <1>1 DEF Open, OpenOps
<1>3. IsFiniteSet(Open') /\ Cardinality(Open') <= Concurrency
  <2>1. IsFiniteSet(Open) /\ Cardinality(Open) <= Concurrency
    BY DEF MarginInv
  <2>2. /\ IsFiniteSet(Open \ {q})
        /\ Cardinality(Open \ {q}) = Cardinality(Open) - 1
    BY <2>1, FS_RemoveElement
  <2> QED
    BY <1>2, <2>1, <2>2, FS_CardinalityType, ConcurrencyAssumption
<1>4. ASSUME NEW r \in Reservation
      PROVE  \/ Margin(paid[r] - most, most, Cardinality(Refunds(r)))'
             \/ \E p \in Refunds(r)' :
                  Margin(paid[r] - req[p].dto.amount, most, Cardinality(Refunds(r)))'
  <2>1. PICK F : F = Refunds(r)
    OBVIOUS
  <2>2. PICK n : n = Cardinality(F)
    OBVIOUS
  <2>3. PICK old, new : old = paid[r] /\ new = paid'[r]
    OBVIOUS
  <2>4. most \in Nat /\ old \in Int /\ new \in Int
    BY <2>3, AmountAssumption DEF Inv, TypeOK
  <2>5. IsFiniteSet(F) /\ n \in Nat
    BY <2>1, <2>2, FS_Subset, FS_CardinalityType DEF MarginInv, Refunds
  <2>6. Refunds(r)' = F \ {q}
    BY <1>1, <1>2, <2>1 DEF Refunds, Open
  <2>7. \A p \in F : req[p].dto.amount \in Nat /\ req[p].dto.amount <= most
    <3>1. \A p \in F : req[p].dto.amount \in Amount
      BY <2>1, Carried DEF Refunds, Open, Inv
    <3> QED
      BY <3>1, AmountAssumption
  <2>8. \/ Margin(old - most, most, n)
        \/ \E p \in F : Margin(old - req[p].dto.amount, most, n)
    BY <2>1, <2>2, <2>3 DEF MarginInv
  <2>9. \/ new >= old
        \/ q \in F /\ new = old - req[q].dto.amount
    BY <2>1, <2>3
  <2>10. SUFFICES \/ Margin(new - most, most, Cardinality(F \ {q}))
                  \/ \E p \in F \ {q} :
                       Margin(new - req[p].dto.amount, most, Cardinality(F \ {q}))
    BY <1>1, <2>1, <2>3, <2>6 DEF Margin, Refunds, Open
  <2>11. CASE q \in F
    <3>1. Cardinality(F \ {q}) = n - 1 /\ n - 1 \in Nat
      <4>1. Cardinality(F \ {q}) = n - 1 /\ IsFiniteSet(F \ {q})
        BY <2>2, <2>5, <2>11, FS_RemoveElement
      <4> QED
        BY <4>1, FS_CardinalityType
    <3>2. PICK a \in Nat : a = req[q].dto.amount /\ a <= most
      BY <2>7, <2>11
    <3>3. new >= old - a
      BY <2>4, <2>9, <3>2
    <3>4. CASE Margin(old - most, most, n)
      <4>1. Margin(old - most - most, most, n - 1)
        BY <2>4, <2>5, <3>4, Margins
      <4>2. old - most - most <= new - most
        BY <2>4, <3>2, <3>3
      <4>3. Margin(new - most, most, n - 1)
        BY <2>4, <3>1, <4>1, <4>2, Margins
      <4> QED
        BY <3>1, <4>3
    <3>5. CASE Margin(old - a, most, n)
      <4>1. Margin(old - a - most, most, n - 1)
        BY <2>4, <2>5, <3>2, <3>5, Margins
      <4>2. old - a - most <= new - most
        BY <2>4, <3>2, <3>3
      <4>3. Margin(new - most, most, n - 1)
        BY <2>4, <3>1, <3>2, <4>1, <4>2, Margins
      <4> QED
        BY <3>1, <4>3
    <3>6. CASE \E p \in F : p # q /\ Margin(old - req[p].dto.amount, most, n)
      <4>1. PICK p \in F : p # q /\ Margin(old - req[p].dto.amount, most, n)
        BY <3>6
      <4>2. PICK b \in Nat : b = req[p].dto.amount
        BY <2>7
      <4>3. Margin(old - b - most, most, n - 1)
        BY <2>4, <2>5, <4>1, <4>2, Margins
      <4>4. old - b - most <= new - b
        BY <2>4, <3>2, <3>3, <4>2
      <4>5. Margin(new - b, most, n - 1)
        BY <2>4, <3>1, <4>2, <4>3, <4>4, Margins
      <4> QED
        BY <3>1, <4>1, <4>2, <4>5
    <3> QED
      BY <2>8, <3>2, <3>4, <3>5, <3>6
  <2>12. CASE q \notin F
    <3>1. F \ {q} = F /\ new >= old
      BY <2>9, <2>12
    <3>2. CASE Margin(old - most, most, n)
      <4>1. old - most <= new - most
        BY <2>4, <3>1
      <4>2. Margin(new - most, most, n)
        BY <2>4, <2>5, <3>2, <4>1, Margins
      <4> QED
        BY <2>2, <3>1, <4>2
    <3>3. CASE \E p \in F : Margin(old - req[p].dto.amount, most, n)
      <4>1. PICK p \in F : Margin(old - req[p].dto.amount, most, n)
        BY <3>3
      <4>2. PICK b \in Nat : b = req[p].dto.amount
        BY <2>7
      <4>3. old - b <= new - b
        BY <2>4, <3>1, <4>2
      <4>4. Margin(new - b, most, n)
        BY <2>4, <2>5, <4>1, <4>2, <4>3, Margins
      <4> QED
        BY <2>2, <3>1, <4>2, <4>4
    <3> QED
      BY <2>8, <3>2, <3>3
  <2> QED
    BY <2>11, <2>12
<1> QED
  BY <1>3, <1>4 DEF MarginInv

(* A payment that goes on stays what it is. *)
LEMMA MarginStays ==
  ASSUME Inv, NEW most \in Amount, MarginInv(most), NEW q \in Request, NEW x,
         Begin(q, x), req[q].op = "pay", x.op = "pay", x.of = req[q].of,
         x.dto = req[q].dto, UNCHANGED paid
  PROVE  MarginInv(most)'
<1>1. req'[q] = x /\ \A p \in Request : p # q => req'[p] = req[p]
  BY Moved DEF Inv
<1>2. Open' = Open
  BY <1>1 DEF Open
<1>3. ASSUME NEW r \in Reservation
      PROVE  /\ Refunds(r)' = Refunds(r)
             /\ \A p \in Refunds(r) : req'[p].dto = req[p].dto
  BY <1>1, <1>2 DEF Refunds, Open
<1> QED
  BY <1>2, <1>3 DEF MarginInv, Margin

LEMMA MarginAsked ==
  ASSUME Inv, NEW most \in Amount, \A a \in Amount : a <= most, MarginInv(most),
         NEW q \in Request, NEW s \in Reservation, NEW key, NEW x, Asked(q, s, key, x)
  PROVE  MarginInv(most)'
<1>1. /\ Begin(q, x) /\ UNCHANGED paid /\ x.of = s
      /\ req[q] = Idle /\ Cardinality(Open) < Concurrency
      /\ x.op \in OpenOps
      /\ x.op = "pay" => /\ x.dto \in PaymentDto
                         /\ x.dto.refund => x.dto.amount <= paid[s]
  BY DEF Asked, Arrive, Begin, rows, OpenOps
<1>2. /\ req'[q] = x /\ \A p \in Request : p # q => req'[p] = req[p]
  BY <1>1, Moved DEF Inv
<1>3. Open' = Open \cup {q} /\ q \notin Open
  BY <1>1, <1>2 DEF Open, OpenOps, Idle
<1>4. IsFiniteSet(Open') /\ Cardinality(Open') <= Concurrency
  <2>1. IsFiniteSet(Open)
    BY DEF MarginInv
  <2>2. IsFiniteSet(Open \cup {q}) /\ Cardinality(Open \cup {q}) = Cardinality(Open) + 1
    BY <1>3, <2>1, FS_AddElement
  <2> QED
    BY <1>1, <1>3, <2>1, <2>2, FS_CardinalityType, ConcurrencyAssumption
<1>5. ASSUME NEW r \in Reservation
      PROVE  \/ Margin(paid[r] - most, most, Cardinality(Refunds(r)))'
             \/ \E p \in Refunds(r)' :
                  Margin(paid[r] - req[p].dto.amount, most, Cardinality(Refunds(r)))'
  <2>1. CASE r = s /\ x.op = "pay" /\ x.dto.refund
    <3>1. q \in Refunds(r)'
      BY <1>1, <1>2, <1>3, <2>1 DEF Refunds
    <3>2. PICK F : F = Refunds(r)'
      OBVIOUS
    <3>3. IsFiniteSet(F) /\ Cardinality(F) \in Nat /\ Cardinality(F) <= Cardinality(Open')
      <4>1. F \subseteq Open'
        BY <3>2 DEF Refunds
      <4> QED
        BY <1>4, <4>1, FS_Subset, FS_CardinalityType
    <3>4. Cardinality(F) <= Concurrency
      BY <1>4, <3>3, FS_CardinalityType, ConcurrencyAssumption
    <3>5. PICK a \in Nat : a = x.dto.amount /\ a <= paid[r]
      BY <1>1, <2>1, Sums
    <3>6. PICK old \in Int : old = paid[r]
      BY DEF Inv, TypeOK
    <3>7. old - a >= 0 /\ old - a \in Int /\ most \in Nat
      BY <3>5, <3>6, AmountAssumption
    <3>8. Margin(old - a, most, Cardinality(F))
      BY <3>3, <3>4, <3>7, Margins
    <3>9. Margin(paid[r] - req[q].dto.amount, most, Cardinality(Refunds(r)))'
      BY <1>1, <1>2, <3>2, <3>5, <3>6, <3>8 DEF Margin
    <3> QED
      BY <3>1, <3>9
  <2>2. CASE ~(r = s /\ x.op = "pay" /\ x.dto.refund)
    <3>1. Refunds(r)' = Refunds(r) /\ \A p \in Refunds(r) : req'[p] = req[p]
      BY <1>1, <1>2, <1>3, <2>2 DEF Refunds, Open
    <3> QED
      BY <1>1, <3>1 DEF MarginInv, Margin
  <2> QED
    BY <2>1, <2>2
<1> QED
  BY <1>4, <1>5 DEF MarginInv

LEMMA MarginHolds ==
  ASSUME NEW most \in Amount, \A a \in Amount : a <= most
  PROVE  Spec => []MarginInv(most)
<1>0. most \in Nat
  BY AmountAssumption
<1>1. Init => MarginInv(most)
  <2> SUFFICES ASSUME Init PROVE MarginInv(most)
    OBVIOUS
  <2>1. Open = {}
    BY DEF Init, Open, Idle
  <2>2. IsFiniteSet(Open) /\ Cardinality(Open) = 0 /\ 0 <= Concurrency
    BY <2>1, FS_EmptySet, ConcurrencyAssumption
  <2>3. ASSUME NEW r \in Reservation
        PROVE  Margin(paid[r] - most, most, Cardinality(Refunds(r)))
    <3>1. paid[r] = 0 /\ Cardinality(Refunds(r)) = 0
      BY <2>1, FS_EmptySet DEF Init, Refunds
    <3>2. Margin(0, most, 1)
      BY <1>0, ConcurrencyAssumption, Margins
    <3>3. Margin(0 - most, most, 1 - 1)
      BY <1>0, <3>2, Margins
    <3> QED
      BY <3>1, <3>3
  <2> QED
    BY <2>2, <2>3 DEF MarginInv
<1>2. Inv /\ MarginInv(most) /\ [Next]_vars => MarginInv(most)'
  <2> SUFFICES ASSUME Inv, MarginInv(most), [Next]_vars PROVE MarginInv(most)'
    OBVIOUS
  <2>1. CASE UNCHANGED vars
    BY <2>1 DEF vars, rows, MarginInv, Margin, Refunds, Open
  <2>2. ASSUME NEW q \in Request, Start(q) PROVE MarginInv(most)'
    <3>1. PICK r \in Reservation : \E key, x : Asked(q, r, key, x)
      BY <2>2, Starts
    <3> QED
      BY <3>1, MarginAsked
  <2>3. ASSUME NEW q \in Request, Proceed(q) \/ Fail(q) PROVE MarginInv(most)'
    <3>0. paid \in [Reservation -> Int] /\ \A r \in Reservation : paid[r] >= paid[r]
      BY DEF Inv, TypeOK
    <3>1. CASE Over(q)
      <4>1. [op |-> "failed"].op \notin OpenOps /\ [op |-> "answered"].op \notin OpenOps
        BY DEF OpenOps
      <4> QED
        BY <3>0, <3>1, <4>1, MarginLeaves DEF Over
    <3>2. CASE LookUpKey(q)
      BY <3>2, LooksUp, MarginStays DEF rows, Paying
    <3>3. CASE /\ ReplayPayment(q)
               /\ keys[req[q].dto.key].dto = req[q].dto
               /\ Begin(q, [op |-> "paid", dto |-> req[q].dto])
      <4>1. [op |-> "paid", dto |-> req[q].dto].op \notin OpenOps
        BY DEF OpenOps
      <4>2. UNCHANGED paid /\ q \in Open
        BY <3>3 DEF ReplayPayment, rows, Paying, Open
      <4> QED
        BY <3>0, <3>3, <4>1, <4>2, MarginLeaves
    <3>4. CASE InsertPayment(q)
      BY <3>4, Inserts, MarginStays DEF rows, Paying
    <3>5. CASE CommitPayment(q)
      <4>1. [op |-> "paid", dto |-> req[q].dto].op \notin OpenOps
        BY DEF OpenOps
      <4>2. /\ Paying(q, "summed") /\ req[q].dto \in PaymentDto
            /\ req[q].of \in Reservation
            /\ paid'[req[q].of] = paid[req[q].of] + Signed(req[q].dto)
            /\ \A r \in Reservation : r # req[q].of => paid'[r] = paid[r]
            /\ Begin(q, [op |-> "paid", dto |-> req[q].dto])
        BY <3>5, Commits
      <4>3. q \in Open /\ req[q].op = "pay"
        BY <4>2 DEF Paying, Open
      <4>4. paid' \in [Reservation -> Int]
        <5>1. Inv'
          BY <3>5, StepKeeps DEF Proceed
        <5> QED
          BY <5>1 DEF Inv, TypeOK
      <4>5. req[q].dto.amount \in Nat
        BY <4>2, Sums
      <4>6. ASSUME NEW r \in Reservation
            PROVE  \/ paid'[r] >= paid[r]
                   \/ q \in Refunds(r) /\ paid'[r] = paid[r] - req[q].dto.amount
        <5>0. paid[r] \in Int
          BY <3>0
        <5>1. CASE r # req[q].of
          BY <4>2, <5>0, <5>1
        <5>2. CASE r = req[q].of /\ req[q].dto.refund
          BY <4>2, <4>3, <4>5, <5>0, <5>2 DEF Signed, Refunds
        <5>3. CASE r = req[q].of /\ ~req[q].dto.refund
          BY <4>2, <4>5, <5>0, <5>3 DEF Signed
        <5> QED
          BY <5>1, <5>2, <5>3
      <4> QED
        BY <4>1, <4>2, <4>3, <4>4, <4>6, MarginLeaves
    <3> QED
      BY <2>3, <3>1, <3>2, <3>3, <3>4, <3>5, Proceeds
  <2> QED
    BY <2>1, <2>2, <2>3 DEF Next
<1> QED
  BY <1>1, <1>2, InvHolds, PTL DEF Spec

(* recordPayment compares a refund with the payments of its context: what  *)
(* is given back never exceeds what was paid unless requests overlapped,   *)
(* and then by no more than all handlers but one can give back.            *)
THEOREM RefundsCoveredHolds == Spec => []RefundsCovered
<1>1. PICK most \in Amount : \A a \in Amount : a <= most
  BY AmountAssumption
<1>2. Inv /\ AloneInv /\ MarginInv(most) => RefundsCovered
  <2> SUFFICES ASSUME Inv, AloneInv, MarginInv(most), NEW r \in Reservation,
                      r \in overlapped
               PROVE  paid[r] >= -((Concurrency - 1) * most)
    BY <1>1 DEF RefundsCovered, AloneInv, NotOverdrawn
  <2>1. PICK sum \in Int : sum = paid[r]
    BY DEF Inv, TypeOK
  <2>2. PICK n \in Nat : n = Cardinality(Refunds(r))
    BY FS_Subset, FS_CardinalityType DEF MarginInv, Refunds
  <2>3. most \in Nat
    BY AmountAssumption
  <2>4. Margin(sum - most, most, n)
        \/ \E a \in Nat : /\ Margin(sum - a, most, n)
                          /\ n >= 1
    <3>1. ASSUME NEW q \in Refunds(r) PROVE req[q].dto.amount \in Nat /\ n >= 1
      <4>1. req[q].dto.amount \in Nat
        BY Carried, Sums DEF Refunds, Open, Inv
      <4>2. IsFiniteSet(Refunds(r)) /\ Refunds(r) # {}
        BY FS_Subset DEF MarginInv, Refunds
      <4>3. n # 0
        BY <2>2, <4>2, FS_EmptySet
      <4> QED
        BY <4>1, <4>3
    <3> QED
      BY <2>1, <2>2, <3>1 DEF MarginInv
  <2>5. Margin(sum - most, most, 0)
    <3>1. CASE Margin(sum - most, most, n)
      BY <2>1, <2>3, <3>1, Margins
    <3>2. CASE n >= 1 /\ \E a \in Nat : Margin(sum - a, most, n)
      <4>1. PICK a \in Nat : Margin(sum - a, most, n)
        BY <3>2
      <4>2. Margin(sum, most, n)
        BY <2>1, <2>3, <4>1, Margins
      <4>3. Margin(sum, most, 1)
        BY <2>1, <2>3, <3>2, <4>2, Margins
      <4> QED
        BY <2>1, <2>3, <4>3, Margins
    <3> QED
      BY <2>4, <3>1, <3>2
  <2>6. \A c, m \in Int : c * m \in Int /\ (c - 1) * m = c * m - m
                         /\ (0 - c) * m = -(c * m)
    OBVIOUS
  <2>7. sum - most >= -(Concurrency * most) /\ Concurrency * most \in Int
        /\ (Concurrency - 1) * most = Concurrency * most - most
    BY <2>3, <2>5, <2>6, ConcurrencyAssumption DEF Margin
  <2> QED
    BY <2>1, <2>3, <2>7
<1> QED
  BY <1>1, <1>2, InvHolds, AloneHolds, MarginHolds, PTL
=============================================================================
