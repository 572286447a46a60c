\* Payments, refunds, invoices and stays, two requests at a time.
SPECIFICATION Spec
CONSTANTS
  r1 = r1  r2 = r2
  q1 = q1  q2 = q2  q3 = q3  q4 = q4  q5 = q5
  k1 = k1
  Reservation = {r1, r2}
  Request = {q1, q2, q3, q4}
  Key = {k1}
  NoKey = NoKey
  Total = 2
  Amount = {1, 2}
  Policies <- SomePolicies
  Concurrency = 2
INVARIANTS OnePaymentPerKey AnsweredPaymentsRecorded RefundsCovered
           PaymentStatusCurrent InvoiceNumbersContiguous
PROPERTIES StaysPaidFor
SYMMETRY Symmetry
CHECK_DEADLOCK FALSE
