--------------------------- MODULE MessagingProofs ---------------------------
(***************************************************************************)
(* Theorems about Messaging, for any number of messages, senders, workers  *)
(* and webhook requests, any limits of attempts and stalls and any number  *)
(* of faults.                                                              *)
(***************************************************************************)
EXTENDS Messaging, FiniteSetTheorems, FunctionTheorems, TLAPS

(* A job that may still run has an attempt left, and is locked while it is *)
(* active and only then.                                                   *)
JobsInv ==
  \A m \in Message :
    /\ job[m].state \in {"none", "waiting", "active"} =>
         job[m].attemptsMade < MaxRetries /\ job[m].stalled <= MaxStalled
    /\ job[m].state = "active" <=> job[m].lock # None
    /\ job[m].state = "none" => job[m].stalled = 0

Inv == TypeOK /\ JobsInv

On(w, m) == worker[w] # IdleWorker /\ worker[w].of = m

LEMMA WorkerRow ==
  ASSUME TypeOK, NEW w \in Worker, worker[w].step # "idle"
  PROVE  /\ worker[w] \in [step : Step, of : Message, ok : BOOLEAN]
         /\ worker[w].of \in Message /\ worker[w].step \in Step
         /\ worker[w].ok \in BOOLEAN /\ worker[w] # IdleWorker
BY DEF TypeOK, IdleWorker

LEMMA Idles ==
  /\ IdleWorker.step = "idle"
  /\ \A w \in Worker : TypeOK /\ worker[w] # IdleWorker => worker[w].step # "idle"
BY DEF IdleWorker, TypeOK, Step

(* The record a worker's step writes. *)
LEMMA Goes ==
  ASSUME TypeOK, NEW w \in Worker, worker[w].step # "idle"
  PROVE  /\ \A s \in Step : Goto(w, s) =>
              \E x \in [step : Step, of : Message, ok : BOOLEAN] :
                /\ worker' = [worker EXCEPT ![w] = x]
                /\ x.step = s /\ x.of = worker[w].of /\ x # IdleWorker
         /\ \A ok \in BOOLEAN : Return(w, ok) =>
              \E x \in [step : Step, of : Message, ok : BOOLEAN] :
                /\ worker' = [worker EXCEPT ![w] = x]
                /\ x.step = "end" /\ x.ok = ok /\ x.of = worker[w].of
                /\ x # IdleWorker
<1>1. worker[w] \in [step : Step, of : Message, ok : BOOLEAN]
  BY WorkerRow
<1>2. ASSUME NEW s \in Step, Goto(w, s)
      PROVE  \E x \in [step : Step, of : Message, ok : BOOLEAN] :
                /\ worker' = [worker EXCEPT ![w] = x]
                /\ x.step = s /\ x.of = worker[w].of /\ x # IdleWorker
  <2> DEFINE x == [worker[w] EXCEPT !.step = s]
  <2>1. worker' = [worker EXCEPT ![w] = x]
    BY <1>2 DEF Goto, TypeOK
  <2>2. /\ x \in [step : Step, of : Message, ok : BOOLEAN]
        /\ x.step = s /\ x.of = worker[w].of
    BY <1>1
  <2> HIDE DEF x
  <2>3. x # IdleWorker
    BY <2>2 DEF IdleWorker, Step
  <2> QED
    BY <2>1, <2>2, <2>3
<1>3. ASSUME NEW ok \in BOOLEAN, Return(w, ok)
      PROVE  \E x \in [step : Step, of : Message, ok : BOOLEAN] :
                /\ worker' = [worker EXCEPT ![w] = x]
                /\ x.step = "end" /\ x.ok = ok /\ x.of = worker[w].of
                /\ x # IdleWorker
  <2> DEFINE x == [worker[w] EXCEPT !.step = "end", !.ok = ok]
  <2>1. worker' = [worker EXCEPT ![w] = x]
    BY <1>3 DEF Return, TypeOK
  <2>2. /\ x \in [step : Step, of : Message, ok : BOOLEAN]
        /\ x.step = "end" /\ x.ok = ok /\ x.of = worker[w].of
    BY <1>1 DEF Step
  <2> HIDE DEF x
  <2>3. x # IdleWorker
    BY <2>2 DEF IdleWorker, Step
  <2> QED
    BY <2>1, <2>2, <2>3
<1> QED
  BY <1>2, <1>3

-----------------------------------------------------------------------------
(* The kinds of steps, as far as deliveries are concerned.  Calm: whatever *)
(* leaves jobs, workers and counts alone.  Turn: a worker goes on within   *)
(* deliverQueuedMessage, one line per await and outcome, with what is added*)
(* to the sends, charges and faults of its message.                        *)
Live(m)  == row[m].status \in {"ABSENT", "QUEUED"}
Spent(m) == row'[m].status \notin {"ABSENT", "QUEUED"}

counts == <<sends, usage, faults>>

WorkerRec == [step : Step, of : Message, ok : BOOLEAN]

Calm ==
  /\ UNCHANGED <<job, worker, counts>>
  /\ \A m \in Message : Live(m)' => Live(m)

Turns(s, live, x, ds, du, df) ==
  \/ s = "load" /\ live /\ x.step = "connect" /\ <<ds, du, df>> = <<0, 0, 0>>
  \/ s = "load" /\ x.step = "end" /\ x.ok /\ <<ds, du, df>> = <<0, 0, 0>>
  \/ s = "connect" /\ x.step \in {"send", "failing"} /\ <<ds, du, df>> = <<0, 0, 0>>
  \/ s = "send" /\ x.step = "record" /\ <<ds, du, df>> = <<1, 0, 0>>
  \/ s = "send" /\ x.step = "failing" /\ <<ds, du, df>> = <<0, 0, 0>>
  \/ s = "record" /\ x.step = "usage" /\ <<ds, du, df>> = <<0, 0, 0>>
  \/ s = "usage" /\ x.step = "end" /\ x.ok /\ <<ds, du, df>> = <<0, 1, 0>>
  \/ /\ s \in {"load", "connect", "failing"} /\ x.step = "end" /\ ~x.ok
     /\ <<ds, du, df>> = <<0, 0, 1>>
  \/ s = "send" /\ x.step = "failing" /\ <<ds, du, df>> = <<1, 0, 1>>
  \/ /\ s \in {"record", "usage"} /\ x.step = "failing" /\ du \in {0, 1}
     /\ s = "record" => du = 0
     /\ ds = 0 /\ df = 1

(* markFailed; the row is not QUEUED any more. *)
Fails(s, x, ds, du, df) ==
  s = "failing" /\ x.step = "end" /\ ~x.ok /\ <<ds, du, df>> = <<0, 0, 0>>

Turn(w, x, ds, du, df) ==
  LET m == worker[w].of IN
  /\ worker[w] \in WorkerRec /\ x \in WorkerRec /\ x.of = m
  /\ worker' = [worker EXCEPT ![w] = x]
  /\ sends' = [sends EXCEPT ![m] = @ + ds]
  /\ usage' = [usage EXCEPT ![m] = @ + du]
  /\ faults' = [faults EXCEPT ![m] = @ + df]
  /\ df = 1 => faults[m] < MaxFaults
  /\ UNCHANGED job
  /\ \A n \in Message : Live(n)' => Live(n)
  /\ \/ Turns(worker[w].step, Live(m), x, ds, du, df)
     \/ Fails(worker[w].step, x, ds, du, df) /\ Spent(m)
  /\ worker[w].step = "record" /\ x.step = "usage" => Spent(m)

(* The counts of a message that nothing is added to. *)
LEMMA Same ==
  ASSUME TypeOK, NEW m \in Message
  PROVE  /\ sends = [sends EXCEPT ![m] = @ + 0]
         /\ usage = [usage EXCEPT ![m] = @ + 0]
         /\ faults = [faults EXCEPT ![m] = @ + 0]
<1>1. /\ sends \in [Message -> Nat] /\ usage \in [Message -> Nat]
      /\ faults \in [Message -> Nat]
  BY BoundsAssumption DEF TypeOK
<1>2. sends[m] + 0 = sends[m] /\ usage[m] + 0 = usage[m] /\ faults[m] + 0 = faults[m]
  BY <1>1
<1> QED
  BY <1>1, <1>2

LEMMA Delivers ==
  ASSUME Inv, NEW w \in Worker,
         \/ Load(w) \/ Connect(w) \/ ProviderAccepts(w) \/ ProviderRejects(w)
         \/ RecordSent(w) \/ RecordUsage(w) \/ MarkFailed(w) \/ Fault(w)
  PROVE  \E x : \E ds, du, df \in {0, 1} : Turn(w, x, ds, du, df)
<1> DEFINE m == worker[w].of
           Goal == \E x : \E ds, du, df \in {0, 1} : Turn(w, x, ds, du, df)
<1>1. worker[w].step # "idle" /\ UNCHANGED <<job, inbound, connected>>
  BY Idles DEF Load, Connect, ProviderAccepts, ProviderRejects, RecordSent, RecordUsage,
     MarkFailed, Fault, At, Inv
<1>2. /\ worker[w] \in WorkerRec /\ m \in Message
      /\ sends = [sends EXCEPT ![m] = @ + 0] /\ usage = [usage EXCEPT ![m] = @ + 0]
      /\ faults = [faults EXCEPT ![m] = @ + 0]
  BY <1>1, WorkerRow, Same DEF Inv, WorkerRec
<1>3. ASSUME UNCHANGED row PROVE \A n \in Message : Live(n)' => Live(n)
  BY <1>3 DEF Live
<1>4. \A s \in Step : Goto(w, s) =>
        \E x \in WorkerRec : /\ worker' = [worker EXCEPT ![w] = x]
                             /\ x.step = s /\ x.of = m
  BY <1>1, Goes DEF Inv, WorkerRec
<1>5. \A ok \in BOOLEAN : Return(w, ok) =>
        \E x \in WorkerRec : /\ worker' = [worker EXCEPT ![w] = x]
                             /\ x.step = "end" /\ x.ok = ok /\ x.of = m
  BY <1>1, Goes DEF Inv, WorkerRec
<1>6. {"load", "connect", "send", "record", "usage", "failing", "end"} \subseteq Step
  BY DEF Step
<1> HIDE DEF m
<1>7. CASE Load(w)
  <2>1. /\ worker[w].step = "load" /\ UNCHANGED <<row, sends, usage, faults>>
        /\ \/ row[m].status = "QUEUED" /\ Goto(w, "connect")
           \/ Return(w, TRUE)
    BY <1>7 DEF Load, At, StillQueued, m
  <2>2. PICK x \in WorkerRec : /\ worker' = [worker EXCEPT ![w] = x] /\ x.of = m
                               /\ \/ x.step = "connect" /\ Live(m)
                                  \/ x.step = "end" /\ x.ok
    BY <1>4, <1>5, <1>6, <2>1 DEF Live
  <2>3. Turn(w, x, 0, 0, 0)
    BY <1>1, <1>2, <1>3, <2>1, <2>2 DEF Turn, Turns, m
  <2> QED
    BY <2>3
<1>8. CASE Connect(w)
  <2>1. /\ worker[w].step = "connect" /\ UNCHANGED <<row, sends, usage, faults>>
        /\ Goto(w, "send") \/ Goto(w, "failing")
    BY <1>8 DEF Connect, At
  <2>2. PICK x \in WorkerRec : /\ worker' = [worker EXCEPT ![w] = x] /\ x.of = m
                               /\ x.step \in {"send", "failing"}
    BY <1>4, <1>6, <2>1
  <2>3. Turn(w, x, 0, 0, 0)
    BY <1>1, <1>2, <1>3, <2>1, <2>2 DEF Turn, Turns, m
  <2> QED
    BY <2>3
<1>9. CASE ProviderAccepts(w)
  <2>1. /\ worker[w].step = "send" /\ UNCHANGED <<row, usage, faults>>
        /\ sends' = [sends EXCEPT ![m] = @ + 1] /\ Goto(w, "record")
    BY <1>9 DEF ProviderAccepts, At, m
  <2>2. PICK x \in WorkerRec : /\ worker' = [worker EXCEPT ![w] = x] /\ x.of = m
                               /\ x.step = "record"
    BY <1>4, <1>6, <2>1
  <2>3. Turn(w, x, 1, 0, 0)
    BY <1>1, <1>2, <1>3, <2>1, <2>2 DEF Turn, Turns, m
  <2> QED
    BY <2>3
<1>10. CASE ProviderRejects(w)
  <2>1. /\ worker[w].step = "send" /\ UNCHANGED <<row, sends, usage, faults>>
        /\ Goto(w, "failing")
    BY <1>10 DEF ProviderRejects, At
  <2>2. PICK x \in WorkerRec : /\ worker' = [worker EXCEPT ![w] = x] /\ x.of = m
                               /\ x.step = "failing"
    BY <1>4, <1>6, <2>1
  <2>3. Turn(w, x, 0, 0, 0)
    BY <1>1, <1>2, <1>3, <2>1, <2>2 DEF Turn, Turns, m
  <2> QED
    BY <2>3
<1>11. CASE RecordSent(w)
  <2>1. /\ worker[w].step = "record" /\ UNCHANGED <<sends, usage, faults>>
        /\ row' = [row EXCEPT ![m] = [status |-> "SENT", providerMessageId |-> TRUE]]
        /\ Goto(w, "usage")
    BY <1>11 DEF RecordSent, At, m
  <2>2. PICK x \in WorkerRec : /\ worker' = [worker EXCEPT ![w] = x] /\ x.of = m
                               /\ x.step = "usage"
    BY <1>4, <1>6, <2>1
  <2>3. Spent(m) /\ \A n \in Message : Live(n)' => Live(n)
    <3>1. row'[m].status = "SENT" /\ \A n \in Message : n # m => row'[n] = row[n]
      BY <1>2, <2>1 DEF Inv, TypeOK
    <3>2. Spent(m)
      BY <3>1 DEF Spent
    <3>3. ASSUME NEW n \in Message, Live(n)' PROVE Live(n)
      <4>1. n # m
        BY <3>1, <3>3 DEF Live
      <4> QED
        BY <3>1, <3>3, <4>1 DEF Live
    <3> QED
      BY <3>2, <3>3
  <2>4. Turn(w, x, 0, 0, 0)
    BY <1>1, <1>2, <2>1, <2>2, <2>3 DEF Turn, Turns, m
  <2> QED
    BY <2>4
<1>12. CASE RecordUsage(w)
  <2>1. /\ worker[w].step = "usage" /\ UNCHANGED <<row, sends, faults>>
        /\ usage' = [usage EXCEPT ![m] = @ + 1] /\ Return(w, TRUE)
    BY <1>12 DEF RecordUsage, At, m
  <2>2. PICK x \in WorkerRec : /\ worker' = [worker EXCEPT ![w] = x] /\ x.of = m
                               /\ x.step = "end" /\ x.ok
    BY <1>5, <2>1
  <2>3. Turn(w, x, 0, 1, 0)
    BY <1>1, <1>2, <1>3, <2>1, <2>2 DEF Turn, Turns, m
  <2> QED
    BY <2>3
<1>13. CASE MarkFailed(w)
  <2>1. /\ worker[w].step = "failing" /\ UNCHANGED <<sends, usage, faults>>
        /\ row' = [row EXCEPT ![m].status = "FAILED"] /\ Return(w, FALSE)
    BY <1>13 DEF MarkFailed, At, m
  <2>2. PICK x \in WorkerRec : /\ worker' = [worker EXCEPT ![w] = x] /\ x.of = m
                               /\ x.step = "end" /\ ~x.ok
    BY <1>5, <2>1
  <2>3. Spent(m) /\ \A n \in Message : Live(n)' => Live(n)
    <3>1. row'[m].status = "FAILED" /\ \A n \in Message : n # m => row'[n] = row[n]
      BY <1>2, <2>1 DEF Inv, TypeOK
    <3>2. Spent(m)
      BY <3>1 DEF Spent
    <3>3. ASSUME NEW n \in Message, Live(n)' PROVE Live(n)
      <4>1. n # m
        BY <3>1, <3>3 DEF Live
      <4> QED
        BY <3>1, <3>3, <4>1 DEF Live
    <3> QED
      BY <3>2, <3>3
  <2>4. Turn(w, x, 0, 0, 0)
    BY <1>1, <1>2, <2>1, <2>2, <2>3 DEF Turn, Fails, m
  <2> QED
    BY <2>4
<1>14. CASE Fault(w)
  <2>1. /\ worker[w].step # "end" /\ faults[m] < MaxFaults /\ UNCHANGED row
        /\ faults' = [faults EXCEPT ![m] = @ + 1]
        /\ \/ worker[w].step \in {"send", "record", "usage"} /\ Goto(w, "failing")
           \/ worker[w].step \notin {"send", "record", "usage"} /\ Return(w, FALSE)
        /\ \/ worker[w].step = "send" /\ sends' = [sends EXCEPT ![m] = @ + 1]
           \/ worker[w].step # "send" /\ sends' = sends
        /\ \/ usage' = usage
           \/ worker[w].step = "usage" /\ usage' = [usage EXCEPT ![m] = @ + 1]
    BY <1>14 DEF Fault, At, m
  <2>2. PICK x \in WorkerRec :
          /\ worker' = [worker EXCEPT ![w] = x] /\ x.of = m
          /\ \/ worker[w].step \in {"send", "record", "usage"} /\ x.step = "failing"
             \/ /\ worker[w].step \notin {"send", "record", "usage"}
                /\ x.step = "end" /\ ~x.ok
    BY <1>4, <1>5, <1>6, <2>1
  <2>3. worker[w].step \in Step
    BY <1>1, WorkerRow DEF Inv
  <2>4. CASE worker[w].step \in {"load", "connect", "failing"}
    <3>1. Turn(w, x, 0, 0, 1)
      BY <1>1, <1>2, <1>3, <2>1, <2>2, <2>4 DEF Turn, Turns, m
    <3> QED
      BY <3>1
  <2>5. CASE worker[w].step = "send"
    <3>1. Turn(w, x, 1, 0, 1)
      BY <1>1, <1>2, <1>3, <2>1, <2>2, <2>5 DEF Turn, Turns, m
    <3> QED
      BY <3>1
  <2>6. CASE worker[w].step = "record"
    <3>1. Turn(w, x, 0, 0, 1)
      BY <1>1, <1>2, <1>3, <2>1, <2>2, <2>6 DEF Turn, Turns, m
    <3> QED
      BY <3>1
  <2>7. CASE worker[w].step = "usage" /\ usage' = usage
    <3>1. Turn(w, x, 0, 0, 1)
      BY <1>1, <1>2, <1>3, <2>1, <2>2, <2>7 DEF Turn, Turns, m
    <3> QED
      BY <3>1
  <2>8. CASE worker[w].step = "usage" /\ usage' = [usage EXCEPT ![m] = @ + 1]
    <3>1. Turn(w, x, 0, 1, 1)
      BY <1>1, <1>2, <1>3, <2>1, <2>2, <2>8 DEF Turn, Turns, m
    <3> QED
      BY <3>1
  <2> QED
    BY <2>1, <2>3, <2>4, <2>5, <2>6, <2>7, <2>8 DEF Step
<1> QED
  BY <1>7, <1>8, <1>9, <1>10, <1>11, <1>12, <1>13, <1>14

-----------------------------------------------------------------------------
(* Types. *)
Rest == UNCHANGED <<job, sender, dead, inbound, connected>>

JobRec == [state : JobState, attemptsMade : 0 .. MaxRetries,
           stalled : 0 .. MaxStalled + 1, lock : Worker \cup {None}]

RowRec == [status : MessageStatus \cup {"ABSENT"}, providerMessageId : BOOLEAN]

LEMMA JobRow ==
  ASSUME Inv, NEW m \in Message
  PROVE  /\ job[m] \in JobRec /\ row[m] \in RowRec
         /\ job[m].attemptsMade \in Nat /\ job[m].stalled \in Nat
         /\ sends[m] \in Nat /\ usage[m] \in Nat /\ faults[m] \in Nat
<1>1. job[m] \in JobRec /\ row[m] \in RowRec
  BY DEF Inv, TypeOK, JobRec, RowRec
<1>2. faults[m] \in Nat /\ sends[m] \in Nat /\ usage[m] \in Nat
  BY BoundsAssumption DEF Inv, TypeOK
<1>3. job[m].attemptsMade \in 0 .. MaxRetries /\ job[m].stalled \in 0 .. MaxStalled + 1
  BY <1>1 DEF JobRec
<1> QED
  BY <1>1, <1>2, <1>3, BoundsAssumption

LEMMA DeliverRows ==
  ASSUME Inv, NEW w \in Worker,
         \/ Load(w) \/ Connect(w) \/ ProviderAccepts(w) \/ ProviderRejects(w)
         \/ RecordSent(w) \/ RecordUsage(w) \/ MarkFailed(w) \/ Fault(w)
  PROVE  Rest /\ row' \in [Message -> RowRec]
<1>1. row \in [Message -> RowRec]
  BY DEF Inv, TypeOK, RowRec
<1>2. CASE RecordSent(w)
  BY <1>1, <1>2 DEF RecordSent, Rest, RowRec, MessageStatus
<1>3. CASE MarkFailed(w)
  BY <1>1, <1>3 DEF MarkFailed, Rest, RowRec, MessageStatus
<1>4. CASE ~RecordSent(w) /\ ~MarkFailed(w)
  BY <1>1, <1>4 DEF Load, Connect, ProviderAccepts, ProviderRejects, RecordUsage,
     Fault, Rest
<1> QED
  BY <1>2, <1>3, <1>4

LEMMA DeliverType ==
  ASSUME Inv, NEW w \in Worker, Rest, row' \in [Message -> RowRec], NEW x,
         NEW ds \in {0, 1}, NEW du \in {0, 1}, NEW df \in {0, 1},
         Turn(w, x, ds, du, df)
  PROVE  Inv'
<1>1. PICK m : m = worker[w].of
  OBVIOUS
<1>2. m \in Message
  BY <1>1 DEF Turn, WorkerRec
<1>3. worker' \in [Worker -> WorkerRec \cup {IdleWorker}]
  BY DEF Turn, Inv, TypeOK, WorkerRec
<1>4. sends' \in [Message -> Nat]
  BY <1>1, <1>2 DEF Turn, Inv, TypeOK
<1>5. usage' \in [Message -> Nat]
  BY <1>1, <1>2 DEF Turn, Inv, TypeOK
<1>6. faults' \in [Message -> 0 .. MaxFaults]
  <2>1. faults[m] \in 0 .. MaxFaults /\ MaxFaults \in Nat
    BY <1>2, BoundsAssumption DEF Inv, TypeOK
  <2>2. df = 1 => faults[m] < MaxFaults
    BY <1>1 DEF Turn
  <2>3. faults[m] + df \in 0 .. MaxFaults
    BY <2>1, <2>2
  <2>4. faults' = [faults EXCEPT ![m] = faults[m] + df]
    BY <1>1 DEF Turn
  <2> QED
    BY <1>2, <2>3, <2>4 DEF Inv, TypeOK
<1>7. TypeOK'
  BY <1>3, <1>4, <1>5, <1>6 DEF Inv, TypeOK, Rest, inbound, RowRec, WorkerRec
<1>8. JobsInv'
  BY DEF Inv, JobsInv, Rest
<1> QED
  BY <1>7, <1>8 DEF Inv

(* What the steps of BullMQ do to jobs and workers. *)
Ends(w) ==
  LET m == worker[w].of IN
  /\ worker[w] \in WorkerRec /\ worker[w].step = "end"
  /\ worker' = [worker EXCEPT ![w] = IdleWorker]
  /\ UNCHANGED <<row, counts>>
  /\ job' \in [Message -> JobRec]
  /\ \A n \in Message : n # m \/ job[m].lock # w => job'[n] = job[n]
  /\ job[m].lock = w =>
       /\ job'[m].lock = None /\ job'[m].stalled = job[m].stalled
       /\ \/ job'[m].state = "waiting" /\ ~worker[w].ok
             /\ job'[m].attemptsMade < MaxRetries
          \/ job'[m].state \in {"completed", "failed"}

Takes(w, m) ==
  /\ worker[w] = IdleWorker /\ job[m].state = "waiting"
  /\ UNCHANGED <<row, counts>>
  /\ job' = [job EXCEPT ![m].state = "active", ![m].lock = w]
  /\ worker' = [worker EXCEPT ![w] = [step |-> "load", of |-> m, ok |-> FALSE]]

Stalls(m) ==
  /\ job[m].state = "active" /\ UNCHANGED <<row, worker, counts>>
  /\ job' \in [Message -> JobRec]
  /\ \A n \in Message : n # m => job'[n] = job[n]
  /\ job'[m].stalled = job[m].stalled + 1 /\ job'[m].lock = None
  /\ job'[m].attemptsMade = job[m].attemptsMade
  /\ \/ job'[m].state = "waiting" /\ job[m].stalled < MaxStalled
     \/ job'[m].state = "failed"

Queues(m) ==
  /\ UNCHANGED <<row, worker, counts>>
  /\ \A n \in Message : job'[n] = job[n] \/
       /\ n = m /\ job[m].state = "none" /\ job'[m].state = "waiting"
       /\ job'[m].lock = None /\ job'[m].stalled = 0

Dies(w) ==
  /\ worker[w] # IdleWorker /\ worker' = [worker EXCEPT ![w] = IdleWorker]
  /\ UNCHANGED <<row, job, counts>>

LEMMA EndsJob ==
  ASSUME Inv, NEW w \in Worker, EndJob(w)
  PROVE  Ends(w) /\ Inv'
<1>1. PICK m : m = worker[w].of
  OBVIOUS
<1>2. worker[w].step = "end"
  BY DEF EndJob, At
<1>3. /\ worker[w] \in WorkerRec /\ m \in Message /\ worker[w].ok \in BOOLEAN
  BY <1>1, <1>2, WorkerRow DEF Inv, WorkerRec
<1>4. job \in [Message -> JobRec] /\ job[m] \in JobRec /\ job[m].attemptsMade \in Nat
  BY <1>3, JobRow DEF Inv, TypeOK, JobRec
<1>5. PICK state : state = IF worker[w].ok THEN "completed"
          ELSE IF ~worker[w].ok /\ MayRetry(job[m].attemptsMade + 1)
               THEN "waiting" ELSE "failed"
  OBVIOUS
<1>6. /\ worker' = [worker EXCEPT ![w] = IdleWorker]
      /\ UNCHANGED <<row, sender, sends, usage, faults, connected, inbound>>
      /\ \/ /\ job[m].lock = w
            /\ job' = [job EXCEPT ![m] = [job[m] EXCEPT !.state = state, !.lock = None,
                                             !.attemptsMade = job[m].attemptsMade + 1]]
            /\ dead' = IF state = "failed" THEN dead \cup {m} ELSE dead
         \/ job[m].lock # w /\ UNCHANGED <<job, dead>>
  BY <1>1, <1>5 DEF EndJob
<1>7. \/ state = "waiting" /\ ~worker[w].ok /\ job[m].attemptsMade + 1 < MaxRetries
      \/ state \in {"completed", "failed"}
  BY <1>5 DEF MayRetry
<1>8. CASE job[m].lock = w
  <2>1. job[m].attemptsMade < MaxRetries /\ job[m].stalled <= MaxStalled
    BY <1>3, <1>8, NamesAssumption DEF Inv, JobsInv
  <2>2. job[m].attemptsMade + 1 \in 0 .. MaxRetries
    BY <1>4, <2>1, BoundsAssumption
  <2> DEFINE y == [job[m] EXCEPT !.state = state, !.lock = None,
                                 !.attemptsMade = job[m].attemptsMade + 1]
  <2>3. /\ y \in JobRec /\ y.lock = None /\ y.stalled = job[m].stalled
        /\ y.state = state /\ y.attemptsMade = job[m].attemptsMade + 1
    BY <1>4, <1>7, <2>2 DEF JobRec, JobState
  <2>4. job' = [job EXCEPT ![m] = y]
    BY <1>6, <1>8
  <2> HIDE DEF y
  <2>5. job' \in [Message -> JobRec] /\ job'[m] = y
        /\ \A n \in Message : n # m => job'[n] = job[n]
    BY <1>3, <1>4, <2>3, <2>4
  <2>6. Ends(w)
    BY <1>1, <1>2, <1>3, <1>6, <1>7, <1>8, <2>3, <2>5 DEF Ends, counts
  <2>7. TypeOK'
    BY <1>3, <1>6, <2>5 DEF Inv, TypeOK, JobRec, inbound
  <2>8. JobsInv'
    BY <1>7, <2>1, <2>3, <2>5 DEF Inv, JobsInv
  <2> QED
    BY <2>6, <2>7, <2>8 DEF Inv
<1>9. CASE job[m].lock # w
  <2>1. UNCHANGED <<job, dead>>
    BY <1>6, <1>9
  <2>2. Ends(w)
    BY <1>1, <1>2, <1>3, <1>4, <1>6, <1>9, <2>1 DEF Ends, counts
  <2>3. TypeOK'
    BY <1>6, <2>1 DEF Inv, TypeOK, inbound
  <2>4. JobsInv'
    BY <2>1 DEF Inv, JobsInv
  <2> QED
    BY <2>2, <2>3, <2>4 DEF Inv
<1> QED
  BY <1>8, <1>9

LEMMA TakesJob ==
  ASSUME Inv, NEW w \in Worker, NEW m \in Message, TakeJob(w, m)
  PROVE  Takes(w, m) /\ Inv'
<1>1. Takes(w, m)
  BY DEF TakeJob, Takes, Waiting, counts
<1>2. job[m] \in JobRec
  BY JobRow
<1> DEFINE y == [job[m] EXCEPT !.state = "active", !.lock = w]
<1>3. /\ y \in JobRec /\ y.state = "active" /\ y.lock = w
      /\ y.attemptsMade = job[m].attemptsMade /\ y.stalled = job[m].stalled
  BY <1>2 DEF JobRec, JobState
<1>4. job' = [job EXCEPT ![m] = y]
  BY <1>1 DEF Takes, Inv, TypeOK
<1> HIDE DEF y
<1>5. job' \in [Message -> JobRec] /\ job'[m] = y
      /\ \A n \in Message : n # m => job'[n] = job[n]
  BY <1>3, <1>4 DEF Inv, TypeOK, JobRec
<1>6. worker' \in [Worker -> WorkerRec \cup {IdleWorker}]
  BY <1>1 DEF Takes, Inv, TypeOK, WorkerRec, Step
<1>7. TypeOK'
  BY <1>5, <1>6 DEF TakeJob, Inv, TypeOK, JobRec, WorkerRec, inbound
<1>8. JobsInv'
  BY <1>1, <1>3, <1>5, NamesAssumption DEF Inv, JobsInv, Takes
<1> QED
  BY <1>1, <1>7, <1>8 DEF Inv

LEMMA StallsJob ==
  ASSUME Inv, NEW m \in Message, StallJob(m)
  PROVE  Stalls(m) /\ Inv'
<1>1. job[m] \in JobRec /\ job[m].state = "active" /\ job[m].stalled \in Nat
      /\ job[m].stalled <= MaxStalled
  BY JobRow DEF StallJob, Inv, JobsInv
<1>2. PICK state : state = StalledState(job[m].stalled)
  OBVIOUS
<1>3. \/ state = "waiting" /\ job[m].stalled < MaxStalled
      \/ state = "failed"
  BY <1>2 DEF StalledState
<1> DEFINE y == [job[m] EXCEPT !.state = state, !.stalled = job[m].stalled + 1, !.lock = None]
<1>4. job' = [job EXCEPT ![m] = y]
  BY <1>2 DEF StallJob, Inv, TypeOK
<1>5. job[m].stalled + 1 \in 0 .. MaxStalled + 1
  BY <1>1, BoundsAssumption
<1>6. /\ y \in JobRec /\ y.state = state /\ y.lock = None
      /\ y.attemptsMade = job[m].attemptsMade /\ y.stalled = job[m].stalled + 1
  BY <1>1, <1>3, <1>5 DEF JobRec, JobState
<1> HIDE DEF y
<1>7. job' \in [Message -> JobRec] /\ job'[m] = y
      /\ \A n \in Message : n # m => job'[n] = job[n]
  BY <1>4, <1>6 DEF Inv, TypeOK, JobRec
<1>8. UNCHANGED <<row, sender, worker, sends, usage, faults, dead, connected, inbound>>
  BY DEF StallJob
<1>9. Stalls(m)
  BY <1>1, <1>3, <1>6, <1>7, <1>8 DEF Stalls, counts
<1>10. TypeOK'
  BY <1>7, <1>8 DEF Inv, TypeOK, JobRec, inbound
<1>11. JobsInv'
  BY <1>1, <1>3, <1>6, <1>7, BoundsAssumption DEF Inv, JobsInv
<1> QED
  BY <1>9, <1>10, <1>11 DEF Inv

LEMMA SenderSteps ==
  ASSUME Inv, SenderNext
  PROVE  Inv' /\ (Calm \/ \E m \in Message : Queues(m))
<1>1. PICK s \in Sender :
        \/ \E batch \in SUBSET Message : StartSending(s, batch)
        \/ \E m \in Message : CreateOutboundMessage(s, m) \/ Enqueue(s, m)
        \/ GiveUpSending(s)
  BY DEF SenderNext
<1>2. ASSUME NEW batch \in SUBSET Message, StartSending(s, batch) PROVE Inv' /\ Calm
  BY <1>2 DEF StartSending, Inv, TypeOK, JobsInv, Calm, counts, Live, inbound
<1>3. CASE GiveUpSending(s)
  BY <1>3 DEF GiveUpSending, Inv, TypeOK, JobsInv, Calm, counts, Live, inbound, Free
<1>4. ASSUME NEW m \in Message, CreateOutboundMessage(s, m) PROVE Inv' /\ Calm
  <2>1. row' \in [Message -> RowRec]
        /\ \A n \in Message : row'[n].status \in {"ABSENT", "QUEUED"} =>
             row[n].status \in {"ABSENT", "QUEUED"}
    <3>1. row \in [Message -> RowRec]
      BY DEF Inv, TypeOK, RowRec
    <3>2. CASE m \in Rows
      BY <1>4, <3>1, <3>2 DEF CreateOutboundMessage
    <3>3. CASE m \notin Rows
      <4>1. row' = [row EXCEPT ![m].status = "QUEUED"] /\ row[m].status = "ABSENT"
        BY <1>4, <3>3 DEF CreateOutboundMessage, Rows
      <4> QED
        BY <3>1, <4>1 DEF RowRec, MessageStatus
    <3> QED
      BY <3>2, <3>3
  <2>2. sender' \in [Sender -> [todo : SUBSET Message, made : SUBSET Message]]
    BY <1>4 DEF CreateOutboundMessage, Inv, TypeOK
  <2>3. UNCHANGED <<job, worker, sends, usage, faults, dead, connected, inbound>>
    BY <1>4 DEF CreateOutboundMessage
  <2> QED
    BY <2>1, <2>2, <2>3 DEF Inv, TypeOK, JobsInv, Calm, counts, Live, inbound, RowRec
<1>5. ASSUME NEW m \in Message, Enqueue(s, m) PROVE Inv' /\ Queues(m)
  <2>1. /\ job' = [job EXCEPT ![m] = AddJob(m)]
        /\ UNCHANGED <<row, worker, sends, usage, faults, dead, connected, inbound>>
        /\ sender' = [sender EXCEPT ![s].made = @ \ {m}]
    BY <1>5 DEF Enqueue
  <2>2. sender' \in [Sender -> [todo : SUBSET Message, made : SUBSET Message]]
    BY <2>1 DEF Inv, TypeOK
  <2>3. \/ job[m].state # "none" /\ AddJob(m) = job[m]
        \/ /\ job[m].state = "none"
           /\ AddJob(m) \in JobRec /\ AddJob(m).state = "waiting"
           /\ AddJob(m).attemptsMade = 0 /\ AddJob(m).stalled = 0
           /\ AddJob(m).lock = None
    BY BoundsAssumption DEF AddJob, NoJob, JobRec, JobState
  <2>4. job' \in [Message -> JobRec] /\ job'[m] = AddJob(m)
        /\ \A n \in Message : n # m => job'[n] = job[n]
    BY <2>1, <2>3 DEF Inv, TypeOK, JobRec
  <2>5. Queues(m)
    BY <2>1, <2>3, <2>4 DEF Queues, counts
  <2>6. JobsInv'
    BY <2>3, <2>4, BoundsAssumption DEF Inv, JobsInv
  <2>7. TypeOK'
    BY <2>1, <2>2, <2>4 DEF Inv, TypeOK, JobRec, inbound
  <2> QED
    BY <2>5, <2>6, <2>7 DEF Inv
<1> QED
  BY <1>1, <1>2, <1>3, <1>4, <1>5

LEMMA HookRow ==
  ASSUME TypeOK, NEW h \in Hook, hook[h].step # "idle"
  PROVE  /\ hook[h] \in [step : {"create", "apply", "mark"}, payload : Payloads]
         /\ hook[h].payload \in Payloads /\ hook[h].payload.event \in Events
         /\ hook[h].payload.report \in Report \cup {"incoming"}
BY DEF TypeOK, IdleHook, Payloads

LEMMA HookSteps ==
  ASSUME Inv, HookNext
  PROVE  Inv' /\ Calm
<1>1. PICK h \in Hook :
        \/ \E p \in Payloads : ReceiveWebhook(h, p)
        \/ StoreEvent(h) \/ ApplyEvent(h) \/ MarkProcessed(h) \/ RejectEvent(h)
        \/ HookDies(h)
  BY DEF HookNext
<1>2. ASSUME UNCHANGED <<row, job, sender, worker, sends, usage, faults, dead, connected>>,
             event' \in [Events -> {"NONE", "RECEIVED", "PROCESSED", "FAILED"}],
             hook' \in [Hook -> [step : {"create", "apply", "mark"}, payload : Payloads]
                               \cup {IdleHook}],
             UNCHANGED applied
      PROVE  Inv' /\ Calm
  BY <1>2 DEF Inv, TypeOK, JobsInv, Calm, counts, Live
<1>3. ASSUME NEW p \in Payloads, ReceiveWebhook(h, p) PROVE Inv' /\ Calm
  BY <1>2, <1>3 DEF ReceiveWebhook, outbound, Inv, TypeOK
<1>4. CASE StoreEvent(h)
  <2>1. hook[h].step = "create" /\ hook[h].step # "idle"
    BY <1>4 DEF StoreEvent
  <2>2. hook' \in [Hook -> [step : {"create", "apply", "mark"}, payload : Payloads]
                           \cup {IdleHook}]
    BY <1>4, <2>1, HookRow DEF StoreEvent, Inv, TypeOK
  <2>3. event' \in [Events -> {"NONE", "RECEIVED", "PROCESSED", "FAILED"}]
    BY <1>4 DEF StoreEvent, Inv, TypeOK
  <2> QED
    BY <1>2, <1>4, <2>2, <2>3 DEF StoreEvent, outbound
<1>5. CASE MarkProcessed(h)
  BY <1>2, <1>5 DEF MarkProcessed, outbound, Inv, TypeOK
<1>6. CASE RejectEvent(h)
  BY <1>2, <1>6 DEF RejectEvent, outbound, Inv, TypeOK
<1>7. CASE HookDies(h)
  BY <1>2, <1>7 DEF HookDies, outbound, Inv, TypeOK
<1>8. CASE ApplyEvent(h)
  <2>1. PICK p \in Payloads : p = hook[h].payload
    BY <1>8, HookRow DEF ApplyEvent, Inv
  <2>2. /\ hook[h].step = "apply" /\ hook[h].step # "idle"
        /\ applied' = [applied EXCEPT ![p.event] = @ + 1]
        /\ row' = IF p.report = "incoming" THEN row
                  ELSE [row EXCEPT ![p.event.of] = Reported(p.event.of, p.report)]
        /\ hook' = [hook EXCEPT ![h].step = "mark"]
        /\ UNCHANGED <<job, sender, worker, sends, usage, faults, dead, event, connected>>
    BY <1>8, <2>1 DEF ApplyEvent
  <2>3. hook' \in [Hook -> [step : {"create", "apply", "mark"}, payload : Payloads]
                           \cup {IdleHook}]
    BY <2>2, HookRow DEF Inv, TypeOK
  <2>4. applied' \in [Events -> Nat]
    <3>1. applied \in [Events -> Nat] /\ p.event \in Events
      BY DEF Inv, TypeOK, Payloads
    <3>2. applied[p.event] + 1 \in Nat
      BY <3>1
    <3> QED
      BY <2>2, <3>1, <3>2
  <2>5. p.report # "incoming" => StatusOf(p.report) \in MessageStatus \ {"QUEUED"}
    <3>1. p.report \in Report \cup {"incoming"}
      BY <2>1 DEF Payloads
    <3> QED
      BY <3>1 DEF Report, StatusOf, MessageStatus
  <2>6. row \in [Message -> RowRec]
    BY DEF Inv, TypeOK, RowRec
  <2>7. ASSUME NEW m \in Message, p.report # "incoming"
        PROVE  /\ Reported(m, p.report) \in RowRec
               /\ Reported(m, p.report).status \in {"ABSENT", "QUEUED"} =>
                    row[m].status \in {"ABSENT", "QUEUED"}
    <3>1. row[m] \in RowRec
      BY <2>6
    <3>2. StatusOf(p.report) \notin {"ABSENT", "QUEUED"}
          /\ StatusOf(p.report) \in MessageStatus
      BY <2>5, <2>7 DEF MessageStatus
    <3>3. CASE row[m].providerMessageId
      <4> DEFINE y == [row[m] EXCEPT !.status = StatusOf(p.report)]
      <4>1. y \in RowRec /\ y.status = StatusOf(p.report)
        BY <3>1, <3>2 DEF RowRec
      <4> QED
        BY <3>2, <3>3, <4>1 DEF Reported
    <3>4. CASE ~row[m].providerMessageId
      BY <3>1, <3>4 DEF Reported
    <3> QED
      BY <3>3, <3>4
  <2>8. /\ row' \in [Message -> RowRec]
        /\ \A m \in Message : row'[m].status \in {"ABSENT", "QUEUED"} =>
                               row[m].status \in {"ABSENT", "QUEUED"}
    BY <2>2, <2>6, <2>7
  <2> QED
    BY <2>2, <2>3, <2>4, <2>8 DEF Inv, TypeOK, JobsInv, Calm, counts, Live, RowRec
<1> QED
  BY <1>1, <1>3, <1>4, <1>5, <1>6, <1>7, <1>8

(* Every step is of one kind. *)
Kind ==
  \/ Calm
  \/ \E m \in Message : Queues(m) \/ Stalls(m)
  \/ \E w \in Worker :
       \/ Ends(w) \/ Dies(w)
       \/ \E m \in Message : Takes(w, m)
       \/ \E x : \E ds, du, df \in {0, 1} : Turn(w, x, ds, du, df)

LEMMA WorkerSteps ==
  ASSUME Inv, WorkerNext
  PROVE  Inv' /\ Kind
<1>1. ASSUME NEW w \in Worker, NEW m \in Message, TakeJob(w, m) PROVE Inv' /\ Kind
  BY <1>1, TakesJob DEF Kind
<1>2. ASSUME NEW w \in Worker, EndJob(w) PROVE Inv' /\ Kind
  BY <1>2, EndsJob DEF Kind
<1>3. ASSUME NEW w \in Worker, WorkerDies(w) PROVE Inv' /\ Kind
  <2>1. Dies(w)
    BY <1>3 DEF WorkerDies, Dies, counts
  <2>2. Inv'
    BY <1>3 DEF WorkerDies, Inv, TypeOK, JobsInv, inbound
  <2> QED
    BY <2>1, <2>2 DEF Kind
<1>4. ASSUME NEW w \in Worker,
             \/ Load(w) \/ Connect(w) \/ ProviderAccepts(w) \/ ProviderRejects(w)
             \/ RecordSent(w) \/ RecordUsage(w) \/ MarkFailed(w) \/ Fault(w)
      PROVE  Inv' /\ Kind
  <2>1. PICK x : \E ds, du, df \in {0, 1} : Turn(w, x, ds, du, df)
    BY <1>4, Delivers
  <2>2. PICK ds \in {0, 1}, du \in {0, 1}, df \in {0, 1} : Turn(w, x, ds, du, df)
    BY <2>1
  <2>3. Inv'
    BY <1>4, <2>2, DeliverRows, DeliverType
  <2> QED
    BY <2>2, <2>3 DEF Kind
<1>5. ASSUME NEW m \in Message, StallJob(m) PROVE Inv' /\ Kind
  BY <1>5, StallsJob DEF Kind
<1>6. ASSUME NEW m \in Message, MarkDeadLetter(m) PROVE Inv' /\ Kind
  <2>1. /\ row' = [row EXCEPT ![m].status = "DEAD_LETTER"] /\ dead' = dead \ {m}
        /\ UNCHANGED <<job, sender, worker, sends, usage, faults, connected, inbound>>
    BY <1>6 DEF MarkDeadLetter
  <2>2. /\ row' \in [Message -> RowRec]
        /\ \A n \in Message : row'[n].status \in {"ABSENT", "QUEUED"} =>
                               row[n].status \in {"ABSENT", "QUEUED"}
    <3>1. row \in [Message -> RowRec]
      BY DEF Inv, TypeOK, RowRec
    <3> QED
      BY <2>1, <3>1 DEF RowRec, MessageStatus
  <2>3. Calm /\ Inv'
    BY <2>1, <2>2 DEF Inv, TypeOK, JobsInv, Calm, counts, Live, inbound, RowRec
  <2> QED
    BY <2>3 DEF Kind
<1>7. ASSUME NEW m \in Message, LoseDeadLetter(m) PROVE Inv' /\ Kind
  BY <1>7 DEF LoseDeadLetter, Inv, TypeOK, JobsInv, Calm, counts, Live, inbound, Kind
<1> QED
  BY <1>1, <1>2, <1>3, <1>4, <1>5, <1>6, <1>7 DEF WorkerNext, Deliver

LEMMA Steps ==
  ASSUME Inv, [Next]_vars
  PROVE  Inv' /\ Kind
<1>1. CASE UNCHANGED vars \/ ConnectSender \/ DisconnectSender
  BY <1>1 DEF vars, outbound, inbound, ConnectSender, DisconnectSender, Inv, TypeOK,
     JobsInv, Calm, counts, Live, Kind
<1>2. CASE SenderNext
  BY <1>2, SenderSteps DEF Kind
<1>3. CASE HookNext
  BY <1>3, HookSteps DEF Kind
<1>4. CASE WorkerNext
  BY <1>4, WorkerSteps
<1> QED
  BY <1>1, <1>2, <1>3, <1>4 DEF Next

LEMMA InvHolds == Spec => []Inv
<1>1. Init => Inv
  BY BoundsAssumption DEF Init, Inv, TypeOK, JobsInv, AbsentRow, NoJob, JobState, Free,
     MessageStatus
<1>2. Inv /\ [Next]_vars => Inv'
  BY Steps
<1> QED
  BY <1>1, <1>2, PTL DEF Spec

(* Types are kept; in particular no job is tried more than                 *)
(* WHATSAPP_MAX_RETRIES times, whatever stalls and dies.                   *)
THEOREM MessagingType == Spec => []TypeOK
<1>1. Inv => TypeOK
  BY DEF Inv
<1> QED
  BY <1>1, InvHolds, PTL

-----------------------------------------------------------------------------
(* Webhooks.  An event has been claimed by the one request that inserted   *)
(* its row; only that request applies it.                                  *)
Claims(h, e) == hook[h].step \in {"apply", "mark"} /\ hook[h].payload.event = e

EventsInv ==
  \A e \in Events :
    /\ event[e] = "NONE" => applied[e] = 0
    /\ event[e] = "PROCESSED" => applied[e] = 1
    /\ applied[e] \in {0, 1}
    /\ \A h \in Hook : Claims(h, e) =>
         /\ event[e] = "RECEIVED"
         /\ applied[e] = IF hook[h].step = "apply" THEN 0 ELSE 1
         /\ \A g \in Hook : Claims(g, e) => g = h

LEMMA EventsSteps ==
  ASSUME Inv, EventsInv, HookNext
  PROVE  EventsInv'
<1>1. PICK h \in Hook :
        \/ \E p \in Payloads : ReceiveWebhook(h, p)
        \/ StoreEvent(h) \/ ApplyEvent(h) \/ MarkProcessed(h) \/ RejectEvent(h)
        \/ HookDies(h)
  BY DEF HookNext
<1>2. /\ hook \in [Hook -> [step : {"create", "apply", "mark"}, payload : Payloads]
                           \cup {IdleHook}]
      /\ event \in [Events -> {"NONE", "RECEIVED", "PROCESSED", "FAILED"}]
      /\ applied \in [Events -> Nat]
  BY DEF Inv, TypeOK
<1>3. IdleHook.step = "idle"
  BY DEF IdleHook
<1>4. ASSUME NEW y, hook' = [hook EXCEPT ![h] = y], y.step \notin {"apply", "mark"},
             UNCHANGED <<event, applied>>
      PROVE  EventsInv'
  <2>1. /\ hook'[h] = y /\ \A g \in Hook : g # h => hook'[g] = hook[g]
    BY <1>2, <1>4
  <2>2. ASSUME NEW e \in Events, NEW g \in Hook
        PROVE  Claims(g, e)' => g # h /\ Claims(g, e) /\ hook'[g] = hook[g]
    BY <1>4, <2>1 DEF Claims
  <2> QED
    BY <1>4, <2>2 DEF EventsInv
<1>5. ASSUME NEW p \in Payloads, ReceiveWebhook(h, p) PROVE EventsInv'
  <2> DEFINE y == [step |-> "create", payload |-> p]
  <2>1. hook' = [hook EXCEPT ![h] = y] /\ UNCHANGED <<event, applied>>
    BY <1>5 DEF ReceiveWebhook
  <2>2. y.step = "create"
    OBVIOUS
  <2> HIDE DEF y
  <2> QED
    BY <1>4, <2>1, <2>2
<1>6. CASE HookDies(h)
  BY <1>3, <1>4, <1>6 DEF HookDies
<1>7. CASE StoreEvent(h) \/ ApplyEvent(h) \/ MarkProcessed(h) \/ RejectEvent(h)
  <2>1. PICK e \in Events : e = hook[h].payload.event
    BY <1>7, HookRow DEF StoreEvent, ApplyEvent, MarkProcessed, RejectEvent, Inv
  <2>2. hook[h].step \in {"create", "apply", "mark"}
    BY <1>7 DEF StoreEvent, ApplyEvent, MarkProcessed, RejectEvent
  <2>3. hook[h] \in [step : {"create", "apply", "mark"}, payload : Payloads]
    BY <2>2, HookRow DEF Inv
  <2>4. CASE StoreEvent(h) /\ event[e] # "NONE"
    BY <1>3, <1>4, <2>1, <2>4 DEF StoreEvent, EventUnknown
  <2>5. CASE StoreEvent(h) /\ event[e] = "NONE"
    <3>1. /\ hook[h].step = "create" /\ event' = [event EXCEPT ![e] = "RECEIVED"]
          /\ hook' = [hook EXCEPT ![h].step = "apply"] /\ UNCHANGED applied
      BY <2>1, <2>5 DEF StoreEvent, EventUnknown
    <3>2. /\ hook'[h].step = "apply" /\ hook'[h].payload.event = e
          /\ \A g \in Hook : g # h => hook'[g] = hook[g]
      BY <1>2, <2>1, <2>3, <3>1
    <3>3. event'[e] = "RECEIVED" /\ \A d \in Events : d # e => event'[d] = event[d]
      BY <1>2, <3>1
    <3>4. \A g \in Hook : ~Claims(g, e)
      BY <2>5 DEF EventsInv
    <3>5. /\ \A g \in Hook : Claims(g, e)' => g = h
          /\ \A g \in Hook : \A d \in Events : d # e /\ Claims(g, d)' =>
               Claims(g, d) /\ hook'[g] = hook[g]
      BY <3>2, <3>4 DEF Claims
    <3>6. applied[e] = 0
      BY <2>5 DEF EventsInv
    <3>7. ASSUME NEW d \in Events
          PROVE  /\ event'[d] = "NONE" => applied'[d] = 0
                 /\ event'[d] = "PROCESSED" => applied'[d] = 1
                 /\ applied'[d] \in {0, 1}
                 /\ \A g \in Hook : Claims(g, d)' =>
                      /\ event'[d] = "RECEIVED"
                      /\ applied'[d] = IF hook'[g].step = "apply" THEN 0 ELSE 1
                      /\ \A f \in Hook : Claims(f, d)' => f = g
      <4>1. CASE d = e
        BY <3>1, <3>2, <3>3, <3>5, <3>6, <4>1
      <4>2. CASE d # e
        <5>1. /\ event'[d] = event[d] /\ applied'[d] = applied[d]
              /\ \A g \in Hook : Claims(g, d)' => Claims(g, d) /\ hook'[g] = hook[g]
          BY <3>1, <3>3, <3>5, <4>2
        <5>2. /\ event[d] = "NONE" => applied[d] = 0
              /\ event[d] = "PROCESSED" => applied[d] = 1
              /\ applied[d] \in {0, 1}
              /\ \A g \in Hook : Claims(g, d) =>
                   /\ event[d] = "RECEIVED"
                   /\ applied[d] = IF hook[g].step = "apply" THEN 0 ELSE 1
                   /\ \A f \in Hook : Claims(f, d) => f = g
          BY DEF EventsInv
        <5> QED
          BY <5>1, <5>2
      <4> QED
        BY <4>1, <4>2
    <3> QED
      BY <3>7 DEF EventsInv
  <2>6. CASE ApplyEvent(h)
    <3>1. /\ hook[h].step = "apply" /\ applied' = [applied EXCEPT ![e] = @ + 1]
          /\ hook' = [hook EXCEPT ![h].step = "mark"] /\ UNCHANGED event
      BY <2>1, <2>6 DEF ApplyEvent
    <3>2. /\ hook'[h].step = "mark" /\ hook'[h].payload.event = e
          /\ \A g \in Hook : g # h => hook'[g] = hook[g]
      BY <1>2, <2>1, <2>3, <3>1
    <3>3. applied'[e] = applied[e] + 1 /\ \A d \in Events : d # e => applied'[d] = applied[d]
      BY <1>2, <3>1
    <3>4. Claims(h, e)
      BY <2>1, <3>1 DEF Claims
    <3>5. /\ event[e] = "RECEIVED" /\ applied[e] = 0
          /\ \A g \in Hook : Claims(g, e) => g = h
      BY <3>1, <3>4 DEF EventsInv
    <3>6. /\ \A g \in Hook : Claims(g, e)' => g = h
          /\ \A g \in Hook : \A d \in Events : d # e /\ Claims(g, d)' =>
               Claims(g, d) /\ hook'[g] = hook[g]
      BY <3>2, <3>5 DEF Claims
    <3>7. ASSUME NEW d \in Events
          PROVE  /\ event'[d] = "NONE" => applied'[d] = 0
                 /\ event'[d] = "PROCESSED" => applied'[d] = 1
                 /\ applied'[d] \in {0, 1}
                 /\ \A g \in Hook : Claims(g, d)' =>
                      /\ event'[d] = "RECEIVED"
                      /\ applied'[d] = IF hook'[g].step = "apply" THEN 0 ELSE 1
                      /\ \A f \in Hook : Claims(f, d)' => f = g
      <4>1. CASE d = e
        BY <3>1, <3>2, <3>3, <3>5, <3>6, <4>1
      <4>2. CASE d # e
        <5>1. /\ event'[d] = event[d] /\ applied'[d] = applied[d]
              /\ \A g \in Hook : Claims(g, d)' => Claims(g, d) /\ hook'[g] = hook[g]
          BY <3>1, <3>3, <3>6, <4>2
        <5>2. /\ event[d] = "NONE" => applied[d] = 0
              /\ event[d] = "PROCESSED" => applied[d] = 1
              /\ applied[d] \in {0, 1}
              /\ \A g \in Hook : Claims(g, d) =>
                   /\ event[d] = "RECEIVED"
                   /\ applied[d] = IF hook[g].step = "apply" THEN 0 ELSE 1
                   /\ \A f \in Hook : Claims(f, d) => f = g
          BY DEF EventsInv
        <5> QED
          BY <5>1, <5>2
      <4> QED
        BY <4>1, <4>2
    <3> QED
      BY <3>7 DEF EventsInv
  <2>7. CASE MarkProcessed(h) \/ RejectEvent(h)
    <3>1. /\ hook' = [hook EXCEPT ![h] = IdleHook] /\ UNCHANGED applied
          /\ \/ hook[h].step = "mark" /\ event' = [event EXCEPT ![e] = "PROCESSED"]
             \/ hook[h].step \in {"apply", "mark"} /\ event' = [event EXCEPT ![e] = "FAILED"]
      BY <2>1, <2>7 DEF MarkProcessed, RejectEvent
    <3>2. hook'[h] = IdleHook /\ \A g \in Hook : g # h => hook'[g] = hook[g]
      BY <1>2, <3>1
    <3>3. /\ (hook[h].step = "mark" /\ event'[e] = "PROCESSED") \/ event'[e] = "FAILED"
          /\ \A d \in Events : d # e => event'[d] = event[d]
      BY <1>2, <3>1
    <3>4. Claims(h, e)
      BY <2>1, <3>1 DEF Claims
    <3>5. /\ hook[h].step = "mark" => applied[e] = 1
          /\ applied[e] \in {0, 1}
          /\ \A g \in Hook : Claims(g, e) => g = h
      BY <3>4 DEF EventsInv
    <3>6. /\ \A g \in Hook : ~Claims(g, e)'
          /\ \A g \in Hook : \A d \in Events : d # e /\ Claims(g, d)' =>
               Claims(g, d) /\ hook'[g] = hook[g]
      BY <1>3, <3>2, <3>5 DEF Claims
    <3>7. ASSUME NEW d \in Events
          PROVE  /\ event'[d] = "NONE" => applied'[d] = 0
                 /\ event'[d] = "PROCESSED" => applied'[d] = 1
                 /\ applied'[d] \in {0, 1}
                 /\ \A g \in Hook : Claims(g, d)' =>
                      /\ event'[d] = "RECEIVED"
                      /\ applied'[d] = IF hook'[g].step = "apply" THEN 0 ELSE 1
                      /\ \A f \in Hook : Claims(f, d)' => f = g
      <4>1. CASE d = e
        BY <3>1, <3>3, <3>5, <3>6, <4>1
      <4>2. CASE d # e
        <5>1. /\ event'[d] = event[d] /\ applied'[d] = applied[d]
              /\ \A g \in Hook : Claims(g, d)' => Claims(g, d) /\ hook'[g] = hook[g]
          BY <3>1, <3>3, <3>6, <4>2
        <5>2. /\ event[d] = "NONE" => applied[d] = 0
              /\ event[d] = "PROCESSED" => applied[d] = 1
              /\ applied[d] \in {0, 1}
              /\ \A g \in Hook : Claims(g, d) =>
                   /\ event[d] = "RECEIVED"
                   /\ applied[d] = IF hook[g].step = "apply" THEN 0 ELSE 1
                   /\ \A f \in Hook : Claims(f, d) => f = g
          BY DEF EventsInv
        <5> QED
          BY <5>1, <5>2
      <4> QED
        BY <4>1, <4>2
    <3> QED
      BY <3>7 DEF EventsInv
  <2> QED
    BY <1>7, <2>4, <2>5, <2>6, <2>7
<1> QED
  BY <1>1, <1>5, <1>6, <1>7

LEMMA OtherThanHooks ==
  ASSUME [Next]_vars, ~HookNext
  PROVE  UNCHANGED <<event, hook, applied>>
<1>1. CASE SenderNext
  BY <1>1 DEF SenderNext, StartSending, CreateOutboundMessage, Enqueue, GiveUpSending,
     inbound
<1>2. CASE WorkerNext
  BY <1>2 DEF WorkerNext, TakeJob, Deliver, Load, Connect, ProviderAccepts,
     ProviderRejects, RecordSent, RecordUsage, MarkFailed, EndJob, Fault, WorkerDies,
     StallJob, MarkDeadLetter, LoseDeadLetter, inbound
<1> QED
  BY <1>1, <1>2 DEF Next, vars, ConnectSender, DisconnectSender, inbound

LEMMA EventsHold == Spec => []EventsInv
<1>1. Init => EventsInv
  BY DEF Init, EventsInv, Claims, IdleHook
<1>2. Inv /\ EventsInv /\ [Next]_vars => EventsInv'
  <2> SUFFICES ASSUME Inv, EventsInv, [Next]_vars PROVE EventsInv'
    OBVIOUS
  <2>1. CASE HookNext
    BY <2>1, EventsSteps
  <2>2. CASE ~HookNext
    BY <2>2, OtherThanHooks DEF EventsInv, Claims
  <2> QED
    BY <2>1, <2>2
<1> QED
  BY <1>1, <1>2, InvHolds, PTL DEF Spec

(* processWebhookEvent and the unique index of the event: however often the *)
(* provider repeats an event and whichever request dies, it is applied at  *)
(* most once, and PROCESSED means applied.                                 *)
THEOREM EventsAppliedOnceHolds == Spec => []EventsAppliedOnce
<1>1. EventsInv => EventsAppliedOnce
  BY DEF EventsInv, EventsAppliedOnce
<1> QED
  BY <1>1, EventsHold, PTL

(* A request that steps on another event leaves this one as it is. *)
LEMMA OtherEvent ==
  ASSUME TypeOK, NEW e \in Events, Dropped(e), NEW h \in Hook, NEW y,
         hook' = [hook EXCEPT ![h] = y], y.step = "apply" => y.payload.event # e,
         event'[e] = event[e], applied'[e] = applied[e]
  PROVE  Dropped(e)'
<1>1. hook'[h] = y /\ \A g \in Hook : g # h => hook'[g] = hook[g]
  BY DEF TypeOK
<1> QED
  BY <1>1 DEF Dropped

LEMMA DroppedSteps ==
  ASSUME Inv, EventsInv, HookNext, NEW e \in Events, Dropped(e)
  PROVE  Dropped(e)'
<1>1. PICK h \in Hook :
        \/ \E p \in Payloads : ReceiveWebhook(h, p)
        \/ StoreEvent(h) \/ ApplyEvent(h) \/ MarkProcessed(h) \/ RejectEvent(h)
        \/ HookDies(h)
  BY DEF HookNext
<1>2. /\ IdleHook.step = "idle" /\ TypeOK
      /\ event \in [Events -> {"NONE", "RECEIVED", "PROCESSED", "FAILED"}]
      /\ applied \in [Events -> Nat]
  BY DEF IdleHook, Inv, TypeOK
<1>3. ASSUME NEW p \in Payloads, ReceiveWebhook(h, p) PROVE Dropped(e)'
  <2> DEFINE y == [step |-> "create", payload |-> p]
  <2>1. hook' = [hook EXCEPT ![h] = y] /\ UNCHANGED <<event, applied>>
    BY <1>3 DEF ReceiveWebhook
  <2>2. y.step # "apply"
    OBVIOUS
  <2> HIDE DEF y
  <2> QED
    BY <1>2, <2>1, <2>2, OtherEvent
<1>4. CASE HookDies(h)
  BY <1>2, <1>4, OtherEvent DEF HookDies
<1>5. ~Claims(h, e)
  BY DEF EventsInv, Dropped, Claims
<1>6. CASE StoreEvent(h) \/ ApplyEvent(h) \/ MarkProcessed(h) \/ RejectEvent(h)
  <2>1. PICK d \in Events : d = hook[h].payload.event
    BY <1>6, HookRow DEF StoreEvent, ApplyEvent, MarkProcessed, RejectEvent, Inv
  <2>2. hook[h] \in [step : {"create", "apply", "mark"}, payload : Payloads]
    BY <1>6, HookRow DEF StoreEvent, ApplyEvent, MarkProcessed, RejectEvent, Inv
  <2>3. CASE StoreEvent(h) /\ event[d] # "NONE"
    BY <1>2, <2>1, <2>3, OtherEvent DEF StoreEvent, EventUnknown
  <2>4. CASE StoreEvent(h) /\ event[d] = "NONE"
    <3>1. d # e
      BY <2>4 DEF Dropped
    <3>2. /\ event' = [event EXCEPT ![d] = "RECEIVED"] /\ UNCHANGED applied
          /\ hook' = [hook EXCEPT ![h].step = "apply"]
      BY <2>1, <2>4 DEF StoreEvent, EventUnknown
    <3>3. PICK y : y = [hook[h] EXCEPT !.step = "apply"]
      OBVIOUS
    <3>4. hook' = [hook EXCEPT ![h] = y]
      BY <3>2, <3>3
    <3>5. y.payload.event = d
      BY <2>1, <2>2, <3>3
    <3>6. event'[e] = event[e]
      BY <1>2, <3>1, <3>2
    <3> QED
      BY <1>2, <3>1, <3>2, <3>4, <3>5, <3>6, OtherEvent
  <2>5. CASE ApplyEvent(h)
    <3>1. d # e
      BY <1>5, <2>1, <2>5 DEF ApplyEvent, Claims
    <3>2. /\ applied' = [applied EXCEPT ![d] = @ + 1] /\ UNCHANGED event
          /\ hook' = [hook EXCEPT ![h].step = "mark"]
      BY <2>1, <2>5 DEF ApplyEvent
    <3>3. PICK y : y = [hook[h] EXCEPT !.step = "mark"]
      OBVIOUS
    <3>4. hook' = [hook EXCEPT ![h] = y] /\ y.step = "mark"
      BY <2>2, <3>2, <3>3
    <3>5. applied'[e] = applied[e]
      BY <1>2, <3>1, <3>2
    <3> QED
      BY <1>2, <3>2, <3>4, <3>5, OtherEvent
  <2>6. CASE MarkProcessed(h) \/ RejectEvent(h)
    <3>1. d # e
      BY <1>5, <2>1, <2>6 DEF MarkProcessed, RejectEvent, Claims
    <3>2. /\ hook' = [hook EXCEPT ![h] = IdleHook] /\ UNCHANGED applied
          /\ \/ event' = [event EXCEPT ![d] = "PROCESSED"]
             \/ event' = [event EXCEPT ![d] = "FAILED"]
      BY <2>1, <2>6 DEF MarkProcessed, RejectEvent
    <3>3. event'[e] = event[e]
      BY <1>2, <3>1, <3>2
    <3> QED
      BY <1>2, <3>2, <3>3, OtherEvent
  <2> QED
    BY <1>6, <2>3, <2>4, <2>5, <2>6
<1> QED
  BY <1>1, <1>3, <1>4, <1>6

(* A noted event whose request is gone is never applied, whatever the      *)
(* provider repeats: processWebhookEvent answers every later delivery as a *)
(* duplicate, or is refused by the unique index.                           *)
THEOREM DroppedStaysDroppedHolds == Spec => DroppedStaysDropped
<1>1. ASSUME Inv, EventsInv, [Next]_vars, NEW e \in Events, Dropped(e)
      PROVE  Dropped(e)'
  <2>1. CASE HookNext
    BY <1>1, <2>1, DroppedSteps
  <2>2. CASE ~HookNext
    <3>1. UNCHANGED <<event, hook, applied>>
      BY <1>1, <2>2, OtherThanHooks
    <3> QED
      BY <1>1, <3>1 DEF Dropped
  <2> QED
    BY <2>1, <2>2
<1>2. Inv /\ EventsInv /\ [Next]_vars => [\A e \in Events : Dropped(e) => Dropped(e)']_vars
  BY <1>1
<1> QED
  BY <1>2, InvHolds, EventsHold, PTL DEF Spec, DroppedStaysDropped

-----------------------------------------------------------------------------
(* How often a message is sent.  Carriers are the workers that can still   *)
(* send it without anything else going wrong.  Half a sending is pending   *)
(* with a holder of the job that is about to mark the row: one fault and   *)
(* the row stays QUEUED for the next attempt.  A whole one is pending with *)
(* a job that waits, or will wait, while the row is QUEUED.                *)
Holds(w, m) == job[m].state = "active" /\ job[m].lock = w /\ On(w, m)

Carriers(m) ==
  {w \in Worker : /\ On(w, m)
                  /\ \/ worker[w].step \in {"connect", "send"}
                     \/ worker[w].step = "load" /\ Live(m)}

Pending(m) ==
  IF ~Live(m) THEN 0
  ELSE IF job[m].state \in {"none", "waiting"} THEN 2
  ELSE IF \E w \in Worker : Holds(w, m) /\ worker[w].step = "end" /\ ~worker[w].ok THEN 2
  ELSE IF \E w \in Worker : Holds(w, m) /\ worker[w].step = "failing" THEN 1
  ELSE 0

SendsBound(m) ==
  2 * sends[m] + 2 * Cardinality(Carriers(m)) + Pending(m)
    <= 2 + 2 * job[m].stalled + faults[m]

SendsInv == \A m \in Message : SendsBound(m)

(* Who is charged for it.  Uncharged workers have sent it and not yet      *)
(* recorded the usage; loose ones lost the job's lock and may still send.  *)
(* One sending is owed by an active job whose holder has sent it or died.  *)
Uncharged(m) ==
  {w \in Worker : On(w, m) /\ worker[w].step \in {"record", "usage"}}

Loose(m) ==
  {w \in Worker : /\ On(w, m) /\ job[m].lock # w
                  /\ worker[w].step \in {"load", "connect", "send"}}

Owed(m) ==
  IF /\ job[m].state = "active"
     /\ \A w \in Worker : Holds(w, m) => worker[w].step \in {"record", "usage"}
  THEN 1 ELSE 0

UsageBound(m) ==
  /\ usage[m] + Cardinality(Uncharged(m)) <= sends[m]
  /\ sends[m] + Cardinality(Loose(m))
       <= usage[m] + job[m].stalled + faults[m] + Owed(m)

UsageInv == \A m \in Message : UsageBound(m)

Counts(m) == SendsBound(m) /\ UsageBound(m)

(* Sets of workers are finite, and shrink, lose or gain one. *)
LEMMA Workers ==
  /\ \A S \in SUBSET Worker : IsFiniteSet(S) /\ Cardinality(S) \in Nat
  /\ \A S, T \in SUBSET Worker : S \subseteq T => Cardinality(S) <= Cardinality(T)
  /\ \A S, T \in SUBSET Worker : \A w \in T :
       S \subseteq T \ {w} => Cardinality(S) <= Cardinality(T) - 1
  /\ \A S, T \in SUBSET Worker : \A w \in Worker :
       S \subseteq T \cup {w} => Cardinality(S) <= Cardinality(T) + 1
<1>1. \A S \in SUBSET Worker : IsFiniteSet(S) /\ Cardinality(S) \in Nat
  BY WorkersAssumption, FS_Subset, FS_CardinalityType
<1>2. \A S, T \in SUBSET Worker : S \subseteq T => Cardinality(S) <= Cardinality(T)
  BY <1>1, FS_Subset
<1>3. ASSUME NEW S \in SUBSET Worker, NEW T \in SUBSET Worker, NEW w \in T,
             S \subseteq T \ {w}
      PROVE  Cardinality(S) <= Cardinality(T) - 1
  <2>1. Cardinality(T \ {w}) = Cardinality(T) - 1
    BY <1>1, FS_RemoveElement
  <2>2. Cardinality(S) <= Cardinality(T \ {w})
    BY <1>2, <1>3
  <2> QED
    BY <2>1, <2>2
<1>4. ASSUME NEW S \in SUBSET Worker, NEW T \in SUBSET Worker, NEW w \in Worker,
             S \subseteq T \cup {w}
      PROVE  Cardinality(S) <= Cardinality(T) + 1
  <2>1. Cardinality(S) <= Cardinality(T \cup {w})
    BY <1>2, <1>4
  <2>2. Cardinality(T \cup {w}) <= Cardinality(T) + 1
    <3>1. Cardinality(T) \in Nat
      BY <1>1
    <3>2. Cardinality(T \cup {w}) = Cardinality(T)
          \/ Cardinality(T \cup {w}) = Cardinality(T) + 1
      BY <1>1, FS_AddElement
    <3> QED
      BY <3>1, <3>2
  <2>3. Cardinality(S) \in Nat /\ Cardinality(T) \in Nat /\ Cardinality(T \cup {w}) \in Nat
    BY <1>1
  <2> QED
    BY <2>1, <2>2, <2>3
<1> QED
  BY <1>1, <1>2, <1>3, <1>4

LEMMA Sizes ==
  ASSUME NEW m
  PROVE  /\ Carriers(m) \in SUBSET Worker /\ Uncharged(m) \in SUBSET Worker
         /\ Loose(m) \in SUBSET Worker
         /\ Pending(m) \in {0, 1, 2} /\ Owed(m) \in {0, 1}
         /\ Cardinality(Carriers(m)) \in Nat /\ Cardinality(Uncharged(m)) \in Nat
         /\ Cardinality(Loose(m)) \in Nat
<1>1. /\ Carriers(m) \in SUBSET Worker /\ Uncharged(m) \in SUBSET Worker
      /\ Loose(m) \in SUBSET Worker
  BY DEF Carriers, Uncharged, Loose
<1>2. Pending(m) \in {0, 1, 2} /\ Owed(m) \in {0, 1}
  BY DEF Pending, Owed
<1> QED
  BY <1>1, <1>2, Workers

LEMMA SizesNext ==
  ASSUME NEW m
  PROVE  /\ Carriers(m)' \in SUBSET Worker /\ Uncharged(m)' \in SUBSET Worker
         /\ Loose(m)' \in SUBSET Worker
         /\ Pending(m)' \in {0, 1, 2} /\ Owed(m)' \in {0, 1}
         /\ Cardinality(Carriers(m)') \in Nat /\ Cardinality(Uncharged(m)') \in Nat
         /\ Cardinality(Loose(m)') \in Nat
<1>1. /\ Carriers(m)' \in SUBSET Worker /\ Uncharged(m)' \in SUBSET Worker
      /\ Loose(m)' \in SUBSET Worker
  BY DEF Carriers, Uncharged, Loose
<1>2. Pending(m)' \in {0, 1, 2} /\ Owed(m)' \in {0, 1}
  BY DEF Pending, Owed
<1> QED
  BY <1>1, <1>2, Workers

(* The arithmetic of a step: with the changes of the counts and bounds on  *)
(* the changes of the sets, both bounds carry over.                        *)
Change(m, ds, du, df, dt, dc, dp, dn, dl, dO) ==
  /\ sends'[m] = sends[m] + ds /\ usage'[m] = usage[m] + du
  /\ faults'[m] = faults[m] + df /\ job'[m].stalled = job[m].stalled + dt
  /\ Cardinality(Carriers(m)') <= Cardinality(Carriers(m)) + dc
  /\ Pending(m)' <= Pending(m) + dp
  /\ Cardinality(Uncharged(m)') <= Cardinality(Uncharged(m)) + dn
  /\ Cardinality(Loose(m)') <= Cardinality(Loose(m)) + dl
  /\ Owed(m)' >= Owed(m) + dO
  /\ 2 * ds + 2 * dc + dp <= 2 * dt + df
  /\ du + dn <= ds
  /\ ds + dl <= du + dt + df + dO

LEMMA Changes ==
  ASSUME Inv, NEW m \in Message, Counts(m),
         NEW ds \in Int, NEW du \in Int, NEW df \in Int, NEW dt \in Int, NEW dc \in Int,
         NEW dp \in Int, NEW dn \in Int, NEW dl \in Int, NEW dO \in Int,
         Change(m, ds, du, df, dt, dc, dp, dn, dl, dO)
  PROVE  Counts(m)'
<1>1. PICK s, u, f, t \in Nat : /\ s = sends[m] /\ u = usage[m] /\ f = faults[m]
                               /\ t = job[m].stalled
  BY JobRow
<1>2. PICK c, n, l \in Nat : /\ c = Cardinality(Carriers(m))
                            /\ n = Cardinality(Uncharged(m))
                            /\ l = Cardinality(Loose(m))
  BY Sizes
<1>3. PICK c2, n2, l2 \in Nat : /\ c2 = Cardinality(Carriers(m)')
                               /\ n2 = Cardinality(Uncharged(m)')
                               /\ l2 = Cardinality(Loose(m)')
  BY SizesNext
<1>4. PICK p, p2, o, o2 \in Int : /\ p = Pending(m) /\ p2 = Pending(m)'
                                 /\ o = Owed(m) /\ o2 = Owed(m)'
  BY Sizes, SizesNext
<1>5. /\ 2 * s + 2 * c + p <= 2 + 2 * t + f
      /\ u + n <= s /\ s + l <= u + t + f + o
  BY <1>1, <1>2, <1>4 DEF Counts, SendsBound, UsageBound
<1>6. /\ c2 <= c + dc /\ p2 <= p + dp /\ n2 <= n + dn /\ l2 <= l + dl /\ o2 >= o + dO
      /\ 2 * ds + 2 * dc + dp <= 2 * dt + df
      /\ du + dn <= ds /\ ds + dl <= du + dt + df + dO
  BY <1>2, <1>3, <1>4 DEF Change
<1>7. 2 * (s + ds) + 2 * c2 + p2 <= 2 + 2 * (t + dt) + (f + df)
  BY <1>5, <1>6
<1>8. (u + du) + n2 <= s + ds /\ (s + ds) + l2 <= (u + du) + (t + dt) + (f + df) + o2
  BY <1>5, <1>6
<1>9. /\ sends'[m] = s + ds /\ usage'[m] = u + du /\ faults'[m] = f + df
      /\ job'[m].stalled = t + dt
  BY <1>1 DEF Change
<1>10. SendsBound(m)'
  BY <1>3, <1>4, <1>7, <1>9 DEF SendsBound
<1>11. UsageBound(m)'
  BY <1>3, <1>4, <1>8, <1>9 DEF UsageBound
<1> QED
  BY <1>10, <1>11 DEF Counts

(* The bounds on the sets, from how the sets change. *)
LEMMA Sets ==
  ASSUME NEW m
  PROVE  /\ Carriers(m)' \subseteq Carriers(m) =>
              Cardinality(Carriers(m)') <= Cardinality(Carriers(m)) + 0
         /\ Uncharged(m)' \subseteq Uncharged(m) =>
              Cardinality(Uncharged(m)') <= Cardinality(Uncharged(m)) + 0
         /\ Loose(m)' \subseteq Loose(m) =>
              Cardinality(Loose(m)') <= Cardinality(Loose(m)) + 0
         /\ \A w \in Carriers(m) : Carriers(m)' \subseteq Carriers(m) \ {w} =>
              Cardinality(Carriers(m)') <= Cardinality(Carriers(m)) + (-1)
         /\ \A w \in Uncharged(m) : Uncharged(m)' \subseteq Uncharged(m) \ {w} =>
              Cardinality(Uncharged(m)') <= Cardinality(Uncharged(m)) + (-1)
         /\ \A w \in Loose(m) : Loose(m)' \subseteq Loose(m) \ {w} =>
              Cardinality(Loose(m)') <= Cardinality(Loose(m)) + (-1)
         /\ \A w \in Worker : Carriers(m)' \subseteq Carriers(m) \cup {w} =>
              Cardinality(Carriers(m)') <= Cardinality(Carriers(m)) + 1
         /\ \A w \in Worker : Uncharged(m)' \subseteq Uncharged(m) \cup {w} =>
              Cardinality(Uncharged(m)') <= Cardinality(Uncharged(m)) + 1
         /\ \A w \in Worker : Loose(m)' \subseteq Loose(m) \cup {w} =>
              Cardinality(Loose(m)') <= Cardinality(Loose(m)) + 1
<1>1. \A S, T \in SUBSET Worker :
        /\ S \subseteq T => Cardinality(S) <= Cardinality(T) + 0
        /\ \A w \in T : S \subseteq T \ {w} => Cardinality(S) <= Cardinality(T) + (-1)
        /\ \A w \in Worker : S \subseteq T \cup {w} => Cardinality(S) <= Cardinality(T) + 1
  <2> TAKE S, T \in SUBSET Worker
  <2>1. Cardinality(S) \in Nat /\ Cardinality(T) \in Nat
    BY Workers
  <2>2. Cardinality(T) + 0 = Cardinality(T) /\ Cardinality(T) + (-1) = Cardinality(T) - 1
    BY <2>1
  <2> QED
    BY <2>2, Workers
<1> QED
  BY <1>1, Sizes, SizesNext

Level(m) == Change(m, 0, 0, 0, 0, 0, 0, 0, 0, 0)

(* Nothing of m changes, or a worker leaves it. *)
LEMMA Leaving ==
  ASSUME Inv, NEW m \in Message, NEW w \in Worker, NEW y,
         worker' = [worker EXCEPT ![w] = y], y = IdleWorker \/ y.of # m,
         job'[m] = job[m], row'[m].status \in {"ABSENT", "QUEUED"} => Live(m),
         sends'[m] = sends[m], usage'[m] = usage[m], faults'[m] = faults[m]
  PROVE  Level(m)
<1>1. /\ worker'[w] = y /\ \A v \in Worker : v # w => worker'[v] = worker[v]
  BY DEF Inv, TypeOK
<1>2. \A v \in Worker : On(v, m)' => v # w /\ On(v, m) /\ worker'[v] = worker[v]
  BY <1>1 DEF On
<1>3. Live(m)' => Live(m)
  BY DEF Live
<1>4. Carriers(m)' \subseteq Carriers(m)
  BY <1>2, <1>3 DEF Carriers
<1>5. Uncharged(m)' \subseteq Uncharged(m)
  BY <1>2 DEF Uncharged
<1>6. Loose(m)' \subseteq Loose(m)
  BY <1>2 DEF Loose
<1>7. \A v \in Worker : Holds(v, m)' => Holds(v, m) /\ worker'[v] = worker[v]
  BY <1>2 DEF Holds
<1>8. Pending(m)' <= Pending(m) + 0
  BY <1>3, <1>7 DEF Pending
<1>9. Owed(m)' >= Owed(m) + 0
  BY <1>7 DEF Owed
<1>10. job[m].stalled \in Nat /\ sends[m] \in Nat /\ usage[m] \in Nat /\ faults[m] \in Nat
  BY JobRow
<1> QED
  BY <1>4, <1>5, <1>6, <1>8, <1>9, <1>10, Sets DEF Level, Change

(* The same when no worker moves. *)
LEMMA Resting ==
  ASSUME Inv, NEW m \in Message, UNCHANGED worker,
         job'[m] = job[m], row'[m].status \in {"ABSENT", "QUEUED"} => Live(m),
         sends'[m] = sends[m], usage'[m] = usage[m], faults'[m] = faults[m]
  PROVE  Level(m)
<1>1. \A v \in Worker : On(v, m)' = On(v, m) /\ Holds(v, m)' = Holds(v, m)
                       /\ worker'[v] = worker[v]
  BY DEF On, Holds
<1>2. Live(m)' => Live(m)
  BY DEF Live
<1>3. Carriers(m)' \subseteq Carriers(m)
  BY <1>1, <1>2 DEF Carriers
<1>4. Uncharged(m)' \subseteq Uncharged(m) /\ Loose(m)' \subseteq Loose(m)
  BY <1>1 DEF Uncharged, Loose
<1>5. Pending(m)' <= Pending(m) + 0
  BY <1>1, <1>2 DEF Pending
<1>6. Owed(m)' >= Owed(m) + 0
  BY <1>1 DEF Owed
<1>7. job[m].stalled \in Nat /\ sends[m] \in Nat /\ usage[m] \in Nat /\ faults[m] \in Nat
  BY JobRow
<1> QED
  BY <1>3, <1>4, <1>5, <1>6, <1>7, Sets DEF Level, Change

LEMMA QueuesCounts ==
  ASSUME Inv, NEW n \in Message, Queues(n), NEW m \in Message
  PROVE  Level(m)
<1>1. UNCHANGED <<row, worker, sends, usage, faults>>
  BY DEF Queues, counts
<1>2. CASE job'[m] = job[m]
  BY <1>1, <1>2, Resting DEF Live
<1>3. CASE job'[m] # job[m]
  <2>1. /\ job[m].state = "none" /\ job[m].lock = None /\ job[m].stalled = 0
        /\ job'[m].state = "waiting" /\ job'[m].lock = None /\ job'[m].stalled = 0
    BY <1>3 DEF Queues, Inv, JobsInv
  <2>2. \A v \in Worker : On(v, m)' = On(v, m) /\ worker'[v] = worker[v]
    BY <1>1 DEF On
  <2>3. Live(m)' = Live(m)
    BY <1>1 DEF Live
  <2>4. Carriers(m)' \subseteq Carriers(m)
    BY <2>2, <2>3 DEF Carriers
  <2>5. Uncharged(m)' \subseteq Uncharged(m) /\ Loose(m)' \subseteq Loose(m)
    BY <2>1, <2>2 DEF Uncharged, Loose
  <2>6. Pending(m)' <= Pending(m) + 0
    BY <2>1, <2>3 DEF Pending
  <2>7. Owed(m)' >= Owed(m) + 0
    BY <2>1 DEF Owed
  <2>8. job[m].stalled \in Nat /\ sends[m] \in Nat /\ usage[m] \in Nat /\ faults[m] \in Nat
    BY JobRow
  <2> QED
    BY <1>1, <2>1, <2>4, <2>5, <2>6, <2>7, <2>8, Sets DEF Level, Change
<1> QED
  BY <1>2, <1>3

LEMMA EndsCounts ==
  ASSUME Inv, NEW w \in Worker, Ends(w), NEW m \in Message
  PROVE  Level(m)
<1>1. /\ worker' = [worker EXCEPT ![w] = IdleWorker]
      /\ UNCHANGED <<row, sends, usage, faults>>
      /\ worker[w] \in WorkerRec /\ worker[w].step = "end"
  BY DEF Ends, counts
<1>2. CASE job'[m] = job[m]
  BY <1>1, <1>2, Leaving DEF Live
<1>3. CASE job'[m] # job[m]
  <2>1. worker[w].of = m /\ job[m].lock = w
    BY <1>3 DEF Ends
  <2>2. /\ job'[m].lock = None /\ job'[m].stalled = job[m].stalled
        /\ \/ job'[m].state = "waiting" /\ ~worker[w].ok
           \/ job'[m].state \in {"completed", "failed"}
    BY <2>1 DEF Ends
  <2>3. Holds(w, m) /\ \A v \in Worker : Holds(v, m) => v = w
    <3>1. job[m].state = "active"
      BY <2>1, NamesAssumption DEF Inv, JobsInv
    <3>2. worker[w] # IdleWorker
      BY <1>1 DEF WorkerRec, IdleWorker
    <3> QED
      BY <2>1, <3>1, <3>2 DEF Holds, On
  <2>4. /\ worker'[w] = IdleWorker /\ \A v \in Worker : v # w => worker'[v] = worker[v]
    BY <1>1 DEF Inv, TypeOK
  <2>5. \A v \in Worker : On(v, m)' => v # w /\ On(v, m) /\ worker'[v] = worker[v]
    BY <2>4 DEF On
  <2>6. Live(m)' = Live(m)
    BY <1>1 DEF Live
  <2>7. Carriers(m)' \subseteq Carriers(m)
    BY <2>5, <2>6 DEF Carriers
  <2>8. Uncharged(m)' \subseteq Uncharged(m)
    BY <2>5 DEF Uncharged
  <2>9. Loose(m)' \subseteq Loose(m)
    BY <2>1, <2>5 DEF Loose
  <2>10. Pending(m)' <= Pending(m) + 0
    <3>1. CASE job'[m].state = "waiting" /\ Live(m)
      <4>1. Pending(m) = 2
        BY <1>1, <2>2, <2>3, <3>1 DEF Pending
      <4> QED
        BY <4>1, SizesNext
    <3>2. CASE ~(job'[m].state = "waiting" /\ Live(m))
      <4>1. \A v \in Worker : ~Holds(v, m)'
        BY <2>2 DEF Holds
      <4>2. Pending(m)' = 0
        BY <2>2, <2>6, <3>2, <4>1 DEF Pending
      <4> QED
        BY <4>2, Sizes
    <3> QED
      BY <3>1, <3>2
  <2>11. Owed(m)' >= Owed(m) + 0
    <3>1. Owed(m) = 0
      BY <1>1, <2>3 DEF Owed
    <3> QED
      BY <3>1, SizesNext
  <2>12. job[m].stalled \in Nat /\ sends[m] \in Nat /\ usage[m] \in Nat /\ faults[m] \in Nat
    BY JobRow
  <2> QED
    BY <1>1, <2>2, <2>7, <2>8, <2>9, <2>10, <2>11, <2>12, Sets DEF Level, Change
<1> QED
  BY <1>2, <1>3

(* A worker takes a job: a whole sending that was pending is carried now. *)
LEMMA TakesCounts ==
  ASSUME Inv, NEW w \in Worker, NEW n \in Message, Takes(w, n), NEW m \in Message,
         Counts(m)
  PROVE  Counts(m)'
<1> DEFINE y == [step |-> "load", of |-> n, ok |-> FALSE]
<1>1. y.step = "load" /\ y.of = n /\ y # IdleWorker
  BY DEF IdleWorker
<1>2. /\ worker' = [worker EXCEPT ![w] = y] /\ worker[w] = IdleWorker
      /\ UNCHANGED <<row, sends, usage, faults>> /\ job[n].state = "waiting"
      /\ job' = [job EXCEPT ![n].state = "active", ![n].lock = w]
  BY DEF Takes, counts
<1> HIDE DEF y
<1>3. job[n] \in JobRec /\ job \in [Message -> JobRec]
  BY JobRow DEF Inv, TypeOK, JobRec
<1>4. /\ job'[n].state = "active" /\ job'[n].lock = w /\ job'[n].stalled = job[n].stalled
      /\ \A k \in Message : k # n => job'[k] = job[k]
  BY <1>2, <1>3 DEF JobRec
<1>5. CASE m # n
  <2>1. Level(m)
    BY <1>1, <1>2, <1>4, <1>5, Leaving DEF Live
  <2> QED
    BY <2>1, Changes DEF Level
<1>6. CASE m = n
  <2>1. /\ worker'[w] = y /\ \A v \in Worker : v # w => worker'[v] = worker[v]
    BY <1>2 DEF Inv, TypeOK
  <2>2. \A v \in Worker : v # w => On(v, m)' = On(v, m)
    BY <2>1 DEF On
  <2>3. Live(m)' = Live(m) /\ ~On(w, m) /\ job[m].lock = None
    BY <1>2, <1>6 DEF Live, On, Inv, JobsInv
  <2>4. Uncharged(m)' \subseteq Uncharged(m)
    BY <1>1, <2>1, <2>2 DEF Uncharged
  <2>5. Loose(m)' \subseteq Loose(m)
    BY <1>4, <1>6, <2>1, <2>2, <2>3, NamesAssumption DEF Loose
  <2>6. \A v \in Worker : Holds(v, m)' => v = w
    BY <1>4, <1>6 DEF Holds
  <2>7. Pending(m)' = 0
    BY <1>1, <1>4, <1>6, <2>1, <2>6 DEF Pending
  <2>8. Owed(m)' >= Owed(m) + 0
    <3>1. Owed(m) = 0
      BY <1>2, <1>6 DEF Owed
    <3> QED
      BY <3>1, SizesNext
  <2>9. job[m].stalled \in Nat /\ sends[m] \in Nat /\ usage[m] \in Nat /\ faults[m] \in Nat
    BY JobRow
  <2>10. CASE Live(m)
    <3>1. Carriers(m)' \subseteq Carriers(m) \cup {w}
      BY <2>1, <2>2, <2>3 DEF Carriers
    <3>2. Pending(m) = 2
      BY <1>2, <1>6, <2>10 DEF Pending
    <3>3. Change(m, 0, 0, 0, 0, 1, -2, 0, 0, 0)
      BY <1>2, <1>4, <1>6, <2>4, <2>5, <2>7, <2>8, <2>9, <3>1, <3>2, Sets DEF Change
    <3> QED
      BY <3>3, Changes
  <2>11. CASE ~Live(m)
    <3>1. Carriers(m)' \subseteq Carriers(m)
      BY <1>1, <2>1, <2>2, <2>3, <2>11 DEF Carriers
    <3>2. Pending(m)' <= Pending(m) + 0
      BY <2>7, Sizes
    <3>3. Level(m)
      BY <1>2, <1>4, <1>6, <2>4, <2>5, <2>8, <2>9, <3>1, <3>2, Sets DEF Level, Change
    <3> QED
      BY <3>3, Changes DEF Level
  <2> QED
    BY <2>10, <2>11
<1> QED
  BY <1>5, <1>6

(* A stall allows one more sending, and one more that nobody is charged for.*)
LEMMA StallsCounts ==
  ASSUME Inv, NEW n \in Message, Stalls(n), NEW m \in Message, Counts(m)
  PROVE  Counts(m)'
<1>1. /\ UNCHANGED <<row, worker, sends, usage, faults>> /\ job[n].state = "active"
      /\ \A k \in Message : k # n => job'[k] = job[k]
      /\ job'[n].stalled = job[n].stalled + 1 /\ job'[n].lock = None
      /\ job'[n].state \in {"waiting", "failed"}
  BY DEF Stalls, counts
<1>2. CASE m # n
  <2>1. Level(m)
    BY <1>1, <1>2, Resting DEF Live
  <2> QED
    BY <2>1, Changes DEF Level
<1>3. CASE m = n
  <2>1. \A v \in Worker : On(v, m)' = On(v, m) /\ worker'[v] = worker[v]
    BY <1>1 DEF On
  <2>2. Live(m)' = Live(m)
    BY <1>1 DEF Live
  <2>3. Carriers(m)' \subseteq Carriers(m) /\ Uncharged(m)' \subseteq Uncharged(m)
    BY <2>1, <2>2 DEF Carriers, Uncharged
  <2>4. Pending(m)' <= Pending(m) + 2
    BY Sizes, SizesNext
  <2>5. Owed(m)' = 0
    BY <1>1, <1>3 DEF Owed
  <2>6. job[m].stalled \in Nat /\ sends[m] \in Nat /\ usage[m] \in Nat /\ faults[m] \in Nat
    BY JobRow
  <2>7. CASE Owed(m) = 1
    <3>1. Loose(m)' \subseteq Loose(m)
      <4>1. \A v \in Worker : Holds(v, m) => worker[v].step \in {"record", "usage"}
        BY <2>7 DEF Owed
      <4> QED
        BY <1>1, <1>3, <2>1, <4>1 DEF Loose, Holds
    <3>2. Change(m, 0, 0, 0, 1, 0, 2, 0, 0, -1)
      BY <1>1, <1>3, <2>3, <2>4, <2>5, <2>6, <2>7, <3>1, Sets DEF Change
    <3> QED
      BY <3>2, Changes
  <2>8. CASE Owed(m) = 0
    <3>1. PICK h \in Worker : Holds(h, m)
      BY <1>1, <1>3, <2>8 DEF Owed
    <3>2. Loose(m)' \subseteq Loose(m) \cup {h}
      BY <2>1, <3>1 DEF Loose, Holds
    <3>3. Change(m, 0, 0, 0, 1, 0, 2, 0, 1, 0)
      BY <1>1, <1>3, <2>3, <2>4, <2>5, <2>6, <2>8, <3>2, Sets DEF Change
    <3> QED
      BY <3>3, Changes
  <2> QED
    BY <2>7, <2>8, Sizes
<1> QED
  BY <1>2, <1>3

(* A worker goes on with its message: what that does to the sets, to what   *)
(* is pending and to what is owed.                                         *)
Moves(w, m, x) ==
  /\ worker[w] \in WorkerRec /\ x \in WorkerRec /\ worker[w].of = m /\ x.of = m
  /\ worker' = [worker EXCEPT ![w] = x] /\ UNCHANGED job
  /\ row'[m].status \in {"ABSENT", "QUEUED"} => Live(m)

Before == {"load", "connect", "send"}
After  == {"record", "usage"}

LEMMA MovesBase ==
  ASSUME Inv, NEW m \in Message, NEW w \in Worker, NEW x, Moves(w, m, x)
  PROVE  /\ worker'[w] = x /\ \A v \in Worker : v # w => worker'[v] = worker[v]
         /\ On(w, m) /\ On(w, m)'
         /\ \A v \in Worker : On(v, m)' = On(v, m) /\ Holds(v, m)' = Holds(v, m)
         /\ Live(m)' => Live(m)
<1>1. /\ worker'[w] = x /\ \A v \in Worker : v # w => worker'[v] = worker[v]
  BY DEF Moves, Inv, TypeOK
<1>2. x # IdleWorker /\ worker[w] # IdleWorker
  BY DEF Moves, WorkerRec, IdleWorker
<1>3. On(w, m) /\ On(w, m)'
  BY <1>1, <1>2 DEF On, Moves
<1>4. \A v \in Worker : On(v, m)' = On(v, m)
  BY <1>1, <1>3 DEF On
<1>5. \A v \in Worker : Holds(v, m)' = Holds(v, m)
  BY <1>4 DEF Holds, Moves
<1>6. Live(m)' => Live(m)
  BY DEF Live, Moves
<1> QED
  BY <1>1, <1>3, <1>4, <1>5, <1>6

LEMMA MovesSets ==
  ASSUME Inv, NEW m \in Message, NEW w \in Worker, NEW x, Moves(w, m, x)
  PROVE  /\ x.step \in {"connect", "send"} /\ w \in Carriers(m) =>
              Carriers(m)' \subseteq Carriers(m)
         /\ x.step \notin Before => Carriers(m)' \subseteq Carriers(m) \ {w}
         /\ Uncharged(m)' \subseteq Uncharged(m) \cup {w}
         /\ x.step \in After /\ w \in Uncharged(m) => Uncharged(m)' \subseteq Uncharged(m)
         /\ x.step \notin After => Uncharged(m)' \subseteq Uncharged(m) \ {w}
         /\ worker[w].step \in Before => Loose(m)' \subseteq Loose(m)
         /\ x.step \notin Before => Loose(m)' \subseteq Loose(m) \ {w}
<1>1. /\ worker'[w] = x /\ \A v \in Worker : v # w => worker'[v] = worker[v]
      /\ On(w, m) /\ \A v \in Worker : On(v, m)' = On(v, m)
      /\ Live(m)' => Live(m)
  BY MovesBase
<1>2. \A v \in Carriers(m)' : v # w => v \in Carriers(m)
  BY <1>1 DEF Carriers
<1>3. w \in Carriers(m)' => x.step \in Before
  BY <1>1 DEF Carriers, Before
<1>4. /\ \A v \in Uncharged(m)' : v # w => v \in Uncharged(m)
      /\ w \in Uncharged(m)' => x.step \in After
  BY <1>1 DEF Uncharged, After
<1>5. \A v \in Loose(m)' : v # w => v \in Loose(m)
  BY <1>1 DEF Loose, Moves
<1>6. w \in Loose(m)' => x.step \in Before /\ job[m].lock # w
  BY <1>1 DEF Loose, Moves, Before
<1>7. worker[w].step \in Before /\ job[m].lock # w => w \in Loose(m)
  BY <1>1 DEF Loose, Before
<1> QED
  BY <1>2, <1>3, <1>4, <1>5, <1>6, <1>7

LEMMA MovesPending ==
  ASSUME Inv, NEW m \in Message, NEW w \in Worker, NEW x, Moves(w, m, x)
  PROVE  /\ x.step \notin {"failing", "end"} \/ (x.ok /\ x.step = "end") =>
              Pending(m)' <= Pending(m) + 0
         /\ x.step = "failing" => Pending(m)' <= Pending(m) + 1
         /\ worker[w].step = "failing" => Pending(m)' <= Pending(m) + 1
         /\ Pending(m)' <= Pending(m) + 2
         /\ row'[m].status \notin {"ABSENT", "QUEUED"} \/ ~Live(m) =>
              Pending(m)' <= Pending(m) + 0
<1>1. /\ worker'[w] = x /\ \A v \in Worker : v # w => worker'[v] = worker[v]
      /\ \A v \in Worker : Holds(v, m)' = Holds(v, m)
      /\ Live(m)' => Live(m) /\ job' = job
  BY MovesBase DEF Moves
<1>2. Pending(m) \in {0, 1, 2} /\ Pending(m)' \in {0, 1, 2}
  BY Sizes, SizesNext
<1>3. ~Live(m)' => Pending(m)' = 0
  BY DEF Pending
<1>4. Live(m)' /\ job[m].state \in {"none", "waiting"} => Pending(m) = 2
  BY <1>1 DEF Pending
<1> DEFINE Ending(v)  == Holds(v, m) /\ worker[v].step = "end" /\ ~worker[v].ok
           Failing(v) == Holds(v, m) /\ worker[v].step = "failing"
<1>5. (\E v \in Worker : Ending(v)) /\ Live(m) => Pending(m) = 2
  BY DEF Pending
<1>6. (\E v \in Worker : Failing(v)) /\ Live(m) => Pending(m) \in {1, 2}
  BY DEF Pending
<1>7. \A v \in Worker : v # w => Ending(v)' = Ending(v) /\ Failing(v)' = Failing(v)
  BY <1>1
<1>8. /\ Ending(w)' = (Holds(w, m) /\ x.step = "end" /\ ~x.ok)
      /\ Failing(w)' = (Holds(w, m) /\ x.step = "failing")
      /\ Failing(w) = (Holds(w, m) /\ worker[w].step = "failing")
  BY <1>1
<1>9. Live(m)' /\ job[m].state \notin {"none", "waiting"} =>
        /\ Pending(m)' = 2 => \E v \in Worker : Ending(v)'
        /\ Pending(m)' = 1 => \E v \in Worker : Failing(v)'
  BY <1>1 DEF Pending
<1> HIDE DEF Ending, Failing
<1>10. Pending(m)' > Pending(m) =>
         /\ Live(m)' /\ Live(m)
         /\ \/ Pending(m)' = 2 /\ Ending(w)'
            \/ Pending(m)' = 1 /\ Failing(w)'
  <2>1. SUFFICES ASSUME Pending(m)' > Pending(m)
                 PROVE  /\ Live(m)' /\ Live(m)
                        /\ \/ Pending(m)' = 2 /\ Ending(w)'
                           \/ Pending(m)' = 1 /\ Failing(w)'
    OBVIOUS
  <2>2. Live(m)' /\ Live(m)
    BY <1>1, <1>2, <1>3, <2>1
  <2>3. job[m].state \notin {"none", "waiting"}
    BY <1>2, <1>4, <2>1, <2>2
  <2>4. CASE Pending(m)' = 2
    <3>1. PICK v \in Worker : Ending(v)'
      BY <1>9, <2>2, <2>3, <2>4
    <3>2. Pending(m) # 2
      BY <1>2, <2>1, <2>4
    <3> QED
      BY <1>5, <1>7, <2>2, <2>4, <3>1, <3>2
  <2>5. CASE Pending(m)' = 1
    <3>1. PICK v \in Worker : Failing(v)'
      BY <1>9, <2>2, <2>3, <2>5
    <3>2. Pending(m) = 0
      BY <1>2, <2>1, <2>5
    <3> QED
      BY <1>6, <1>7, <2>2, <2>5, <3>1, <3>2
  <2> QED
    BY <1>2, <2>1, <2>4, <2>5
<1>11. Pending(m)' <= Pending(m) + 0 <=> ~(Pending(m)' > Pending(m))
  BY <1>2
<1>12. ASSUME x.step \notin {"failing", "end"} \/ (x.ok /\ x.step = "end")
       PROVE  Pending(m)' <= Pending(m) + 0
  BY <1>8, <1>10, <1>11, <1>12
<1>13. ASSUME x.step = "failing" PROVE Pending(m)' <= Pending(m) + 1
  <2>1. ~Ending(w)'
    BY <1>8, <1>13
  <2>2. Pending(m)' > Pending(m) => Pending(m)' = 1
    BY <1>10, <2>1
  <2> QED
    BY <1>2, <2>2
<1>14. ASSUME worker[w].step = "failing" PROVE Pending(m)' <= Pending(m) + 1
  <2>1. CASE Pending(m)' > Pending(m)
    <3>1. Holds(w, m) /\ Live(m)
      BY <1>8, <1>10, <2>1
    <3>2. Pending(m) \in {1, 2}
      BY <1>6, <1>8, <1>14, <3>1
    <3> QED
      BY <1>2, <3>2
  <2>2. CASE ~(Pending(m)' > Pending(m))
    BY <1>2, <2>2
  <2> QED
    BY <2>1, <2>2
<1>15. Pending(m)' <= Pending(m) + 2
  BY <1>2
<1>16. ASSUME row'[m].status \notin {"ABSENT", "QUEUED"} \/ ~Live(m)
       PROVE  Pending(m)' <= Pending(m) + 0
  <2>1. ~Live(m)'
    BY <1>1, <1>16 DEF Live
  <2> QED
    BY <1>10, <1>11, <2>1
<1> QED
  BY <1>12, <1>13, <1>14, <1>15, <1>16

LEMMA MovesOwed ==
  ASSUME Inv, NEW m \in Message, NEW w \in Worker, NEW x, Moves(w, m, x)
  PROVE  /\ Owed(m)' >= Owed(m) + (-1)
         /\ x.step \in After \/ worker[w].step \notin After => Owed(m)' >= Owed(m) + 0
         /\ /\ Holds(w, m) /\ x.step \in After /\ worker[w].step \notin After
            => Owed(m)' >= Owed(m) + 1
<1>1. /\ worker'[w] = x /\ \A v \in Worker : v # w => worker'[v] = worker[v]
      /\ \A v \in Worker : Holds(v, m)' = Holds(v, m)
      /\ job' = job
  BY MovesBase DEF Moves
<1>2. Owed(m) \in {0, 1} /\ Owed(m)' \in {0, 1}
  BY Sizes, SizesNext
<1>3. \A v \in Worker : Holds(v, m) /\ Holds(w, m) => v = w
  BY DEF Holds
<1>4. ASSUME Holds(w, m), worker[w].step \notin After PROVE Owed(m) = 0
  BY <1>4 DEF Owed, After
<1>5. ASSUME Holds(w, m), x.step \in After PROVE Owed(m)' = 1
  <2>1. job'[m].state = "active"
    BY <1>1, <1>5 DEF Holds
  <2>2. \A v \in Worker : Holds(v, m)' => worker'[v].step \in {"record", "usage"}
    BY <1>1, <1>3, <1>5 DEF After
  <2> QED
    BY <2>1, <2>2 DEF Owed
<1>6. ASSUME ~Holds(w, m) PROVE Owed(m)' = Owed(m)
  <2>1. \A v \in Worker : Holds(v, m)' => Holds(v, m) /\ worker'[v] = worker[v]
    BY <1>1, <1>6
  <2>2. \A v \in Worker : Holds(v, m) => Holds(v, m)' /\ worker'[v] = worker[v]
    BY <1>1, <1>6
  <2> QED
    BY <1>1, <2>1, <2>2 DEF Owed
<1>7. Owed(m)' >= Owed(m) + (-1)
  BY <1>2
<1>8. ASSUME x.step \in After \/ worker[w].step \notin After
      PROVE  Owed(m)' >= Owed(m) + 0
  BY <1>2, <1>4, <1>5, <1>6, <1>8
<1>9. ASSUME Holds(w, m), x.step \in After, worker[w].step \notin After
      PROVE  Owed(m)' >= Owed(m) + 1
  BY <1>2, <1>4, <1>5, <1>9
<1> QED
  BY <1>7, <1>8, <1>9

(* What each await of deliverQueuedMessage changes: a sending that was      *)
(* carried is sent or pending again, and one fault pays for half of it.    *)
LEMMA TurnCounts ==
  ASSUME Inv, NEW w \in Worker, NEW x,
         NEW ds \in {0, 1}, NEW du \in {0, 1}, NEW df \in {0, 1},
         Turn(w, x, ds, du, df), NEW m \in Message, Counts(m)
  PROVE  Counts(m)'
<1>1. PICK of : of = worker[w].of
  OBVIOUS
<1>2. /\ of \in Message /\ worker[w] \in WorkerRec /\ x \in WorkerRec /\ x.of = of
      /\ worker' = [worker EXCEPT ![w] = x] /\ UNCHANGED job
      /\ sends' = [sends EXCEPT ![of] = @ + ds]
      /\ usage' = [usage EXCEPT ![of] = @ + du]
      /\ faults' = [faults EXCEPT ![of] = @ + df]
  BY <1>1 DEF Turn, WorkerRec
<1>3. row'[m].status \in {"ABSENT", "QUEUED"} => Live(m)
  BY DEF Turn, Live
<1>4. CASE m # of
  <2>1. /\ sends'[m] = sends[m] /\ usage'[m] = usage[m] /\ faults'[m] = faults[m]
        /\ job'[m] = job[m]
    BY <1>2, <1>4 DEF Inv, TypeOK
  <2>2. Level(m)
    BY <1>2, <1>3, <1>4, <2>1, Leaving
  <2> QED
    BY <2>2, Changes DEF Level
<1>5. CASE m = of
  <2>1. Moves(w, m, x)
    BY <1>1, <1>2, <1>3, <1>5 DEF Moves
  <2>2. /\ sends'[m] = sends[m] + ds /\ usage'[m] = usage[m] + du
        /\ faults'[m] = faults[m] + df /\ job'[m].stalled = job[m].stalled + 0
    <3>1. job[m].stalled \in Nat
      BY JobRow
    <3> QED
      BY <1>2, <1>5, <3>1 DEF Inv, TypeOK
  <2>3. PICK s : s = worker[w].step
    OBVIOUS
  <2>4. /\ \/ Turns(s, Live(m), x, ds, du, df)
           \/ Fails(s, x, ds, du, df) /\ row'[m].status \notin {"ABSENT", "QUEUED"}
        /\ s = "record" /\ x.step = "usage" => row'[m].status \notin {"ABSENT", "QUEUED"}
    BY <1>1, <1>5, <2>3 DEF Turn, Spent
  <2>5. On(w, m)
    BY <2>1, MovesBase
  <2>6. /\ s \in {"connect", "send"} \/ (s = "load" /\ Live(m)) <=> w \in Carriers(m)
        /\ s \in After <=> w \in Uncharged(m)
        /\ s \in Before /\ ~Holds(w, m) => w \in Loose(m)
    <3>1. s \in Before /\ ~Holds(w, m) => job[m].lock # w
      BY <2>5, NamesAssumption DEF Holds, Inv, JobsInv
    <3> QED
      BY <2>3, <2>5, <3>1 DEF Carriers, Uncharged, Loose, After, Before
  <2>7. /\ x.step \in {"connect", "send"} /\ w \in Carriers(m) =>
             Cardinality(Carriers(m)') <= Cardinality(Carriers(m)) + 0
        /\ x.step \notin Before =>
             Cardinality(Carriers(m)') <= Cardinality(Carriers(m)) + 0
        /\ x.step \notin Before /\ w \in Carriers(m) =>
             Cardinality(Carriers(m)') <= Cardinality(Carriers(m)) + (-1)
    BY <2>1, MovesSets, Sets
  <2>8. /\ Cardinality(Uncharged(m)') <= Cardinality(Uncharged(m)) + 1
        /\ x.step \in After /\ w \in Uncharged(m) =>
             Cardinality(Uncharged(m)') <= Cardinality(Uncharged(m)) + 0
        /\ x.step \notin After =>
             Cardinality(Uncharged(m)') <= Cardinality(Uncharged(m)) + 0
        /\ x.step \notin After /\ w \in Uncharged(m) =>
             Cardinality(Uncharged(m)') <= Cardinality(Uncharged(m)) + (-1)
    BY <2>1, MovesSets, Sets
  <2>9. /\ s \in Before \/ x.step \notin Before =>
             Cardinality(Loose(m)') <= Cardinality(Loose(m)) + 0
        /\ x.step \notin Before /\ w \in Loose(m) =>
             Cardinality(Loose(m)') <= Cardinality(Loose(m)) + (-1)
    BY <2>1, <2>3, MovesSets, Sets
  <2>10. /\ x.step \notin {"failing", "end"} \/ (x.ok /\ x.step = "end") =>
              Pending(m)' <= Pending(m) + 0
         /\ x.step = "failing" => Pending(m)' <= Pending(m) + 1
         /\ s = "failing" => Pending(m)' <= Pending(m) + 1
         /\ Pending(m)' <= Pending(m) + 2
         /\ row'[m].status \notin {"ABSENT", "QUEUED"} \/ ~Live(m) =>
              Pending(m)' <= Pending(m) + 0
    BY <2>1, <2>3, MovesPending
  <2>11. /\ Owed(m)' >= Owed(m) + (-1)
         /\ x.step \in After \/ s \notin After => Owed(m)' >= Owed(m) + 0
         /\ Holds(w, m) /\ x.step \in After /\ s \notin After => Owed(m)' >= Owed(m) + 1
    BY <2>1, <2>3, MovesOwed
  <2>12. CASE s = "load" /\ Live(m) /\ x.step = "connect" /\ <<ds, du, df>> = <<0, 0, 0>>
    <3>1. Change(m, 0, 0, 0, 0, 0, 0, 0, 0, 0)
      BY <2>2, <2>6, <2>7, <2>8, <2>9, <2>10, <2>11, <2>12 DEF Change, Before, After
    <3> QED
      BY <3>1, Changes
  <2>13. CASE s = "load" /\ x.step = "end" /\ x.ok /\ <<ds, du, df>> = <<0, 0, 0>>
    <3>1. Change(m, 0, 0, 0, 0, 0, 0, 0, 0, 0)
      BY <2>2, <2>6, <2>7, <2>8, <2>9, <2>10, <2>11, <2>13 DEF Change, Before, After
    <3> QED
      BY <3>1, Changes
  <2>14. CASE s = "connect" /\ x.step = "send" /\ <<ds, du, df>> = <<0, 0, 0>>
    <3>1. Change(m, 0, 0, 0, 0, 0, 0, 0, 0, 0)
      BY <2>2, <2>6, <2>7, <2>8, <2>9, <2>10, <2>11, <2>14 DEF Change, Before, After
    <3> QED
      BY <3>1, Changes
  <2>15. CASE s \in {"connect", "send"} /\ x.step = "failing" /\ <<ds, du, df>> = <<0, 0, 0>>
    <3>1. Change(m, 0, 0, 0, 0, -1, 1, 0, 0, 0)
      BY <2>2, <2>6, <2>7, <2>8, <2>9, <2>10, <2>11, <2>15 DEF Change, Before, After
    <3> QED
      BY <3>1, Changes
  <2>16. CASE s = "send" /\ x.step = "record" /\ <<ds, du, df>> = <<1, 0, 0>>
    <3>1. CASE Holds(w, m)
      <4>1. Change(m, 1, 0, 0, 0, -1, 0, 1, 0, 1)
        BY <2>2, <2>6, <2>7, <2>8, <2>9, <2>10, <2>11, <2>16, <3>1
        DEF Change, Before, After
      <4> QED
        BY <4>1, Changes
    <3>2. CASE ~Holds(w, m)
      <4>1. Change(m, 1, 0, 0, 0, -1, 0, 1, -1, 0)
        BY <2>2, <2>6, <2>7, <2>8, <2>9, <2>10, <2>11, <2>16, <3>2
        DEF Change, Before, After
      <4> QED
        BY <4>1, Changes
    <3> QED
      BY <3>1, <3>2
  <2>17. CASE s = "record" /\ x.step = "usage" /\ <<ds, du, df>> = <<0, 0, 0>>
    <3>1. Change(m, 0, 0, 0, 0, 0, 0, 0, 0, 0)
      BY <2>2, <2>6, <2>7, <2>8, <2>9, <2>10, <2>11, <2>17 DEF Change, Before, After
    <3> QED
      BY <3>1, Changes
  <2>18. CASE s = "usage" /\ x.step = "end" /\ x.ok /\ <<ds, du, df>> = <<0, 1, 0>>
    <3>1. Change(m, 0, 1, 0, 0, 0, 0, -1, 0, -1)
      BY <2>2, <2>6, <2>7, <2>8, <2>9, <2>10, <2>11, <2>18 DEF Change, Before, After
    <3> QED
      BY <3>1, Changes
  <2>19. CASE /\ s \in {"load", "connect"} /\ x.step = "end" /\ ~x.ok
              /\ <<ds, du, df>> = <<0, 0, 1>>
    <3>1. CASE w \in Carriers(m)
      <4>1. Change(m, 0, 0, 1, 0, -1, 2, 0, 0, 0)
        BY <2>2, <2>6, <2>7, <2>8, <2>9, <2>10, <2>11, <2>19, <3>1
        DEF Change, Before, After
      <4> QED
        BY <4>1, Changes
    <3>2. CASE w \notin Carriers(m)
      <4>1. Change(m, 0, 0, 1, 0, 0, 0, 0, 0, 0)
        BY <2>2, <2>6, <2>7, <2>8, <2>9, <2>10, <2>11, <2>19, <3>2
        DEF Change, Before, After
      <4> QED
        BY <4>1, Changes
    <3> QED
      BY <3>1, <3>2
  <2>20. CASE s = "failing" /\ x.step = "end" /\ ~x.ok /\ <<ds, du, df>> = <<0, 0, 1>>
    <3>1. Change(m, 0, 0, 1, 0, 0, 1, 0, 0, 0)
      BY <2>2, <2>6, <2>7, <2>8, <2>9, <2>10, <2>11, <2>20 DEF Change, Before, After
    <3> QED
      BY <3>1, Changes
  <2>21. CASE s = "send" /\ x.step = "failing" /\ <<ds, du, df>> = <<1, 0, 1>>
    <3>1. Change(m, 1, 0, 1, 0, -1, 1, 0, 0, 0)
      BY <2>2, <2>6, <2>7, <2>8, <2>9, <2>10, <2>11, <2>21 DEF Change, Before, After
    <3> QED
      BY <3>1, Changes
  <2>22. CASE s \in After /\ x.step = "failing" /\ ds = 0 /\ df = 1
    <3>1. Change(m, 0, du, 1, 0, 0, 1, -1, 0, -1)
      BY <2>2, <2>6, <2>7, <2>8, <2>9, <2>10, <2>11, <2>22 DEF Change, Before, After
    <3> QED
      BY <3>1, Changes
  <2>23. CASE Fails(s, x, ds, du, df) /\ row'[m].status \notin {"ABSENT", "QUEUED"}
    <3>1. Change(m, 0, 0, 0, 0, 0, 0, 0, 0, 0)
      BY <2>2, <2>6, <2>7, <2>8, <2>9, <2>10, <2>11, <2>23
      DEF Change, Before, After, Fails
    <3> QED
      BY <3>1, Changes
  <2> QED
    BY <2>4, <2>12, <2>13, <2>14, <2>15, <2>16, <2>17, <2>18, <2>19, <2>20, <2>21,
       <2>22, <2>23 DEF Turns, After
<1> QED
  BY <1>4, <1>5

LEMMA CountsStep ==
  ASSUME Inv, Kind, NEW m \in Message, Counts(m)
  PROVE  Counts(m)'
<1>1. CASE Calm
  <2>1. Level(m)
    BY <1>1, Resting DEF Calm, counts, Live
  <2> QED
    BY <2>1, Changes DEF Level
<1>2. ASSUME NEW n \in Message, Queues(n) PROVE Counts(m)'
  BY <1>2, QueuesCounts, Changes DEF Level
<1>3. ASSUME NEW n \in Message, Stalls(n) PROVE Counts(m)'
  BY <1>3, StallsCounts
<1>4. ASSUME NEW w \in Worker, Ends(w) PROVE Counts(m)'
  BY <1>4, EndsCounts, Changes DEF Level
<1>5. ASSUME NEW w \in Worker, Dies(w) PROVE Counts(m)'
  <2>1. Level(m)
    BY <1>5, Leaving DEF Dies, counts, Live
  <2> QED
    BY <2>1, Changes DEF Level
<1>6. ASSUME NEW w \in Worker, NEW n \in Message, Takes(w, n) PROVE Counts(m)'
  BY <1>6, TakesCounts
<1>7. ASSUME NEW w \in Worker, NEW x, NEW ds \in {0, 1}, NEW du \in {0, 1},
             NEW df \in {0, 1}, Turn(w, x, ds, du, df)
      PROVE  Counts(m)'
  BY <1>7, TurnCounts
<1> QED
  BY <1>1, <1>2, <1>3, <1>4, <1>5, <1>6, <1>7 DEF Kind

CountsInv == \A m \in Message : Counts(m)

LEMMA CountsHold == Spec => []CountsInv
<1>1. Init => CountsInv
  <2>1. SUFFICES ASSUME Init, NEW m \in Message PROVE Counts(m)
    BY DEF CountsInv
  <2>2. \A w \in Worker : worker[w] = IdleWorker
    BY <2>1 DEF Init
  <2>3. Carriers(m) = {} /\ Uncharged(m) = {} /\ Loose(m) = {}
    BY <2>2 DEF Carriers, Uncharged, Loose, On
  <2>4. Cardinality({}) = 0
    BY FS_EmptySet
  <2>5. Pending(m) \in {0, 1, 2} /\ Owed(m) \in {0, 1}
    BY Sizes
  <2>6. sends[m] = 0 /\ usage[m] = 0 /\ faults[m] = 0 /\ job[m].stalled = 0
    BY <2>1 DEF Init, NoJob
  <2> QED
    BY <2>3, <2>4, <2>5, <2>6 DEF Counts, SendsBound, UsageBound
<1>2. Inv /\ CountsInv /\ [Next]_vars => CountsInv'
  BY Steps, CountsStep DEF CountsInv
<1> QED
  BY <1>1, <1>2, InvHolds, PTL DEF Spec

(* A message goes to the provider once, however often it is requested and  *)
(* whoever dies; once more for each stall of its job and for each pair of  *)
(* faults that loses both the record of the sending and that of the failure*)
(* (deliverQueuedMessage reads the row before it sends).                   *)
THEOREM SendsExplainedHolds == Spec => []SendsExplained
<1>1. Inv /\ CountsInv => SendsExplained
  <2>1. SUFFICES ASSUME Inv, CountsInv, NEW m \in Message
                 PROVE  sends[m] <= 1 + job[m].stalled + faults[m] \div 2
    BY DEF SendsExplained
  <2>2. PICK s, f, t, c \in Nat : /\ s = sends[m] /\ f = faults[m] /\ t = job[m].stalled
                                 /\ c = Cardinality(Carriers(m))
    BY <2>1, JobRow, Sizes
  <2>3. PICK p \in Nat : p = Pending(m)
    BY Sizes
  <2>4. 2 * s + 2 * c + p <= 2 + 2 * t + f
    BY <2>1, <2>2, <2>3 DEF CountsInv, Counts, SendsBound
  <2>5. s <= 1 + t + f \div 2
    BY <2>4
  <2> QED
    BY <2>2, <2>5
<1> QED
  BY <1>1, InvHolds, CountsHold, PTL

(* Nobody is charged for a message that was not sent, and once a job is    *)
(* over the uncharged sendings are at most its stalls and faults: the usage*)
(* is recorded after the sending, by the worker that sent it.              *)
THEOREM UsageExplainedHolds == Spec => []UsageExplained
<1>1. Inv /\ CountsInv => UsageExplained
  <2>1. SUFFICES ASSUME Inv, CountsInv, NEW m \in Message
                 PROVE  /\ usage[m] <= sends[m]
                        /\ job[m].state \in {"completed", "failed"} /\ ~Busy(m) =>
                             sends[m] - usage[m] <= job[m].stalled + faults[m]
    BY DEF UsageExplained
  <2>2. PICK s, u, f, t \in Nat : /\ s = sends[m] /\ u = usage[m] /\ f = faults[m]
                                 /\ t = job[m].stalled
    BY <2>1, JobRow
  <2>3. PICK n, l \in Nat : /\ n = Cardinality(Uncharged(m))
                           /\ l = Cardinality(Loose(m))
    BY Sizes
  <2>4. PICK o \in Int : o = Owed(m)
    BY Sizes
  <2>5. u + n <= s /\ s + l <= u + t + f + o
    BY <2>1, <2>2, <2>3, <2>4 DEF CountsInv, Counts, UsageBound
  <2>6. u <= s
    BY <2>5
  <2>7. ASSUME job[m].state \in {"completed", "failed"}
        PROVE  s - u <= t + f
    <3>1. o = 0
      BY <2>4, <2>7 DEF Owed
    <3> QED
      BY <2>5, <3>1
  <2> QED
    BY <2>2, <2>6, <2>7
<1> QED
  BY <1>1, InvHolds, CountsHold, PTL

-----------------------------------------------------------------------------
(* The monthly quota.  A request counts the rows before it creates its own,*)
(* so several can exceed the limit; but each only by its own batch, and    *)
(* not where the plan has no messages at all.                              *)
MonthlyExcessBounded ==
  \/ Rows = {}
  \/ /\ Limit # 0
     /\ Cardinality(Rows) < Limit + Recipients * Cardinality(Sender)

(* Nothing is queued, delivered or reported of a message without a row, so *)
(* only createOutboundMessage adds one.                                    *)
RowsFirst ==
  \A m \in Message : m \notin Rows =>
    /\ ~row[m].providerMessageId
    /\ job[m].state = "none" /\ m \notin dead
    /\ \A w \in Worker : ~On(w, m)
    /\ \A s \in Sender : m \notin sender[s].made

(* The messages that requests may still create, by request. *)
Batches(todo) == {p \in Sender \X Message : p[2] \in todo[p[1]]}
Asked         == {p \in Sender \X Message : p[2] \in sender[p[1]].todo}

QuotaInv ==
  /\ Inv /\ RowsFirst
  /\ \A s \in Sender : Cardinality(sender[s].todo) <= Recipients
  /\ \/ Rows = {} /\ Asked = {}
     \/ /\ Limit # 0
        /\ Cardinality(Rows) + Cardinality(Asked)
             < Limit + Recipients * Cardinality(Sender)

(* Batches of at most Recipients messages are together at most Recipients  *)
(* for each sender: number the messages of each batch.                     *)
LEMMA BatchesBounded ==
  ASSUME IsFiniteSet(Sender), IsFiniteSet(Message),
         NEW todo \in [Sender -> SUBSET Message],
         \A s \in Sender : Cardinality(todo[s]) <= Recipients
  PROVE  /\ IsFiniteSet(Batches(todo)) /\ Cardinality(Batches(todo)) \in Nat
         /\ Cardinality(Batches(todo)) <= Recipients * Cardinality(Sender)
<1> DEFINE slots == 1 .. Recipients
<1>1. ASSUME NEW s \in Sender PROVE Injection(todo[s], slots) # {}
  <2>1. IsFiniteSet(todo[s])
    BY FS_Subset
  <2>2. PICK n \in Nat : n = Cardinality(todo[s]) /\ n <= Recipients
    BY <2>1, FS_CardinalityType
  <2>3. ExistsBijection(todo[s], 1 .. n)
    BY <2>1, <2>2, FS_CardinalityType, Fun_ExistsBijSymmetric
  <2>4. PICK f : f \in Bijection(todo[s], 1 .. n)
    BY <2>3, Fun_ExistsBij
  <2>5. f \in [todo[s] -> 1 .. n] /\ \A x, y \in todo[s] : f[x] = f[y] => x = y
    BY <2>4, Fun_BijectionProperties
  <2>6. f \in [todo[s] -> slots]
    BY <2>2, <2>5, BoundsAssumption
  <2> QED
    BY <2>5, <2>6, Fun_IsInj
<1> DEFINE number == [s \in Sender |-> CHOOSE f \in Injection(todo[s], slots) : TRUE]
           place  == [p \in Batches(todo) |-> <<p[1], number[p[1]][p[2]]>>]
<1>2. ASSUME NEW s \in Sender
      PROVE  /\ number[s] \in [todo[s] -> slots]
             /\ \A x, y \in todo[s] : number[s][x] = number[s][y] => x = y
  <2>1. PICK f : f = number[s] /\ f \in Injection(todo[s], slots)
    BY <1>1
  <2> HIDE DEF number, slots
  <2>2. f \in [todo[s] -> slots] /\ \A x, y \in todo[s] : f[x] = f[y] => x = y
    BY <2>1, Fun_InjectionProperties
  <2> QED
    BY <2>1, <2>2
<1>3. \A p \in Batches(todo) : /\ p[1] \in Sender /\ p[2] \in todo[p[1]]
                               /\ p = <<p[1], p[2]>>
  BY DEF Batches
<1> HIDE DEF number
<1>4. place \in [Batches(todo) -> Sender \X slots]
  BY <1>2, <1>3
<1>5. \A p, q \in Batches(todo) : place[p] = place[q] => p = q
  <2> SUFFICES ASSUME NEW p \in Batches(todo), NEW q \in Batches(todo), place[p] = place[q]
               PROVE  p = q
    OBVIOUS
  <2>1. p[1] = q[1] /\ number[p[1]][p[2]] = number[p[1]][q[2]]
    OBVIOUS
  <2>2. p[2] = q[2]
    BY <1>2, <1>3, <2>1
  <2> QED
    BY <1>3, <2>1, <2>2
<1>6. place \in Injection(Batches(todo), Sender \X slots)
  BY <1>4, <1>5, Fun_IsInj
<1>7. IsFiniteSet(slots) /\ Cardinality(slots) = Recipients
  BY BoundsAssumption, FS_Interval
<1>8. /\ IsFiniteSet(Sender \X slots)
      /\ Cardinality(Sender \X slots) = Cardinality(Sender) * Recipients
  BY <1>7, FS_Product
<1>9. /\ IsFiniteSet(Batches(todo))
      /\ Cardinality(Batches(todo)) <= Cardinality(Sender \X slots)
  BY <1>6, <1>8, FS_Injection
<1>10. Cardinality(Sender) \in Nat /\ Cardinality(Batches(todo)) \in Nat
  BY <1>9, FS_CardinalityType
<1>11. Cardinality(Sender) * Recipients = Recipients * Cardinality(Sender)
  BY <1>10, BoundsAssumption
<1> QED
  BY <1>8, <1>9, <1>10, <1>11

(* A step about m, which has a row already ... *)
About(m) ==
  /\ m \in Rows /\ row'[m].status # "ABSENT"
  /\ \A n \in Message \ {m} :
       /\ row'[n] = row[n] /\ job'[n] = job[n]
       /\ n \in dead' => n \in dead
       /\ \A w \in Worker : On(w, n)' => On(w, n)
  /\ \A s \in Sender : /\ sender'[s].todo = sender[s].todo
                       /\ sender'[s].made \subseteq sender[s].made

(* ... and one that forgets or begins something. *)
Passes ==
  /\ UNCHANGED <<row, job>> /\ dead' \subseteq dead
  /\ \A w \in Worker, n \in Message : On(w, n)' => On(w, n)
  /\ \A s \in Sender : /\ sender'[s].todo \subseteq sender[s].todo
                       /\ sender'[s].made \subseteq sender[s].made

Begins(s) ==
  /\ UNCHANGED <<row, job, dead, worker>>
  /\ Cardinality(Rows) < Limit /\ Cardinality(sender'[s].todo) <= Recipients
  /\ sender'[s].made \subseteq sender[s].made
  /\ \A r \in Sender \ {s} : sender'[r] = sender[r]

Makes(s, m) ==
  /\ m \in sender[s].todo
  /\ UNCHANGED <<job, dead, worker>>
  /\ sender'[s].todo = sender[s].todo \ {m}
  /\ sender'[s].made = sender[s].made \cup {m}
  /\ \A r \in Sender \ {s} : sender'[r] = sender[r]
  /\ row'[m].status # "ABSENT"
  /\ \A n \in Message \ {m} : row'[n] = row[n]

LEMMA DeliverAbout ==
  ASSUME Inv, RowsFirst, NEW w \in Worker,
         \/ Load(w) \/ Connect(w) \/ ProviderAccepts(w) \/ ProviderRejects(w)
         \/ RecordSent(w) \/ RecordUsage(w) \/ MarkFailed(w) \/ Fault(w)
  PROVE  \E m \in Message : About(m)
<1>1. PICK x : \E ds, du, df \in {0, 1} : Turn(w, x, ds, du, df)
  BY Delivers
<1>2. PICK m : m = worker[w].of
  OBVIOUS
<1>3. /\ worker[w] \in WorkerRec /\ x \in WorkerRec /\ x.of = m
      /\ worker' = [worker EXCEPT ![w] = x]
  BY <1>1, <1>2 DEF Turn
<1>4. m \in Message /\ On(w, m)
  BY <1>2, <1>3 DEF WorkerRec, On, IdleWorker
<1>5. m \in Rows
  BY <1>4 DEF RowsFirst
<1>6. UNCHANGED <<job, sender, dead>>
  BY DeliverRows DEF Rest
<1>7. \A n \in Message \ {m}, v \in Worker : On(v, n)' => On(v, n)
  <2>1. \A v \in Worker : v # w => worker'[v] = worker[v]
    BY <1>3
  <2>2. worker'[w] = x
    BY <1>3 DEF Inv, TypeOK
  <2> QED
    BY <1>3, <2>1, <2>2 DEF On
<1>8. row'[m].status # "ABSENT" /\ \A n \in Message \ {m} : row'[n] = row[n]
  <2>1. row \in [Message -> RowRec] /\ row[m].status # "ABSENT"
    BY <1>5 DEF Inv, TypeOK, RowRec, Rows
  <2>2. CASE RecordSent(w)
    BY <1>2, <1>4, <2>1, <2>2 DEF RecordSent
  <2>3. CASE MarkFailed(w)
    <3>1. row' = [row EXCEPT ![m].status = "FAILED"]
      BY <1>2, <2>3 DEF MarkFailed
    <3> QED
      BY <1>4, <2>1, <3>1 DEF RowRec
  <2>4. CASE UNCHANGED row
    BY <2>1, <2>4
  <2> QED
    BY <2>2, <2>3, <2>4 DEF Load, Connect, ProviderAccepts, ProviderRejects,
       RecordUsage, Fault
<1> QED
  BY <1>4, <1>5, <1>6, <1>7, <1>8 DEF About

LEMMA WorkerAbout ==
  ASSUME Inv, RowsFirst, WorkerNext
  PROVE  Passes \/ \E m \in Message : About(m)
<1>1. ASSUME NEW w \in Worker, NEW m \in Message, TakeJob(w, m) PROVE About(m)
  <2>1. m \in Rows
    BY <1>1 DEF TakeJob, Waiting, RowsFirst
  <2>2. \A n \in Message \ {m} : job'[n] = job[n] /\ \A v \in Worker : On(v, n)' => On(v, n)
    BY <1>1 DEF TakeJob, On, Inv, TypeOK
  <2> QED
    BY <1>1, <2>1, <2>2 DEF TakeJob, About, Rows
<1>2. ASSUME NEW w \in Worker, EndJob(w) PROVE \E m \in Message : About(m)
  <2>1. PICK m : m = worker[w].of /\ Ends(w)
    BY <1>2, EndsJob
  <2>2. /\ worker[w] \in WorkerRec
        /\ worker' = [worker EXCEPT ![w] = IdleWorker] /\ UNCHANGED row
        /\ \A n \in Message : n # m => job'[n] = job[n]
    BY <2>1 DEF Ends
  <2>3. m \in Message /\ On(w, m)
    BY <2>1, <2>2 DEF WorkerRec, On, IdleWorker
  <2>4. m \in Rows
    BY <2>3 DEF RowsFirst
  <2>5. UNCHANGED sender /\ dead' \subseteq dead \cup {m}
    BY <1>2, <2>1 DEF EndJob
  <2>6. \A n \in Message, v \in Worker : On(v, n)' => On(v, n)
    BY <2>2 DEF On, Inv, TypeOK
  <2> QED
    BY <2>2, <2>3, <2>4, <2>5, <2>6 DEF About, Rows
<1>3. ASSUME NEW w \in Worker, WorkerDies(w) PROVE Passes
  <2>1. \A n \in Message, v \in Worker : On(v, n)' => On(v, n)
    BY <1>3 DEF WorkerDies, On, Inv, TypeOK
  <2> QED
    BY <1>3, <2>1 DEF WorkerDies, Passes
<1>4. ASSUME NEW m \in Message, StallJob(m) PROVE About(m)
  <2>1. m \in Rows
    BY <1>4 DEF StallJob, RowsFirst
  <2>2. Stalls(m)
    BY <1>4, StallsJob
  <2> QED
    BY <1>4, <2>1, <2>2 DEF StallJob, Stalls, About, Rows, On
<1>5. ASSUME NEW m \in Message, MarkDeadLetter(m) PROVE About(m)
  <2>1. m \in Rows
    BY <1>5 DEF MarkDeadLetter, RowsFirst
  <2>2. row' = [row EXCEPT ![m].status = "DEAD_LETTER"] /\ row \in [Message -> RowRec]
    BY <1>5 DEF MarkDeadLetter, Inv, TypeOK, RowRec
  <2>3. row'[m].status # "ABSENT" /\ \A n \in Message \ {m} : row'[n] = row[n]
    BY <2>2 DEF RowRec
  <2> QED
    BY <1>5, <2>1, <2>3 DEF MarkDeadLetter, About, On
<1>6. ASSUME NEW m \in Message, LoseDeadLetter(m) PROVE Passes
  BY <1>6 DEF LoseDeadLetter, Passes, On
<1> QED
  BY <1>1, <1>2, <1>3, <1>4, <1>5, <1>6, DeliverAbout DEF WorkerNext, Deliver

LEMMA HookAbout ==
  ASSUME Inv, RowsFirst, HookNext
  PROVE  Passes \/ \E m \in Message : About(m)
<1>1. PICK h \in Hook :
        \/ \E p \in Payloads : ReceiveWebhook(h, p)
        \/ StoreEvent(h) \/ ApplyEvent(h) \/ MarkProcessed(h) \/ RejectEvent(h)
        \/ HookDies(h)
  BY DEF HookNext
<1>2. CASE ~ApplyEvent(h)
  <2>1. UNCHANGED outbound
    BY <1>1, <1>2 DEF ReceiveWebhook, StoreEvent, MarkProcessed, RejectEvent, HookDies
  <2> QED
    BY <2>1 DEF outbound, Passes, On
<1>3. CASE ApplyEvent(h)
  <2>1. PICK p : p = hook[h].payload
    OBVIOUS
  <2>2. /\ UNCHANGED <<job, sender, worker, dead>>
        /\ row' = IF p.report = "incoming" THEN row
                  ELSE [row EXCEPT ![p.event.of] = Reported(p.event.of, p.report)]
    BY <1>3, <2>1 DEF ApplyEvent
  <2>3. row \in [Message -> RowRec]
    BY DEF Inv, TypeOK, RowRec
  <2>4. CASE UNCHANGED row
    BY <2>2, <2>4 DEF Passes, On
  <2>5. CASE ~UNCHANGED row
    <3>1. PICK m \in Message : m = p.event.of
      BY <2>2, <2>3, <2>5
    <3>2. row' = [row EXCEPT ![m] = Reported(m, p.report)] /\ row[m] \in RowRec
      BY <2>2, <2>3, <2>5, <3>1
    <3>3. row[m].providerMessageId
      BY <2>3, <2>5, <3>2 DEF Reported
    <3>4. StatusOf(p.report) # "ABSENT"
      <4>1. hook[h].step = "apply"
        BY <1>3 DEF ApplyEvent
      <4>2. p.report \in Report \cup {"incoming"}
        BY <2>1, <4>1, HookRow DEF Inv
      <4>3. p.report # "incoming"
        BY <2>2, <2>5
      <4> QED
        BY <4>2, <4>3 DEF Report, StatusOf
    <3>5. row'[m].status # "ABSENT" /\ \A n \in Message \ {m} : row'[n] = row[n]
      <4>1. row'[m] = [row[m] EXCEPT !.status = StatusOf(p.report)]
        BY <2>3, <3>2, <3>3 DEF Reported
      <4>2. row'[m].status = StatusOf(p.report)
        BY <3>2, <4>1 DEF RowRec
      <4> QED
        BY <2>3, <3>2, <3>4, <4>2
    <3>6. m \in Rows
      BY <3>3 DEF RowsFirst
    <3> QED
      BY <2>2, <3>5, <3>6 DEF About, On
  <2> QED
    BY <2>4, <2>5
<1> QED
  BY <1>2, <1>3

LEMMA SenderAbout ==
  ASSUME Inv, RowsFirst, SenderNext
  PROVE  \/ Passes
         \/ \E m \in Message : About(m)
         \/ \E s \in Sender : Begins(s) \/ \E m \in Message : Makes(s, m)
<1>1. PICK s \in Sender :
        \/ \E batch \in SUBSET Message : StartSending(s, batch)
        \/ \E m \in Message : CreateOutboundMessage(s, m) \/ Enqueue(s, m)
        \/ GiveUpSending(s)
  BY DEF SenderNext
<1> DEFINE SenderRec == [todo : SUBSET Message, made : SUBSET Message]
<1>2. sender \in [Sender -> SenderRec] /\ sender[s] \in SenderRec
  BY DEF Inv, TypeOK
<1>3. ASSUME NEW batch \in SUBSET Message, StartSending(s, batch) PROVE Begins(s)
  <2>1. sender' = [sender EXCEPT ![s].todo = batch]
    BY <1>3 DEF StartSending
  <2>2. /\ sender'[s].todo = batch /\ sender'[s].made = sender[s].made
        /\ \A r \in Sender \ {s} : sender'[r] = sender[r]
    BY <1>2, <2>1
  <2> QED
    BY <1>3, <2>2 DEF StartSending, Begins
<1>4. CASE GiveUpSending(s)
  <2>1. sender' = [sender EXCEPT ![s] = Free]
    BY <1>4 DEF GiveUpSending
  <2>2. \A r \in Sender : /\ sender'[r].todo \subseteq sender[r].todo
                          /\ sender'[r].made \subseteq sender[r].made
    BY <1>2, <2>1 DEF Free
  <2>3. Passes
    BY <1>4, <2>2 DEF GiveUpSending, Passes, On
  <2> QED
    BY <2>3
<1>5. ASSUME NEW m \in Message, CreateOutboundMessage(s, m) PROVE Makes(s, m)
  <2>1. sender' = [sender EXCEPT ![s] = [todo |-> sender[s].todo \ {m},
                                         made |-> sender[s].made \cup {m}]]
    BY <1>5 DEF CreateOutboundMessage
  <2>2. /\ sender'[s].todo = sender[s].todo \ {m}
        /\ sender'[s].made = sender[s].made \cup {m}
        /\ \A r \in Sender \ {s} : sender'[r] = sender[r]
    BY <1>2, <2>1
  <2>3. row' = IF m \in Rows THEN row ELSE [row EXCEPT ![m].status = "QUEUED"]
    BY <1>5 DEF CreateOutboundMessage
  <2>4. row'[m].status # "ABSENT" /\ \A n \in Message \ {m} : row'[n] = row[n]
    <3>1. row \in [Message -> RowRec]
      BY DEF Inv, TypeOK, RowRec
    <3>2. CASE m \in Rows
      BY <2>3, <3>2 DEF Rows
    <3>3. CASE m \notin Rows
      <4>1. row' = [row EXCEPT ![m].status = "QUEUED"]
        BY <2>3, <3>3
      <4> QED
        BY <3>1, <4>1 DEF RowRec
    <3> QED
      BY <3>2, <3>3
  <2> QED
    BY <1>5, <2>2, <2>4 DEF CreateOutboundMessage, Makes
<1>6. ASSUME NEW m \in Message, Enqueue(s, m) PROVE About(m)
  <2>1. sender' = [sender EXCEPT ![s].made = @ \ {m}] /\ m \in sender[s].made
    BY <1>6 DEF Enqueue
  <2>2. \A r \in Sender : /\ sender'[r].todo = sender[r].todo
                          /\ sender'[r].made \subseteq sender[r].made
    BY <1>2, <2>1
  <2>3. m \in Rows
    BY <2>1 DEF RowsFirst
  <2>4. \A n \in Message \ {m} : job'[n] = job[n]
    BY <1>6 DEF Enqueue, Inv, TypeOK
  <2> QED
    BY <1>6, <2>2, <2>3, <2>4 DEF Enqueue, About, Rows, On
<1> QED
  BY <1>1, <1>3, <1>4, <1>5, <1>6

LEMMA AboutKinds ==
  ASSUME Inv, RowsFirst, [Next]_vars
  PROVE  \/ Passes
         \/ \E m \in Message : About(m)
         \/ \E s \in Sender : Begins(s) \/ \E m \in Message : Makes(s, m)
<1>1. CASE UNCHANGED vars \/ ConnectSender \/ DisconnectSender
  BY <1>1 DEF vars, outbound, ConnectSender, DisconnectSender, Passes, On
<1>2. CASE Next /\ ~(ConnectSender \/ DisconnectSender)
  BY <1>2, SenderAbout, WorkerAbout, HookAbout DEF Next
<1> QED
  BY <1>1, <1>2

LEMMA RowsFirstKept ==
  ASSUME Inv, Inv', RowsFirst,
         \/ Passes
         \/ \E m \in Message : About(m)
         \/ \E s \in Sender : Begins(s) \/ \E m \in Message : Makes(s, m)
  PROVE  RowsFirst'
<1>1. CASE Passes
  BY <1>1 DEF Passes, RowsFirst, Rows
<1>2. ASSUME NEW m \in Message, About(m) PROVE RowsFirst'
  BY <1>2 DEF About, RowsFirst, Rows
<1>3. ASSUME NEW s \in Sender, Begins(s) PROVE RowsFirst'
  BY <1>3 DEF Begins, RowsFirst, Rows, On
<1>4. ASSUME NEW s \in Sender, NEW m \in Message, Makes(s, m) PROVE RowsFirst'
  BY <1>4 DEF Makes, RowsFirst, Rows, On
<1> QED
  BY <1>1, <1>2, <1>3, <1>4

LEMMA RowsCount ==
  ASSUME IsFiniteSet(Message)
  PROVE  IsFiniteSet(Rows) /\ Cardinality(Rows) \in Nat
<1>1. Rows \in SUBSET Message
  BY DEF Rows
<1> QED
  BY <1>1, FS_Subset, FS_CardinalityType

LEMMA AskedCount ==
  ASSUME IsFiniteSet(Sender), IsFiniteSet(Message)
  PROVE  IsFiniteSet(Asked) /\ Cardinality(Asked) \in Nat
<1>1. Asked \in SUBSET (Sender \X Message)
  BY DEF Asked
<1>2. IsFiniteSet(Sender \X Message)
  BY FS_Product
<1> QED
  BY <1>1, <1>2, FS_Subset, FS_CardinalityType

(* Rows stay, and no more is asked for. *)
LEMMA QuotaStays ==
  ASSUME QuotaInv, Inv', IsFiniteSet(Sender), IsFiniteSet(Message),
         Rows' = Rows,
         \A s \in Sender : sender'[s].todo \subseteq sender[s].todo
  PROVE  /\ \A s \in Sender : Cardinality(sender'[s].todo) <= Recipients
         /\ \/ Rows' = {} /\ Asked' = {}
            \/ /\ Limit # 0
               /\ Cardinality(Rows') + Cardinality(Asked')
                    < Limit + Recipients * Cardinality(Sender)
<1>1. ASSUME NEW s \in Sender PROVE Cardinality(sender'[s].todo) <= Recipients
  <2>1. sender[s].todo \in SUBSET Message /\ sender'[s].todo \in SUBSET sender[s].todo
    BY DEF QuotaInv, Inv, TypeOK
  <2>2. IsFiniteSet(sender[s].todo)
    BY <2>1, FS_Subset
  <2>3. IsFiniteSet(sender'[s].todo) /\ Cardinality(sender'[s].todo) <= Cardinality(sender[s].todo)
    BY <2>1, <2>2, FS_Subset
  <2>4. Cardinality(sender'[s].todo) \in Nat /\ Cardinality(sender[s].todo) \in Nat
    BY <2>2, <2>3, FS_CardinalityType
  <2>5. Cardinality(sender[s].todo) <= Recipients
    BY DEF QuotaInv
  <2> QED
    BY <2>3, <2>4, <2>5, BoundsAssumption
<1>2. Asked' \in SUBSET Asked
  BY DEF Asked
<1>3. /\ IsFiniteSet(Asked') /\ Cardinality(Asked') <= Cardinality(Asked)
      /\ Cardinality(Asked) \in Nat
  BY <1>2, AskedCount, FS_Subset
<1>4. Cardinality(Asked') \in Nat /\ Cardinality(Rows) \in Nat /\ Cardinality(Sender) \in Nat
  BY <1>3, RowsCount, FS_CardinalityType
<1>5. PICK most : most = Limit + Recipients * Cardinality(Sender) /\ most \in Int
  BY <1>4, BoundsAssumption
<1>6. \/ Rows' = {} /\ Asked' = {}
      \/ Limit # 0 /\ Cardinality(Rows') + Cardinality(Asked') < most
  <2>1. CASE Rows = {} /\ Asked = {}
    BY <1>2, <2>1
  <2>2. CASE Limit # 0 /\ Cardinality(Rows) + Cardinality(Asked) < most
    BY <1>3, <1>4, <1>5, <2>2
  <2> QED
    BY <1>5, <2>1, <2>2 DEF QuotaInv
<1> QED
  BY <1>1, <1>5, <1>6

(* What a request that passed the check asks for. *)
LEMMA QuotaBegins ==
  ASSUME QuotaInv, Inv', IsFiniteSet(Sender), IsFiniteSet(Message),
         NEW s \in Sender, Begins(s)
  PROVE  /\ \A r \in Sender : Cardinality(sender'[r].todo) <= Recipients
         /\ Limit # 0
         /\ Cardinality(Rows') + Cardinality(Asked')
              < Limit + Recipients * Cardinality(Sender)
<1>1. \A r \in Sender : Cardinality(sender'[r].todo) <= Recipients
  BY DEF QuotaInv, Begins
<1>2. \E todo \in [Sender -> SUBSET Message] :
        (\A r \in Sender : todo[r] = sender'[r].todo) /\ Asked' = Batches(todo)
  <2> DEFINE todo == [r \in Sender |-> sender'[r].todo]
  <2>1. todo \in [Sender -> SUBSET Message]
    BY DEF Inv, TypeOK
  <2>2. Asked' = Batches(todo)
    BY DEF Asked, Batches
  <2> QED
    BY <2>1, <2>2
<1>3. /\ Cardinality(Asked') \in Nat
      /\ Cardinality(Asked') <= Recipients * Cardinality(Sender)
  BY <1>1, <1>2, BatchesBounded
<1>4. Rows' = Rows /\ Cardinality(Rows) < Limit
  BY DEF Begins, Rows
<1>5. Cardinality(Rows) \in Nat /\ Cardinality(Sender) \in Nat
  BY RowsCount, FS_CardinalityType
<1>6. PICK n : n = Recipients * Cardinality(Sender) /\ n \in Nat
  BY <1>5, BoundsAssumption
<1>7. Limit # 0 /\ Cardinality(Rows') + Cardinality(Asked') < Limit + n
  BY <1>3, <1>4, <1>5, <1>6, BoundsAssumption
<1> QED
  BY <1>1, <1>6, <1>7

(* A message that was asked for becomes a row. *)
LEMMA QuotaMakes ==
  ASSUME QuotaInv, Inv', IsFiniteSet(Sender), IsFiniteSet(Message),
         NEW s \in Sender, NEW m \in Message, Makes(s, m)
  PROVE  /\ \A r \in Sender : Cardinality(sender'[r].todo) <= Recipients
         /\ Limit # 0
         /\ Cardinality(Rows') + Cardinality(Asked')
              < Limit + Recipients * Cardinality(Sender)
<1>1. ASSUME NEW r \in Sender PROVE Cardinality(sender'[r].todo) <= Recipients
  <2>1. CASE r # s
    BY <2>1 DEF Makes, QuotaInv
  <2>2. CASE r = s
    <3>1. sender[s].todo \in SUBSET Message
      BY DEF QuotaInv, Inv, TypeOK
    <3>2. IsFiniteSet(sender[s].todo) /\ Cardinality(sender[s].todo) \in Nat
      BY <3>1, FS_Subset, FS_CardinalityType
    <3>3. Cardinality(sender'[s].todo) = Cardinality(sender[s].todo) - 1
      <4>1. PICK T : T = sender[s].todo
        OBVIOUS
      <4>2. m \in T /\ IsFiniteSet(T) /\ sender'[s].todo = T \ {m}
        BY <3>2, <4>1 DEF Makes
      <4>3. Cardinality(T \ {m}) = Cardinality(T) - 1
        BY <4>2, FS_RemoveElement
      <4> QED
        BY <4>1, <4>2, <4>3
    <3>4. Cardinality(sender[s].todo) <= Recipients
      BY DEF QuotaInv
    <3> QED
      BY <2>2, <3>2, <3>3, <3>4, BoundsAssumption
  <2> QED
    BY <2>1, <2>2
<1>2. <<s, m>> \in Asked /\ Asked' = Asked \ {<<s, m>>}
  BY DEF Makes, Asked
<1>3. Cardinality(Asked') = Cardinality(Asked) - 1 /\ Cardinality(Asked) \in Nat
  BY <1>2, AskedCount, FS_RemoveElement
<1>4. Rows' = Rows \cup {m}
  BY DEF Makes, Rows
<1>5. /\ Cardinality(Rows) \in Nat
      /\ Cardinality(Rows') = Cardinality(Rows) \/ Cardinality(Rows') = Cardinality(Rows) + 1
  BY <1>4, RowsCount, FS_AddElement
<1>6. PICK most : most = Limit + Recipients * Cardinality(Sender) /\ most \in Int
  BY FS_CardinalityType, BoundsAssumption
<1>7. Limit # 0 /\ Cardinality(Rows) + Cardinality(Asked) < most
  BY <1>2, <1>6 DEF QuotaInv
<1>8. Cardinality(Rows') + Cardinality(Asked') < most
  BY <1>3, <1>5, <1>6, <1>7
<1> QED
  BY <1>1, <1>6, <1>7, <1>8

LEMMA QuotaNext ==
  ASSUME QuotaInv, Inv', IsFiniteSet(Sender), IsFiniteSet(Message), [Next]_vars
  PROVE  QuotaInv'
<1>1. \/ Passes
      \/ \E m \in Message : About(m)
      \/ \E s \in Sender : Begins(s) \/ \E m \in Message : Makes(s, m)
  BY AboutKinds DEF QuotaInv
<1>2. RowsFirst'
  BY <1>1, RowsFirstKept DEF QuotaInv
<1>3. CASE Passes
  <2>1. Rows' = Rows /\ \A s \in Sender : sender'[s].todo \subseteq sender[s].todo
    BY <1>3 DEF Passes, Rows
  <2> QED
    BY <1>2, <2>1, QuotaStays DEF QuotaInv
<1>4. ASSUME NEW m \in Message, About(m) PROVE QuotaInv'
  <2>1. Rows' = Rows /\ \A s \in Sender : sender'[s].todo \subseteq sender[s].todo
    BY <1>4 DEF About, Rows
  <2> QED
    BY <1>2, <2>1, QuotaStays DEF QuotaInv
<1>5. ASSUME NEW s \in Sender, Begins(s) PROVE QuotaInv'
  BY <1>2, <1>5, QuotaBegins DEF QuotaInv
<1>6. ASSUME NEW s \in Sender, NEW m \in Message, Makes(s, m) PROVE QuotaInv'
  BY <1>2, <1>6, QuotaMakes DEF QuotaInv
<1> QED
  BY <1>1, <1>3, <1>4, <1>5, <1>6

(* Requests that count the month's messages at the same time exceed the    *)
(* limit by at most a batch each, whatever is delivered, retried or lost   *)
(* meanwhile, and a company whose plan has no messages sends none          *)
(* (assertWhatsAppUsage, then createOutboundMessage for each recipient).   *)
THEOREM MonthlyExcessHolds ==
  ASSUME IsFiniteSet(Sender), IsFiniteSet(Message)
  PROVE  Spec => []MonthlyExcessBounded
<1>1. Init => RowsFirst
  BY DEF Init, RowsFirst, AbsentRow, NoJob, On, Free
<1>2. Init => (\A s \in Sender : Cardinality(sender[s].todo) <= Recipients)
              /\ Rows = {} /\ Asked = {}
  <2>1. Init => (\A s \in Sender : sender[s].todo = {}) /\ Rows = {} /\ Asked = {}
    BY DEF Init, Rows, Asked, AbsentRow, Free
  <2> QED
    BY <2>1, FS_EmptySet, BoundsAssumption
<1>3. QuotaInv /\ Inv' /\ [Next]_vars => QuotaInv'
  BY QuotaNext
<1>4. QuotaInv => MonthlyExcessBounded
  <2> SUFFICES ASSUME QuotaInv, Rows # {}
               PROVE  /\ Limit # 0
                      /\ Cardinality(Rows) < Limit + Recipients * Cardinality(Sender)
    BY DEF MonthlyExcessBounded
  <2>1. PICK most : most = Limit + Recipients * Cardinality(Sender) /\ most \in Int
    BY FS_CardinalityType, BoundsAssumption
  <2>2. Limit # 0 /\ Cardinality(Rows) + Cardinality(Asked) < most
    BY <2>1 DEF QuotaInv
  <2>3. Cardinality(Rows) < most
    BY <2>1, <2>2, RowsCount, AskedCount
  <2> QED
    BY <2>1, <2>2, <2>3
<1>5. Spec => []Inv
  BY InvHolds
<1>6. Init /\ Inv => QuotaInv
  BY <1>1, <1>2 DEF QuotaInv
<1> QED
  BY <1>3, <1>4, <1>5, <1>6, PTL DEF Spec
=============================================================================
