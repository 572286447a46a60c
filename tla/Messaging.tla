----------------------------- MODULE Messaging -----------------------------
(***************************************************************************)
(* WhatsApp messages of one company: WhatsAppService creates a row and a   *)
(* job for it, BullMQ workers run deliverQueuedMessage, and the provider's *)
(* webhooks report what became of the message.  Every awaited query or call*)
(* is a step of its own, since nothing here runs in a transaction.         *)
(*                                                                         *)
(* The model is of the WhatsAppProvider interface: a call may fail, and a  *)
(* report names the id the call returned.  The providers of this commit    *)
(* answer with an id made from the key and call nobody.                    *)
(*                                                                         *)
(* A message is named by its idempotency key, which also names its job.    *)
(* BullMQ keeps the last 1000 completed jobs and all failed ones; the model*)
(* keeps every job, so it is about messages that are not sent again after  *)
(* a thousand others.                                                      *)
(***************************************************************************)
EXTENDS Naturals, FiniteSets

CONSTANTS
  Message,     \* outbound messages
  Incoming,    \* messages guests write
  Sender,      \* requests that send messages
  Worker,      \* BullMQ workers
  Hook,        \* webhook requests of the provider
  None,        \* no worker holds a job's lock
  Limit,       \* messages of the month the plan allows
  Recipients,  \* bound: messages one request sends
  MaxRetries,  \* WHATSAPP_MAX_RETRIES, attempts of a job
  MaxStalled,  \* BullMQ's maxStalledCount
  MaxFaults,   \* bound: failing queries and lost answers per message
  SharesId     \* the provider names an event by its message (Twilio, Meta)

ASSUME BoundsAssumption ==
  /\ Limit \in Nat /\ Recipients \in Nat /\ MaxFaults \in Nat
  /\ MaxRetries \in Nat \ {0} /\ MaxStalled \in Nat
  /\ SharesId \in BOOLEAN
ASSUME NamesAssumption == None \notin Worker
ASSUME WorkersAssumption == IsFiniteSet(Worker)

MessageStatus == {"QUEUED", "SENT", "DELIVERED", "READ", "FAILED", "DEAD_LETTER"}
JobState      == {"none", "waiting", "active", "completed", "failed"}
Step          == {"load", "connect", "send", "record", "usage", "failing", "end"}
Report        == {"sent", "delivered", "read", "failed"}

VARIABLES
  row,       \* WhatsAppMessage rows
  job,       \* BullMQ jobs
  connected, \* a sender is connected
  sender,    \* what each sending request has still to create and to enqueue
  worker,    \* what each worker is doing
  sends,     \* how often the provider took each message
  usage,     \* UsageRecord rows of each message
  faults,    \* failing queries and lost answers of each message's deliveries
  dead,      \* jobs whose dead letter has still to be written
  event,     \* WhatsAppWebhookEvent rows
  hook,      \* what each webhook request is doing
  applied    \* how often each event was applied

outbound == <<row, job, sender, worker, sends, usage, faults, dead>>
inbound  == <<event, hook, applied>>
vars     == <<outbound, inbound, connected>>

AbsentRow  == [status |-> "ABSENT", providerMessageId |-> FALSE]
NoJob      == [state |-> "none", attemptsMade |-> 0, stalled |-> 0, lock |-> None]
IdleWorker == [step |-> "idle"]
Free       == [todo |-> {}, made |-> {}]
IdleHook   == [step |-> "idle"]

(* providerEventId: what the webhook's payload names the event by. *)
StatusEvents == IF SharesId THEN [of : Message, id : {"message"}]
                ELSE [of : Message, id : Report]
Events       == StatusEvents \cup [of : Incoming, id : {"incoming"}]
EventOf(m, report) ==
  [of |-> m, id |-> IF SharesId THEN "message" ELSE report]

-----------------------------------------------------------------------------
(* Sending: the usage check once per request, then a row and a job for each*)
(* recipient.                                                              *)

Rows == {m \in Message : row[m].status # "ABSENT"}

(* assertWhatsAppUsage counts the rows of the month. *)
StartSending(s, batch) ==
  /\ sender[s] = Free
  /\ Cardinality(Rows) < Limit
  /\ batch # {} /\ Cardinality(batch) <= Recipients
  /\ sender' = [sender EXCEPT ![s].todo = batch]
  /\ UNCHANGED <<row, job, worker, sends, usage, faults, dead, connected, inbound>>

(* createOutboundMessage: a row with this key is used as it is. *)
CreateOutboundMessage(s, m) ==
  /\ m \in sender[s].todo
  /\ sender' = [sender EXCEPT ![s] = [todo |-> @.todo \ {m},
                                      made |-> @.made \cup {m}]]
  /\ row' = IF m \in Rows THEN row ELSE [row EXCEPT ![m].status = "QUEUED"]
  /\ UNCHANGED <<job, worker, sends, usage, faults, dead, connected, inbound>>

AddJobAgain(m) == [NoJob EXCEPT !.state = "waiting"] \* mutant: no jobId

(* queue.add with a jobId: a job of this name is left alone. *)
AddJob(m) ==
  IF job[m].state = "none" THEN [NoJob EXCEPT !.state = "waiting"] ELSE job[m]

Enqueue(s, m) ==
  /\ m \in sender[s].made
  /\ job' = [job EXCEPT ![m] = AddJob(m)]
  /\ sender' = [sender EXCEPT ![s].made = @ \ {m}]
  /\ UNCHANGED <<row, worker, sends, usage, faults, dead, connected, inbound>>

(* The request dies, or a query throws and the rest is given up. *)
GiveUpSending(s) ==
  /\ sender[s] # Free
  /\ sender' = [sender EXCEPT ![s] = Free]
  /\ UNCHANGED <<row, job, worker, sends, usage, faults, dead, connected, inbound>>

-----------------------------------------------------------------------------
(* Delivery: deliverQueuedMessage, one step per await. *)

At(w, step) == worker[w].step = step

Goto(w, step) == worker' = [worker EXCEPT ![w].step = step]

(* The processor returns, or throws. *)
Return(w, ok) == worker' = [worker EXCEPT ![w].step = "end", ![w].ok = ok]

(* Mutant: jobs wait for a connected sender. *)
WaitingConnected(m) == job[m].state = "waiting" /\ connected

Waiting(m) == job[m].state = "waiting"

(* BullMQ gives a waiting job, or a retry whose delay is over, to a worker.*)
TakeJob(w, m) ==
  /\ worker[w] = IdleWorker
  /\ Waiting(m)
  /\ job' = [job EXCEPT ![m].state = "active", ![m].lock = w]
  /\ worker' = [worker EXCEPT ![w] = [step |-> "load", of |-> m, ok |-> FALSE]]
  /\ UNCHANGED <<row, sender, sends, usage, faults, dead, connected, inbound>>

Deliverable(m) == TRUE \* mutant: the row's status is not looked at

StillQueued(m) == row[m].status = "QUEUED"

Load(w) ==
  /\ At(w, "load")
  /\ IF StillQueued(worker[w].of) THEN Goto(w, "connect") ELSE Return(w, TRUE)
  /\ UNCHANGED <<row, job, sender, sends, usage, faults, dead, connected, inbound>>

Connect(w) ==
  /\ At(w, "connect")
  /\ Goto(w, IF connected THEN "send" ELSE "failing")
  /\ UNCHANGED <<row, job, sender, sends, usage, faults, dead, connected, inbound>>

ProviderAccepts(w) ==
  /\ At(w, "send")
  /\ sends' = [sends EXCEPT ![worker[w].of] = @ + 1]
  /\ Goto(w, "record")
  /\ UNCHANGED <<row, job, sender, usage, faults, dead, connected, inbound>>

(* Mutant: the response's status is not looked at. *)
RejectionUnnoticed(w) ==
  /\ At(w, "send")
  /\ Goto(w, "record")
  /\ UNCHANGED <<row, job, sender, sends, usage, faults, dead, connected, inbound>>

ProviderRejects(w) ==
  /\ At(w, "send")
  /\ Goto(w, "failing")
  /\ UNCHANGED <<row, job, sender, sends, usage, faults, dead, connected, inbound>>

RecordSent(w) ==
  /\ At(w, "record")
  /\ row' = [row EXCEPT ![worker[w].of] =
               [status |-> "SENT", providerMessageId |-> TRUE]]
  /\ Goto(w, "usage")
  /\ UNCHANGED <<job, sender, sends, usage, faults, dead, connected, inbound>>

RecordUsage(w) ==
  /\ At(w, "usage")
  /\ usage' = [usage EXCEPT ![worker[w].of] = @ + 1]
  /\ Return(w, TRUE)
  /\ UNCHANGED <<row, job, sender, sends, faults, dead, connected, inbound>>

(* markFailed, whatever the row says by now; then the error goes on.       *)
MarkFailed(w) ==
  /\ At(w, "failing")
  /\ row' = [row EXCEPT ![worker[w].of].status = "FAILED"]
  /\ Return(w, FALSE)
  /\ UNCHANGED <<job, sender, sends, usage, faults, dead, connected, inbound>>

(* A query throws, or the provider's answer is lost.  Before the try block, *)
(* and in markFailed, the error leaves the row as it is; inside the block   *)
(* it leads to markFailed.                                                 *)
Fault(w) ==
  LET m == worker[w].of IN
  /\ worker[w] # IdleWorker
  /\ worker[w].step # "end"
  /\ faults[m] < MaxFaults
  /\ faults' = [faults EXCEPT ![m] = @ + 1]
  /\ IF worker[w].step \in {"send", "record", "usage"}
     THEN Goto(w, "failing") ELSE Return(w, FALSE)
  /\ sends' = IF At(w, "send") THEN [sends EXCEPT ![m] = @ + 1] ELSE sends
  /\ usage' \in {usage} \cup
       IF At(w, "usage") THEN {[usage EXCEPT ![m] = @ + 1]} ELSE {}
  /\ UNCHANGED <<row, job, sender, dead, connected, inbound>>

MayRetry(made) == made < MaxRetries

(* BullMQ books the outcome, if the worker still holds the job's lock.  The *)
(* last failure starts markDeadLetter, which nobody waits for.             *)
EndJob(w) ==
  LET m        == worker[w].of
      attempts == job[m].attemptsMade + 1
      again    == ~worker[w].ok /\ MayRetry(attempts)
      state    == IF worker[w].ok THEN "completed"
                  ELSE IF again THEN "waiting" ELSE "failed"
  IN
  /\ At(w, "end")
  /\ worker' = [worker EXCEPT ![w] = IdleWorker]
  /\ IF job[m].lock = w
     THEN /\ job' = [job EXCEPT ![m] = [@ EXCEPT !.state = state, !.lock = None,
                                                 !.attemptsMade = attempts]]
          /\ dead' = IF state = "failed" THEN dead \cup {m} ELSE dead
     ELSE UNCHANGED <<job, dead>>
  /\ UNCHANGED <<row, sender, sends, usage, faults, connected, inbound>>

MarkDeadLetter(m) ==
  /\ m \in dead
  /\ row' = [row EXCEPT ![m].status = "DEAD_LETTER"]
  /\ dead' = dead \ {m}
  /\ UNCHANGED <<job, sender, worker, sends, usage, faults, connected, inbound>>

(* Its process dies, or its query throws. *)
LoseDeadLetter(m) ==
  /\ m \in dead
  /\ dead' = dead \ {m}
  /\ UNCHANGED <<row, job, sender, worker, sends, usage, faults, connected, inbound>>

WorkerDies(w) ==
  /\ worker[w] # IdleWorker
  /\ worker' = [worker EXCEPT ![w] = IdleWorker]
  /\ UNCHANGED <<row, job, sender, sends, usage, faults, dead, connected, inbound>>

StalledState(stalled) == IF stalled < MaxStalled THEN "waiting" ELSE "failed"

(* A lock that is not renewed in time: the job goes back to the queue, or   *)
(* fails for good when it stalled before.  A worker that is only slow goes *)
(* on without the lock.                                                    *)
StallJob(m) ==
  /\ job[m].state = "active"
  /\ job' = [job EXCEPT ![m].state = StalledState(job[m].stalled),
                         ![m].stalled = @ + 1, ![m].lock = None]
  /\ UNCHANGED <<row, sender, worker, sends, usage, faults, dead, connected, inbound>>

ConnectSender    == connected' = TRUE /\ UNCHANGED <<outbound, inbound>>
DisconnectSender == connected' = FALSE /\ UNCHANGED <<outbound, inbound>>

-----------------------------------------------------------------------------
(* Webhooks: processWebhookEvent, one step per await.  The provider reports*)
(* on messages it took, in any order and as often as it likes.             *)

(* What the webhook is about: a report on a message, or a message of a     *)
(* guest.                                                                  *)
Payloads == [event : Events, report : Report \cup {"incoming"}]

Authentic(p) ==
  \/ p.event.of \in Incoming /\ p.report = "incoming"
  \/ /\ p.event.of \in Message /\ p.report # "incoming"
     /\ p.event = EventOf(p.event.of, p.report)
     /\ sends[p.event.of] > 0

(* findUnique: a known event is answered as a duplicate at once. *)
ReceiveWebhook(h, p) ==
  /\ hook[h] = IdleHook
  /\ Authentic(p)
  /\ event[p.event] = "NONE"
  /\ hook' = [hook EXCEPT ![h] = [step |-> "create", payload |-> p]]
  /\ UNCHANGED <<outbound, event, applied, connected>>

EventUnchecked(e) == TRUE \* mutant: no unique index on the event

EventUnknown(e) == event[e] = "NONE"

(* create: the unique index refuses an event stored since it was looked up.*)
StoreEvent(h) ==
  LET e == hook[h].payload.event IN
  /\ hook[h].step = "create"
  /\ IF EventUnknown(e)
     THEN /\ event' = [event EXCEPT ![e] = "RECEIVED"]
          /\ hook' = [hook EXCEPT ![h].step = "apply"]
     ELSE hook' = [hook EXCEPT ![h] = IdleHook] /\ UNCHANGED event
  /\ UNCHANGED <<outbound, applied, connected>>

StatusOf(report) ==
  CASE report = "delivered" -> "DELIVERED"
    [] report = "read"      -> "READ"
    [] report = "failed"    -> "FAILED"
    [] report = "sent"      -> "SENT"

(* updateMany where providerMessageId: rows that do not have it yet are not *)
(* found, and the row's present status does not matter.                    *)
Reported(m, report) ==
  IF row[m].providerMessageId THEN [row[m] EXCEPT !.status = StatusOf(report)]
  ELSE row[m]

(* storeIncomingMessage or updateDeliveryStatus.  The staff notification of *)
(* an incoming message is one more request of a Sender.                    *)
ApplyEvent(h) ==
  LET p == hook[h].payload IN
  /\ hook[h].step = "apply"
  /\ applied' = [applied EXCEPT ![p.event] = @ + 1]
  /\ row' = IF p.report = "incoming" THEN row
            ELSE [row EXCEPT ![p.event.of] = Reported(p.event.of, p.report)]
  /\ hook' = [hook EXCEPT ![h].step = "mark"]
  /\ UNCHANGED <<job, sender, worker, sends, usage, faults, dead, event, connected>>

MarkProcessed(h) ==
  /\ hook[h].step = "mark"
  /\ event' = [event EXCEPT ![hook[h].payload.event] = "PROCESSED"]
  /\ hook' = [hook EXCEPT ![h] = IdleHook]
  /\ UNCHANGED <<outbound, applied, connected>>

(* The tenant is not found, or a query of the processing throws. *)
RejectEvent(h) ==
  /\ hook[h].step \in {"apply", "mark"}
  /\ event' = [event EXCEPT ![hook[h].payload.event] = "FAILED"]
  /\ hook' = [hook EXCEPT ![h] = IdleHook]
  /\ UNCHANGED <<outbound, applied, connected>>

HookDies(h) ==
  /\ hook[h] # IdleHook
  /\ hook' = [hook EXCEPT ![h] = IdleHook]
  /\ UNCHANGED <<outbound, event, applied, connected>>

-----------------------------------------------------------------------------
Init ==
  /\ row = [m \in Message |-> AbsentRow]
  /\ job = [m \in Message |-> NoJob]
  /\ connected \in BOOLEAN
  /\ sender = [s \in Sender |-> Free]
  /\ worker = [w \in Worker |-> IdleWorker]
  /\ sends = [m \in Message |-> 0]
  /\ usage = [m \in Message |-> 0]
  /\ faults = [m \in Message |-> 0]
  /\ dead = {}
  /\ event = [e \in Events |-> "NONE"]
  /\ hook = [h \in Hook |-> IdleHook]
  /\ applied = [e \in Events |-> 0]

Deliver(w) ==
  \/ Load(w) \/ Connect(w) \/ ProviderAccepts(w) \/ ProviderRejects(w)
  \/ RecordSent(w) \/ RecordUsage(w) \/ MarkFailed(w) \/ EndJob(w)

SenderNext ==
  \E s \in Sender :
    \/ \E batch \in SUBSET Message : StartSending(s, batch)
    \/ \E m \in Message : CreateOutboundMessage(s, m) \/ Enqueue(s, m)
    \/ GiveUpSending(s)

WorkerNext ==
  \/ \E w \in Worker :
       \/ \E m \in Message : TakeJob(w, m)
       \/ Deliver(w)
       \/ Fault(w)
       \/ WorkerDies(w)
  \/ \E m \in Message : StallJob(m) \/ MarkDeadLetter(m) \/ LoseDeadLetter(m)

HookNext ==
  \E h \in Hook :
    \/ \E p \in Payloads : ReceiveWebhook(h, p)
    \/ StoreEvent(h) \/ ApplyEvent(h) \/ MarkProcessed(h) \/ RejectEvent(h)
    \/ HookDies(h)

Next ==
  SenderNext \/ WorkerNext \/ HookNext \/ ConnectSender \/ DisconnectSender

Spec == Init /\ [][Next]_vars

(* A job whose lock nobody renews. *)
Abandoned(m) ==
  /\ job[m].state = "active"
  /\ \A w \in Worker :
       job[m].lock = w => worker[w] = IdleWorker \/ worker[w].of # m

(* A query or a call that is awaited returns or throws, an idle worker takes*)
(* a waiting job, and BullMQ's stalled check finds abandoned jobs.         *)
FairSpec ==
  /\ Spec
  /\ \A w \in Worker : WF_vars(Deliver(w))
  /\ \A m \in Message :
       /\ WF_vars(\E w \in Worker : TakeJob(w, m))
       /\ WF_vars(Abandoned(m) /\ StallJob(m))

-----------------------------------------------------------------------------
Busy(m) == \E w \in Worker : worker[w] # IdleWorker /\ worker[w].of = m

TypeOK ==
  /\ row \in [Message -> [status : MessageStatus \cup {"ABSENT"},
                          providerMessageId : BOOLEAN]]
  /\ job \in [Message -> [state : JobState, attemptsMade : 0 .. MaxRetries,
                          stalled : 0 .. MaxStalled + 1,
                          lock : Worker \cup {None}]]
  /\ connected \in BOOLEAN
  /\ sender \in [Sender -> [todo : SUBSET Message, made : SUBSET Message]]
  /\ worker \in [Worker -> [step : Step, of : Message, ok : BOOLEAN]
                            \cup {IdleWorker}]
  /\ sends \in [Message -> Nat] /\ usage \in [Message -> Nat]
  /\ faults \in [Message -> 0 .. MaxFaults]
  /\ dead \subseteq Message
  /\ event \in [Events -> {"NONE", "RECEIVED", "PROCESSED", "FAILED"}]
  /\ hook \in [Hook -> [step : {"create", "apply", "mark"}, payload : Payloads]
                        \cup {IdleHook}]
  /\ applied \in [Events -> Nat]

(* A message goes to the provider once, however often it is requested; once*)
(* more for each time its job stalled, and for each pair of faults that    *)
(* loses both the record of the sending and the record of the failure.     *)
SendsExplained ==
  \A m \in Message : sends[m] <= 1 + job[m].stalled + faults[m] \div 2

(* A company is charged for a message only when it was sent, and once its  *)
(* job is over only stalls and faults leave a sending uncharged.           *)
UsageExplained ==
  \A m \in Message :
    /\ usage[m] <= sends[m]
    /\ job[m].state \in {"completed", "failed"} /\ ~Busy(m)
         => sends[m] - usage[m] <= job[m].stalled + faults[m]

(* A webhook event is applied at most once, whatever the provider repeats  *)
(* and whoever dies, and one that shows PROCESSED was applied.             *)
EventsAppliedOnce ==
  \A e \in Events :
    /\ applied[e] <= 1
    /\ event[e] = "PROCESSED" => applied[e] = 1

(* The event was noted, and no request that would apply it is left. *)
Dropped(e) ==
  /\ event[e] \in {"RECEIVED", "FAILED"} /\ applied[e] = 0
  /\ \A h \in Hook : hook[h].step = "apply" => hook[h].payload.event # e

(* The row is there before the event is applied, so an event whose request *)
(* died or failed in between is lost for good: neither a delivery that is  *)
(* already past the lookup nor a retry of the provider applies it later,   *)
(* when newer reports may have been applied.                               *)
DroppedStaysDropped == [][\A e \in Events : Dropped(e) => Dropped(e)']_vars

(* Every job comes to an end: neither a dead worker nor a lost lock leaves *)
(* it active for ever.                                                     *)
EveryJobEnds ==
  \A m \in Message :
    job[m].state = "waiting" ~> job[m].state \in {"completed", "failed"}
=============================================================================
