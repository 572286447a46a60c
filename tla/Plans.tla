-------------------------------- MODULE Plans --------------------------------
(***************************************************************************)
(* The plan of one company: BillingService changes it, SubscriptionGuard   *)
(* holds the company to it, and the web client reads it to choose a page.  *)
(*                                                                         *)
(* Nothing here runs in a transaction.  A change of plan goes to the       *)
(* provider, then to the subscription, then to an invoice; a creation asks *)
(* for the subscription, then counts, then inserts; a webhook is looked up,*)
(* noted, then booked.  A request may die between any two of these, and the*)
(* buttons of the subscription page may be pressed again at any time.      *)
(***************************************************************************)
EXTENDS Integers, FiniteSets

CONSTANTS
  Request,      \* requests being handled; a finished one is used again
  Plan,         \* planCatalog
  Kind,         \* what a plan limits: "room" and "property"
  Limit,        \* maxRooms and maxProperties of each plan
  Bulk,         \* bound: things one creation may ask for
  Event,        \* providerEventId values
  Seeds,        \* subscriptions a company may be set up with
  MaxMade,      \* bound: things created, of a kind
  NoPlan,       \* a company without a subscription
  MaxDuplicates \* bound: repeated webhooks noted

ASSUME LimitAssumption  == Limit \in [Plan -> [Kind -> Nat \ {0}]]
ASSUME BulkAssumption   == Bulk \in [Kind -> Nat \ {0}]
ASSUME NumberAssumption == MaxMade \in Nat /\ MaxDuplicates \in Nat
ASSUME CallerAssumption == IsFiniteSet(Request)
ASSUME PlanAssumption   == NoPlan \notin Plan

VARIABLES
  subscription, \* the Subscription row
  made,         \* live rooms and properties of the company
  held,         \* plans the subscription has been on
  provider,     \* the plan the provider was last asked for
  invoice,      \* the plan of the newest SubscriptionInvoice row
  alone,        \* the last change of plan overlapped no other, and did not die
  noted,        \* WebhookEvent rows, by event id
  booked,       \* PROCESSED BillingEvent rows of each event
  duplicates,   \* DUPLICATE BillingEvent rows
  forsaken,     \* events noted by a request that died before it booked them
  req

billing == <<subscription, held, provider, invoice, alone>>
hooks   == <<noted, booked, duplicates, forsaken>>
vars    == <<billing, made, hooks, req>>

Status    == {"trialing", "active", "past_due", "canceled"}
Lifecycle == {"TRIALING", "ACTIVE", "GRACE_PERIOD", "PAST_DUE", "SUSPENDED",
              "CANCELED"}
Row       == [exists : {TRUE}, plan : Plan, status : Status,
              lifecycle : Lifecycle, cancelAtPeriodEnd : BOOLEAN]
None      == [exists |-> FALSE]

(* Companies are set up with a status and a lifecycle that agree. *)
Agrees(sub) == sub.status \in {"trialing", "active"}
                 <=> sub.lifecycle \in {"TRIALING", "ACTIVE", "GRACE_PERIOD"}

ASSUME SeedAssumption ==
  /\ Seeds \subseteq Row \cup {None}
  /\ \A sub \in Seeds : sub.exists => Agrees(sub)

Idle     == [at |-> "idle"]
Creating == [at : {"asked", "held", "passed"}, kind : Kind, want : Nat,
             left : Nat, limit : Nat]
Changing == [at : {"ordered", "upserted"}, plan : Plan]
Ending   == [at : {"cancelling"}, atPeriodEnd : BOOLEAN]
Hooking  == [at : {"unseen", "noted"}, event : Event]
Stage    == {Idle} \cup Creating \cup Changing \cup Ending \cup Hooking

TypeOK ==
  /\ subscription \in Row \cup {None}
  /\ made \in [Kind -> Nat]
  /\ held \subseteq Plan
  /\ provider \in Plan \cup {NoPlan} /\ invoice \in Plan \cup {NoPlan}
  /\ alone \in BOOLEAN
  /\ noted \subseteq Event
  /\ booked \in [Event -> Nat] /\ duplicates \in Nat
  /\ forsaken \subseteq Event
  /\ req \in [Request -> Stage]

At(q, stage)  == req[q].at = stage
Go(q, state)  == req' = [req EXCEPT ![q] = state]
Done(q)       == Go(q, Idle)

(* Changes of plan that are under way. *)
Under == {q \in Request : req[q].at \in {"ordered", "upserted"}}

PlanOf(sub) == IF sub.exists THEN sub.plan ELSE NoPlan

Init ==
  /\ subscription \in Seeds
  /\ held = IF subscription.exists THEN {subscription.plan} ELSE {}
  /\ made = [k \in Kind |-> 0]
  /\ provider = PlanOf(subscription) /\ invoice = PlanOf(subscription)
  /\ alone = TRUE
  /\ noted = {} /\ booked = [e \in Event |-> 0]
  /\ duplicates = 0 /\ forsaken = {}
  /\ req = [q \in Request |-> Idle]

-----------------------------------------------------------------------------
(* SubscriptionGuardService. *)

(* getActiveSubscription. *)
Working(sub) ==
  /\ sub.exists
  /\ \/ sub.status \in {"trialing", "active"}
     \/ sub.lifecycle \in {"TRIALING", "ACTIVE", "GRACE_PERIOD"}

(* isActiveSubscription of the web client: whether resolvePostAuthRoute goes *)
(* on to the page that was asked for or to the choice of a plan.           *)
Shown(sub) ==
  /\ sub.exists
  /\ \/ sub.status \in {"trialing", "active"}
     \/ sub.lifecycle \in {"TRIALING", "ACTIVE", "GRACE_PERIOD"}

(* create of a property, createRoom and bulkCreateRooms. *)
Ask(q, k, n) ==
  /\ At(q, "idle") /\ made[k] < MaxMade
  /\ Go(q, [at |-> "asked", kind |-> k, want |-> n, left |-> n, limit |-> 0])
  /\ UNCHANGED <<billing, made, hooks>>

(* The limit of the plan is read. *)
ReadPlan(q) ==
  /\ At(q, "asked")
  /\ IF Working(subscription)
     THEN Go(q, [req[q] EXCEPT !.at = "held",
                               !.limit = Limit[subscription.plan][req[q].kind]])
     ELSE Done(q)
  /\ UNCHANGED <<billing, made, hooks>>

WithinOrAt(n, limit) == n <= limit \* mutant: one too many
Within(n, limit)     == n < limit

(* The rows are counted.  A list of rooms is checked once for each, each   *)
(* time against the rows there are and not the ones still to come.         *)
CountMade(q) ==
  /\ At(q, "held")
  /\ LET left == req[q].left - 1 IN
     IF Within(made[req[q].kind], req[q].limit)
     THEN Go(q, [req[q] EXCEPT !.at = IF left = 0 THEN "passed" ELSE "asked",
                               !.left = left])
     ELSE Done(q)
  /\ UNCHANGED <<billing, made, hooks>>

(* Names that exist are skipped, so fewer may come of it. *)
Create(q) ==
  /\ At(q, "passed")
  /\ \E n \in 0..req[q].want : made' = [made EXCEPT ![req[q].kind] = @ + n]
  /\ Done(q)
  /\ UNCHANGED <<billing, hooks>>

(* deleteRoom, after assertCanMutate, for which every plan is enough. *)
DeleteRoom ==
  /\ Working(subscription)
  /\ \E k \in Kind \ {"property"} :
       made[k] > 0 /\ made' = [made EXCEPT ![k] = @ - 1]
  /\ UNCHANGED <<billing, hooks, req>>

-----------------------------------------------------------------------------
(* changePlan.  The provider is asked first ... *)
OrderPlan(q, p) ==
  /\ At(q, "idle")
  /\ provider' = p
  /\ alone' = (Under = {})
  /\ Go(q, [at |-> "ordered", plan |-> p])
  /\ UNCHANGED <<subscription, made, held, invoice, hooks>>

(* Mutant: the update of a row that exists leaves its plan. *)
PutOnKept(p, sub) ==
  [exists |-> TRUE, plan |-> IF sub.exists THEN sub.plan ELSE p,
   status |-> "active", lifecycle |-> "ACTIVE", cancelAtPeriodEnd |-> FALSE]

(* Mutant: the lifecycle is left as it was. *)
PutOnStatus(p, sub) ==
  [exists |-> TRUE, plan |-> p, status |-> "active",
   lifecycle |-> IF sub.exists THEN sub.lifecycle ELSE "ACTIVE",
   cancelAtPeriodEnd |-> FALSE]

(* The row the upsert leaves. *)
PutOn(p, sub) ==
  [exists |-> TRUE, plan |-> p, status |-> "active", lifecycle |-> "ACTIVE",
   cancelAtPeriodEnd |-> FALSE]

(* ... then the row is written ... *)
UpsertSubscription(q) ==
  /\ At(q, "ordered")
  /\ subscription' = PutOn(req[q].plan, subscription)
  /\ held' = held \cup {req[q].plan}
  /\ Go(q, [req[q] EXCEPT !.at = "upserted"])
  /\ UNCHANGED <<made, provider, invoice, alone, hooks>>

(* ... and the invoice. *)
CreateInvoice(q) ==
  /\ At(q, "upserted")
  /\ invoice' = req[q].plan
  /\ Done(q)
  /\ UNCHANGED <<subscription, made, held, provider, alone, hooks>>

(* cancel: the row is looked for before the provider is told. *)
FindSubscription(q, atPeriodEnd) ==
  /\ At(q, "idle") /\ subscription.exists
  /\ Go(q, [at |-> "cancelling", atPeriodEnd |-> atPeriodEnd])
  /\ UNCHANGED <<billing, made, hooks>>

Cancel(q) ==
  /\ At(q, "cancelling")
  /\ subscription' =
       IF req[q].atPeriodEnd
       THEN [subscription EXCEPT !.cancelAtPeriodEnd = TRUE]
       ELSE [subscription EXCEPT !.lifecycle = "CANCELED", !.status = "canceled"]
  /\ Done(q)
  /\ UNCHANGED <<made, held, provider, invoice, alone, hooks>>

-----------------------------------------------------------------------------
(* recordMockWebhook; the provider delivers an event as often as it likes. *)
LookUp(q, e) ==
  /\ At(q, "idle")
  /\ IF e \in noted
     THEN /\ duplicates < MaxDuplicates
          /\ duplicates' = duplicates + 1
          /\ UNCHANGED req
     ELSE Go(q, [at |-> "unseen", event |-> e]) /\ UNCHANGED duplicates
  /\ UNCHANGED <<billing, made, noted, booked, forsaken>>

NoteAgain(e) == TRUE \* mutant: no unique index

(* The unique index on provider and providerEventId. *)
MayNote(e)   == e \notin noted

Note(q) ==
  /\ At(q, "unseen")
  /\ IF MayNote(req[q].event)
     THEN /\ noted' = noted \cup {req[q].event}
          /\ Go(q, [req[q] EXCEPT !.at = "noted"])
     ELSE Done(q) /\ UNCHANGED noted
  /\ UNCHANGED <<billing, made, booked, duplicates, forsaken>>

Book(q) ==
  /\ At(q, "noted")
  /\ booked' = [booked EXCEPT ![req[q].event] = @ + 1]
  /\ Done(q)
  /\ UNCHANGED <<billing, made, noted, duplicates, forsaken>>

-----------------------------------------------------------------------------
(* A request dies where it stands: the process, or a statement that fails. *)
Die(q) ==
  /\ ~At(q, "idle")
  /\ alone' = (alone /\ q \notin Under)
  /\ forsaken' = IF At(q, "noted") THEN forsaken \cup {req[q].event} ELSE forsaken
  /\ Done(q)
  /\ UNCHANGED <<subscription, held, provider, invoice, made, noted, booked, duplicates>>

(* changePlan of the subscription page: its buttons wait for no answer. *)
ChoosePlan(q) == \E p \in Plan : OrderPlan(q, p)

Start(q) ==
  \/ \E k \in Kind : \E n \in 1..Bulk[k] : Ask(q, k, n)
  \/ ChoosePlan(q)
  \/ \E atPeriodEnd \in BOOLEAN : FindSubscription(q, atPeriodEnd)
  \/ \E e \in Event : LookUp(q, e)

Proceed(q) ==
  \/ ReadPlan(q) \/ CountMade(q) \/ Create(q)
  \/ UpsertSubscription(q) \/ CreateInvoice(q) \/ Cancel(q)
  \/ Note(q) \/ Book(q)

Next == DeleteRoom \/ \E q \in Request : Start(q) \/ Proceed(q) \/ Die(q)

Spec == Init /\ [][Next]_vars

-----------------------------------------------------------------------------
(* However creations overlap, and whatever plan is put in place between a  *)
(* count and its insert, the company has at most what the requests of the  *)
(* moment can add to one less than the best plan it was ever on allows     *)
(* (assertCanCreateRoom, assertCanCreateProperty, bulkCreateRooms).        *)
LimitsHeld ==
  \A k \in Kind :
    \/ made[k] = 0
    \/ \E p \in held :
         made[k] <= Limit[p][k] - 1 + Bulk[k] * Cardinality(Request)

(* What the provider charges for, what the company is held to and what it  *)
(* was last invoiced for are one plan.  Changes that overlap or die leave  *)
(* them apart; the next change that runs by itself brings them together    *)
(* again, whatever was left behind and whatever is cancelled meanwhile     *)
(* (changePlan, in the order of its calls).                                *)
PlanSettled ==
  alone => \/ Under # {}
           \/ PlanOf(subscription) = provider /\ invoice = provider

(* An event is booked once, however often it is delivered, unless the      *)
(* request that noted it died before it booked it: then never              *)
(* (recordMockWebhook).                                                    *)
EventBookedOnce ==
  \A e \in Event :
    /\ booked[e] <= 1
    /\ e \in noted =>
         \/ booked[e] = 1
         \/ e \in forsaken
         \/ \E q \in Request : At(q, "noted") /\ req[q].event = e

(* The page after signing in and the guard of the server give one answer,  *)
(* and so would either of the two columns on its own                       *)
(* (isActiveSubscription, getActiveSubscription, changePlan, cancel).      *)
RouteAgreesWithGuard ==
  /\ Shown(subscription) <=> Working(subscription)
  /\ subscription.exists => Agrees(subscription)
=============================================================================
