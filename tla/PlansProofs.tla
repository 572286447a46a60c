----------------------------- MODULE PlansProofs -----------------------------
(***************************************************************************)
(* Theorems about Plans, for any number of requests at once, any catalogue *)
(* of plans and any size of a list of rooms.                               *)
(***************************************************************************)
EXTENDS Plans, FiniteSetTheorems, TLAPS

(* What a stage carries. *)
LEMMA Carried ==
  ASSUME TypeOK, NEW q \in Request
  PROVE  /\ req[q].at \in {"asked", "held", "passed"} =>
              /\ req[q] \in Creating
              /\ req[q].kind \in Kind /\ req[q].want \in Nat
              /\ req[q].left \in Nat /\ req[q].limit \in Nat
         /\ req[q].at \in {"ordered", "upserted"} =>
              req[q] \in Changing /\ req[q].plan \in Plan
         /\ req[q].at = "cancelling" => req[q] \in Ending
         /\ req[q].at \in {"unseen", "noted"} =>
              req[q] \in Hooking /\ req[q].event \in Event
<1>1. req[q] \in Stage
  BY DEF TypeOK
<1> QED
  BY <1>1 DEF Stage, Idle, Creating, Changing, Ending, Hooking

(* A request that asks for rooms has at least one of its list to go. *)
AskedSome == \A q \in Request :
  /\ req[q].at \in {"asked", "held"} => req[q].left > 0
  /\ req[q].at \in {"asked", "held", "passed"} => req[q].want <= Bulk[req[q].kind]

(* The subscription is never deleted, and its plan is one it was put on. *)
SubscriptionInv ==
  /\ subscription.exists => subscription.plan \in held
  /\ \A q \in Request : req[q].at = "cancelling" => subscription.exists

Inv == TypeOK /\ AskedSome /\ SubscriptionInv

(* What a step makes of the requests when one of them moves. *)
LEMMA Moved ==
  ASSUME TypeOK, NEW q \in Request, NEW x \in Stage, Go(q, x)
  PROVE  /\ req' \in [Request -> Stage] /\ req'[q] = x
         /\ \A p \in Request : p # q => req'[p] = req[p]
BY DEF TypeOK, Go

LEMMA StartKeeps ==
  ASSUME Inv, NEW q \in Request, Start(q)
  PROVE  Inv'
<1> USE DEF Inv, At
<1>1. ASSUME NEW k \in Kind, NEW n \in 1..Bulk[k], Ask(q, k, n) PROVE Inv'
  <2> DEFINE x == [at |-> "asked", kind |-> k, want |-> n, left |-> n, limit |-> 0]
  <2>1. x \in Stage /\ n \in Nat /\ n > 0 /\ n <= Bulk[k]
    BY BulkAssumption DEF Stage, Creating
  <2>2. /\ req' \in [Request -> Stage] /\ req'[q] = x
        /\ \A p \in Request : p # q => req'[p] = req[p]
    BY <1>1, <2>1, Moved DEF Ask
  <2>3. TypeOK'
    BY <1>1, <2>2 DEF TypeOK, Ask, billing, hooks
  <2>4. AskedSome'
    BY <2>1, <2>2 DEF AskedSome
  <2>5. SubscriptionInv'
    BY <1>1, <2>2 DEF SubscriptionInv, Ask, billing
  <2> QED
    BY <2>3, <2>4, <2>5
<1>2. ASSUME NEW p \in Plan, OrderPlan(q, p) PROVE Inv'
  <2> DEFINE x == [at |-> "ordered", plan |-> p]
  <2>1. x \in Stage
    BY DEF Stage, Changing
  <2>2. /\ req' \in [Request -> Stage] /\ req'[q] = x
        /\ \A o \in Request : o # q => req'[o] = req[o]
    BY <1>2, <2>1, Moved DEF OrderPlan
  <2>3. TypeOK'
    BY <1>2, <2>2 DEF TypeOK, OrderPlan, hooks
  <2>4. AskedSome'
    BY <2>2 DEF AskedSome
  <2>5. SubscriptionInv'
    BY <1>2, <2>2 DEF SubscriptionInv, OrderPlan
  <2> QED
    BY <2>3, <2>4, <2>5
<1>3. ASSUME NEW soon \in BOOLEAN, FindSubscription(q, soon) PROVE Inv'
  <2> DEFINE x == [at |-> "cancelling", atPeriodEnd |-> soon]
  <2>1. x \in Stage
    BY DEF Stage, Ending
  <2>2. /\ req' \in [Request -> Stage] /\ req'[q] = x
        /\ \A o \in Request : o # q => req'[o] = req[o]
    BY <1>3, <2>1, Moved DEF FindSubscription
  <2>3. TypeOK'
    BY <1>3, <2>2 DEF TypeOK, FindSubscription, billing, hooks
  <2>4. AskedSome'
    BY <2>2 DEF AskedSome
  <2>5. SubscriptionInv'
    BY <1>3, <2>2 DEF SubscriptionInv, FindSubscription, billing
  <2> QED
    BY <2>3, <2>4, <2>5
<1>4. ASSUME NEW e \in Event, LookUp(q, e) PROVE Inv'
  <2>1. CASE e \in noted
    BY <1>4, <2>1 DEF LookUp, TypeOK, AskedSome, SubscriptionInv, billing
  <2>2. CASE e \notin noted
    <3> DEFINE x == [at |-> "unseen", event |-> e]
    <3>1. x \in Stage
      BY DEF Stage, Hooking
    <3>2. /\ req' \in [Request -> Stage] /\ req'[q] = x
          /\ \A o \in Request : o # q => req'[o] = req[o]
      BY <1>4, <2>2, <3>1, Moved DEF LookUp
    <3>3. TypeOK'
      BY <1>4, <2>2, <3>2 DEF TypeOK, LookUp, billing
    <3>4. AskedSome'
      BY <3>2 DEF AskedSome
    <3>5. SubscriptionInv'
      BY <1>4, <3>2 DEF SubscriptionInv, LookUp, billing
    <3> QED
      BY <3>3, <3>4, <3>5
  <2> QED
    BY <2>1, <2>2
<1> QED
  BY <1>1, <1>2, <1>3, <1>4 DEF Start, ChoosePlan

(* A request that is over asks for nothing. *)
LEMMA Ended ==
  ASSUME Inv, NEW q \in Request, Done(q)
  PROVE  /\ req' \in [Request -> Stage] /\ req'[q] = Idle
         /\ \A o \in Request : o # q => req'[o] = req[o]
         /\ AskedSome'
         /\ \A o \in Request : req'[o].at # "idle" => o # q /\ req'[o] = req[o]
<1>1. Idle \in Stage
  BY DEF Stage
<1>2. /\ req' \in [Request -> Stage] /\ req'[q] = Idle
      /\ \A o \in Request : o # q => req'[o] = req[o]
  BY <1>1, Moved DEF Done, Inv
<1> QED
  BY <1>2 DEF Inv, AskedSome, Idle

LEMMA ProceedKeeps ==
  ASSUME Inv, NEW q \in Request, Proceed(q) \/ Die(q)
  PROVE  Inv'
<1> USE DEF Inv, At
<1>1. CASE ReadPlan(q)
  <2>1. CASE Working(subscription)
    <3> DEFINE x == [req[q] EXCEPT !.at = "held",
                               !.limit = Limit[subscription.plan][req[q].kind]]
    <3>1. subscription \in Row
      BY <2>1 DEF Working, TypeOK, None
    <3>2. Limit[subscription.plan][req[q].kind] \in Nat
      BY <1>1, <3>1, Carried, LimitAssumption DEF ReadPlan, Row
    <3>3. x \in Stage
      BY <1>1, <3>2, Carried DEF ReadPlan, Creating, Stage
    <3>4. /\ x.at = "held" /\ x.left = req[q].left /\ x.want = req[q].want
          /\ x.kind = req[q].kind
      BY <1>1, Carried DEF ReadPlan, Creating
    <3>5. /\ req' \in [Request -> Stage] /\ req'[q] = x
          /\ \A o \in Request : o # q => req'[o] = req[o]
      BY <1>1, <2>1, <3>3, Moved DEF ReadPlan
    <3> HIDE DEF x
    <3>6. AskedSome'
      BY <1>1, <3>4, <3>5 DEF AskedSome, ReadPlan
    <3>7. SubscriptionInv'
      BY <1>1, <3>4, <3>5 DEF SubscriptionInv, ReadPlan, billing
    <3>8. TypeOK'
      BY <1>1, <3>5 DEF TypeOK, ReadPlan, billing, hooks
    <3> QED
      BY <3>6, <3>7, <3>8
  <2>2. CASE ~Working(subscription)
    <3>1. Done(q)
      BY <1>1, <2>2 DEF ReadPlan
    <3>2. SubscriptionInv'
      BY <1>1, <3>1, Ended DEF SubscriptionInv, ReadPlan, billing
    <3> QED
      BY <1>1, <3>1, <3>2, Ended DEF TypeOK, ReadPlan, billing, hooks
  <2> QED
    BY <2>1, <2>2
<1>2. CASE CountMade(q)
  <2>1. CASE Within(made[req[q].kind], req[q].limit)
    <3> DEFINE left == req[q].left - 1
               x == [req[q] EXCEPT !.at = IF left = 0 THEN "passed" ELSE "asked",
                                   !.left = left]
    <3>1. left \in Nat
      BY <1>2, Carried DEF CountMade, AskedSome
    <3>2. x \in Stage
      BY <1>2, <3>1, Carried DEF CountMade, Creating, Stage
    <3>3. /\ x.at = (IF left = 0 THEN "passed" ELSE "asked")
          /\ x.left = left /\ x.want = req[q].want /\ x.kind = req[q].kind
      BY <1>2, Carried DEF CountMade, Creating
    <3>4. /\ req' \in [Request -> Stage] /\ req'[q] = x
          /\ \A o \in Request : o # q => req'[o] = req[o]
      BY <1>2, <2>1, <3>2, Moved DEF CountMade
    <3> HIDE DEF x
    <3>5. AskedSome'
      <4>1. /\ x.at \in {"asked", "held"} => x.left > 0
            /\ x.want <= Bulk[x.kind]
        <5>1. req[q].want <= Bulk[req[q].kind]
          BY <1>2 DEF AskedSome, CountMade
        <5>2. x.at \in {"asked", "held"} => left # 0
          BY <3>3
        <5>3. x.left \in Nat /\ (x.at \in {"asked", "held"} => x.left # 0)
          BY <3>1, <3>3, <5>2
        <5>4. x.want <= Bulk[x.kind]
          BY <3>3, <5>1
        <5> QED
          BY <5>3, <5>4
      <4> QED
        BY <3>4, <4>1 DEF AskedSome
    <3>6. SubscriptionInv'
      BY <1>2, <3>3, <3>4 DEF SubscriptionInv, CountMade, billing
    <3>7. TypeOK'
      BY <1>2, <3>4 DEF TypeOK, CountMade, billing, hooks
    <3> QED
      BY <3>5, <3>6, <3>7
  <2>2. CASE ~Within(made[req[q].kind], req[q].limit)
    <3>1. Done(q)
      BY <1>2, <2>2 DEF CountMade
    <3>2. SubscriptionInv'
      BY <1>2, <3>1, Ended DEF SubscriptionInv, CountMade, billing
    <3> QED
      BY <1>2, <3>1, <3>2, Ended DEF TypeOK, CountMade, billing, hooks
  <2> QED
    BY <2>1, <2>2
<1>3. CASE Create(q)
  <2>1. req[q].kind \in Kind /\ req[q].want \in Nat
    BY <1>3, Carried DEF Create
  <2>2. made' \in [Kind -> Nat]
    BY <1>3, <2>1 DEF Create, TypeOK
  <2>3. Done(q)
    BY <1>3 DEF Create
  <2>4. SubscriptionInv'
    BY <1>3, <2>3, Ended DEF SubscriptionInv, Create, billing
  <2> QED
    BY <1>3, <2>2, <2>3, <2>4, Ended DEF TypeOK, Create, billing, hooks
<1>4. CASE UpsertSubscription(q)
  <2> DEFINE x == [req[q] EXCEPT !.at = "upserted"]
  <2>1. req[q] \in Changing /\ req[q].plan \in Plan
    BY <1>4, Carried DEF UpsertSubscription
  <2>2. x \in Stage /\ x.at = "upserted"
    BY <2>1 DEF Changing, Stage
  <2>3. /\ req' \in [Request -> Stage] /\ req'[q] = x
        /\ \A o \in Request : o # q => req'[o] = req[o]
    BY <1>4, <2>2, Moved DEF UpsertSubscription
  <2>4. subscription' \in Row /\ subscription'.exists
        /\ subscription'.plan = req[q].plan /\ held' = held \cup {req[q].plan}
    BY <1>4, <2>1 DEF UpsertSubscription, PutOn, Row, Status, Lifecycle
  <2>5. TypeOK'
    BY <1>4, <2>1, <2>3, <2>4 DEF TypeOK, UpsertSubscription, hooks
  <2> HIDE DEF x
  <2>6. AskedSome'
    BY <2>2, <2>3 DEF AskedSome
  <2>7. SubscriptionInv'
    BY <2>4 DEF SubscriptionInv
  <2> QED
    BY <2>5, <2>6, <2>7
<1>5. CASE CreateInvoice(q)
  <2>1. req[q].plan \in Plan /\ Done(q)
    BY <1>5, Carried DEF CreateInvoice
  <2>2. invoice' \in Plan
    BY <1>5, <2>1 DEF CreateInvoice
  <2>3. SubscriptionInv'
    BY <1>5, <2>1, Ended DEF SubscriptionInv, CreateInvoice
  <2> QED
    BY <1>5, <2>1, <2>2, <2>3, Ended DEF TypeOK, CreateInvoice, hooks
<1>6. CASE Cancel(q)
  <2>1. subscription.exists /\ Done(q)
    BY <1>6 DEF Cancel, SubscriptionInv
  <2>2. subscription \in Row
    BY <2>1 DEF TypeOK, None
  <2>3. /\ subscription' \in Row /\ subscription'.exists
        /\ subscription'.plan = subscription.plan /\ held' = held
    BY <1>6, <2>1, <2>2 DEF Cancel, Row, Status, Lifecycle
  <2>4. SubscriptionInv'
    BY <2>1, <2>3 DEF SubscriptionInv
  <2> QED
    BY <1>6, <2>1, <2>3, <2>4, Ended DEF TypeOK, Cancel, hooks
<1>7. CASE Note(q)
  <2>1. CASE MayNote(req[q].event)
    <3> DEFINE x == [req[q] EXCEPT !.at = "noted"]
    <3>1. req[q] \in Hooking /\ req[q].event \in Event
      BY <1>7, Carried DEF Note
    <3>2. x \in Stage /\ x.at = "noted"
      BY <3>1 DEF Hooking, Stage
    <3>3. /\ req' \in [Request -> Stage] /\ req'[q] = x
          /\ \A o \in Request : o # q => req'[o] = req[o]
      BY <1>7, <2>1, <3>2, Moved DEF Note
    <3>4. TypeOK'
      BY <1>7, <2>1, <3>1, <3>3 DEF TypeOK, Note, billing
    <3> HIDE DEF x
    <3>5. AskedSome' /\ SubscriptionInv'
      BY <1>7, <3>2, <3>3 DEF AskedSome, SubscriptionInv, Note, billing
    <3> QED
      BY <3>4, <3>5
  <2>2. CASE ~MayNote(req[q].event)
    <3>1. Done(q)
      BY <1>7, <2>2 DEF Note
    <3>2. SubscriptionInv'
      BY <1>7, <3>1, Ended DEF SubscriptionInv, Note, billing
    <3> QED
      BY <1>7, <2>2, <3>1, <3>2, Ended DEF TypeOK, Note, billing
  <2> QED
    BY <2>1, <2>2
<1>8. CASE Book(q)
  <2>1. req[q].event \in Event /\ Done(q)
    BY <1>8, Carried DEF Book
  <2>2. SubscriptionInv'
    BY <1>8, <2>1, Ended DEF SubscriptionInv, Book, billing
  <2> QED
    BY <1>8, <2>1, <2>2, Ended DEF TypeOK, Book, billing
<1>9. CASE Die(q)
  <2>1. Done(q)
    BY <1>9 DEF Die
  <2>2. alone' \in BOOLEAN
    BY <1>9 DEF Die
  <2>3. forsaken' \subseteq Event
    BY <1>9, Carried DEF Die, TypeOK
  <2>4. SubscriptionInv'
    BY <1>9, <2>1, Ended DEF SubscriptionInv, Die
  <2> QED
    BY <1>9, <2>1, <2>2, <2>3, <2>4, Ended DEF TypeOK, Die
<1> QED
  BY <1>1, <1>2, <1>3, <1>4, <1>5, <1>6, <1>7, <1>8, <1>9 DEF Proceed

LEMMA DeleteKeeps ==
  ASSUME Inv, DeleteRoom
  PROVE  Inv'
<1>1. made' \in [Kind -> Nat]
  BY DEF DeleteRoom, Inv, TypeOK
<1> QED
  BY <1>1 DEF DeleteRoom, Inv, TypeOK, AskedSome, SubscriptionInv, billing, hooks

LEMMA InvHolds == Spec => []Inv
<1>1. Init => Inv
  <2> SUFFICES ASSUME Init PROVE Inv
    OBVIOUS
  <2>1. subscription \in Row \cup {None}
    BY SeedAssumption DEF Init
  <2>2. held \subseteq Plan /\ (subscription.exists => subscription.plan \in held)
    <3>1. CASE subscription \in Row
      BY <3>1 DEF Init, Row
    <3>2. CASE subscription = None
      BY <3>2 DEF Init, None
    <3> QED
      BY <2>1, <3>1, <3>2
  <2>3. Idle \in Stage
    BY DEF Stage
  <2>4. PlanOf(subscription) \in Plan \cup {NoPlan}
    <3>1. CASE subscription \in Row
      BY <3>1 DEF PlanOf, Row
    <3>2. CASE subscription = None
      BY <3>2 DEF PlanOf, None
    <3> QED
      BY <2>1, <3>1, <3>2
  <2> QED
    BY <2>1, <2>2, <2>3, <2>4 DEF Init, Inv, TypeOK, AskedSome, SubscriptionInv, Idle
<1>2. Inv /\ [Next]_vars => Inv'
  <2> SUFFICES ASSUME Inv, [Next]_vars PROVE Inv'
    OBVIOUS
  <2>1. CASE UNCHANGED vars
    BY <2>1 DEF vars, billing, hooks, Inv, TypeOK, AskedSome, SubscriptionInv
  <2> QED
    BY <2>1, StartKeeps, ProceedKeeps, DeleteKeeps DEF Next
<1> QED
  BY <1>1, <1>2, PTL DEF Spec

(* Types are kept; in particular cancel, which looks before it writes,     *)
(* never writes to a subscription that is not there.                       *)
THEOREM PlansType == Spec => []TypeOK
<1>1. Inv => TypeOK
  BY DEF Inv
<1> QED
  BY <1>1, InvHolds, PTL

-----------------------------------------------------------------------------
(* Where a creation goes. *)
LEMMA Goes ==
  ASSUME Inv, NEW q \in Request
  PROVE  /\ ReadPlan(q) => \E x : /\ Go(q, x)
                                  /\ req[q].at = "asked" /\ x.at \in {"held", "idle"}
                                  /\ x.at = "held" =>
                                       /\ x.kind = req[q].kind
                                       /\ Working(subscription)
                                       /\ x.limit = Limit[subscription.plan][x.kind]
         /\ CountMade(q) => \E x : /\ Go(q, x)
                                   /\ req[q].at = "held"
                                   /\ x.at \in {"asked", "passed", "idle"}
                                   /\ x.at = "passed" =>
                                        /\ x.kind = req[q].kind
                                        /\ made[req[q].kind] < req[q].limit
<1>1. ASSUME ReadPlan(q)
      PROVE  \E x : /\ Go(q, x)
                    /\ req[q].at = "asked" /\ x.at \in {"held", "idle"}
                    /\ x.at = "held" =>
                         /\ x.kind = req[q].kind
                         /\ Working(subscription)
                         /\ x.limit = Limit[subscription.plan][x.kind]
  <2>1. req[q].at = "asked"
    BY <1>1 DEF ReadPlan, At
  <2>2. CASE Working(subscription)
    <3> DEFINE x == [req[q] EXCEPT !.at = "held",
                                   !.limit = Limit[subscription.plan][req[q].kind]]
    <3>1. /\ x.at = "held" /\ x.kind = req[q].kind
          /\ x.limit = Limit[subscription.plan][req[q].kind]
      BY <2>1, Carried DEF Creating, Inv
    <3>2. Go(q, x)
      BY <1>1, <2>2 DEF ReadPlan
    <3> HIDE DEF x
    <3> QED
      BY <2>1, <2>2, <3>1, <3>2
  <2>3. CASE ~Working(subscription)
    <3>1. Go(q, Idle) /\ Idle.at = "idle"
      BY <1>1, <2>3 DEF ReadPlan, Done, Idle
    <3> QED
      BY <2>1, <3>1
  <2> QED
    BY <2>2, <2>3
<1>2. ASSUME CountMade(q)
      PROVE  \E x : /\ Go(q, x)
                    /\ req[q].at = "held"
                    /\ x.at \in {"asked", "passed", "idle"}
                    /\ x.at = "passed" =>
                         /\ x.kind = req[q].kind
                         /\ made[req[q].kind] < req[q].limit
  <2>1. req[q].at = "held"
    BY <1>2 DEF CountMade, At
  <2>2. CASE Within(made[req[q].kind], req[q].limit)
    <3> DEFINE x == [req[q] EXCEPT
                       !.at = IF req[q].left - 1 = 0 THEN "passed" ELSE "asked",
                       !.left = req[q].left - 1]
    <3>1. x.at \in {"asked", "passed"} /\ x.kind = req[q].kind
      BY <2>1, Carried DEF Creating, Inv
    <3>2. Go(q, x)
      BY <1>2, <2>2 DEF CountMade
    <3> HIDE DEF x
    <3> QED
      BY <2>1, <2>2, <3>1, <3>2 DEF Within
  <2>3. CASE ~Within(made[req[q].kind], req[q].limit)
    <3>1. Go(q, Idle) /\ Idle.at = "idle"
      BY <1>2, <2>3 DEF CountMade, Done, Idle
    <3> QED
      BY <2>1, <3>1
  <2> QED
    BY <2>2, <2>3
<1> QED
  BY <1>1, <1>2

-----------------------------------------------------------------------------
(* Webhooks. *)
EventInv ==
  /\ EventBookedOnce
  /\ \A e \in Event : e \notin noted => booked[e] = 0
  /\ \A q \in Request : At(q, "noted") =>
       /\ req[q].event \in noted /\ booked[req[q].event] = 0
       /\ \A p \in Request : At(p, "noted") /\ req[p].event = req[q].event => p = q

(* Steps that have nothing to do with webhooks. *)
LEMMA EventsAside ==
  ASSUME EventInv, UNCHANGED <<noted, booked, forsaken>>,
         \A q \in Request : req[q].at = "noted" <=> req'[q].at = "noted",
         \A q \in Request : req[q].at = "noted" => req'[q] = req[q]
  PROVE  EventInv'
BY DEF EventInv, EventBookedOnce, At

LEMMA EventsMoveAside ==
  ASSUME Inv, EventInv, UNCHANGED <<noted, booked, forsaken>>,
         NEW q \in Request, NEW x, Go(q, x),
         req[q].at # "noted", x.at # "noted"
  PROVE  EventInv'
<1>1. req'[q] = x /\ \A p \in Request : p # q => req'[p] = req[p]
  BY DEF Inv, TypeOK, Go
<1> QED
  BY <1>1, EventsAside

LEMMA EventsNext ==
  ASSUME Inv, EventInv, [Next]_vars
  PROVE  EventInv'
<1> USE DEF At
<1>1. ASSUME NEW q \in Request, Start(q) PROVE EventInv'
  <2>1. ASSUME NEW k \in Kind, NEW n \in 1..Bulk[k], Ask(q, k, n) PROVE EventInv'
    BY <2>1, EventsMoveAside DEF Ask, hooks
  <2>2. ASSUME NEW p \in Plan, OrderPlan(q, p) PROVE EventInv'
    BY <2>2, EventsMoveAside DEF OrderPlan, hooks
  <2>3. ASSUME NEW soon \in BOOLEAN, FindSubscription(q, soon) PROVE EventInv'
    BY <2>3, EventsMoveAside DEF FindSubscription, hooks
  <2>4. ASSUME NEW e \in Event, LookUp(q, e) PROVE EventInv'
    <3>1. CASE e \in noted
      BY <2>4, <3>1, EventsAside DEF LookUp
    <3>2. CASE e \notin noted
      BY <2>4, <3>2, EventsMoveAside DEF LookUp
    <3> QED
      BY <3>1, <3>2
  <2> QED
    BY <1>1, <2>1, <2>2, <2>3, <2>4 DEF Start, ChoosePlan
<1>2. ASSUME NEW q \in Request, ReadPlan(q) \/ CountMade(q) PROVE EventInv'
  <2>1. PICK x : /\ Go(q, x)
                 /\ req[q].at \in {"asked", "held"}
                 /\ x.at \in {"asked", "held", "passed", "idle"}
    BY <1>2, Goes
  <2>2. UNCHANGED <<noted, booked, forsaken>>
    BY <1>2 DEF ReadPlan, CountMade, hooks
  <2> QED
    BY <2>1, <2>2, EventsMoveAside
<1>3. ASSUME NEW q \in Request, Create(q) \/ CreateInvoice(q) \/ Cancel(q)
      PROVE  EventInv'
  <2>1. /\ Go(q, Idle) /\ Idle.at # "noted"
        /\ req[q].at # "noted" /\ UNCHANGED <<noted, booked, forsaken>>
    BY <1>3 DEF Create, CreateInvoice, Cancel, Done, Idle, hooks
  <2> QED
    BY <2>1, EventsMoveAside
<1>4. ASSUME NEW q \in Request, UpsertSubscription(q) PROVE EventInv'
  <2>1. [req[q] EXCEPT !.at = "upserted"].at = "upserted"
    BY <1>4, Carried DEF UpsertSubscription, Changing, Inv
  <2> QED
    BY <1>4, <2>1, EventsMoveAside DEF UpsertSubscription, hooks
<1>5. ASSUME NEW q \in Request, Note(q) PROVE EventInv'
  <2>1. CASE ~MayNote(req[q].event)
    BY <1>5, <2>1, EventsMoveAside DEF Note, Done, Idle
  <2>2. CASE MayNote(req[q].event)
    <3>1. PICK e \in Event : e = req[q].event
      BY <1>5, Carried DEF Note, Inv
    <3> DEFINE x == [req[q] EXCEPT !.at = "noted"]
    <3>2. x.at = "noted" /\ x.event = e
      BY <1>5, <3>1, Carried DEF Note, Hooking, Inv
    <3>3. req'[q] = x /\ \A p \in Request : p # q => req'[p] = req[p]
      BY <1>5, <2>2 DEF Note, Go, Inv, TypeOK
    <3>4. /\ e \notin noted /\ noted' = noted \cup {e} /\ req[q].at = "unseen"
          /\ booked' = booked /\ forsaken' = forsaken
      BY <1>5, <2>2, <3>1 DEF Note, MayNote
    <3> HIDE DEF x
    <3>5. EventBookedOnce'
      <4> SUFFICES ASSUME NEW d \in Event
                   PROVE  /\ booked'[d] <= 1
                          /\ d \in noted' =>
                               \/ booked'[d] = 1
                               \/ d \in forsaken'
                               \/ \E o \in Request : req'[o].at = "noted"
                                                      /\ req'[o].event = d
        BY DEF EventBookedOnce
      <4>1. CASE d = e
        BY <3>2, <3>3, <3>4, <4>1 DEF EventInv, EventBookedOnce
      <4>2. CASE d # e
        BY <3>3, <3>4, <4>2 DEF EventInv, EventBookedOnce
      <4> QED
        BY <4>1, <4>2
    <3> QED
      BY <3>2, <3>3, <3>4, <3>5 DEF EventInv
  <2> QED
    BY <2>1, <2>2
<1>6. ASSUME NEW q \in Request, Book(q) \/ (Die(q) /\ req[q].at = "noted")
      PROVE  EventInv'
  <2>1. PICK e \in Event : e = req[q].event
    BY <1>6, Carried DEF Book, Die, Inv
  <2>2. /\ req[q].at = "noted" /\ noted' = noted
        /\ req'[q] = Idle /\ \A p \in Request : p # q => req'[p] = req[p]
        /\ \/ booked' = [booked EXCEPT ![e] = @ + 1] /\ forsaken' = forsaken
           \/ booked' = booked /\ forsaken' = forsaken \cup {e}
    BY <1>6, <2>1 DEF Book, Die, Done, Go, Inv, TypeOK
  <2>3. /\ e \in noted /\ booked[e] = 0 /\ booked \in [Event -> Nat]
        /\ Idle.at # "noted"
    BY <2>1, <2>2 DEF EventInv, Inv, TypeOK, Idle
  <2>4. \A d \in Event : d # e => booked'[d] = booked[d]
    BY <2>2, <2>3
  <2>5. booked'[e] = 1 \/ (booked'[e] = 0 /\ e \in forsaken')
    BY <2>2, <2>3
  <2>6. EventBookedOnce'
    <3> SUFFICES ASSUME NEW d \in Event
                 PROVE  /\ booked'[d] <= 1
                        /\ d \in noted' =>
                             \/ booked'[d] = 1
                             \/ d \in forsaken'
                             \/ \E o \in Request : req'[o].at = "noted"
                                                    /\ req'[o].event = d
      BY DEF EventBookedOnce
    <3>1. CASE d = e
      BY <2>5, <3>1
    <3>2. CASE d # e
      <4>1. d \in forsaken => d \in forsaken'
        BY <2>2
      <4>2. \A o \in Request : req[o].at = "noted" /\ req[o].event = d => o # q
        BY <2>1, <3>2
      <4> QED
        BY <2>2, <2>4, <3>2, <4>1, <4>2 DEF EventInv, EventBookedOnce
    <3> QED
      BY <3>1, <3>2
  <2>7. \A p \in Request : req'[p].at = "noted" =>
          p # q /\ req'[p] = req[p] /\ req[p].event # e
    BY <2>1, <2>2, <2>3 DEF EventInv
  <2>8. \A p \in Request : req[p].at = "noted" => req[p].event \in Event
    BY Carried DEF Inv
  <2>9. \A d \in Event : d \notin noted' => booked'[d] = 0
    BY <2>2, <2>3, <2>4 DEF EventInv
  <2> QED
    BY <2>2, <2>4, <2>6, <2>7, <2>8, <2>9 DEF EventInv
<1>7. ASSUME NEW q \in Request, Die(q), req[q].at # "noted" PROVE EventInv'
  BY <1>7, EventsMoveAside DEF Die, Done, Idle
<1>8. CASE DeleteRoom
  BY <1>8, EventsAside DEF DeleteRoom, hooks
<1>9. CASE UNCHANGED vars
  BY <1>9, EventsAside DEF vars, hooks
<1> QED
  BY <1>1, <1>2, <1>3, <1>4, <1>5, <1>6, <1>7, <1>8, <1>9 DEF Next, Proceed

(* recordMockWebhook: however often and with whatever overlap an event is  *)
(* delivered, it is booked once unless the request that noted it died.     *)
THEOREM EventBookedOnceHolds == Spec => []EventBookedOnce
<1>1. Init => EventInv
  BY DEF Init, EventInv, EventBookedOnce, At, Idle
<1>2. Inv /\ EventInv /\ [Next]_vars => EventInv'
  BY EventsNext
<1>3. EventInv => EventBookedOnce
  BY DEF EventInv
<1> QED
  BY <1>1, <1>2, <1>3, InvHolds, PTL DEF Spec

-----------------------------------------------------------------------------
(* changePlan and cancel: both columns of the subscription say the same,   *)
(* so the page the client shows is the one the guard goes by.              *)
RouteInv == subscription.exists => Agrees(subscription)

THEOREM RouteAgreesHolds == Spec => []RouteAgreesWithGuard
<1>1. Init => RouteInv
  BY SeedAssumption DEF Init, RouteInv
<1>2. Inv /\ RouteInv /\ [Next]_vars => RouteInv'
  <2> SUFFICES ASSUME Inv, RouteInv, [Next]_vars PROVE RouteInv'
    OBVIOUS
  <2>1. ASSUME NEW q \in Request, UpsertSubscription(q) PROVE RouteInv'
    BY <2>1 DEF UpsertSubscription, PutOn, RouteInv, Agrees
  <2>2. ASSUME NEW q \in Request, Cancel(q) PROVE RouteInv'
    <3>1. subscription \in Row /\ Agrees(subscription)
      BY <2>2 DEF Cancel, At, Inv, SubscriptionInv, TypeOK, None, RouteInv
    <3>2. CASE req[q].atPeriodEnd
      BY <2>2, <3>1, <3>2 DEF Cancel, RouteInv, Agrees, Row
    <3>3. CASE ~req[q].atPeriodEnd
      BY <2>2, <3>1, <3>3 DEF Cancel, RouteInv, Agrees, Row
    <3> QED
      BY <3>2, <3>3
  <2>3. CASE subscription' = subscription
    BY <2>3 DEF RouteInv
  <2>4. ASSUME NEW q \in Request, Start(q) PROVE subscription' = subscription
    BY <2>4 DEF Start, ChoosePlan, Ask, OrderPlan, FindSubscription, LookUp, billing
  <2>5. ASSUME NEW q \in Request,
               ReadPlan(q) \/ CountMade(q) \/ Create(q) \/ CreateInvoice(q)
                 \/ Note(q) \/ Book(q) \/ Die(q)
        PROVE  subscription' = subscription
    BY <2>5 DEF ReadPlan, CountMade, Create, CreateInvoice, Note, Book, Die, billing
  <2>6. CASE DeleteRoom \/ UNCHANGED vars
    BY <2>3, <2>6 DEF DeleteRoom, vars, billing
  <2> QED
    BY <2>1, <2>2, <2>3, <2>4, <2>5, <2>6 DEF Next, Proceed
<1>3. RouteInv => RouteAgreesWithGuard
  BY DEF RouteInv, RouteAgreesWithGuard, Shown, Working
<1> QED
  BY <1>1, <1>2, <1>3, InvHolds, PTL DEF Spec

-----------------------------------------------------------------------------
(* Sets of requests that differ in at most one. *)
LEMMA OneMoves ==
  ASSUME NEW S \in SUBSET Request, NEW T \in SUBSET Request, NEW q \in Request,
         \A p \in Request : p # q => (p \in S <=> p \in T)
  PROVE  /\ Cardinality(S) \in Nat /\ Cardinality(T) \in Nat
         /\ Cardinality(S) <= Cardinality(Request) /\ Cardinality(Request) \in Nat
         /\ q \in S /\ q \notin T => Cardinality(T) = Cardinality(S) - 1
         /\ q \notin S /\ q \in T => Cardinality(T) = Cardinality(S) + 1
         /\ (q \in S <=> q \in T) => T = S
<1>1. /\ IsFiniteSet(S) /\ IsFiniteSet(T)
      /\ Cardinality(S) \in Nat /\ Cardinality(T) \in Nat
      /\ Cardinality(S) <= Cardinality(Request) /\ Cardinality(Request) \in Nat
  BY CallerAssumption, FS_Subset, FS_CardinalityType
<1>2. CASE q \in S /\ q \notin T
  <2>1. T = S \ {q}
    BY <1>2
  <2> QED
    BY <1>1, <1>2, <2>1, FS_RemoveElement
<1>3. CASE q \notin S /\ q \in T
  <2>1. T = S \cup {q}
    BY <1>3
  <2> QED
    BY <1>1, <1>3, <2>1, FS_AddElement
<1>4. CASE q \in S <=> q \in T
  BY <1>1, <1>4
<1> QED
  BY <1>2, <1>3, <1>4

(* Changes of plan.  While the last change runs by itself, it is the only  *)
(* one under way and orders what the provider was last asked for.          *)
Last(q) ==
  /\ Under = {q}
  /\ req[q].plan = provider
  /\ req[q].at = "upserted" => PlanOf(subscription) = provider

SettledInv ==
  alone => \/ /\ Under = {}
              /\ PlanOf(subscription) = provider /\ invoice = provider
           \/ \E q \in Request : Last(q)

(* Steps that have nothing to do with changes of plan. *)
LEMMA ChangesAside ==
  ASSUME Inv, SettledInv, UNCHANGED <<provider, invoice, alone>>,
         PlanOf(subscription)' = PlanOf(subscription),
         \/ req' = req
         \/ \E q \in Request : \E x : /\ Go(q, x)
                                     /\ req[q].at \notin {"ordered", "upserted"}
                                     /\ x.at \notin {"ordered", "upserted"}
  PROVE  SettledInv'
<1>1. Under' = Under /\ \A q \in Under : req'[q] = req[q]
  BY DEF Inv, TypeOK, Go, Under
<1>2. \A q \in Request : Last(q) => Last(q)'
  BY <1>1 DEF Last
<1> QED
  BY <1>1, <1>2 DEF SettledInv

LEMMA SettledNext ==
  ASSUME Inv, SettledInv, [Next]_vars
  PROVE  SettledInv'
<1> USE DEF At
<1>0. Idle.at = "idle"
  BY DEF Idle
<1>1. ASSUME NEW q \in Request, NEW p \in Plan, OrderPlan(q, p) PROVE SettledInv'
  <2> DEFINE x == [at |-> "ordered", plan |-> p]
  <2>1. /\ req'[q] = x /\ \A o \in Request : o # q => req'[o] = req[o]
        /\ x.at = "ordered" /\ x.plan = p /\ provider' = p
    BY <1>1 DEF OrderPlan, Go, Inv, TypeOK
  <2> HIDE DEF x
  <2>2. Under = {} => Under' = {q}
    BY <2>1 DEF Under
  <2>3. alone' => Last(q)'
    BY <1>1, <2>1, <2>2 DEF OrderPlan, Last
  <2> QED
    BY <2>3 DEF SettledInv
<1>2. ASSUME NEW q \in Request, UpsertSubscription(q) PROVE SettledInv'
  <2> DEFINE x == [req[q] EXCEPT !.at = "upserted"]
  <2>1. /\ req[q].at = "ordered" /\ UNCHANGED <<provider, invoice, alone>>
        /\ PlanOf(subscription)' = req[q].plan
    BY <1>2 DEF UpsertSubscription, PlanOf, PutOn
  <2>2. x.at = "upserted" /\ x.plan = req[q].plan
    BY <2>1, Carried DEF Changing, Inv
  <2>3. req'[q] = x /\ \A o \in Request : o # q => req'[o] = req[o]
    BY <1>2 DEF UpsertSubscription, Go, Inv, TypeOK
  <2> HIDE DEF x
  <2>4. q \in Under /\ Under' = Under
    BY <2>1, <2>2, <2>3 DEF Under
  <2>5. ASSUME NEW o \in Request, Last(o) PROVE Last(o)'
    <3>1. o = q
      BY <2>4, <2>5 DEF Last
    <3> QED
      BY <2>1, <2>2, <2>3, <2>4, <2>5, <3>1 DEF Last
  <2> QED
    BY <2>1, <2>4, <2>5 DEF SettledInv
<1>3. ASSUME NEW q \in Request, CreateInvoice(q) PROVE SettledInv'
  <2>1. /\ req[q].at = "upserted" /\ invoice' = req[q].plan
        /\ UNCHANGED <<provider, alone, subscription>>
        /\ req'[q] = Idle /\ \A o \in Request : o # q => req'[o] = req[o]
    BY <1>3 DEF CreateInvoice, Done, Go, Inv, TypeOK
  <2>2. q \in Under /\ Under' = Under \ {q}
    BY <1>0, <2>1 DEF Under
  <2>3. ASSUME NEW o \in Request, Last(o)
        PROVE  /\ Under' = {} /\ invoice' = provider'
               /\ PlanOf(subscription)' = provider'
    BY <2>1, <2>2, <2>3 DEF Last, PlanOf
  <2> QED
    BY <2>1, <2>2, <2>3 DEF SettledInv
<1>4. ASSUME NEW q \in Request, Die(q) PROVE SettledInv'
  <2>1. CASE q \in Under
    BY <1>4, <2>1 DEF Die, SettledInv
  <2>2. CASE q \notin Under
    <3>1. Go(q, Idle) /\ req[q].at \notin {"ordered", "upserted"}
      BY <1>4, <2>2 DEF Die, Done, Under
    <3>2. UNCHANGED <<provider, invoice, alone, subscription>>
      BY <1>4, <2>2 DEF Die, Inv, TypeOK
    <3> QED
      BY <1>0, <3>1, <3>2, ChangesAside DEF PlanOf
  <2> QED
    BY <2>1, <2>2
<1>5. ASSUME NEW q \in Request, NEW k \in Kind, NEW n \in 1..Bulk[k], Ask(q, k, n)
      PROVE  SettledInv'
  BY <1>5, ChangesAside DEF Ask, billing, PlanOf
<1>6. ASSUME NEW q \in Request, NEW soon \in BOOLEAN, FindSubscription(q, soon)
      PROVE  SettledInv'
  BY <1>6, ChangesAside DEF FindSubscription, billing, PlanOf
<1>7. ASSUME NEW q \in Request, NEW e \in Event, LookUp(q, e) PROVE SettledInv'
  <2>1. CASE e \in noted
    BY <1>7, <2>1, ChangesAside DEF LookUp, billing, PlanOf
  <2>2. CASE e \notin noted
    BY <1>7, <2>2, ChangesAside DEF LookUp, billing, PlanOf
  <2> QED
    BY <2>1, <2>2
<1>8. ASSUME NEW q \in Request, ReadPlan(q) \/ CountMade(q) PROVE SettledInv'
  <2>1. PICK x : /\ Go(q, x) /\ req[q].at \in {"asked", "held"}
                 /\ x.at \in {"asked", "held", "passed", "idle"}
    BY <1>8, Goes
  <2>2. UNCHANGED <<provider, invoice, alone, subscription>>
    BY <1>8 DEF ReadPlan, CountMade, billing
  <2> QED
    BY <2>1, <2>2, ChangesAside DEF PlanOf
<1>9. ASSUME NEW q \in Request, Create(q) \/ Book(q) PROVE SettledInv'
  <2>1. /\ Go(q, Idle) /\ req[q].at \notin {"ordered", "upserted"}
        /\ UNCHANGED <<provider, invoice, alone, subscription>>
    BY <1>9 DEF Create, Book, Done, billing
  <2> QED
    BY <1>0, <2>1, ChangesAside DEF PlanOf
<1>10. ASSUME NEW q \in Request, Cancel(q) PROVE SettledInv'
  <2>1. /\ Go(q, Idle) /\ req[q].at = "cancelling"
        /\ UNCHANGED <<provider, invoice, alone>>
    BY <1>10 DEF Cancel, Done
  <2>2. subscription \in Row
    BY <2>1 DEF Inv, SubscriptionInv, TypeOK, None
  <2>3. subscription'.exists /\ subscription'.plan = subscription.plan
    BY <1>10, <2>2 DEF Cancel, Row
  <2> QED
    BY <1>0, <2>1, <2>2, <2>3, ChangesAside DEF PlanOf, Row
<1>11. ASSUME NEW q \in Request, Note(q) PROVE SettledInv'
  <2>1. \E x : Go(q, x) /\ x.at \in {"noted", "idle"}
    <3>1. [req[q] EXCEPT !.at = "noted"].at = "noted"
      BY <1>11, Carried DEF Note, Hooking, Inv
    <3> QED
      BY <1>0, <1>11, <3>1 DEF Note, Done
  <2>2. req[q].at = "unseen" /\ UNCHANGED <<provider, invoice, alone, subscription>>
    BY <1>11 DEF Note, billing
  <2> QED
    BY <2>1, <2>2, ChangesAside DEF PlanOf
<1>12. CASE DeleteRoom \/ UNCHANGED vars
  BY <1>12, ChangesAside DEF DeleteRoom, vars, billing, PlanOf
<1> QED
  BY <1>1, <1>2, <1>3, <1>4, <1>5, <1>6, <1>7, <1>8, <1>9, <1>10, <1>11, <1>12
  DEF Next, Start, ChoosePlan, Proceed

(* changePlan, with other changes at once and deaths between its calls:    *)
(* after a change that ran by itself the provider, the subscription and    *)
(* the newest invoice name one plan, whatever went wrong before.           *)
THEOREM PlanSettledHolds == Spec => []PlanSettled
<1>1. Init => SettledInv
  BY DEF Init, SettledInv, Under, Idle
<1>2. Inv /\ SettledInv /\ [Next]_vars => SettledInv'
  BY SettledNext
<1>3. SettledInv => PlanSettled
  BY DEF SettledInv, PlanSettled, Last
<1> QED
  BY <1>1, <1>2, <1>3, InvHolds, PTL DEF Spec

-----------------------------------------------------------------------------
(* Limits.  A creation that has passed its checks may still add a whole    *)
(* list, so it is counted with what is there.                              *)
Passed(k) == {q \in Request : req[q].at = "passed" /\ req[q].kind = k}

Fits(k, p) == made[k] + Bulk[k] * Cardinality(Passed(k))
                <= Limit[p][k] - 1 + Bulk[k] * Cardinality(Request)

LimitInv ==
  /\ \A q \in Request : req[q].at = "held" =>
       \E p \in held : req[q].limit = Limit[p][req[q].kind]
  /\ \A k \in Kind : \/ made[k] = 0 /\ Passed(k) = {}
                     \/ \E p \in held : Fits(k, p)

LEMMA PassedCount ==
  \A k \in Kind : /\ Cardinality(Passed(k)) \in Nat
                  /\ Cardinality(Passed(k)) <= Cardinality(Request)
                  /\ Cardinality(Request) \in Nat
<1> SUFFICES ASSUME NEW k \in Kind
             PROVE  /\ Cardinality(Passed(k)) \in Nat
                    /\ Cardinality(Passed(k)) <= Cardinality(Request)
                    /\ Cardinality(Request) \in Nat
  OBVIOUS
<1>1. Passed(k) \subseteq Request
  BY DEF Passed
<1> QED
  BY <1>1, CallerAssumption, FS_Subset, FS_CardinalityType

LEMMA PassedMoves ==
  ASSUME Inv, NEW q \in Request, NEW x, Go(q, x), NEW k \in Kind
  PROVE  LET before == req[q].at = "passed" /\ req[q].kind = k
             after  == x.at = "passed" /\ x.kind = k
         IN  /\ Cardinality(Passed(k))' \in Nat
             /\ Cardinality(Passed(k))' <= Cardinality(Request)
             /\ (before <=> after) => Passed(k)' = Passed(k)
             /\ before /\ ~after =>
                  Cardinality(Passed(k))' = Cardinality(Passed(k)) - 1
<1>1. req'[q] = x /\ \A o \in Request : o # q => req'[o] = req[o]
  BY DEF Inv, TypeOK, Go
<1>2. Passed(k) \in SUBSET Request /\ Passed(k)' \in SUBSET Request
  BY DEF Passed
<1>3. \A o \in Request : o # q => (o \in Passed(k) <=> o \in Passed(k)')
  BY <1>1 DEF Passed
<1>4. /\ q \in Passed(k) <=> req[q].at = "passed" /\ req[q].kind = k
      /\ q \in Passed(k)' <=> x.at = "passed" /\ x.kind = k
  BY <1>1 DEF Passed
<1>5. ASSUME NEW S \in SUBSET Request
      PROVE  Cardinality(S) \in Nat /\ Cardinality(S) <= Cardinality(Request)
  BY CallerAssumption, FS_Subset, FS_CardinalityType
<1> DEFINE S == Passed(k)
           T == Passed(k)'
<1> HIDE DEF S, T
<1>6. /\ q \in S /\ q \notin T => Cardinality(T) = Cardinality(S) - 1
      /\ (q \in S <=> q \in T) => T = S
      /\ Cardinality(T) \in Nat /\ Cardinality(T) <= Cardinality(Request)
  BY <1>2, <1>3, <1>5, OneMoves DEF S, T
<1> QED
  BY <1>4, <1>6 DEF S, T

LEMMA Times ==
  ASSUME NEW b \in Nat, NEW m \in Nat, NEW n \in Nat, m <= n
  PROVE  b * m <= b * n
OBVIOUS

LEMMA TimesLess ==
  ASSUME NEW b \in Nat, NEW n \in Nat
  PROVE  b * (n - 1) = b * n - b
OBVIOUS

(* Nothing is created and nobody passes a check. *)
LEMMA LimitsAside ==
  ASSUME Inv, LimitInv, held \subseteq held', made' = made,
         \/ req' = req
         \/ \E q \in Request : \E x : /\ Go(q, x) /\ req[q].at # "passed"
                                     /\ x.at \notin {"held", "passed"}
  PROVE  LimitInv'
<1>1. \A k \in Kind : Passed(k)' = Passed(k)
  <2>1. CASE req' = req
    BY <2>1 DEF Passed
  <2>2. ASSUME NEW q \in Request, NEW x, Go(q, x), req[q].at # "passed",
               x.at \notin {"held", "passed"}
        PROVE  \A k \in Kind : Passed(k)' = Passed(k)
    BY <2>2, PassedMoves
  <2> QED
    BY <2>1, <2>2
<1>2. \A q \in Request : req'[q].at = "held" => req'[q] = req[q]
  BY DEF Inv, TypeOK, Go
<1> QED
  BY <1>1, <1>2 DEF LimitInv, Fits

(* Somebody who passed a check is done with it: n of the kind are created. *)
LEMMA LimitsSpent ==
  ASSUME Inv, LimitInv, NEW q \in Request, req[q].at = "passed", Go(q, Idle),
         held' = held, NEW n \in 0..req[q].want,
         made' = [made EXCEPT ![req[q].kind] = @ + n]
  PROVE  LimitInv'
<1>1. PICK k \in Kind : k = req[q].kind
  BY Carried DEF Inv
<1>2. n \in Nat /\ n <= Bulk[k] /\ Bulk[k] \in Nat
  BY <1>1, Carried, BulkAssumption DEF Inv, AskedSome
<1>3. /\ made'[k] = made[k] + n /\ \A o \in Kind : o # k => made'[o] = made[o]
      /\ made[k] \in Nat
  BY <1>1 DEF Inv, TypeOK
<1>4. Idle.at = "idle"
  BY DEF Idle
<1>5. \A o \in Kind : o # k => Passed(o)' = Passed(o)
  BY <1>1, <1>4, PassedMoves
<1>6. Cardinality(Passed(k))' = Cardinality(Passed(k)) - 1
  BY <1>1, <1>4, PassedMoves
<1>7. Passed(k) # {}
  BY <1>1 DEF Passed
<1>8. PICK p \in held : Fits(k, p)
  BY <1>7 DEF LimitInv
<1>9. Fits(k, p)'
  <2> DEFINE c == Cardinality(Passed(k))
             room == Bulk[k] * Cardinality(Request)
             used == Bulk[k] * c
  <2>1. c \in Nat /\ room \in Nat /\ used \in Nat
    BY <1>2, PassedCount
  <2>2. Bulk[k] * (c - 1) = used - Bulk[k]
    BY <1>2, <2>1, TimesLess
  <2>3. p \in Plan
    BY DEF Inv, TypeOK
  <2>4. Limit[p][k] \in Nat
    BY <2>3, LimitAssumption
  <2>5. made[k] + used <= Limit[p][k] - 1 + room
    BY <1>8 DEF Fits
  <2> HIDE DEF c, room, used
  <2>6. made[k] + n + (used - Bulk[k]) <= Limit[p][k] - 1 + room
    BY <1>2, <1>3, <2>1, <2>4, <2>5
  <2>7. made'[k] + Bulk[k] * Cardinality(Passed(k))' <= Limit[p][k] - 1 + room
    BY <1>3, <1>6, <2>2, <2>6 DEF c
  <2> QED
    BY <2>7 DEF Fits, room
<1>10. \A o \in Kind : \/ made'[o] = 0 /\ Passed(o)' = {}
                       \/ \E r \in held' : Fits(o, r)'
  <2> SUFFICES ASSUME NEW o \in Kind
               PROVE  \/ made'[o] = 0 /\ Passed(o)' = {}
                      \/ \E r \in held' : Fits(o, r)'
    OBVIOUS
  <2>1. CASE o = k
    BY <1>8, <1>9, <2>1
  <2>2. CASE o # k
    <3>1. \A r : Fits(o, r)' <=> Fits(o, r)
      BY <1>3, <1>5, <2>2 DEF Fits
    <3> QED
      BY <1>3, <1>5, <2>2, <3>1 DEF LimitInv
  <2> QED
    BY <2>1, <2>2
<1>11. \A o \in Request : req'[o].at = "held" => req'[o] = req[o]
  BY <1>4 DEF Inv, TypeOK, Go
<1> QED
  BY <1>10, <1>11 DEF LimitInv

LEMMA LimitsNext ==
  ASSUME Inv, LimitInv, [Next]_vars
  PROVE  LimitInv'
<1> USE DEF At
<1>0. Idle.at = "idle"
  BY DEF Idle
<1>1. ASSUME NEW q \in Request, ReadPlan(q) PROVE LimitInv'
  <2>1. PICK x : /\ Go(q, x) /\ req[q].at = "asked" /\ x.at \in {"held", "idle"}
                 /\ x.at = "held" => /\ x.kind = req[q].kind
                                     /\ Working(subscription)
                                     /\ x.limit = Limit[subscription.plan][x.kind]
    BY <1>1, Goes
  <2>2. made' = made /\ held' = held
    BY <1>1 DEF ReadPlan, billing
  <2>3. \A k \in Kind : Passed(k)' = Passed(k)
    BY <2>1, PassedMoves
  <2>4. req'[q] = x /\ \A o \in Request : o # q => req'[o] = req[o]
    BY <2>1 DEF Inv, TypeOK, Go
  <2>5. x.at = "held" => \E p \in held : x.limit = Limit[p][x.kind]
    BY <2>1 DEF Working, Inv, SubscriptionInv
  <2> QED
    BY <2>2, <2>3, <2>4, <2>5 DEF LimitInv, Fits
<1>2. ASSUME NEW q \in Request, CountMade(q) PROVE LimitInv'
  <2>1. PICK x : /\ Go(q, x) /\ req[q].at = "held"
                 /\ x.at \in {"asked", "passed", "idle"}
                 /\ x.at = "passed" => /\ x.kind = req[q].kind
                                       /\ made[req[q].kind] < req[q].limit
    BY <1>2, Goes
  <2>2. made' = made /\ held' = held
    BY <1>2 DEF CountMade, billing
  <2>3. CASE x.at # "passed"
    BY <2>1, <2>2, <2>3, LimitsAside
  <2>4. CASE x.at = "passed"
    <3>1. PICK k \in Kind : k = req[q].kind
      BY <2>1, Carried DEF Inv
    <3>2. PICK p \in held : req[q].limit = Limit[p][k]
      BY <2>1, <3>1 DEF LimitInv
    <3>3. p \in Plan /\ made[k] \in Nat
      BY DEF Inv, TypeOK
    <3>4. Limit[p][k] \in Nat /\ Bulk[k] \in Nat
      BY <3>3, LimitAssumption, BulkAssumption
    <3>5. made[k] <= Limit[p][k] - 1
      BY <2>1, <2>4, <3>1, <3>2, <3>3, <3>4
    <3>6. /\ Cardinality(Passed(k))' \in Nat /\ Cardinality(Request) \in Nat
          /\ Cardinality(Passed(k))' <= Cardinality(Request)
      BY <2>1, PassedMoves, PassedCount
    <3>7. Fits(k, p)'
      <4> DEFINE used == Bulk[k] * Cardinality(Passed(k))'
                 room == Bulk[k] * Cardinality(Request)
      <4>1. used \in Nat /\ room \in Nat /\ used <= room
        BY <3>4, <3>6, Times
      <4> HIDE DEF used, room
      <4>2. made[k] + used <= Limit[p][k] - 1 + room
        BY <3>3, <3>4, <3>5, <4>1
      <4> QED
        BY <2>2, <4>2 DEF Fits, used, room
    <3>8. \A o \in Kind : o # k => Passed(o)' = Passed(o)
      BY <2>1, <2>4, <3>1, PassedMoves
    <3>9. \A o \in Kind : \/ made'[o] = 0 /\ Passed(o)' = {}
                          \/ \E r \in held' : Fits(o, r)'
      <4> SUFFICES ASSUME NEW o \in Kind
                   PROVE  \/ made'[o] = 0 /\ Passed(o)' = {}
                          \/ \E r \in held' : Fits(o, r)'
        OBVIOUS
      <4>1. CASE o = k
        BY <2>2, <3>7, <4>1
      <4>2. CASE o # k
        <5>1. \A r : Fits(o, r)' <=> Fits(o, r)
          BY <2>2, <3>8, <4>2 DEF Fits
        <5> QED
          BY <2>2, <3>8, <4>2, <5>1 DEF LimitInv
      <4> QED
        BY <4>1, <4>2
    <3>10. \A o \in Request : req'[o].at = "held" => req'[o] = req[o]
      BY <2>1, <2>4 DEF Inv, TypeOK, Go
    <3> QED
      BY <2>2, <3>9, <3>10 DEF LimitInv
  <2> QED
    BY <2>3, <2>4
<1>3. ASSUME NEW q \in Request, Create(q) PROVE LimitInv'
  <2>1. PICK n \in 0..req[q].want : made' = [made EXCEPT ![req[q].kind] = @ + n]
    BY <1>3 DEF Create
  <2>2. req[q].at = "passed" /\ Go(q, Idle) /\ held' = held
    BY <1>3 DEF Create, Done, billing
  <2> QED
    BY <2>1, <2>2, LimitsSpent
<1>4. ASSUME NEW q \in Request, Die(q) PROVE LimitInv'
  <2>1. Go(q, Idle) /\ made' = made /\ held' = held
    BY <1>4 DEF Die, Done
  <2>2. CASE req[q].at = "passed"
    <3>1. req[q].want \in Nat /\ req[q].kind \in Kind
      BY <2>2, Carried DEF Inv
    <3>2. 0 \in 0..req[q].want /\ made' = [made EXCEPT ![req[q].kind] = @ + 0]
      BY <2>1, <3>1 DEF Inv, TypeOK
    <3> QED
      BY <2>1, <2>2, <3>2, LimitsSpent
  <2>3. CASE req[q].at # "passed"
    BY <1>0, <2>1, <2>3, LimitsAside
  <2> QED
    BY <2>2, <2>3
<1>5. CASE DeleteRoom
  <2>1. PICK k \in Kind : made[k] > 0 /\ made' = [made EXCEPT ![k] = @ - 1]
    BY <1>5 DEF DeleteRoom
  <2>2. req' = req /\ held' = held
    BY <1>5 DEF DeleteRoom, billing
  <2>3. \A o \in Kind : /\ made[o] \in Nat /\ made'[o] \in Nat
                        /\ made'[o] <= made[o]
    BY <2>1 DEF Inv, TypeOK
  <2>4. \A o \in Kind : Passed(o)' = Passed(o)
    BY <2>2 DEF Passed
  <2>5. \A o \in Kind, p \in held : Fits(o, p) => Fits(o, p)'
    <3> SUFFICES ASSUME NEW o \in Kind, NEW p \in held, Fits(o, p)
                 PROVE  Fits(o, p)'
      OBVIOUS
    <3> DEFINE used == Bulk[o] * Cardinality(Passed(o))
               room == Bulk[o] * Cardinality(Request)
    <3>1. used \in Nat /\ room \in Nat
      BY PassedCount, BulkAssumption
    <3>2. Limit[p][o] \in Nat
      BY LimitAssumption DEF Inv, TypeOK
    <3>3. made[o] + used <= Limit[p][o] - 1 + room
      BY DEF Fits
    <3> HIDE DEF used, room
    <3>4. made'[o] + used <= Limit[p][o] - 1 + room
      BY <2>3, <3>1, <3>2, <3>3
    <3> QED
      BY <2>4, <3>4 DEF Fits, used, room
  <2>6. \A o \in Kind : made[o] = 0 => made'[o] = 0
    BY <2>3
  <2> QED
    BY <2>2, <2>4, <2>5, <2>6 DEF LimitInv
<1>6. ASSUME NEW q \in Request, Start(q) PROVE LimitInv'
  <2>1. ASSUME NEW k \in Kind, NEW n \in 1..Bulk[k], Ask(q, k, n) PROVE LimitInv'
    BY <2>1, LimitsAside DEF Ask, billing
  <2>2. ASSUME NEW p \in Plan, OrderPlan(q, p) PROVE LimitInv'
    BY <2>2, LimitsAside DEF OrderPlan
  <2>3. ASSUME NEW soon \in BOOLEAN, FindSubscription(q, soon) PROVE LimitInv'
    BY <2>3, LimitsAside DEF FindSubscription, billing
  <2>4. ASSUME NEW e \in Event, LookUp(q, e) PROVE LimitInv'
    <3>1. CASE e \in noted
      BY <2>4, <3>1, LimitsAside DEF LookUp, billing
    <3>2. CASE e \notin noted
      BY <2>4, <3>2, LimitsAside DEF LookUp, billing
    <3> QED
      BY <3>1, <3>2
  <2> QED
    BY <1>6, <2>1, <2>2, <2>3, <2>4 DEF Start, ChoosePlan
<1>7. ASSUME NEW q \in Request, UpsertSubscription(q) PROVE LimitInv'
  <2>1. [req[q] EXCEPT !.at = "upserted"].at = "upserted"
    BY <1>7, Carried DEF UpsertSubscription, Changing, Inv
  <2> QED
    BY <1>7, <2>1, LimitsAside DEF UpsertSubscription
<1>8. ASSUME NEW q \in Request, Note(q) PROVE LimitInv'
  <2>1. \E x : Go(q, x) /\ x.at \in {"noted", "idle"}
    <3>1. [req[q] EXCEPT !.at = "noted"].at = "noted"
      BY <1>8, Carried DEF Note, Hooking, Inv
    <3> QED
      BY <1>0, <1>8, <3>1 DEF Note, Done
  <2>2. req[q].at = "unseen" /\ made' = made /\ held' = held
    BY <1>8 DEF Note, billing
  <2> QED
    BY <2>1, <2>2, LimitsAside
<1>9. ASSUME NEW q \in Request, CreateInvoice(q) \/ Cancel(q) \/ Book(q)
      PROVE  LimitInv'
  <2>1. Go(q, Idle) /\ req[q].at # "passed" /\ made' = made /\ held' = held
    BY <1>9 DEF CreateInvoice, Cancel, Book, Done, billing
  <2> QED
    BY <1>0, <2>1, LimitsAside
<1>10. CASE UNCHANGED vars
  BY <1>10, LimitsAside DEF vars, billing
<1> QED
  BY <1>1, <1>2, <1>3, <1>4, <1>5, <1>6, <1>7, <1>8, <1>9, <1>10 DEF Next, Proceed

(* assertCanCreateRoom, assertCanCreateProperty and bulkCreateRooms, with   *)
(* any number of requests at once and a change of plan between any two of  *)
(* their steps: what they create in excess of the plan is bounded.         *)
THEOREM LimitsHeldHolds == Spec => []LimitsHeld
<1>1. Init => LimitInv
  BY DEF Init, LimitInv, Passed, Idle
<1>2. Inv /\ LimitInv /\ [Next]_vars => LimitInv'
  BY LimitsNext
<1>3. Inv /\ LimitInv => LimitsHeld
  <2> SUFFICES ASSUME Inv, LimitInv, NEW k \in Kind, made[k] # 0
               PROVE  \E p \in held : made[k] <= Limit[p][k] - 1
                                                   + Bulk[k] * Cardinality(Request)
    BY DEF LimitsHeld
  <2>1. PICK p \in held : Fits(k, p)
    BY DEF LimitInv
  <2> DEFINE used == Bulk[k] * Cardinality(Passed(k))
             room == Bulk[k] * Cardinality(Request)
  <2>2. used \in Nat /\ room \in Nat
    BY PassedCount, BulkAssumption
  <2>3. Limit[p][k] \in Nat /\ made[k] \in Nat
    BY LimitAssumption DEF Inv, TypeOK
  <2>4. made[k] + used <= Limit[p][k] - 1 + room
    BY <2>1 DEF Fits
  <2> HIDE DEF used, room
  <2>5. made[k] <= Limit[p][k] - 1 + room
    BY <2>2, <2>3, <2>4
  <2> QED
    BY <2>5 DEF room
<1> QED
  BY <1>1, <1>2, <1>3, InvHolds, PTL DEF Spec
=============================================================================
