-------------------------- MODULE WorkspaceProofs --------------------------
(***************************************************************************)
(* What a page of the web client promises, for any number of requests,     *)
(* filters, stays, forms and changes by others.  The steps are first       *)
(* sorted into a few kinds; then come the types and, on top of them, one   *)
(* invariant for each promise of Workspace.                                *)
(***************************************************************************)
EXTENDS Workspace, FiniteSetTheorems, TLAPS

-----------------------------------------------------------------------------
(* The kinds of steps. *)

FormsOn(p) ==
  CASE p = "calendar" -> {"create", "move", "createBlock", "updateBlock", "deleteBlock"}
    [] p = "desk"     -> {"assign-room", "check-in", "check-out", "mark-no-show",
                          "record-payment"}
    [] p = "rates"    -> {}
    [] p = "records"  -> {"createRecord", "updateRecord"}

PostsOn(p) ==
  CASE p = "rates"   -> {"createRoomType", "createRoom", "createRatePlan",
                         "bulkUpdateRate"}
    [] p = "records" -> {"removeRecord"}
    [] OTHER         -> {}

SentStage == {"guest", "sent", "checked", "refused"}

(* A form of this page is opened.  But for a new record it is about what   *)
(* is shown.                                                               *)
Opens(op) ==
  /\ op \in FormsOn(page) /\ form = NoForm /\ FormsLeft # {}
  /\ op # "createRecord" => view.filter # NoFilter \/ view.shown.state # "free"
  /\ op = "updateRecord" => view.shown.state = "listed"
  /\ form' = [id |-> NextForm, op |-> op,
              seen |-> IF op \in Versioned THEN view.shown.version ELSE 0]
  /\ log' = [log EXCEPT ![NextForm].form = IF op = "move" THEN "move" ELSE "plain"]
  /\ UNCHANGED <<fixed, row, filter, view, submitting, req, own, gone, lost>>

(* The form goes off.  A guest is posted for a reservation only; a record  *)
(* is created when there has been none, and once at a time.                *)
Submits(q) ==
  /\ At(q, "idle") /\ form # NoForm /\ ~submitting
  /\ form.op = "createRecord" =>
       /\ filter # NoFilter
       /\ row = [state |-> "free", version |-> 1] /\ ~CreatingRecord
  /\ submitting' = (page # "records")
  /\ \E stage \in {"guest", "sent"} :
       /\ stage = "guest" => form.op = "create"
       /\ req' = [req EXCEPT ![q] =
            [at |-> stage, filter |-> filter, op |-> form.op, id |-> form.id,
             seen |-> form.seen, opened |-> form.seen, awaited |-> TRUE]]
  /\ UNCHANGED <<fixed, row, filter, view, form, history>>

(* A button without a form. *)
Posts(q, op) ==
  /\ At(q, "idle") /\ filter # NoFilter /\ op \in PostsOn(page)
  /\ op = "removeRecord" => view.shown.state = "listed"
  /\ req' = [req EXCEPT ![q] = [at |-> "sent", filter |-> filter, op |-> op, id |-> 0,
                                seen |-> 0, opened |-> 0, awaited |-> TRUE]]
  /\ UNCHANGED <<fixed, row, client, history>>

(* A load begins with a change of the filter. *)
Filters(q) ==
  /\ \/ At(q, "idle") /\ filter # NoFilter /\ page # "records" /\ form = NoForm
     \/ At(q, "properties")
  /\ \E f \in Filter : filter' = f /\ Load(q, f, "filter")
  /\ UNCHANGED <<fixed, row, form, submitting, history>>

(* A load goes on: it has read the row now, or what it had read before, or *)
(* nothing; samples are to be created before it has read anything.         *)
Reads(q) ==
  /\ req[q].at \in LoadStage
  /\ \E s \in Loading :
       /\ req' = [req EXCEPT ![q] = s]
       /\ s.filter = req[q].filter /\ s.by = req[q].by
       /\ s.last = req[q].last /\ s.since = req[q].since
       /\ s.shown \in {row, req[q].shown, Unseen}
       /\ s.at # "asked"
       /\ s.at = "seeding" => At(q, "asked") /\ s.shown = req[q].shown
  /\ UNCHANGED <<fixed, row, client, history>>

LoadStep(q) ==
  \/ LoadProperties(q) \/ LoseProperties(q) \/ Filters(q)
  \/ Reads(q) \/ ServeSeed(q) \/ ShowLoad(q) \/ FailLoad(q)

(* The server does what is asked of it, at once or after it has checked.   *)
Serves(q) == Transact(q) \/ Write(q)

SendStep(q) ==
  \/ Submits(q) \/ \E op \in QuickOps : Posts(q, op)
  \/ CreateGuest(q) \/ Check(q) \/ Serves(q) \/ Deny(q)

AnswerStep(q) == Answer(q) \/ PatchRecords(q) \/ Refuse(q) \/ Lose(q)

Kinds ==
  \/ UNCHANGED vars
  \/ \E op \in FormOps : Opens(op)
  \/ Close
  \/ \E s \in RowState : Elsewhere(s)
  \/ \E q \in Request : LoadStep(q) \/ SendStep(q) \/ AnswerStep(q)

-----------------------------------------------------------------------------
(* The type of a request follows from its stage. *)
LEMMA RequestKinds ==
  ASSUME TypeOK, NEW q \in Request
  PROVE  /\ req[q].at \in LoadStage => req[q] \in Loading
         /\ req[q].at \in SentStage => req[q] \in Sent
         /\ req[q].at = "answered" => req[q] \in Answered
         /\ req[q].at \in {"idle", "properties"} \cup LoadStage \cup SentStage \cup {"answered"}
<1>1. req[q] \in {Idle, Finding} \cup Loading \cup Sent \cup Answered
  BY DEF TypeOK
<1>. QED  BY <1>1 DEF Idle, Finding, Loading, Sent, Answered, LoadStage, SentStage

(* A load in its next stage is one of the reads above. *)
LEMMA LoadReads ==
  ASSUME TypeOK, NEW q \in Request,
         ReadSomeLists(q) \/ ServeOverview(q) \/ ServeLoad(q)
  PROVE  Reads(q)
<1>1. req[q].at \in LoadStage
  BY DEF ReadSomeLists, ServeOverview, ServeLoad, At, LoadStage
<1>2. req[q] \in Loading
  BY <1>1, RequestKinds
<1>3. UNCHANGED <<fixed, row, client, history>>
  BY DEF ReadSomeLists, ServeOverview, ServeLoad
<1>4. \E at \in {"reading", "loaded"}, early \in SUBSET ListName,
         read \in {row, req[q].shown, Unseen} :
        \/ Go(q, [req[q] EXCEPT !.at = at, !.lists = early, !.shown = read])
        \/ Go(q, [req[q] EXCEPT !.at = at, !.shown = read])
        \/ At(q, "asked") /\ Go(q, [req[q] EXCEPT !.at = "seeding"])
  <2>1. CASE ReadSomeLists(q)
    <3>1. OnSomeList \subseteq ListName
      BY DEF OnSomeList, ListsOf
    <3>. QED  BY <2>1, <3>1 DEF ReadSomeLists, LoadStage
  <2>2. CASE ServeOverview(q)
    <3>1. Merged(req[q].lists, req[q].shown) \in {row, req[q].shown, Unseen}
      BY DEF Merged
    <3>. QED  BY <2>2, <3>1 DEF ServeOverview, LoadStage
  <2>3. CASE ServeLoad(q)
    BY <2>3 DEF ServeLoad, LoadStage
  <2>. QED  BY <2>1, <2>2, <2>3
<1>5. PICK at \in {"reading", "loaded"}, early \in SUBSET ListName,
           read \in {row, req[q].shown, Unseen} :
        \/ Go(q, [req[q] EXCEPT !.at = at, !.lists = early, !.shown = read])
        \/ Go(q, [req[q] EXCEPT !.at = at, !.shown = read])
        \/ At(q, "asked") /\ Go(q, [req[q] EXCEPT !.at = "seeding"])
  BY <1>4
<1>6. read \in Row
  BY <1>2 DEF TypeOK, Loading, Unseen, Row, RowState
<1>7. PICK s : /\ req' = [req EXCEPT ![q] = s]
               /\ \/ s = [req[q] EXCEPT !.at = at, !.lists = early, !.shown = read]
                  \/ s = [req[q] EXCEPT !.at = at, !.shown = read]
                  \/ At(q, "asked") /\ s = [req[q] EXCEPT !.at = "seeding"]
  BY <1>5, Zenon DEF Go
<1>8. s \in Loading
  BY <1>2, <1>6, <1>7 DEF Loading
<1>9. /\ s.filter = req[q].filter /\ s.by = req[q].by
      /\ s.last = req[q].last /\ s.since = req[q].since
      /\ s.shown \in {row, req[q].shown, Unseen}
      /\ s.at # "asked"
      /\ s.at = "seeding" => At(q, "asked") /\ s.shown = req[q].shown
  BY <1>2, <1>7 DEF Loading
<1>. QED  BY <1>1, <1>3, <1>7, <1>8, <1>9 DEF Reads

(* Forms and buttons of a page are those of the page. *)
LEMMA FormKinds ==
  ASSUME TypeOK, OpenCreate \/ OpenEdit \/ OpenBlock \/ OpenAction \/ NewRecord \/ EditRecord
  PROVE  \E op \in FormOps : Opens(op)
<1>1. FormOps = {"create", "move", "createBlock", "updateBlock", "deleteBlock",
                 "assign-room", "check-in", "check-out", "mark-no-show", "record-payment",
                 "createRecord", "updateRecord"}
  BY DEF FormOps
<1>2. ASSUME NEW p \in Page, NEW op \in FormsOn(p), NEW states, Open(p, op, states),
             op # "createRecord" => "free" \notin states \/ view.filter # NoFilter,
             op = "updateRecord" => states = {"listed"}
      PROVE  Opens(op)
  <2>1. page = p
    BY <1>2 DEF Open
  <2>2. op \in FormsOn(page)
    BY <2>1, <1>2
  <2>3. op # "createRecord" => view.filter # NoFilter \/ view.shown.state # "free"
    BY <1>2 DEF Open
  <2>. QED  BY <1>2, <2>2, <2>3, Zenon DEF Open, Opens
<1>3. /\ FormsOn("calendar") = {"create", "move", "createBlock", "updateBlock", "deleteBlock"}
      /\ FormsOn("desk") = {"assign-room", "check-in", "check-out", "mark-no-show",
                            "record-payment"}
      /\ FormsOn("records") = {"createRecord", "updateRecord"}
  BY DEF FormsOn
<1>4. CASE OpenCreate
  <2>1. PICK op \in {"create", "createBlock"} : Open("calendar", op, {"free"})
    BY <1>4 DEF OpenCreate
  <2>2. view.filter # NoFilter
    BY <1>4 DEF OpenCreate
  <2>. QED  BY <1>1, <1>2, <1>3, <2>1, <2>2 DEF Page
<1>5. CASE OpenEdit
  BY <1>1, <1>2, <1>3, <1>5 DEF OpenEdit, Page
<1>6. CASE OpenBlock
  <2>1. PICK op \in {"updateBlock", "deleteBlock"} : Open("calendar", op, {"blocked"})
    BY <1>6 DEF OpenBlock
  <2>. QED  BY <1>1, <1>2, <1>3, <2>1 DEF Page
<1>7. CASE OpenAction
  <2>1. PICK op \in {"assign-room", "check-in", "check-out", "mark-no-show",
                     "record-payment"} : Open("desk", op, ReservationStatuses(op))
    BY <1>7 DEF OpenAction
  <2>2. "free" \notin ReservationStatuses(op)
    BY <2>1 DEF ReservationStatuses
  <2>. QED  BY <1>1, <1>2, <1>3, <2>1, <2>2 DEF Page
<1>8. CASE NewRecord
  BY <1>1, <1>2, <1>3, <1>8 DEF NewRecord, Page
<1>9. CASE EditRecord
  BY <1>1, <1>2, <1>3, <1>9 DEF EditRecord, Page
<1>. QED  BY <1>4, <1>5, <1>6, <1>7, <1>8, <1>9

LEMMA SubmitKinds ==
  ASSUME TypeOK, NEW q \in Request,
         \/ CreateReservation(q) \/ MoveReservation(q) \/ CreateBlock(q)
         \/ UpdateBlock(q) \/ DeleteBlock(q) \/ SubmitAction(q) \/ SubmitRecord(q)
  PROVE  Submits(q)
<1>1. ASSUME NEW ops, NEW stage \in {"guest", "sent"}, Submit(q, ops, stage),
             stage = "guest" => form.op = "create",
             form.op = "createRecord" =>
               /\ filter # NoFilter
               /\ row = [state |-> "free", version |-> 1] /\ ~CreatingRecord
      PROVE  Submits(q)
  BY <1>1, Zenon DEF Submit, Submits, Enabled, Expected, Go
<1>2. CASE CreateReservation(q)
  <2>1. form.op = "create"
    BY <1>2 DEF CreateReservation, Submit
  <2>. QED  BY <1>1, <1>2, <2>1 DEF CreateReservation
<1>3. CASE MoveReservation(q) \/ CreateBlock(q) \/ UpdateBlock(q) \/ DeleteBlock(q)
           \/ SubmitAction(q)
  <2>1. form.op # "createRecord"
    BY <1>3 DEF MoveReservation, CreateBlock, UpdateBlock, DeleteBlock, SubmitAction, Submit
  <2>. QED
    BY <1>1, <1>3, <2>1
    DEF MoveReservation, CreateBlock, UpdateBlock, DeleteBlock, SubmitAction
<1>4. CASE SubmitRecord(q)
  <2>1. form.op = "createRecord" =>
          /\ filter # NoFilter
          /\ row = [state |-> "free", version |-> 1] /\ ~CreatingRecord
    BY <1>4, Zenon DEF SubmitRecord
  <2>. QED  BY <1>1, <1>4, <2>1 DEF SubmitRecord
<1>. QED  BY <1>2, <1>3, <1>4

LEMMA PostKinds ==
  ASSUME TypeOK, NEW q \in Request,
         \/ CreateRoomType(q) \/ CreateRoom(q) \/ CreateRatePlan(q)
         \/ BulkUpdateRate(q) \/ RemoveRecord(q)
  PROVE  \E op \in QuickOps : Posts(q, op)
<1>1. ASSUME NEW p \in Page, NEW op \in PostsOn(p), NEW states, Post(q, p, op, states),
             op = "removeRecord" => states = {"listed"}
      PROVE  Posts(q, op)
  <2>1. page = p
    BY <1>1 DEF Post
  <2>2. op \in PostsOn(page)
    BY <2>1, <1>1
  <2>. QED  BY <1>1, <2>2, Zenon DEF Post, Posts, Go
<1>2. /\ PostsOn("rates") = {"createRoomType", "createRoom", "createRatePlan",
                             "bulkUpdateRate"}
      /\ PostsOn("records") = {"removeRecord"}
  BY DEF PostsOn
<1>3. CASE CreateRoomType(q)
  BY <1>1, <1>2, <1>3 DEF CreateRoomType, PostRates, Page, QuickOps
<1>4. CASE CreateRoom(q)
  BY <1>1, <1>2, <1>4 DEF CreateRoom, PostRates, Page, QuickOps
<1>5. CASE CreateRatePlan(q)
  BY <1>1, <1>2, <1>5 DEF CreateRatePlan, PostRates, Page, QuickOps
<1>6. CASE BulkUpdateRate(q)
  BY <1>1, <1>2, <1>6 DEF BulkUpdateRate, PostRates, Page, QuickOps
<1>7. CASE RemoveRecord(q)
  BY <1>1, <1>2, <1>7 DEF RemoveRecord, Page, QuickOps
<1>. QED  BY <1>3, <1>4, <1>5, <1>6, <1>7

(* Every step is of one of the kinds. *)
LEMMA StepKinds ==
  ASSUME TypeOK, [Next]_vars
  PROVE  Kinds
<1>1. ASSUME NEW q \in Request, Click(q)
      PROVE  LoadStep(q) \/ SendStep(q)
  <2>1. ASSUME NEW f \in Filter, SetFilter(q, f)
        PROVE  Filters(q)
    BY <2>1 DEF SetFilter, Filters
  <2>. QED  BY <1>1, <2>1, SubmitKinds, PostKinds DEF Click, LoadStep, SendStep
<1>2. ASSUME NEW q \in Request, Proceed(q)
      PROVE  LoadStep(q) \/ SendStep(q) \/ AnswerStep(q)
  <2>1. ASSUME NEW f \in Filter, SetProperties(q, f)
        PROVE  Filters(q)
    BY <2>1 DEF SetProperties, Filters
  <2>. QED  BY <1>2, <2>1, LoadReads DEF Proceed, LoadStep, SendStep, AnswerStep, Serves
<1>. QED  BY <1>1, <1>2, FormKinds DEF Next, Kinds

-----------------------------------------------------------------------------
(* Types. *)

AnyRequest == {Idle, Finding} \cup Loading \cup Sent \cup Answered

(* Nothing is shown, loaded or sent before a filter is chosen; only a new  *)
(* record may be filled in.                                                *)
Chosen ==
  filter = NoFilter =>
    /\ view.filter = NoFilter /\ view.shown = Unseen
    /\ form # NoForm => form.op = "createRecord"
    /\ \A q \in Request : req[q].at \in {"idle", "properties"}

TypeInv == TypeOK /\ Chosen

(* All that a step of one request may do to another is to outdate its load.*)
Same(x) ==
  /\ req'[x].at = req[x].at
  /\ req[x].at \notin LoadStage => req'[x] = req[x]
  /\ req[x].at \in LoadStage =>
       /\ req'[x] \in Loading
       /\ req'[x].filter = req[x].filter /\ req'[x].by = req[x].by
       /\ req'[x].since = req[x].since /\ req'[x].shown = req[x].shown
       /\ req'[x].last => req[x].last

Turns(q, s) ==
  /\ req' \in [Request -> AnyRequest]
  /\ req'[q] = s
  /\ \A x \in Request \ {q} : Same(x)

LEMMA GoTurns ==
  ASSUME TypeOK, NEW q \in Request, NEW s \in AnyRequest, req' = [req EXCEPT ![q] = s]
  PROVE  Turns(q, s)
<1>1. req \in [Request -> AnyRequest]
  BY DEF TypeOK, AnyRequest
<1>2. /\ req' \in [Request -> AnyRequest] /\ req'[q] = s
      /\ \A x \in Request \ {q} : req'[x] = req[x]
  BY <1>1
<1>3. ASSUME NEW x \in Request \ {q}
      PROVE  Same(x)
  <2>1. req[x].at \in LoadStage => req[x] \in Loading
    BY RequestKinds
  <2>. QED  BY <1>2, <2>1 DEF Same
<1>. QED  BY <1>2, <1>3 DEF Turns

LEMMA OutdateTurns ==
  ASSUME TypeOK, NEW q \in Request, NEW s \in AnyRequest, Outdate(q, s)
  PROVE  /\ Turns(q, s)
         /\ \A x \in Request \ {q} : req[x].at \in LoadStage => ~req'[x].last
<1>1. req \in [Request -> AnyRequest]
  BY DEF TypeOK, AnyRequest
<1>2. ASSUME NEW x \in Request \ {q}
      PROVE  req'[x] \in AnyRequest /\ Same(x) /\ (req[x].at \in LoadStage => ~req'[x].last)
  <2>1. CASE req[x].at \in LoadStage
    <3>1. req[x] \in Loading
      BY <2>1, RequestKinds
    <3>2. req'[x] = [req[x] EXCEPT !.last = FALSE]
      BY <2>1 DEF Outdate
    <3>3. /\ req'[x] \in Loading /\ req'[x].at = req[x].at /\ ~req'[x].last
          /\ req'[x].filter = req[x].filter /\ req'[x].by = req[x].by
          /\ req'[x].since = req[x].since /\ req'[x].shown = req[x].shown
      BY <3>1, <3>2 DEF Loading
    <3>. QED  BY <2>1, <3>3 DEF Same, AnyRequest
  <2>2. CASE req[x].at \notin LoadStage
    <3>1. req'[x] = req[x]
      BY <2>2 DEF Outdate
    <3>. QED  BY <1>1, <2>2, <3>1 DEF Same
  <2>. QED  BY <2>1, <2>2
<1>3. req'[q] = s
  BY DEF Outdate
<1>4. req' \in [Request -> AnyRequest]
  <2>1. req' = [x \in Request |-> req'[x]]
    BY DEF Outdate
  <2>2. \A x \in Request : req'[x] \in AnyRequest
    BY <1>2, <1>3
  <2>. QED  BY <2>1, <2>2
<1>. QED  BY <1>2, <1>3, <1>4 DEF Turns

(* What a load is when it begins. *)
Begun(f, by) ==
  [at |-> "asked", filter |-> f, by |-> by, last |-> TRUE, since |-> row.version,
   lists |-> {}, shown |-> Unseen]

LEMMA LoadBegins ==
  ASSUME TypeOK, NEW q \in Request, NEW f \in Filter, NEW by \in {"filter", "submit"},
         Load(q, f, by)
  PROVE  /\ Begun(f, by) \in Loading
         /\ Turns(q, Begun(f, by))
         /\ \A x \in Request \ {q} : req[x].at \in LoadStage => ~req'[x].last
         /\ view' \in View /\ ~view'.last
         /\ view'.filter = view.filter /\ view'.by = view.by
         /\ view'.since = view.since /\ view'.shown = view.shown
<1>1. Begun(f, by) \in Loading
  BY DEF Begun, Loading, TypeOK, Row, Unseen, RowState
<1>2. Outdate(q, Begun(f, by))
  BY Zenon DEF Load, Begun
<1>3. view' = [view EXCEPT !.last = FALSE] /\ view \in View
  BY DEF Load, TypeOK
<1>4. /\ view' \in View /\ ~view'.last
      /\ view'.filter = view.filter /\ view'.by = view.by
      /\ view'.since = view.since /\ view'.shown = view.shown
  BY <1>3 DEF View
<1>5. Begun(f, by) \in AnyRequest
  BY <1>1 DEF AnyRequest
<1>. QED  BY <1>1, <1>2, <1>4, <1>5, OutdateTurns

(* What each kind of step makes of its request. *)

LEMMA ReadTurns ==
  ASSUME TypeOK, NEW q \in Request, Reads(q)
  PROVE  \E s \in Loading :
           /\ Turns(q, s)
           /\ s.filter = req[q].filter /\ s.by = req[q].by
           /\ s.last = req[q].last /\ s.since = req[q].since
           /\ s.shown \in {row, req[q].shown, Unseen}
           /\ s.at # "asked"
           /\ s.at = "seeding" => At(q, "asked") /\ s.shown = req[q].shown
<1>1. Loading \subseteq AnyRequest
  BY DEF AnyRequest
<1>. QED  BY <1>1, GoTurns DEF Reads

LEMMA SeedTurns ==
  ASSUME TypeOK, NEW q \in Request, ServeSeed(q)
  PROVE  /\ req[q] \in Loading /\ row' \in Row
         /\ row' = row \/ (row'.version = row.version + 1 /\ row'.state = "listed")
         /\ \E s \in Loading :
              /\ Turns(q, s)
              /\ s.filter = req[q].filter /\ s.by = req[q].by
              /\ s.last = req[q].last /\ s.since = row'.version
              /\ s.shown = req[q].shown
<1>1. req[q] \in Loading
  BY RequestKinds DEF ServeSeed, At, LoadStage
<1>2. /\ row' \in Row
      /\ row' = row \/ (row'.version = row.version + 1 /\ row'.state = "listed")
  <2>1. row \in Row
    BY DEF TypeOK
  <2>2. row' = row \/ row' = [state |-> "listed", version |-> row.version + 1]
    BY DEF ServeSeed
  <2>. QED  BY <2>1, <2>2 DEF Row, RowState
<1>3. PICK s : s = [req[q] EXCEPT !.at = "asked", !.since = row'.version]
  OBVIOUS
<1>4. /\ s \in Loading
      /\ s.filter = req[q].filter /\ s.by = req[q].by
      /\ s.last = req[q].last /\ s.since = row'.version
      /\ s.shown = req[q].shown
  BY <1>1, <1>2, <1>3 DEF Loading, Row
<1>5. req' = [req EXCEPT ![q] = s]
  BY <1>3, Zenon DEF ServeSeed, Go
<1>6. s \in AnyRequest
  BY <1>4 DEF AnyRequest
<1>. QED  BY <1>1, <1>2, <1>4, <1>5, <1>6, GoTurns

LEMMA IdleTurns ==
  ASSUME TypeOK, NEW q \in Request,
         \/ LoseProperties(q) \/ ShowLoad(q) \/ FailLoad(q)
         \/ PatchRecords(q) \/ Refuse(q)
  PROVE  Turns(q, Idle)
<1>1. Idle \in AnyRequest
  BY DEF AnyRequest
<1>2. CASE PatchRecords(q)
  BY <1>1, <1>2, OutdateTurns DEF PatchRecords
<1>3. CASE ~PatchRecords(q)
  BY <1>1, <1>3, GoTurns DEF LoseProperties, ShowLoad, FailLoad, Refuse, Done, Go
<1>. QED  BY <1>2, <1>3

LEMMA FindTurns ==
  ASSUME TypeOK, NEW q \in Request, LoadProperties(q)
  PROVE  Turns(q, Finding)
<1>1. Finding \in AnyRequest
  BY DEF AnyRequest
<1>. QED  BY <1>1, GoTurns DEF LoadProperties, Go

LEMMA FilterTurns ==
  ASSUME TypeOK, NEW q \in Request, Filters(q)
  PROVE  /\ view'.filter = view.filter /\ view'.by = view.by
         /\ view'.since = view.since /\ view'.shown = view.shown /\ ~view'.last
         /\ \A x \in Request \ {q} : req[x].at \in LoadStage => ~req'[x].last
         /\ \E s \in Loading :
              /\ Turns(q, s)
              /\ s.at = "asked" /\ s.by = "filter" /\ s.filter = filter'
              /\ s.since = row.version /\ s.shown = Unseen
<1>1. PICK f \in Filter : filter' = f /\ Load(q, f, "filter")
  BY DEF Filters
<1>2. PICK s : s = Begun(f, "filter")
  OBVIOUS
<1>3. /\ s.at = "asked" /\ s.by = "filter" /\ s.filter = filter'
      /\ s.since = row.version /\ s.shown = Unseen
  BY <1>1, <1>2 DEF Begun
<1>. QED  BY <1>1, <1>2, <1>3, LoadBegins

LEMMA AnswerTurns ==
  ASSUME TypeOK, NEW q \in Request, Answer(q)
  PROVE  /\ req[q] \in Answered
         /\ view' \in View
         /\ view'.filter = view.filter /\ view'.by = view.by
         /\ view'.since = view.since /\ view'.shown = view.shown /\ ~view'.last
         /\ \A x \in Request \ {q} : req[x].at \in LoadStage => ~req'[x].last
         /\ \E s \in Loading :
              /\ Turns(q, s)
              /\ s.at = "asked" /\ s.by = "submit" /\ s.filter = req[q].filter
              /\ s.since = row.version /\ s.shown = Unseen
<1>1. req[q] \in Answered
  BY RequestKinds DEF Answer, At
<1>2. req[q].filter \in Filter /\ Load(q, req[q].filter, "submit")
  BY <1>1 DEF Answer, Answered
<1>3. PICK s : s = Begun(req[q].filter, "submit")
  OBVIOUS
<1>4. /\ s.at = "asked" /\ s.by = "submit" /\ s.filter = req[q].filter
      /\ s.since = row.version /\ s.shown = Unseen
  BY <1>3 DEF Begun
<1>. QED  BY <1>1, <1>2, <1>3, <1>4, LoadBegins

LEMMA SubmitTurns ==
  ASSUME TypeInv, NEW q \in Request, Submits(q)
  PROVE  /\ form \in Form
         /\ \E s \in Sent :
              /\ Turns(q, s)
              /\ s.at \in {"guest", "sent"} /\ (s.at = "guest" => form.op = "create")
              /\ s.filter = filter /\ s.op = form.op /\ s.id = form.id
              /\ s.seen = form.seen /\ s.opened = form.seen /\ s.awaited = TRUE
<1>1. form \in Form /\ filter \in Filter
  BY DEF TypeInv, TypeOK, Chosen, Submits
<1>2. PICK stage \in {"guest", "sent"} :
        /\ stage = "guest" => form.op = "create"
        /\ req' = [req EXCEPT ![q] =
             [at |-> stage, filter |-> filter, op |-> form.op, id |-> form.id,
              seen |-> form.seen, opened |-> form.seen, awaited |-> TRUE]]
  BY DEF Submits
<1>3. PICK s : s = [at |-> stage, filter |-> filter, op |-> form.op, id |-> form.id,
                    seen |-> form.seen, opened |-> form.seen, awaited |-> TRUE]
  OBVIOUS
<1>4. /\ s \in Sent /\ s.at = stage /\ s.filter = filter /\ s.op = form.op /\ s.id = form.id
      /\ s.seen = form.seen /\ s.opened = form.seen /\ s.awaited = TRUE
  BY <1>1, <1>3 DEF Sent, Form, Op
<1>5. s \in AnyRequest
  BY <1>4 DEF AnyRequest
<1>6. Turns(q, s)
  BY <1>2, <1>3, <1>5, GoTurns DEF TypeInv
<1>. QED  BY <1>1, <1>2, <1>4, <1>6

LEMMA PostTurns ==
  ASSUME TypeOK, NEW q \in Request, NEW op \in QuickOps, Posts(q, op)
  PROVE  \E s \in Sent : /\ Turns(q, s)
                        /\ s.at = "sent" /\ s.op = op /\ s.id = 0
                        /\ s.seen = 0 /\ s.opened = 0
<1>1. PICK s : s = [at |-> "sent", filter |-> filter, op |-> op, id |-> 0,
                    seen |-> 0, opened |-> 0, awaited |-> TRUE]
  OBVIOUS
<1>2. filter \in Filter
  BY DEF Posts, TypeOK
<1>3. s \in Sent /\ s.at = "sent" /\ s.op = op /\ s.id = 0 /\ s.seen = 0 /\ s.opened = 0
  BY <1>1, <1>2 DEF Sent, Op
<1>4. s \in AnyRequest
  BY <1>3 DEF AnyRequest
<1>5. Turns(q, s)
  BY <1>1, <1>4, GoTurns DEF Posts
<1>. QED  BY <1>3, <1>5

(* What a request keeps of another stage of itself. *)
Copies(s, r) ==
  /\ s.op = r.op /\ s.id = r.id /\ s.opened = r.opened

(* The guest has been posted, or the row has been checked. *)
LEMMA StageTurns ==
  ASSUME TypeOK, NEW q \in Request, CreateGuest(q) \/ Check(q)
  PROVE  /\ req[q] \in Sent /\ req[q].at \in {"guest", "sent"}
         /\ \E s \in Sent :
              /\ Turns(q, s) /\ Copies(s, req[q]) /\ s.awaited = req[q].awaited
              /\ s.at = IF At(q, "guest") THEN "sent" ELSE "checked"
              /\ s.seen = IF At(q, "guest") THEN req[q].seen ELSE row.version
<1>1. req[q] \in Sent /\ req[q].at \in {"guest", "sent"}
  BY RequestKinds DEF CreateGuest, Check, At, SentStage
<1>2. row.version \in Nat
  BY DEF TypeOK, Row
<1>3. CASE CreateGuest(q)
  <2>1. PICK s : s = [req[q] EXCEPT !.at = "sent"]
    OBVIOUS
  <2>2. /\ s \in Sent /\ Copies(s, req[q]) /\ s.awaited = req[q].awaited
        /\ s.at = "sent" /\ s.seen = req[q].seen
    BY <1>1, <2>1 DEF Sent, Copies
  <2>3. Turns(q, s)
    BY <1>3, <2>1, <2>2, GoTurns DEF CreateGuest, Go, AnyRequest
  <2>. QED  BY <1>1, <1>3, <2>2, <2>3 DEF CreateGuest
<1>4. CASE Check(q)
  <2>1. PICK s : s = [req[q] EXCEPT !.at = "checked", !.seen = row.version]
    OBVIOUS
  <2>2. /\ s \in Sent /\ Copies(s, req[q]) /\ s.awaited = req[q].awaited
        /\ s.at = "checked" /\ s.seen = row.version
    BY <1>1, <1>2, <2>1 DEF Sent, Copies
  <2>3. Turns(q, s)
    BY <1>4, <2>1, <2>2, GoTurns DEF Check, Go, AnyRequest
  <2>. QED  BY <1>1, <1>4, <2>2, <2>3 DEF Check, At
<1>. QED  BY <1>3, <1>4

(* The server has said no. *)
LEMMA DenyTurns ==
  ASSUME TypeOK, NEW q \in Request, Deny(q)
  PROVE  /\ req[q] \in Sent /\ req[q].at \in {"guest", "sent", "checked"}
         /\ \E s \in Sent \cup {Idle} :
              /\ Turns(q, s)
              /\ s.at = IF req[q].awaited THEN "refused" ELSE "idle"
              /\ s.at # "idle" => /\ s \in Sent /\ Copies(s, req[q])
                                  /\ s.seen = req[q].seen /\ s.awaited = req[q].awaited
<1>1. req[q] \in Sent /\ req[q].at \in {"guest", "sent", "checked"}
  BY RequestKinds DEF Deny, SentStage
<1>2. CASE req[q].awaited
  <2>1. PICK s : s = [req[q] EXCEPT !.at = "refused"]
    OBVIOUS
  <2>2. /\ s \in Sent /\ Copies(s, req[q]) /\ s.at = "refused"
        /\ s.seen = req[q].seen /\ s.awaited = req[q].awaited
    BY <1>1, <2>1 DEF Sent, Copies
  <2>3. Turns(q, s)
    BY <1>2, <2>1, <2>2, GoTurns DEF Deny, Go, AnyRequest
  <2>. QED  BY <1>1, <1>2, <2>2, <2>3
<1>3. CASE ~req[q].awaited
  <2>1. Turns(q, Idle) /\ Idle.at = "idle"
    BY <1>3, GoTurns DEF Deny, Go, AnyRequest, Idle
  <2>. QED  BY <1>1, <1>3, <2>1
<1>. QED  BY <1>2, <1>3

(* The page gives up on a request; it may go on without the page.          *)
LEMMA LoseTurns ==
  ASSUME TypeOK, NEW q \in Request, Lose(q)
  PROVE  /\ req[q] \in Sent \cup Answered
         /\ req[q].at \in {"guest", "sent", "checked", "answered"}
         /\ req[q].at \in {"sent", "checked"} => req[q].awaited
         /\ \E s \in Sent \cup {Idle} :
              /\ Turns(q, s)
              /\ s.at \in {"idle", req[q].at}
              /\ s.at # "idle" => /\ s \in Sent /\ Copies(s, req[q])
                                  /\ s.at \in {"sent", "checked"}
                                  /\ s.seen = req[q].seen /\ s.awaited = FALSE
<1>1. /\ req[q] \in Sent \cup Answered
      /\ req[q].at \in {"guest", "sent", "checked", "answered"}
      /\ req[q].at \in {"sent", "checked"} => req[q].awaited /\ req[q] \in Sent
  BY RequestKinds DEF Lose, SentStage
<1>2. CASE Done(q)
  <2>1. Turns(q, Idle) /\ Idle.at = "idle"
    BY <1>2, GoTurns DEF Done, Go, AnyRequest, Idle
  <2>. QED  BY <1>1, <2>1
<1>3. CASE req[q].at \in {"sent", "checked"} /\ Go(q, [req[q] EXCEPT !.awaited = FALSE])
  <2>1. PICK s : s = [req[q] EXCEPT !.awaited = FALSE]
    OBVIOUS
  <2>2. /\ s \in Sent /\ Copies(s, req[q]) /\ s.at = req[q].at
        /\ s.seen = req[q].seen /\ s.awaited = FALSE
    BY <1>1, <1>3, <2>1 DEF Sent, Copies
  <2>3. Turns(q, s)
    BY <1>3, <2>1, <2>2, GoTurns DEF Go, AnyRequest
  <2>. QED  BY <1>1, <1>3, <2>2, <2>3
<1>. QED  BY <1>2, <1>3 DEF Lose

LEMMA ServeTurns ==
  ASSUME TypeOK, NEW q \in Request, Serves(q)
  PROVE  /\ req[q] \in Sent /\ req[q].at \in {"sent", "checked"}
         /\ Serve(q)
         /\ row' \in Row
         /\ row' = row \/ (row'.version = row.version + 1 /\ row'.state = StateAfter(req[q].op))
         /\ req[q].op \notin {"updateBlock", "deleteBlock"} => row'.version = row.version + 1
         /\ \E s \in Answered \cup {Idle} :
              /\ Turns(q, s)
              /\ s.at = IF req[q].awaited THEN "answered" ELSE "idle"
              /\ s.at # "idle" => /\ s \in Answered
                                  /\ s.op = req[q].op /\ s.id = req[q].id
                                  /\ s.shown = Copy(req[q].op, row')
                                  /\ s.shown.version = row'.version
<1>1. req[q] \in Sent /\ req[q].at \in {"sent", "checked"} /\ Serve(q)
  BY RequestKinds DEF Serves, Transact, Write, At, SentStage
<1>2. StateAfter(req[q].op) \in RowState
  <2>1. row.state \in RowState
    BY DEF TypeOK, Row
  <2>. QED  BY <2>1 DEF StateAfter, RowState
<1>3. PICK landed : landed = [state |-> StateAfter(req[q].op), version |-> row.version + 1]
  OBVIOUS
<1>4. /\ row' \in {row, landed}
      /\ req[q].op \notin {"updateBlock", "deleteBlock"} => row' = landed
  BY <1>1, <1>3 DEF Serve, Written
<1>5. row \in Row /\ row.version \in Nat
  BY DEF TypeOK, Row
<1>6. landed \in Row /\ landed.version = row.version + 1 /\ landed.state = StateAfter(req[q].op)
  BY <1>2, <1>3, <1>5 DEF Row
<1>7. Copy(req[q].op, row') \in Row /\ Copy(req[q].op, row').version = row'.version
  BY <1>4, <1>5, <1>6 DEF Copy, Row, RowState
<1>8. CASE req[q].awaited
  <2>1. PICK s : s = [at |-> "answered", filter |-> req[q].filter, op |-> req[q].op,
                      id |-> req[q].id, shown |-> Copy(req[q].op, row')]
    OBVIOUS
  <2>2. /\ s \in Answered /\ s.at = "answered" /\ s.op = req[q].op /\ s.id = req[q].id
        /\ s.shown = Copy(req[q].op, row') /\ s.shown.version = row'.version
    BY <1>1, <1>7, <2>1 DEF Sent, Answered
  <2>3. req' = [req EXCEPT ![q] = s]
    BY <1>1, <1>8, <2>1, Zenon DEF Serve, Go
  <2>4. Turns(q, s)
    BY <2>2, <2>3, GoTurns DEF AnyRequest
  <2>. QED  BY <1>1, <1>4, <1>5, <1>6, <1>8, <2>2, <2>4
<1>9. CASE ~req[q].awaited
  <2>1. req' = [req EXCEPT ![q] = Idle]
    BY <1>1, <1>9, Zenon DEF Serve, Go
  <2>2. Turns(q, Idle) /\ Idle.at = "idle"
    BY <2>1, GoTurns DEF AnyRequest, Idle
  <2>. QED  BY <1>1, <1>4, <1>5, <1>6, <1>9, <2>2
<1>. QED  BY <1>8, <1>9

(* A form that was not used yet is there to be opened. *)
LEMMA NextFormLeft ==
  ASSUME FormsLeft # {}
  PROVE  NextForm \in FormId /\ NextForm \in FormsLeft /\ log[NextForm].form = "none"
BY DEF NextForm, FormsLeft

LEMMA OpenForms ==
  ASSUME TypeOK, NEW op \in FormOps, Opens(op)
  PROVE  /\ form' \in Form /\ form'.id = NextForm /\ form'.op = op
         /\ form'.seen = IF op \in Versioned THEN view.shown.version ELSE 0
         /\ log' \in [FormId -> Outcome]
         /\ \A f \in FormId \ {NextForm} : log'[f] = log[f]
         /\ log'[NextForm].form = IF op = "move" THEN "move" ELSE "plain"
         /\ log'[NextForm].done = log[NextForm].done
         /\ log'[NextForm].lost = log[NextForm].lost
<1>1. NextForm \in FormId
  BY NextFormLeft DEF Opens
<1>2. view.shown.version \in Nat
  BY DEF TypeOK, View, Row
<1>3. PICK seen \in Nat : seen = IF op \in Versioned THEN view.shown.version ELSE 0
  BY <1>2
<1>4. form' = [id |-> NextForm, op |-> op, seen |-> seen]
  BY <1>3 DEF Opens
<1>5. PICK kind \in {"move", "plain"} :
        /\ kind = IF op = "move" THEN "move" ELSE "plain"
        /\ log' = [log EXCEPT ![NextForm].form = kind]
  BY DEF Opens
<1>6. log \in [FormId -> Outcome]
  BY DEF TypeOK
<1>7. /\ log' \in [FormId -> Outcome]
      /\ \A f \in FormId \ {NextForm} : log'[f] = log[f]
      /\ log'[NextForm].form = kind
      /\ log'[NextForm].done = log[NextForm].done
      /\ log'[NextForm].lost = log[NextForm].lost
  BY <1>1, <1>5, <1>6 DEF Outcome
<1>. QED  BY <1>1, <1>3, <1>4, <1>5, <1>7 DEF Form

LEMMA LogCounts ==
  ASSUME TypeOK, NEW id \in FormId \cup {0}, NEW done \in Nat, NEW away \in Nat,
         Log(id, done, away)
  PROVE  /\ log' \in [FormId -> Outcome]
         /\ \A f \in FormId : log'[f].form = log[f].form
         /\ \A f \in FormId \ {id} : log'[f] = log[f]
         /\ id # 0 => /\ log'[id].done = log[id].done + done
                      /\ log'[id].lost = log[id].lost + away
<1>1. log \in [FormId -> Outcome] /\ 0 \notin FormId
  BY BoundsAssumption DEF TypeOK
<1>2. CASE id = 0
  BY <1>1, <1>2 DEF Log
<1>3. CASE id # 0
  <2>1. PICK r : r = [form |-> log[id].form, done |-> log[id].done + done,
                      lost |-> log[id].lost + away]
    OBVIOUS
  <2>2. id \in FormId /\ log[id] \in Outcome
    BY <1>1, <1>3
  <2>3. /\ r \in Outcome /\ r.form = log[id].form
        /\ r.done = log[id].done + done /\ r.lost = log[id].lost + away
    BY <2>1, <2>2 DEF Outcome
  <2>4. log' = [log EXCEPT ![id] = r]
    BY <1>3, <2>1 DEF Log
  <2>. QED  BY <1>1, <1>3, <2>2, <2>3, <2>4
<1>. QED  BY <1>2, <1>3

LEMMA ChosenBefore ==
  ASSUME TypeInv, NEW q \in Request, NEW s, Turns(q, s), filter' = filter,
         filter = NoFilter => /\ view'.filter = NoFilter /\ view'.shown = Unseen
                              /\ form' # NoForm => form'.op = "createRecord"
                              /\ s.at \in {"idle", "properties"}
  PROVE  Chosen'
BY DEF TypeInv, Chosen, Turns, Same

LEMMA TypeLoads ==
  ASSUME TypeInv, NEW q \in Request, LoadStep(q)
  PROVE  TypeInv'
<1>. USE DEF TypeInv
<1>1. ASSUME NEW s, Turns(q, s)
      PROVE  req' \in [Request -> {Idle, Finding} \cup Loading \cup Sent \cup Answered]
  BY <1>1 DEF Turns, AnyRequest
<1>2. ASSUME LoadProperties(q)
      PROVE  TypeInv'
  <2>1. Turns(q, Finding)
    BY <1>2, FindTurns
  <2>2. TypeOK'
    BY <1>1, <1>2, <2>1 DEF LoadProperties, TypeOK, fixed, client, history
  <2>3. Chosen'
    BY <1>2, <2>1, ChosenBefore DEF LoadProperties, Chosen, client, Finding
  <2>. QED  BY <2>2, <2>3
<1>3. ASSUME LoseProperties(q)
      PROVE  TypeInv'
  <2>1. Turns(q, Idle)
    BY <1>3, IdleTurns
  <2>2. lost' \in 0..MaxLost
    BY <1>3, BoundsAssumption DEF LoseProperties, TypeOK
  <2>3. TypeOK'
    BY <1>1, <1>3, <2>1, <2>2 DEF LoseProperties, TypeOK, fixed, client
  <2>4. Chosen'
    BY <1>3, <2>1, ChosenBefore DEF LoseProperties, Chosen, client, Idle
  <2>. QED  BY <2>3, <2>4
<1>4. ASSUME Filters(q)
      PROVE  TypeInv'
  <2>1. PICK f \in Filter : filter' = f /\ Load(q, f, "filter")
    BY <1>4 DEF Filters
  <2>2. Turns(q, Begun(f, "filter")) /\ view' \in View
    BY <2>1, LoadBegins
  <2>3. TypeOK'
    BY <1>1, <1>4, <2>1, <2>2 DEF Filters, TypeOK, fixed, history
  <2>. QED  BY <2>1, <2>3, FilterAssumption DEF Chosen
<1>5. ASSUME Reads(q)
      PROVE  TypeInv'
  <2>1. PICK s \in Loading : Turns(q, s)
    BY <1>5, ReadTurns
  <2>2. TypeOK'
    BY <1>1, <1>5, <2>1 DEF Reads, TypeOK, fixed, client, history
  <2>3. Chosen'
    BY <1>5, <2>1, ChosenBefore DEF Reads, Chosen, client, LoadStage
  <2>. QED  BY <2>2, <2>3
<1>6. ASSUME ServeSeed(q)
      PROVE  TypeInv'
  <2>1. PICK s \in Loading : Turns(q, s) /\ row' \in Row
    BY <1>6, SeedTurns
  <2>2. TypeOK'
    BY <1>1, <1>6, <2>1 DEF ServeSeed, TypeOK, fixed, client, history
  <2>3. Chosen'
    BY <1>6, <2>1, ChosenBefore DEF ServeSeed, Chosen, client, At, LoadStage
  <2>. QED  BY <2>2, <2>3
<1>7. ASSUME ShowLoad(q)
      PROVE  TypeInv'
  <2>1. Turns(q, Idle)
    BY <1>7, IdleTurns
  <2>2. req[q] \in Loading /\ req[q].at \in LoadStage
    BY <1>7, RequestKinds DEF ShowLoad, At, LoadStage
  <2>3. view' \in View /\ view'.filter \in Filter
    BY <1>7, <2>2 DEF ShowLoad, Loading, View
  <2>4. submitting' \in BOOLEAN
    BY <1>7 DEF ShowLoad, Rest
  <2>5. TypeOK'
    BY <1>1, <1>7, <2>1, <2>3, <2>4 DEF ShowLoad, TypeOK, fixed, history
  <2>6. filter # NoFilter /\ filter' = filter
    BY <1>7, <2>2 DEF ShowLoad, Chosen, LoadStage
  <2>. QED  BY <2>5, <2>6 DEF Chosen
<1>8. ASSUME FailLoad(q)
      PROVE  TypeInv'
  <2>1. Turns(q, Idle)
    BY <1>8, IdleTurns
  <2>2. submitting' \in BOOLEAN
    BY <1>8 DEF FailLoad, Rest
  <2>3. lost' \in 0..MaxLost
    BY <1>8, BoundsAssumption DEF FailLoad, TypeOK
  <2>4. TypeOK'
    BY <1>1, <1>8, <2>1, <2>2, <2>3 DEF FailLoad, TypeOK, fixed
  <2>5. filter # NoFilter /\ filter' = filter
    BY <1>8 DEF FailLoad, Chosen, LoadStage
  <2>. QED  BY <2>4, <2>5 DEF Chosen
<1>. QED  BY <1>2, <1>3, <1>4, <1>5, <1>6, <1>7, <1>8 DEF LoadStep

LEMMA TypeSends ==
  ASSUME TypeInv, NEW q \in Request, SendStep(q)
  PROVE  TypeInv'
<1>. USE DEF TypeInv
<1>1. ASSUME NEW s, Turns(q, s)
      PROVE  req' \in [Request -> {Idle, Finding} \cup Loading \cup Sent \cup Answered]
  BY <1>1 DEF Turns, AnyRequest
<1>3. ASSUME Submits(q)
      PROVE  TypeInv'
  <2>1. PICK s \in Sent : Turns(q, s)
    BY <1>3, SubmitTurns
  <2>2. TypeOK'
    BY <1>1, <1>3, <2>1 DEF Submits, TypeOK, fixed, history
  <2>3. Chosen'
    BY <1>3, <2>1, ChosenBefore DEF Submits, Chosen
  <2>. QED  BY <2>2, <2>3
<1>4. ASSUME NEW op \in QuickOps, Posts(q, op)
      PROVE  TypeInv'
  <2>1. PICK s \in Sent : Turns(q, s)
    BY <1>4, PostTurns
  <2>2. TypeOK'
    BY <1>1, <1>4, <2>1 DEF Posts, TypeOK, fixed, client, history
  <2>3. Chosen'
    BY <1>4, <2>1, ChosenBefore DEF Posts, Chosen, client
  <2>. QED  BY <2>2, <2>3
<1>5. ASSUME CreateGuest(q) \/ Check(q) \/ Deny(q)
      PROVE  TypeInv'
  <2>1. PICK s \in Sent \cup {Idle} : Turns(q, s)
    BY <1>5, StageTurns, DenyTurns
  <2>2. UNCHANGED <<fixed, row, client, history>> /\ req[q].at \notin {"idle", "properties"}
    BY <1>5 DEF CreateGuest, Check, Deny, At
  <2>3. TypeOK'
    BY <1>1, <2>1, <2>2 DEF TypeOK, fixed, client, history
  <2>. QED  BY <2>2, <2>3 DEF Chosen, client
<1>6. ASSUME Serves(q)
      PROVE  TypeInv'
  <2>1. PICK s \in Answered \cup {Idle} : Turns(q, s)
    BY <1>6, ServeTurns
  <2>2. /\ row' \in Row /\ req[q] \in Sent /\ req[q].at \notin {"idle", "properties"}
        /\ Serve(q)
    BY <1>6, ServeTurns
  <2>3. req[q].id \in FormId \cup {0} /\ Log(req[q].id, 1, 0)
    BY <2>2 DEF Sent, Serve
  <2>4. log' \in [FormId -> Outcome]
    BY <2>3, LogCounts
  <2>5. UNCHANGED <<fixed, client, own, gone, lost>>
    BY <2>2 DEF Serve
  <2>6. TypeOK'
    BY <1>1, <2>1, <2>2, <2>4, <2>5 DEF TypeOK, fixed, client
  <2>. QED  BY <2>2, <2>5, <2>6 DEF Chosen, client
<1>. QED  BY <1>3, <1>4, <1>5, <1>6 DEF SendStep

LEMMA TypeAnswers ==
  ASSUME TypeInv, NEW q \in Request, AnswerStep(q)
  PROVE  TypeInv'
<1>. USE DEF TypeInv
<1>1. ASSUME NEW s, Turns(q, s)
      PROVE  req' \in [Request -> {Idle, Finding} \cup Loading \cup Sent \cup Answered]
  BY <1>1 DEF Turns, AnyRequest
<1>2. ASSUME req[q].at \notin {"idle", "properties"}, filter' = filter
      PROVE  Chosen'
  BY <1>2 DEF Chosen
<1>3. ASSUME At(q, "answered"), Hear(q)
      PROVE  req[q] \in Answered /\ own' \in Nat
  <2>1. req[q] \in Answered
    BY <1>3, RequestKinds DEF At
  <2>. QED  BY <1>3, <2>1 DEF Hear, Newer, Answered, Row, TypeOK
<1>4. ASSUME Answer(q)
      PROVE  TypeInv'
  <2>1. req[q] \in Answered /\ own' \in Nat
    BY <1>3, <1>4 DEF Answer
  <2>2. PICK s : Turns(q, s)
    BY <1>4, AnswerTurns
  <2>3. view' \in View
    BY <1>4, AnswerTurns
  <2>4. form' \in Form \cup {NoForm}
    BY <1>4 DEF Answer, TypeOK
  <2>5. TypeOK'
    BY <1>1, <1>4, <2>1, <2>2, <2>3, <2>4 DEF Answer, TypeOK, fixed
  <2>. QED  BY <1>2, <1>4, <2>5 DEF Answer, At
<1>5. ASSUME PatchRecords(q)
      PROVE  TypeInv'
  <2>1. Turns(q, Idle)
    BY <1>5, IdleTurns
  <2>2. req[q] \in Answered /\ own' \in Nat
    BY <1>3, <1>5 DEF PatchRecords
  <2>3. view' \in View
    <3>1. view \in View
      BY DEF TypeOK
    <3>2. PICK v : v = [view EXCEPT !.by = "patch", !.last = TRUE,
                                    !.since = req[q].shown.version, !.shown = req[q].shown]
      OBVIOUS
    <3>3. v \in View
      BY <2>2, <3>1, <3>2 DEF View, Answered, Row
    <3>. QED  BY <1>5, <3>1, <3>2, <3>3 DEF PatchRecords
  <2>4. form' \in Form \cup {NoForm} /\ gone' \in BOOLEAN
    BY <1>5 DEF PatchRecords, TypeOK
  <2>5. TypeOK'
    BY <1>1, <1>5, <2>1, <2>2, <2>3, <2>4 DEF PatchRecords, TypeOK, fixed
  <2>. QED  BY <1>2, <1>5, <2>5 DEF PatchRecords, At
<1>6. ASSUME Refuse(q)
      PROVE  TypeInv'
  <2>1. Turns(q, Idle)
    BY <1>6, IdleTurns
  <2>2. TypeOK'
    BY <1>1, <1>6, <2>1 DEF Refuse, TypeOK, fixed, history, FlagGone
  <2>. QED  BY <1>2, <1>6, <2>2 DEF Refuse, At
<1>7. ASSUME Lose(q)
      PROVE  TypeInv'
  <2>1. PICK s : Turns(q, s)
    BY <1>7, LoseTurns
  <2>2. req[q].id \in FormId \cup {0}
    BY <1>7, LoseTurns DEF Sent, Answered
  <2>3. Log(req[q].id, 0, 1)
    BY <1>7 DEF Lose
  <2>4. log' \in [FormId -> Outcome]
    BY <2>2, <2>3, LogCounts
  <2>5. lost' \in 0..MaxLost
    BY <1>7, BoundsAssumption DEF Lose, TypeOK
  <2>6. TypeOK'
    BY <1>1, <1>7, <2>1, <2>4, <2>5 DEF Lose, TypeOK, fixed, FlagGone
  <2>. QED  BY <1>2, <1>7, <2>6 DEF Lose
<1>. QED  BY <1>4, <1>5, <1>6, <1>7 DEF AnswerStep

LEMMA TypeInit == Init => TypeInv
<1>. SUFFICES ASSUME Init PROVE TypeInv
  OBVIOUS
<1>1. stay \in Stay
  BY StayAssumption DEF Init
<1>2. row \in Row /\ view \in View /\ log \in [FormId -> Outcome]
  <2>1. \A p \in Page : States(p) \subseteq RowState
    BY DEF States, Page, RowState
  <2>2. row \in Row
    BY <2>1 DEF Init, Row
  <2>3. view \in View
    BY DEF Init, View, Row, RowState, Unseen
  <2>4. log \in [FormId -> Outcome]
    BY DEF Init, Outcome
  <2>. QED  BY <2>2, <2>3, <2>4
<1>3. lost \in 0..MaxLost
  BY BoundsAssumption DEF Init
<1>4. TypeOK
  BY <1>1, <1>2, <1>3 DEF Init, TypeOK
<1>5. Chosen
  BY DEF Init, Chosen, Idle
<1>. QED  BY <1>4, <1>5 DEF TypeInv

LEMMA TypeNext == TypeInv /\ [Next]_vars => TypeInv'
<1>. SUFFICES ASSUME TypeInv, [Next]_vars PROVE TypeInv'
  OBVIOUS
<1>1. Kinds
  BY StepKinds DEF TypeInv
<1>2. ASSUME UNCHANGED vars
      PROVE  TypeInv'
  BY <1>2 DEF TypeInv, TypeOK, Chosen, vars, fixed, client, history
<1>3. ASSUME NEW op \in FormOps, Opens(op)
      PROVE  TypeInv'
  <2>1. form' \in Form /\ log' \in [FormId -> Outcome]
    BY <1>3, OpenForms DEF TypeInv
  <2>2. TypeOK'
    BY <1>3, <2>1 DEF TypeInv, TypeOK, Opens, fixed
  <2>3. filter = NoFilter => form'.op = "createRecord"
    BY <1>3, OpenForms DEF TypeInv, Chosen, Opens, Unseen
  <2>. QED  BY <1>3, <2>2, <2>3 DEF TypeInv, Chosen, Opens
<1>4. ASSUME Close
      PROVE  TypeInv'
  BY <1>4 DEF TypeInv, TypeOK, Chosen, Close, fixed, history
<1>5. ASSUME NEW s \in RowState, Elsewhere(s)
      PROVE  TypeInv'
  <2>1. row' \in Row
    BY <1>5 DEF TypeInv, TypeOK, Elsewhere, Row
  <2>2. TypeOK'
    BY <1>5, <2>1 DEF TypeInv, TypeOK, Elsewhere, fixed, client, history
  <2>. QED  BY <1>5, <2>2 DEF TypeInv, Chosen, Elsewhere, client
<1>. QED  BY <1>1, <1>2, <1>3, <1>4, <1>5, TypeLoads, TypeSends, TypeAnswers DEF Kinds

(* The page, its row and its requests keep their types. *)
THEOREM TypeCorrect == Spec => []TypeInv
<1>. QED  BY TypeInit, TypeNext, PTL DEF Spec

(* What is sent goes on in four ways. *)
LEMMA SentGoesOn ==
  ASSUME TypeInv, Kinds, NEW q \in Request, At(q, "sent"), req'[q] # req[q]
  PROVE  Serves(q) \/ Check(q) \/ Deny(q) \/ Lose(q)
<1>1. ASSUME NEW x \in Request \ {q}, NEW s, Turns(x, s)
      PROVE  FALSE
  BY <1>1 DEF Turns, Same, At, LoadStage
<1>2. ASSUME NEW x \in Request, LoadStep(x)
      PROVE  FALSE
  <2>1. x # q
    BY <1>2 DEF LoadStep, LoadProperties, LoseProperties, Filters, Reads, ServeSeed, ShowLoad,
                FailLoad, At, LoadStage
  <2>2. \E s : Turns(x, s)
    BY <1>2, FindTurns, IdleTurns, FilterTurns, ReadTurns, SeedTurns DEF LoadStep, TypeInv
  <2>. QED  BY <1>1, <2>1, <2>2
<1>3. ASSUME NEW x \in Request, SendStep(x)
      PROVE  Serves(q) \/ Check(q) \/ Deny(q)
  <2>1. CASE x = q
    BY <1>3, <2>1 DEF SendStep, Submits, Posts, CreateGuest, At
  <2>2. CASE x # q
    <3>1. \E s : Turns(x, s)
      BY <1>3, SubmitTurns, PostTurns, StageTurns, DenyTurns, ServeTurns DEF SendStep, TypeInv
    <3>. QED  BY <1>1, <2>2, <3>1
  <2>. QED  BY <2>1, <2>2
<1>4. ASSUME NEW x \in Request, AnswerStep(x)
      PROVE  Lose(q)
  <2>1. CASE x = q
    BY <1>4, <2>1 DEF AnswerStep, Answer, PatchRecords, Refuse, At
  <2>2. CASE x # q
    <3>1. \E s : Turns(x, s)
      BY <1>4, IdleTurns, AnswerTurns, LoseTurns DEF AnswerStep, TypeInv
    <3>. QED  BY <1>1, <2>2, <3>1
  <2>. QED  BY <2>1, <2>2
<1>. QED
  BY <1>2, <1>3, <1>4 DEF Kinds, Opens, Close, Elsewhere, vars, client

-----------------------------------------------------------------------------
(* Nothing is overwritten unseen. *)

(* Until the row is checked the version sent is that of the form; while the*)
(* guest is posted somebody waits.                                         *)
AsOpened(r) ==
  /\ r.at \in {"guest", "sent"} => r.seen = r.opened
  /\ r.at = "guest" => r.awaited

SentAsOpened == \A q \in Request : AsOpened(req[q])

SeenInv == TypeInv /\ SentAsOpened

LEMMA SeenTurns ==
  ASSUME SeenInv, NEW q \in Request, NEW s, Turns(q, s), AsOpened(s)
  PROVE  SentAsOpened'
<1>1. {"guest", "sent"} \cap LoadStage = {}
  BY DEF LoadStage
<1>. QED  BY <1>1 DEF SeenInv, SentAsOpened, AsOpened, Turns, Same

LEMMA SeenNext == SeenInv /\ [Next]_vars => SeenInv'
<1>. SUFFICES ASSUME SeenInv, [Next]_vars PROVE SeenInv'
  OBVIOUS
<1>. USE DEF SeenInv
<1>1. TypeInv' /\ Kinds
  BY TypeNext, StepKinds DEF TypeInv
<1>2. \A s \in {Idle, Finding} \cup Loading \cup Answered : AsOpened(s)
  BY DEF Idle, Finding, Loading, Answered, AsOpened
<1>3. ASSUME NEW q \in Request, LoadStep(q)
      PROVE  SentAsOpened'
  <2>1. \E s \in {Idle, Finding} \cup Loading : Turns(q, s)
    BY <1>3, FindTurns, IdleTurns, FilterTurns, ReadTurns, SeedTurns DEF LoadStep, TypeInv
  <2>. QED  BY <1>2, <2>1, SeenTurns
<1>4. ASSUME NEW q \in Request, SendStep(q)
      PROVE  SentAsOpened'
  <2>1. ASSUME Submits(q)
        PROVE  SentAsOpened'
    BY <2>1, SubmitTurns, SeenTurns DEF AsOpened
  <2>2. ASSUME NEW op \in QuickOps, Posts(q, op)
        PROVE  SentAsOpened'
    BY <2>2, PostTurns, SeenTurns DEF TypeInv, AsOpened
  <2>3. ASSUME CreateGuest(q) \/ Check(q)
        PROVE  SentAsOpened'
    BY <2>3, StageTurns, SeenTurns DEF TypeInv, SentAsOpened, AsOpened, Copies, At
  <2>4. ASSUME Deny(q)
        PROVE  SentAsOpened'
    <3>1. PICK s \in Sent \cup {Idle} :
            /\ Turns(q, s) /\ s.at = IF req[q].awaited THEN "refused" ELSE "idle"
      BY <2>4, DenyTurns DEF TypeInv
    <3>. QED  BY <3>1, SeenTurns DEF AsOpened
  <2>5. ASSUME Serves(q)
        PROVE  SentAsOpened'
    BY <1>2, <2>5, ServeTurns, SeenTurns DEF TypeInv
  <2>. QED  BY <1>4, <2>1, <2>2, <2>3, <2>4, <2>5 DEF SendStep
<1>5. ASSUME NEW q \in Request, AnswerStep(q)
      PROVE  SentAsOpened'
  <2>1. ASSUME Answer(q)
        PROVE  SentAsOpened'
    BY <1>2, <2>1, AnswerTurns, SeenTurns DEF TypeInv
  <2>2. ASSUME Lose(q)
        PROVE  SentAsOpened'
    <3>1. PICK s \in Sent \cup {Idle} :
            /\ Turns(q, s) /\ s.at \in {"idle", req[q].at}
            /\ s.at # "idle" => /\ Copies(s, req[q]) /\ s.at \in {"sent", "checked"}
                                /\ s.seen = req[q].seen
      BY <2>2, LoseTurns DEF TypeInv
    <3>2. AsOpened(req[q])
      BY DEF SentAsOpened
    <3>3. AsOpened(s)
      BY <3>1, <3>2 DEF AsOpened, Copies
    <3>. QED  BY <3>1, <3>3, SeenTurns
  <2>. QED  BY <1>2, <1>5, <2>1, <2>2, IdleTurns, SeenTurns DEF AnswerStep, TypeInv
<1>6. CASE UNCHANGED req
  BY <1>1, <1>6 DEF SentAsOpened
<1>. QED
  BY <1>1, <1>3, <1>4, <1>5, <1>6 DEF Kinds, Opens, Close, Elsewhere, vars, client

LEMMA SeenInit == Init => SeenInv
BY TypeInit DEF Init, SeenInv, SentAsOpened, AsOpened, Idle

(* A move replaces the very version its form was opened with, and a change *)
(* of a block is decided on it, whatever the page has loaded since; what is*)
(* then written to the block is written by its id (openDetails,            *)
(* moveReservation, updateBlock).                                          *)
THEOREM NothingOverwrittenUnseenHolds == Spec => NothingOverwrittenUnseen
<1>1. SeenInv /\ [Next]_vars =>
        \A q \in Request :
          /\ At(q, "sent") /\ req'[q] # req[q]
          /\ \/ req[q].op = "move" /\ row' # row
             \/ req[q].op = "updateBlock" /\ req'[q].at = "checked"
          => row.version = req[q].opened
  <2>. SUFFICES ASSUME SeenInv, [Next]_vars, NEW q \in Request,
                       At(q, "sent"), req'[q] # req[q],
                       \/ req[q].op = "move" /\ row' # row
                       \/ req[q].op = "updateBlock" /\ req'[q].at = "checked"
                PROVE  row.version = req[q].opened
    OBVIOUS
  <2>1. Serves(q) \/ Check(q) \/ Deny(q) \/ Lose(q)
    BY SentGoesOn, StepKinds DEF SeenInv, TypeInv
  <2>2. Transact(q) \/ Check(q)
    <3>1. CASE Deny(q)
      <4>1. row' = row /\ req'[q].at \in {"refused", "idle"}
        BY <3>1, DenyTurns DEF Deny, Turns, SeenInv, TypeInv
      <4>. QED  BY <4>1
    <3>2. CASE Lose(q)
      <4>1. row' = row /\ req'[q].at \in {"sent", "idle"}
        BY <3>2, LoseTurns DEF Lose, Turns, SeenInv, TypeInv, At
      <4>. QED  BY <4>1
    <3>. QED  BY <2>1, <3>1, <3>2 DEF Serves, Write, At
  <2>3. Accepts(req[q].op, req[q].seen)
    BY <2>2 DEF Transact, Check
  <2>4. row.version = req[q].seen
    BY <2>3 DEF Accepts
  <2>. QED  BY <2>4 DEF SeenInv, SentAsOpened, AsOpened, At
<1>. QED  BY <1>1, SeenInit, SeenNext, PTL DEF Spec, NothingOverwrittenUnseen

-----------------------------------------------------------------------------
(* The flag of the buttons. *)

FlagInv == SeenInv /\ FlagFollowsSubmission

LEMMA SubmissionKept ==
  ASSUME NEW q \in Request, NEW s, Turns(q, s), NEW x \in Request \ {q}
  PROVE  Submission(x)' <=> Submission(x)
BY DEF Turns, Same, Submission, LoadStage

(* The flag and the submission stay as they are. *)
LEMMA FlagSame ==
  ASSUME FlagInv, NEW q \in Request, NEW s, Turns(q, s), page' = page,
         submitting' = submitting, Submission(q)' <=> Submission(q)
  PROVE  FlagFollowsSubmission'
<1>1. \A x \in Request : Submission(x)' <=> Submission(x)
  BY SubmissionKept
<1>. QED  BY <1>1, Zenon DEF FlagInv, FlagFollowsSubmission

(* The submission is over. *)
LEMMA FlagDown ==
  ASSUME FlagInv, NEW q \in Request, NEW s, Turns(q, s), page' = page,
         ~submitting', Submission(q), ~Submission(q)'
  PROVE  FlagFollowsSubmission'
<1>1. \A x \in Request \ {q} : Submission(x)' <=> Submission(x)
  BY SubmissionKept
<1>2. CASE page \in {"calendar", "desk"}
  <2>1. \A x \in Request : Submission(x) => x = q
    BY <1>2 DEF FlagInv, FlagFollowsSubmission
  <2>2. \A x \in Request : ~Submission(x)'
    BY <1>1, <2>1
  <2>. QED  BY <2>2 DEF FlagFollowsSubmission
<1>3. CASE page \notin {"calendar", "desk"}
  BY <1>3 DEF FlagFollowsSubmission
<1>. QED  BY <1>2, <1>3

LEMMA FlagOnOtherPages ==
  ASSUME page' = page, page \notin {"calendar", "desk"}
  PROVE  FlagFollowsSubmission'
BY DEF FlagFollowsSubmission

(* A stage of its own is no submission, or is one. *)
LEMMA SubmissionOf ==
  ASSUME NEW q \in Request, NEW s, Turns(q, s)
  PROVE  /\ s.at \in {"idle", "properties"} => ~Submission(q)'
         /\ s.at \in {"guest", "refused", "answered"} => Submission(q)'
         /\ s.at \in {"sent", "checked"} => (Submission(q)' <=> s.awaited)
         /\ s.at \in LoadStage => (Submission(q)' <=> s.by = "submit")
BY DEF Turns, Submission, LoadStage

LEMMA SubmissionNow ==
  ASSUME NEW q \in Request
  PROVE  /\ req[q].at \in {"idle", "properties"} => ~Submission(q)
         /\ req[q].at \in {"guest", "refused", "answered"} => Submission(q)
         /\ req[q].at \in {"sent", "checked"} => (Submission(q) <=> req[q].awaited)
         /\ req[q].at \in LoadStage => (Submission(q) <=> req[q].by = "submit")
BY DEF Submission, LoadStage

LEMMA Stages ==
  /\ Idle.at = "idle" /\ Finding.at = "properties"
  /\ \A s \in Loading : s.at \in LoadStage
  /\ \A s \in Sent : s.at \in SentStage
  /\ \A s \in Answered : s.at = "answered"
BY DEF Idle, Finding, Loading, Sent, Answered, LoadStage, SentStage

LEMMA FlagLoads ==
  ASSUME FlagInv, NEW q \in Request, LoadStep(q)
  PROVE  FlagFollowsSubmission'
<1>. USE DEF FlagInv, SeenInv, TypeInv
<1>1. ASSUME LoadProperties(q)
      PROVE  FlagFollowsSubmission'
  <2>1. Turns(q, Finding) /\ page' = page /\ submitting' = submitting
    BY <1>1, FindTurns DEF LoadProperties, fixed, client
  <2>. QED
    BY <1>1, <2>1, Stages, SubmissionOf, SubmissionNow, FlagSame DEF LoadProperties, At
<1>2. ASSUME LoseProperties(q)
      PROVE  FlagFollowsSubmission'
  <2>1. Turns(q, Idle) /\ page' = page /\ submitting' = submitting
    BY <1>2, IdleTurns DEF LoseProperties, fixed, client
  <2>. QED
    BY <1>2, <2>1, Stages, SubmissionOf, SubmissionNow, FlagSame DEF LoseProperties, At
<1>3. ASSUME Filters(q)
      PROVE  FlagFollowsSubmission'
  <2>1. PICK s \in Loading : Turns(q, s) /\ s.by = "filter"
    BY <1>3, FilterTurns
  <2>2. page' = page /\ submitting' = submitting /\ req[q].at \in {"idle", "properties"}
    BY <1>3 DEF Filters, fixed, At
  <2>. QED  BY <2>1, <2>2, Stages, SubmissionOf, SubmissionNow, FlagSame
<1>4. ASSUME Reads(q)
      PROVE  FlagFollowsSubmission'
  <2>1. PICK s \in Loading : Turns(q, s) /\ s.by = req[q].by
    BY <1>4, ReadTurns
  <2>2. page' = page /\ submitting' = submitting /\ req[q].at \in LoadStage
    BY <1>4 DEF Reads, fixed, client
  <2>. QED  BY <2>1, <2>2, Stages, SubmissionOf, SubmissionNow, FlagSame
<1>5. ASSUME ServeSeed(q)
      PROVE  FlagFollowsSubmission'
  <2>1. PICK s \in Loading : Turns(q, s) /\ s.by = req[q].by
    BY <1>5, SeedTurns
  <2>2. page' = page /\ submitting' = submitting /\ req[q].at \in LoadStage
    BY <1>5 DEF ServeSeed, fixed, client, At, LoadStage
  <2>. QED  BY <2>1, <2>2, Stages, SubmissionOf, SubmissionNow, FlagSame
<1>6. ASSUME ShowLoad(q) \/ FailLoad(q)
      PROVE  FlagFollowsSubmission'
  <2>1. /\ Turns(q, Idle) /\ page' = page /\ req[q].at \in LoadStage
        /\ submitting' = (submitting /\ req[q].by # "submit")
    BY <1>6, IdleTurns DEF ShowLoad, FailLoad, Rest, fixed, At, LoadStage
  <2>2. ~Submission(q)'
    BY <2>1, Stages, SubmissionOf
  <2>3. CASE req[q].by = "submit"
    BY <2>1, <2>2, <2>3, SubmissionNow, FlagDown
  <2>4. CASE req[q].by # "submit"
    <3>1. submitting' = submitting
      BY <2>1, <2>4 DEF TypeOK
    <3>. QED  BY <2>1, <2>2, <2>4, <3>1, SubmissionNow, FlagSame
  <2>. QED  BY <2>3, <2>4
<1>. QED  BY <1>1, <1>2, <1>3, <1>4, <1>5, <1>6 DEF LoadStep

LEMMA FlagSends ==
  ASSUME FlagInv, NEW q \in Request, SendStep(q)
  PROVE  FlagFollowsSubmission'
<1>. USE DEF FlagInv, SeenInv, TypeInv
<1>1. ASSUME Submits(q)
      PROVE  FlagFollowsSubmission'
  <2>1. PICK s \in Sent : Turns(q, s) /\ s.at \in {"guest", "sent"} /\ s.awaited = TRUE
    BY <1>1, SubmitTurns
  <2>2. page' = page /\ submitting' = (page # "records") /\ ~submitting
    BY <1>1 DEF Submits, fixed
  <2>3. Submission(q)' /\ \A x \in Request \ {q} : Submission(x)' <=> Submission(x)
    BY <2>1, SubmissionOf, SubmissionKept
  <2>4. CASE page \in {"calendar", "desk"}
    <3>1. \A x \in Request : ~Submission(x)
      BY <2>2, <2>4 DEF FlagFollowsSubmission
    <3>2. \A x \in Request : Submission(x)' <=> x = q
      BY <2>3, <3>1
    <3>3. submitting'
      BY <2>2, <2>4
    <3>. QED  BY <3>2, <3>3, Zenon DEF FlagFollowsSubmission
  <2>. QED  BY <2>2, <2>4, FlagOnOtherPages
<1>2. ASSUME NEW op \in QuickOps, Posts(q, op)
      PROVE  FlagFollowsSubmission'
  <2>1. page' = page /\ page \notin {"calendar", "desk"}
    BY <1>2 DEF Posts, PostsOn, fixed
  <2>. QED  BY <2>1, FlagOnOtherPages
<1>3. CreateGuest(q) \/ Check(q) \/ Deny(q) => page' = page /\ submitting' = submitting
  BY DEF CreateGuest, Check, Deny, fixed, client
<1>4. ASSUME CreateGuest(q) \/ Check(q)
      PROVE  FlagFollowsSubmission'
  <2>1. PICK s \in Sent : /\ Turns(q, s) /\ s.awaited = req[q].awaited
                          /\ s.at = IF At(q, "guest") THEN "sent" ELSE "checked"
    BY <1>4, StageTurns
  <2>2. req[q].at \in {"guest", "sent"} /\ (At(q, "guest") => req[q].awaited)
    BY <1>4, StageTurns DEF SentAsOpened, AsOpened, At
  <2>3. Submission(q)' <=> Submission(q)
    <3>1. CASE At(q, "guest")
      BY <2>1, <2>2, <3>1, SubmissionOf, SubmissionNow DEF At
    <3>2. CASE ~At(q, "guest")
      BY <2>1, <2>2, <3>2, SubmissionOf, SubmissionNow DEF At
    <3>. QED  BY <3>1, <3>2
  <2>. QED  BY <1>3, <1>4, <2>1, <2>3, FlagSame
<1>5. ASSUME Deny(q)
      PROVE  FlagFollowsSubmission'
  <2>1. PICK s : Turns(q, s) /\ s.at = IF req[q].awaited THEN "refused" ELSE "idle"
    BY <1>5, DenyTurns
  <2>2. req[q].at \in {"guest", "sent", "checked"} /\ (At(q, "guest") => req[q].awaited)
    BY <1>5, DenyTurns DEF SentAsOpened, AsOpened, At
  <2>3. Submission(q)' <=> Submission(q)
    <3>1. Submission(q) <=> req[q].awaited
      BY <2>2, SubmissionNow DEF At
    <3>2. CASE req[q].awaited
      BY <2>1, <3>1, <3>2, SubmissionOf
    <3>3. CASE ~req[q].awaited
      BY <2>1, <3>1, <3>3, SubmissionOf
    <3>. QED  BY <3>2, <3>3
  <2>. QED  BY <1>3, <1>5, <2>1, <2>3, FlagSame
<1>6. ASSUME Serves(q)
      PROVE  FlagFollowsSubmission'
  <2>1. PICK s : Turns(q, s) /\ s.at = IF req[q].awaited THEN "answered" ELSE "idle"
    BY <1>6, ServeTurns
  <2>2. req[q].at \in {"sent", "checked"} /\ page' = page /\ submitting' = submitting
    BY <1>6, ServeTurns DEF Serve, fixed, client
  <2>. QED  BY <2>1, <2>2, SubmissionOf, SubmissionNow, FlagSame
<1>. QED  BY <1>1, <1>2, <1>4, <1>5, <1>6 DEF SendStep

LEMMA FlagAnswers ==
  ASSUME FlagInv, NEW q \in Request, AnswerStep(q)
  PROVE  FlagFollowsSubmission'
<1>. USE DEF FlagInv, SeenInv, TypeInv
<1>1. ASSUME Answer(q)
      PROVE  FlagFollowsSubmission'
  <2>1. PICK s \in Loading : Turns(q, s) /\ s.by = "submit"
    BY <1>1, AnswerTurns
  <2>2. page' = page /\ submitting' = submitting /\ req[q].at = "answered"
    BY <1>1 DEF Answer, fixed, At
  <2>. QED  BY <2>1, <2>2, Stages, SubmissionOf, SubmissionNow, FlagSame
<1>2. ASSUME PatchRecords(q)
      PROVE  FlagFollowsSubmission'
  <2>1. page' = page /\ page \notin {"calendar", "desk"}
    BY <1>2 DEF PatchRecords, fixed
  <2>. QED  BY <2>1, FlagOnOtherPages
<1>3. ASSUME Refuse(q) \/ Lose(q)
      PROVE  FlagFollowsSubmission'
  <2>1. PICK s : Turns(q, s) /\ ~Submission(q)'
    <3>1. CASE Refuse(q)
      BY <3>1, IdleTurns, Stages, SubmissionOf
    <3>2. CASE Lose(q)
      <4>1. PICK s \in Sent \cup {Idle} :
              /\ Turns(q, s)
              /\ s.at \in {"idle", req[q].at}
              /\ s.at # "idle" => s.at \in {"sent", "checked"} /\ s.awaited = FALSE
        BY <3>2, LoseTurns
      <4>. QED  BY <4>1, SubmissionOf
    <3>. QED  BY <1>3, <3>1, <3>2
  <2>2. page' = page /\ ~submitting' /\ Submission(q)
    BY <1>3, LoseTurns, SubmissionNow DEF Refuse, Lose, FlagGone, fixed, At
  <2>. QED  BY <2>1, <2>2, FlagDown
<1>. QED  BY <1>1, <1>2, <1>3 DEF AnswerStep

LEMMA FlagInit == Init => FlagInv
<1>. SUFFICES ASSUME Init PROVE FlagInv
  OBVIOUS
<1>1. \A q \in Request : ~Submission(q)
  BY DEF Init, Submission, Idle, LoadStage
<1>2. ~submitting
  BY DEF Init
<1>. QED  BY <1>1, <1>2, SeenInit DEF FlagInv, FlagFollowsSubmission

LEMMA FlagNext == FlagInv /\ [Next]_vars => FlagInv'
<1>. SUFFICES ASSUME FlagInv, [Next]_vars PROVE FlagInv'
  OBVIOUS
<1>1. SeenInv' /\ Kinds
  BY SeenNext, StepKinds DEF FlagInv, SeenInv, TypeInv
<1>2. ASSUME UNCHANGED <<page, submitting, req>>
      PROVE  FlagFollowsSubmission'
  <2>1. \A x \in Request : Submission(x)' <=> Submission(x)
    BY <1>2 DEF Submission
  <2>. QED  BY <1>2, <2>1 DEF FlagInv, FlagFollowsSubmission
<1>3. FlagFollowsSubmission'
  BY <1>1, <1>2, FlagLoads, FlagSends, FlagAnswers
  DEF Kinds, Opens, Close, Elsewhere, vars, fixed, client
<1>. QED  BY <1>1, <1>3 DEF FlagInv

(* The buttons of a form are disabled exactly while one submission, with   *)
(* the load behind it, is on its way (setSubmitting and its finally).      *)
THEOREM FlagFollowsSubmissionHolds == Spec => []FlagFollowsSubmission
<1>1. FlagInv => FlagFollowsSubmission
  BY DEF FlagInv
<1>. QED  BY <1>1, FlagInit, FlagNext, PTL DEF Spec

-----------------------------------------------------------------------------
(* No version is known before the row has it. *)

KnownTo(r, n) ==
  /\ r.at \in LoadStage => r.since <= n /\ r.shown.version <= n
  /\ r.at \in SentStage => r.seen <= n
  /\ r.at = "answered" => r.shown.version <= n

VersionsKnown ==
  /\ row.version >= 1 /\ own <= row.version
  /\ view.since <= row.version /\ view.shown.version <= row.version
  /\ form # NoForm => form.seen <= row.version
  /\ \A q \in Request : KnownTo(req[q], row.version)

VersionsInv == TypeInv /\ VersionsKnown

LEMMA KnownLater ==
  ASSUME NEW r \in AnyRequest, NEW m \in Nat, NEW n \in Nat, m <= n, KnownTo(r, m)
  PROVE  KnownTo(r, n)
<1>1. r.at \in LoadStage => r \in Loading
  BY DEF AnyRequest, Idle, Finding, Loading, Sent, Answered, LoadStage
<1>2. r.at \in SentStage => r \in Sent
  BY DEF AnyRequest, Idle, Finding, Loading, Sent, Answered, SentStage
<1>3. r.at = "answered" => r \in Answered
  BY DEF AnyRequest, Idle, Finding, Loading, Sent, Answered
<1>4. r.at \in LoadStage => r.since \in Nat /\ r.shown.version \in Nat
  BY <1>1 DEF Loading, Row
<1>5. r.at \in SentStage => r.seen \in Nat
  BY <1>2 DEF Sent
<1>6. r.at = "answered" => r.shown.version \in Nat
  BY <1>3 DEF Answered, Row
<1>. QED  BY <1>4, <1>5, <1>6 DEF KnownTo

LEMMA KnownSame ==
  ASSUME NEW q \in Request, NEW n, KnownTo(req[q], n), Same(q)
  PROVE  KnownTo(req'[q], n)
BY DEF KnownTo, Same, LoadStage, SentStage

LEMMA VersionTypes ==
  ASSUME TypeInv
  PROVE  /\ row.version \in Nat /\ own \in Nat
         /\ view.since \in Nat /\ view.shown.version \in Nat
         /\ form # NoForm => form.seen \in Nat
         /\ \A q \in Request : req[q] \in AnyRequest
BY DEF TypeInv, TypeOK, Row, View, Form, AnyRequest

(* Known things stay known while the row's version does not go back. *)
LEMMA KnownRequests ==
  ASSUME VersionsInv, TypeInv', NEW q \in Request, NEW s \in AnyRequest, Turns(q, s),
         row'.version >= row.version, KnownTo(s, row'.version)
  PROVE  \A x \in Request : KnownTo(req'[x], row'.version)
<1>1. row.version \in Nat /\ row'.version \in Nat
  BY VersionTypes DEF VersionsInv, TypeInv, TypeOK, Row
<1>2. ASSUME NEW x \in Request \ {q}
      PROVE  KnownTo(req'[x], row'.version)
  <2>1. KnownTo(req'[x], row.version)
    BY KnownSame DEF VersionsInv, VersionsKnown, Turns
  <2>2. req'[x] \in AnyRequest
    BY DEF Turns
  <2>. QED  BY <1>1, <2>1, <2>2, KnownLater
<1>3. req'[q] = s
  BY DEF Turns
<1>. QED  BY <1>2, <1>3

LEMMA KnownClient ==
  ASSUME VersionsInv, TypeInv', row'.version >= row.version,
         own' = own, view'.since = view.since, view'.shown = view.shown,
         form' = form \/ form' = NoForm,
         \A x \in Request : KnownTo(req'[x], row'.version)
  PROVE  VersionsKnown'
<1>1. /\ row.version \in Nat /\ own \in Nat
      /\ view.since \in Nat /\ view.shown.version \in Nat
      /\ form # NoForm => form.seen \in Nat
  BY VersionTypes DEF VersionsInv
<1>2. row'.version \in Nat
  BY DEF TypeInv, TypeOK, Row
<1>3. /\ row.version >= 1 /\ own <= row.version
      /\ view.since <= row.version /\ view.shown.version <= row.version
      /\ form # NoForm => form.seen <= row.version
  BY DEF VersionsInv, VersionsKnown
<1>4. /\ row'.version >= 1 /\ own' <= row'.version
      /\ view'.since <= row'.version /\ view'.shown.version <= row'.version
  BY <1>1, <1>2, <1>3
<1>5. form' # NoForm => form'.seen <= row'.version
  BY <1>1, <1>2, <1>3
<1>. QED  BY <1>4, <1>5 DEF VersionsKnown

LEMMA VersionsLoads ==
  ASSUME VersionsInv, TypeInv', NEW q \in Request, LoadStep(q)
  PROVE  VersionsKnown'
<1>. USE DEF VersionsInv
<1>1. /\ row.version \in Nat /\ row.version >= 1
      /\ KnownTo(req[q], row.version) /\ TypeOK
      /\ KnownTo(Idle, row.version) /\ KnownTo(Finding, row.version)
      /\ Idle \in AnyRequest /\ Finding \in AnyRequest /\ Loading \subseteq AnyRequest
  BY VersionTypes
  DEF VersionsKnown, KnownTo, Idle, Finding, LoadStage, SentStage, AnyRequest, TypeInv
<1>2. ASSUME LoadProperties(q) \/ LoseProperties(q)
      PROVE  VersionsKnown'
  <2>1. Turns(q, Finding) \/ Turns(q, Idle)
    BY <1>1, <1>2, FindTurns, IdleTurns
  <2>2. UNCHANGED <<row, client, own>>
    BY <1>2 DEF LoadProperties, LoseProperties, history
  <2>3. \A x \in Request : KnownTo(req'[x], row'.version)
    BY <1>1, <2>1, <2>2, KnownRequests
  <2>. QED  BY <1>1, <2>2, <2>3, KnownClient DEF client
<1>3. ASSUME Filters(q)
      PROVE  VersionsKnown'
  <2>1. PICK s \in Loading : /\ Turns(q, s) /\ s.at = "asked"
                             /\ s.since = row.version /\ s.shown = Unseen
    BY <1>1, <1>3, FilterTurns
  <2>2. UNCHANGED <<row, form, own>>
    BY <1>3 DEF Filters, history
  <2>3. KnownTo(s, row.version)
    BY <1>1, <2>1 DEF KnownTo, Unseen, SentStage
  <2>4. \A x \in Request : KnownTo(req'[x], row'.version)
    BY <1>1, <2>1, <2>2, <2>3, KnownRequests
  <2>5. view'.since = view.since /\ view'.shown = view.shown
    BY <1>1, <1>3, FilterTurns
  <2>. QED  BY <1>1, <2>2, <2>4, <2>5, KnownClient
<1>4. ASSUME Reads(q)
      PROVE  VersionsKnown'
  <2>1. PICK s \in Loading : /\ Turns(q, s) /\ s.since = req[q].since
                             /\ s.shown \in {row, req[q].shown, Unseen}
    BY <1>1, <1>4, ReadTurns
  <2>2. UNCHANGED <<row, client, own>> /\ req[q].at \in LoadStage
    BY <1>4 DEF Reads, history
  <2>3. s.at \in LoadStage
    BY Stages
  <2>4. KnownTo(s, row.version)
    BY <1>1, <2>1, <2>2, <2>3 DEF KnownTo, Unseen, SentStage, LoadStage
  <2>5. \A x \in Request : KnownTo(req'[x], row'.version)
    BY <1>1, <2>1, <2>2, <2>4, KnownRequests
  <2>. QED  BY <1>1, <2>2, <2>5, KnownClient DEF client
<1>5. ASSUME ServeSeed(q)
      PROVE  VersionsKnown'
  <2>1. PICK s \in Loading : /\ Turns(q, s) /\ s.since = row'.version
                             /\ s.shown = req[q].shown
    BY <1>1, <1>5, SeedTurns
  <2>2a. UNCHANGED <<client, own>> /\ req[q].at \in LoadStage
    BY <1>5 DEF ServeSeed, history, At, LoadStage
  <2>2b. /\ req[q] \in Loading /\ row' \in Row
         /\ row' = row \/ row'.version = row.version + 1
    BY <1>1, <1>5, SeedTurns
  <2>2. /\ UNCHANGED <<client, own>> /\ req[q].at \in LoadStage /\ req[q] \in Loading
        /\ row' \in Row /\ row'.version >= row.version
    BY <1>1, <2>2a, <2>2b
  <2>3. s.at \in LoadStage
    BY Stages
  <2>4. row'.version \in Nat /\ req[q].shown.version \in Nat /\ req[q].shown.version <= row.version
    BY <1>1, <2>2 DEF Row, Loading, KnownTo
  <2>5. KnownTo(s, row'.version)
    BY <1>1, <2>1, <2>2, <2>3, <2>4 DEF KnownTo, SentStage, LoadStage
  <2>6. \A x \in Request : KnownTo(req'[x], row'.version)
    BY <1>1, <2>1, <2>2, <2>5, KnownRequests
  <2>. QED  BY <1>1, <2>2, <2>6, KnownClient DEF client
<1>6. ASSUME ShowLoad(q)
      PROVE  VersionsKnown'
  <2>1. Turns(q, Idle) /\ UNCHANGED <<row, form, own>> /\ req[q].at \in LoadStage
    BY <1>1, <1>6, IdleTurns DEF ShowLoad, history, At, LoadStage
  <2>2. \A x \in Request : KnownTo(req'[x], row'.version)
    BY <1>1, <2>1, KnownRequests
  <2>3. view'.since = req[q].since /\ view'.shown = req[q].shown
    BY <1>6 DEF ShowLoad
  <2>4. view'.since <= row.version /\ view'.shown.version <= row.version
    BY <1>1, <2>1, <2>3 DEF KnownTo
  <2>. QED  BY <2>1, <2>2, <2>4 DEF VersionsKnown
<1>7. ASSUME FailLoad(q)
      PROVE  VersionsKnown'
  <2>1. Turns(q, Idle) /\ UNCHANGED <<row, view, form, own>>
    BY <1>1, <1>7, IdleTurns DEF FailLoad
  <2>2. \A x \in Request : KnownTo(req'[x], row'.version)
    BY <1>1, <2>1, KnownRequests
  <2>. QED  BY <1>1, <2>1, <2>2, KnownClient
<1>. QED  BY <1>2, <1>3, <1>4, <1>5, <1>6, <1>7 DEF LoadStep

LEMMA VersionsSends ==
  ASSUME VersionsInv, TypeInv', NEW q \in Request, SendStep(q)
  PROVE  VersionsKnown'
<1>. USE DEF VersionsInv
<1>1. /\ row.version \in Nat /\ row.version >= 1
      /\ KnownTo(req[q], row.version) /\ TypeOK
      /\ Sent \subseteq AnyRequest /\ Answered \subseteq AnyRequest
  BY VersionTypes DEF VersionsKnown, AnyRequest, TypeInv
<1>2. \A s \in Sent : s.at \in SentStage /\ s.at \notin LoadStage /\ s.at # "answered"
  BY DEF Sent, SentStage, LoadStage
<1>3. ASSUME NEW s \in Sent, Turns(q, s), s.seen <= row.version, UNCHANGED <<row, client, own>>
      PROVE  VersionsKnown'
  <2>1. KnownTo(s, row.version)
    BY <1>2, <1>3 DEF KnownTo
  <2>2. \A x \in Request : KnownTo(req'[x], row'.version)
    BY <1>1, <1>3, <2>1, KnownRequests
  <2>. QED  BY <1>1, <1>3, <2>2, KnownClient DEF client
<1>4. ASSUME Submits(q)
      PROVE  VersionsKnown'
  <2>1. PICK s \in Sent : Turns(q, s) /\ s.seen = form.seen
    BY <1>4, SubmitTurns
  <2>2. UNCHANGED <<row, filter, view, form, own>> /\ form.seen <= row.version
    BY <1>4 DEF Submits, history, VersionsKnown
  <2>3. KnownTo(s, row.version)
    BY <1>2, <2>1, <2>2 DEF KnownTo
  <2>4. \A x \in Request : KnownTo(req'[x], row'.version)
    BY <1>1, <2>1, <2>2, <2>3, KnownRequests
  <2>. QED  BY <1>1, <2>2, <2>4, KnownClient
<1>5. ASSUME NEW op \in QuickOps, Posts(q, op)
      PROVE  VersionsKnown'
  <2>1. PICK s \in Sent : Turns(q, s) /\ s.seen = 0
    BY <1>1, <1>5, PostTurns
  <2>2. UNCHANGED <<row, client, own>>
    BY <1>5 DEF Posts, history
  <2>. QED  BY <1>1, <1>3, <2>1, <2>2
<1>6. ASSUME NEW s \in {Idle} \cup Sent, Turns(q, s),
             s.at # "idle" => s \in Sent /\ s.seen <= row.version,
             UNCHANGED <<row, client, own>>
      PROVE  VersionsKnown'
  <2>1. CASE s \in Sent
    BY <1>2, <1>3, <1>6, <2>1 DEF SentStage
  <2>2. CASE s = Idle
    <3>1. KnownTo(Idle, row.version) /\ Idle \in AnyRequest
      BY DEF KnownTo, Idle, LoadStage, SentStage, AnyRequest
    <3>2. \A x \in Request : KnownTo(req'[x], row'.version)
      BY <1>1, <1>6, <2>2, <3>1, KnownRequests
    <3>. QED  BY <1>1, <1>6, <3>2, KnownClient DEF client
  <2>. QED  BY <1>6, <2>1, <2>2
<1>7. ASSUME CreateGuest(q) \/ Check(q)
      PROVE  VersionsKnown'
  <2>1. PICK s \in Sent : Turns(q, s) /\ s.seen \in {req[q].seen, row.version}
    BY <1>1, <1>7, StageTurns
  <2>2. UNCHANGED <<row, client, own>> /\ req[q].at \in SentStage
    BY <1>7 DEF CreateGuest, Check, history, At, SentStage
  <2>. QED  BY <1>1, <1>3, <2>1, <2>2 DEF KnownTo
<1>8. ASSUME Deny(q)
      PROVE  VersionsKnown'
  <2>1. PICK s \in {Idle} \cup Sent :
          Turns(q, s) /\ (s.at # "idle" => s \in Sent /\ s.seen = req[q].seen)
    BY <1>1, <1>8, DenyTurns
  <2>2. UNCHANGED <<row, client, own>> /\ req[q].at \in SentStage
    BY <1>8 DEF Deny, history, SentStage
  <2>. QED  BY <1>1, <1>6, <2>1, <2>2 DEF KnownTo
<1>9. ASSUME Serves(q)
      PROVE  VersionsKnown'
  <2>1. PICK s \in Answered \cup {Idle} :
          /\ Turns(q, s)
          /\ s.at # "idle" => s \in Answered /\ s.shown.version = row'.version
    BY <1>1, <1>9, ServeTurns
  <2>2. row' \in Row /\ (row' = row \/ row'.version = row.version + 1) /\ Serve(q)
    BY <1>1, <1>9, ServeTurns
  <2>3. UNCHANGED <<client, own>>
    BY <2>2 DEF Serve
  <2>4. row'.version \in Nat /\ row'.version >= row.version
    BY <1>1, <2>2 DEF Row
  <2>5. KnownTo(s, row'.version) /\ s \in AnyRequest
    BY <2>1, <2>4 DEF KnownTo, Answered, Idle, LoadStage, SentStage, AnyRequest
  <2>6. \A x \in Request : KnownTo(req'[x], row'.version)
    BY <1>1, <2>1, <2>4, <2>5, KnownRequests
  <2>. QED  BY <2>3, <2>4, <2>6, KnownClient DEF client
<1>. QED  BY <1>4, <1>5, <1>7, <1>8, <1>9 DEF SendStep

(* What a page hears of its own changes is a version of the row. *)
LEMMA HeardKnown ==
  ASSUME VersionsInv, NEW q \in Request, At(q, "answered"), Hear(q)
  PROVE  /\ own' <= row.version /\ req[q].shown.version <= row.version
         /\ req[q].shown.version \in Nat /\ own' \in Nat
<1>1. req[q].shown.version \in Nat
  BY RequestKinds DEF VersionsInv, TypeInv, At, Answered, Row
<1>2. own \in Nat /\ own <= row.version /\ req[q].shown.version <= row.version
  BY VersionTypes DEF VersionsInv, VersionsKnown, KnownTo, At
<1>. QED  BY <1>1, <1>2 DEF Hear, Newer

LEMMA VersionsAnswers ==
  ASSUME VersionsInv, TypeInv', NEW q \in Request, AnswerStep(q)
  PROVE  VersionsKnown'
<1>. USE DEF VersionsInv
<1>1. /\ row.version \in Nat /\ row.version >= 1 /\ TypeOK
      /\ KnownTo(Idle, row.version) /\ Idle \in AnyRequest /\ Loading \subseteq AnyRequest
  BY VersionTypes
  DEF VersionsKnown, KnownTo, Idle, LoadStage, SentStage, AnyRequest, TypeInv
<1>2. ASSUME Answer(q)
      PROVE  VersionsKnown'
  <2>1. PICK s \in Loading : /\ Turns(q, s) /\ s.at = "asked"
                             /\ s.since = row.version /\ s.shown = Unseen
    BY <1>1, <1>2, AnswerTurns
  <2>2. row' = row /\ (form' = form \/ form' = NoForm) /\ own' <= row.version
    BY <1>2, HeardKnown DEF Answer
  <2>3. KnownTo(s, row.version)
    BY <1>1, <2>1 DEF KnownTo, Unseen, SentStage
  <2>4. \A x \in Request : KnownTo(req'[x], row'.version)
    BY <1>1, <2>1, <2>2, <2>3, KnownRequests
  <2>5. view'.since = view.since /\ view'.shown = view.shown
    BY <1>1, <1>2, AnswerTurns
  <2>. QED  BY <2>2, <2>4, <2>5 DEF VersionsKnown
<1>3. ASSUME PatchRecords(q)
      PROVE  VersionsKnown'
  <2>1. Turns(q, Idle)
    BY <1>1, <1>3, IdleTurns
  <2>2. /\ row' = row /\ (form' = form \/ form' = NoForm)
        /\ own' <= row.version /\ req[q].shown.version <= row.version
    BY <1>3, HeardKnown DEF PatchRecords
  <2>3. \A x \in Request : KnownTo(req'[x], row'.version)
    BY <1>1, <2>1, <2>2, KnownRequests
  <2>4. view'.since <= row.version /\ view'.shown.version <= row.version
    <3>1. CASE Patches(q)
      <4>1. view' = [view EXCEPT !.by = "patch", !.last = TRUE,
                                 !.since = req[q].shown.version, !.shown = req[q].shown]
        BY <1>3, <3>1 DEF PatchRecords
      <4>2. view \in View
        BY <1>1 DEF TypeOK
      <4>3. view'.since = req[q].shown.version /\ view'.shown = req[q].shown
        BY <4>1, <4>2 DEF View
      <4>. QED  BY <2>2, <4>3
    <3>2. CASE ~Patches(q)
      BY <1>3, <3>2 DEF PatchRecords, VersionsKnown
    <3>. QED  BY <3>1, <3>2
  <2>. QED  BY <2>2, <2>3, <2>4 DEF VersionsKnown
<1>4. ASSUME Refuse(q) \/ Lose(q)
      PROVE  VersionsKnown'
  <2>1. PICK s \in {Idle} \cup Sent :
          /\ Turns(q, s)
          /\ s.at # "idle" => req[q].at \in SentStage /\ s \in Sent /\ s.seen = req[q].seen
    <3>1. CASE Refuse(q)
      BY <1>1, <3>1, IdleTurns DEF Idle
    <3>2. CASE Lose(q)
      BY <1>1, <3>2, LoseTurns DEF SentStage
    <3>. QED  BY <1>4, <3>1, <3>2
  <2>2. UNCHANGED <<row, view, form, own>>
    BY <1>4 DEF Refuse, Lose, history
  <2>3. KnownTo(req[q], row.version)
    BY DEF VersionsKnown
  <2>4. KnownTo(s, row.version) /\ s \in AnyRequest
    BY <1>1, <2>1, <2>3 DEF KnownTo, Sent, Idle, LoadStage, SentStage, AnyRequest
  <2>5. \A x \in Request : KnownTo(req'[x], row'.version)
    BY <1>1, <2>1, <2>2, <2>4, KnownRequests
  <2>. QED  BY <1>1, <2>2, <2>5, KnownClient
<1>. QED  BY <1>2, <1>3, <1>4 DEF AnswerStep

LEMMA VersionsInit == Init => VersionsInv
<1>. SUFFICES ASSUME Init PROVE VersionsInv
  OBVIOUS
<1>1. row.version = 1
  BY DEF Init
<1>2. \A q \in Request : KnownTo(req[q], row.version)
  BY DEF Init, KnownTo, Idle, LoadStage, SentStage
<1>3. VersionsKnown
  BY <1>1, <1>2 DEF Init, VersionsKnown, Unseen
<1>. QED  BY <1>3, TypeInit DEF VersionsInv

LEMMA VersionsNext == VersionsInv /\ [Next]_vars => VersionsInv'
<1>. SUFFICES ASSUME VersionsInv, [Next]_vars PROVE VersionsInv'
  OBVIOUS
<1>1. TypeInv' /\ Kinds
  BY TypeNext, StepKinds DEF VersionsInv, TypeInv
<1>2. ASSUME UNCHANGED vars
      PROVE  VersionsKnown'
  BY <1>2 DEF VersionsInv, VersionsKnown, KnownTo, vars, client, history
<1>3. ASSUME NEW op \in FormOps, Opens(op)
      PROVE  VersionsKnown'
  <2>1. /\ form'.seen = IF op \in Versioned THEN view.shown.version ELSE 0
        /\ view.shown.version <= row.version /\ row.version >= 1 /\ row.version \in Nat
    BY <1>3, OpenForms, VersionTypes DEF VersionsInv, VersionsKnown, TypeInv
  <2>2. form'.seen <= row.version
    BY <2>1
  <2>. QED  BY <1>3, <2>2 DEF VersionsInv, VersionsKnown, KnownTo, Opens
<1>4. ASSUME Close
      PROVE  VersionsKnown'
  BY <1>4 DEF VersionsInv, VersionsKnown, KnownTo, Close, history
<1>5. ASSUME NEW s \in RowState, Elsewhere(s)
      PROVE  VersionsKnown'
  <2>1. row'.version = row.version + 1 /\ row.version \in Nat
    BY <1>5, VersionTypes DEF Elsewhere, VersionsInv
  <2>2. row'.version \in Nat /\ row'.version >= row.version
    BY <2>1
  <2>3. UNCHANGED <<client, req, own>>
    BY <1>5 DEF Elsewhere, history
  <2>4. \A x \in Request : KnownTo(req'[x], row'.version)
    BY <2>1, <2>2, <2>3, KnownLater, VersionTypes DEF VersionsInv, VersionsKnown
  <2>. QED  BY <1>1, <2>2, <2>3, <2>4, KnownClient DEF client
<1>6. VersionsKnown'
  BY <1>1, <1>2, <1>3, <1>4, <1>5, VersionsLoads, VersionsSends, VersionsAnswers DEF Kinds
<1>. QED  BY <1>1, <1>6 DEF VersionsInv

-----------------------------------------------------------------------------
(* A page has the forms and the buttons of its own. *)

OpFits(r) ==
  /\ r.at \in SentStage \cup {"answered"} =>
       r.op \in IF r.id = 0 THEN PostsOn(page) ELSE FormsOn(page)
  /\ r.at = "guest" => r.op = "create"
  /\ r.at = "checked" => r.op \notin Serializable

OpsFit ==
  /\ form # NoForm => form.op \in FormsOn(page)
  /\ \A q \in Request : OpFits(req[q])

OpsInv == TypeInv /\ OpsFit

LEMMA OpsTurn ==
  ASSUME OpsInv, NEW q \in Request, NEW s, Turns(q, s), page' = page, OpFits(s),
         form' = form \/ form' = NoForm
  PROVE  OpsFit'
<1>1. ASSUME NEW x \in Request \ {q}
      PROVE  OpFits(req'[x])
  BY <1>1 DEF OpsInv, OpsFit, OpFits, Turns, Same, LoadStage, SentStage
<1>2. \A x \in Request : OpFits(req'[x])
  BY <1>1 DEF Turns
<1>3. \A x \in Request : OpFits(req[x])'
  BY <1>2 DEF OpFits
<1>. QED  BY <1>3 DEF OpsInv, OpsFit

LEMMA OpsNext == OpsInv /\ [Next]_vars => OpsInv'
<1>. SUFFICES ASSUME OpsInv, [Next]_vars PROVE OpsInv'
  OBVIOUS
<1>1. TypeInv' /\ Kinds /\ TypeOK
  BY TypeNext, StepKinds DEF OpsInv, TypeInv
<1>2. \A s \in {Idle, Finding} \cup Loading : OpFits(s)
  BY DEF Idle, Finding, Loading, OpFits, SentStage
<1>3. ASSUME NEW q \in Request, LoadStep(q)
      PROVE  OpsFit'
  <2>1. page' = page /\ form' = form
    BY <1>3 DEF LoadStep, LoadProperties, LoseProperties, Filters, Reads, ServeSeed, ShowLoad,
                FailLoad, fixed, client
  <2>2. \E s \in {Idle, Finding} \cup Loading : Turns(q, s)
    BY <1>1, <1>3, FindTurns, IdleTurns, FilterTurns, ReadTurns, SeedTurns DEF LoadStep
  <2>. QED  BY <1>2, <2>1, <2>2, OpsTurn
<1>4. ASSUME NEW q \in Request, SendStep(q)
      PROVE  OpsFit'
  <2>1. page' = page /\ form' = form
    <3>1. Serves(q) => Serve(q)
      BY <1>1, ServeTurns
    <3>. QED
      BY <1>4, <3>1 DEF SendStep, Submits, Posts, CreateGuest, Check, Serve, Deny, fixed, client
  <2>2. ASSUME Submits(q)
        PROVE  OpsFit'
    <3>1. PICK s \in Sent : /\ Turns(q, s) /\ (s.at = "guest" => form.op = "create")
                            /\ s.at \in {"guest", "sent"} /\ s.op = form.op /\ s.id = form.id
      BY <2>2, SubmitTurns DEF OpsInv
    <3>2. form # NoForm /\ s.id # 0
      BY <2>2, <3>1, SubmitTurns, BoundsAssumption DEF Submits, OpsInv, Form
    <3>3. OpFits(s)
      BY <3>1, <3>2 DEF OpFits, OpsInv, OpsFit
    <3>. QED  BY <2>1, <3>1, <3>3, OpsTurn
  <2>3. ASSUME NEW op \in QuickOps, Posts(q, op)
        PROVE  OpsFit'
    <3>1. PICK s \in Sent : Turns(q, s) /\ s.at = "sent" /\ s.op = op /\ s.id = 0
      BY <1>1, <2>3, PostTurns
    <3>2. OpFits(s)
      BY <2>3, <3>1 DEF OpFits, Posts
    <3>. QED  BY <2>1, <3>1, <3>2, OpsTurn
  <2>4. ASSUME CreateGuest(q) \/ Check(q)
        PROVE  OpsFit'
    <3>1. PICK s \in Sent : /\ Turns(q, s) /\ s.op = req[q].op /\ s.id = req[q].id
                            /\ s.at = IF At(q, "guest") THEN "sent" ELSE "checked"
      BY <1>1, <2>4, StageTurns DEF Copies
    <3>2. OpFits(req[q]) /\ req[q].at \in SentStage
      BY <2>4 DEF CreateGuest, Check, At, SentStage, OpsInv, OpsFit
    <3>3. ~At(q, "guest") => req[q].op \notin Serializable
      BY <2>4 DEF CreateGuest, Check
    <3>4. OpFits(s)
      BY <3>1, <3>2, <3>3 DEF OpFits
    <3>. QED  BY <2>1, <3>1, <3>4, OpsTurn
  <2>5. ASSUME Deny(q)
        PROVE  OpsFit'
    <3>1. PICK s : /\ Turns(q, s) /\ s.at \in {"refused", "idle"}
                   /\ s.at # "idle" => s.op = req[q].op /\ s.id = req[q].id
      BY <1>1, <2>5, DenyTurns DEF Copies
    <3>2. OpFits(req[q]) /\ req[q].at \in SentStage
      BY <2>5 DEF Deny, SentStage, OpsInv, OpsFit
    <3>3. OpFits(s)
      BY <3>1, <3>2 DEF OpFits, SentStage
    <3>. QED  BY <2>1, <3>1, <3>3, OpsTurn
  <2>6. ASSUME Serves(q)
        PROVE  OpsFit'
    <3>1. PICK s : /\ Turns(q, s) /\ s.at \in {"answered", "idle"}
                   /\ s.at # "idle" => s.op = req[q].op /\ s.id = req[q].id
      BY <1>1, <2>6, ServeTurns
    <3>2. OpFits(req[q]) /\ req[q].at \in SentStage
      BY <1>1, <2>6, ServeTurns DEF SentStage, OpsInv, OpsFit
    <3>3. OpFits(s)
      BY <3>1, <3>2 DEF OpFits, SentStage
    <3>. QED  BY <2>1, <3>1, <3>3, OpsTurn
  <2>. QED  BY <1>4, <2>2, <2>3, <2>4, <2>5, <2>6 DEF SendStep
<1>5. ASSUME NEW q \in Request, AnswerStep(q)
      PROVE  OpsFit'
  <2>1. page' = page /\ (form' = form \/ form' = NoForm)
    BY <1>5 DEF AnswerStep, Answer, PatchRecords, Refuse, Lose, fixed
  <2>2. CASE ~Lose(q)
    <3>1. \E s \in {Idle, Finding} \cup Loading : Turns(q, s)
      BY <1>1, <1>5, <2>2, IdleTurns, AnswerTurns DEF AnswerStep
    <3>. QED  BY <1>2, <2>1, <3>1, OpsTurn
  <2>3. CASE Lose(q)
    <3>1. PICK s \in Sent \cup {Idle} :
            /\ Turns(q, s) /\ s.at \in {"idle", req[q].at}
            /\ s.at # "idle" => s.op = req[q].op /\ s.id = req[q].id
      BY <1>1, <2>3, LoseTurns DEF Copies
    <3>2. OpFits(req[q])
      BY DEF OpsInv, OpsFit
    <3>3. OpFits(s)
      BY <3>1, <3>2 DEF OpFits, SentStage
    <3>. QED  BY <2>1, <3>1, <3>3, OpsTurn
  <2>. QED  BY <2>2, <2>3
<1>6. ASSUME UNCHANGED <<page, req>>, form' # NoForm => form'.op \in FormsOn(page)
      PROVE  OpsFit'
  BY <1>6 DEF OpsInv, OpsFit, OpFits
<1>7. ASSUME NEW op \in FormOps, Opens(op)
      PROVE  OpsFit'
  BY <1>1, <1>6, <1>7, OpenForms DEF Opens, fixed
<1>8. ASSUME Close \/ UNCHANGED vars \/ \E s \in RowState : Elsewhere(s)
      PROVE  OpsFit'
  BY <1>6, <1>8 DEF Close, Elsewhere, vars, client, fixed, OpsInv, OpsFit
<1>9. OpsFit'
  BY <1>1, <1>3, <1>4, <1>5, <1>7, <1>8 DEF Kinds
<1>. QED  BY <1>1, <1>9 DEF OpsInv

-----------------------------------------------------------------------------
(* Records: their list is asked for once.  While it counts as the latest,  *)
(* nothing is shown that could be changed or removed.                      *)

Newest(r)   == r.at \in LoadStage /\ r.last
Changing(r) == /\ r.at \in SentStage \cup {"answered"}
               /\ r.op \in {"updateRecord", "removeRecord"}

\* what is changed or removed is shown, or the view is no longer the latest
Shows == view.shown.state = "listed" \/ view.by = "patch" \/ ~view.last

ListKept ==
  /\ \A q, x \in Request : At(q, "properties") /\ At(x, "properties") => q = x
  /\ \A q \in Request : At(q, "properties") => filter = NoFilter
  /\ \A q, x \in Request : req[q].at \in LoadStage /\ req[x].at \in LoadStage => q = x
  /\ \A q \in Request : Newest(req[q]) =>
       /\ view.shown = Unseen
       /\ form # NoForm => form.op # "updateRecord"
       /\ \A x \in Request : ~Changing(req[x])
  /\ form # NoForm /\ form.op = "updateRecord" => Shows
  /\ \A q \in Request : Changing(req[q]) => Shows

ListInv == OpsInv /\ (page = "records" => ListKept)

LEMMA OthersKept ==
  ASSUME NEW q \in Request, NEW s, Turns(q, s), NEW x \in Request \ {q}
  PROVE  /\ req'[x].at = req[x].at
         /\ req[x].at \notin LoadStage => req'[x] = req[x]
         /\ Newest(req'[x]) => Newest(req[x])
         /\ Changing(req'[x]) <=> Changing(req[x])
BY DEF Turns, Same, Newest, Changing, LoadStage, SentStage

(* What a request may become for the list to be kept.                      *)
LEMMA ListTurn ==
  ASSUME ListKept, NEW q \in Request, NEW s, Turns(q, s),
         filter' = filter, view' = view, form' = form \/ form' = NoForm,
         s.at = "properties" =>
           filter = NoFilter /\ \A x \in Request : ~At(x, "properties"),
         s.at \in LoadStage => req[q].at \in LoadStage,
         Newest(s) => Newest(req[q]),
         Changing(s) => \/ Changing(req[q])
                        \/ Shows /\ \A x \in Request : ~Newest(req[x])
  PROVE  ListKept'
<1>1. req'[q] = s
  BY DEF Turns
<1>2. \A x \in Request : Newest(req[x])' => Newest(req[x])
  BY <1>1, OthersKept DEF Newest
<1>3. \A x \in Request : Changing(req[x])' =>
        \/ Changing(req[x])
        \/ Shows /\ \A y \in Request : ~Newest(req[y])
  BY <1>1, OthersKept DEF Changing
<1>4. \A x \in Request : At(x, "properties")' =>
        \/ At(x, "properties") /\ x # q
        \/ x = q /\ s.at = "properties"
        \/ At(x, "properties") /\ s.at # "properties"
  BY <1>1, OthersKept DEF At
<1>5. /\ \A x, y \in Request : At(x, "properties")' /\ At(y, "properties")' => x = y
      /\ \A x \in Request : At(x, "properties")' => filter' = NoFilter
  BY <1>4 DEF ListKept
<1>6. Shows' <=> Shows
  BY DEF Shows
<1>7. /\ \A x, y \in Request : req'[x].at \in LoadStage /\ req'[y].at \in LoadStage => x = y
      /\ \A x \in Request : Newest(req[x])' =>
           /\ view'.shown = Unseen
           /\ form' # NoForm => form'.op # "updateRecord"
           /\ \A y \in Request : ~Changing(req[y])'
  <2>1. \A x \in Request : req'[x].at \in LoadStage => req[x].at \in LoadStage
    BY <1>1, OthersKept
  <2>. QED  BY <1>2, <1>3, <2>1 DEF ListKept
<1>8. /\ form' # NoForm /\ form'.op = "updateRecord" => Shows'
      /\ \A x \in Request : Changing(req[x])' => Shows'
  BY <1>3, <1>6 DEF ListKept
<1>. QED  BY <1>5, <1>7, <1>8 DEF ListKept

LEMMA ListLoads ==
  ASSUME ListInv, page = "records", NEW q \in Request, LoadStep(q)
  PROVE  ListKept'
<1>1. ListKept /\ TypeOK /\ TypeInv
  BY DEF ListInv, OpsInv, TypeInv
<1>2. /\ \A s \in {Idle, Finding} : ~Newest(s) /\ ~Changing(s) /\ s.at \notin LoadStage
      /\ \A s \in Loading : ~Changing(s) /\ s.at # "properties"
      /\ Idle.at # "properties"
  BY DEF Idle, Finding, Loading, Newest, Changing, LoadStage, SentStage
<1>3. CASE LoadProperties(q)
  <2>1. UNCHANGED <<filter, view, form>> /\ filter = NoFilter
    BY <1>3 DEF LoadProperties, client
  <2>2. \A x \in Request : ~At(x, "properties")
    BY <1>3 DEF LoadProperties
  <2>. QED  BY <1>1, <1>2, <1>3, <2>1, <2>2, FindTurns, ListTurn
<1>4. CASE LoseProperties(q) \/ FailLoad(q)
  <2>1. UNCHANGED <<filter, view, form>>
    BY <1>4 DEF LoseProperties, FailLoad, client
  <2>. QED  BY <1>1, <1>2, <1>4, <2>1, IdleTurns, ListTurn
<1>5. CASE Reads(q) \/ ServeSeed(q)
  <2>1. UNCHANGED <<filter, view, form>> /\ req[q].at \in LoadStage
    BY <1>5 DEF Reads, ServeSeed, client, At, LoadStage
  <2>2. PICK s \in Loading : Turns(q, s) /\ s.last = req[q].last
    BY <1>1, <1>5, ReadTurns, SeedTurns
  <2>3. Newest(s) => Newest(req[q])
    BY <2>1, <2>2 DEF Newest
  <2>. QED  BY <1>1, <1>2, <2>1, <2>2, <2>3, ListTurn
<1>6. CASE Filters(q)
  <2>1. At(q, "properties") /\ form' = form
    BY <1>6 DEF Filters
  <2>2. PICK s \in Loading : Turns(q, s)
    BY <1>1, <1>6, FilterTurns
  <2>3. /\ view'.shown = view.shown /\ view'.by = view.by /\ ~view'.last
        /\ \A x \in Request \ {q} : req[x].at \in LoadStage => ~req'[x].last
    BY <1>1, <1>6, FilterTurns
  <2>4. filter = NoFilter
    BY <1>1, <2>1 DEF ListKept
  <2>5. /\ view.shown = Unseen
        /\ form # NoForm => form.op = "createRecord"
        /\ \A x \in Request : req[x].at \in {"idle", "properties"}
    BY <1>1, <2>4 DEF TypeInv, Chosen
  <2>6. req'[q] = s
    BY <2>2 DEF Turns
  <2>7. \A x \in Request : ~Changing(req[x])'
    <3>1. \A x \in Request : ~Changing(req[x])
      BY <2>5 DEF Changing, SentStage
    <3>. QED  BY <1>2, <2>2, <2>6, <3>1, OthersKept DEF Changing
  <2>8. \A x \in Request \ {q} : req'[x].at \notin LoadStage
    BY <2>2, <2>5, OthersKept DEF LoadStage
  <2>9. \A x \in Request : ~At(x, "properties")'
    <3>1. \A x \in Request \ {q} : ~At(x, "properties")
      BY <1>1, <2>1 DEF ListKept
    <3>. QED  BY <1>2, <2>2, <2>6, <3>1, OthersKept DEF At
  <2>. QED  BY <2>1, <2>3, <2>5, <2>7, <2>8, <2>9 DEF ListKept, Newest
<1>7. CASE ShowLoad(q)
  <2>1. Turns(q, Idle) /\ UNCHANGED <<filter, form>> /\ req[q].at \in LoadStage
    BY <1>1, <1>7, IdleTurns DEF ShowLoad, At, LoadStage
  <2>2. view'.last = req[q].last
    BY <1>7 DEF ShowLoad
  <2>3. req'[q] = Idle
    BY <2>1 DEF Turns
  <2>4. /\ \A x \in Request : req'[x].at \notin LoadStage
        /\ \A x \in Request : Changing(req[x])' => Changing(req[x])
        /\ \A x \in Request : At(x, "properties")' => At(x, "properties")
    <3>1. \A x \in Request \ {q} : req[x].at \notin LoadStage
      BY <1>1, <2>1 DEF ListKept
    <3>. QED  BY <1>2, <2>1, <2>3, <3>1, OthersKept DEF Changing, At
  <2>5. (form # NoForm /\ form.op = "updateRecord") \/ (\E x \in Request : Changing(req[x])) =>
          ~req[q].last
    BY <1>1, <2>1 DEF ListKept, Newest
  <2>. QED  BY <1>1, <2>1, <2>2, <2>4, <2>5 DEF ListKept, Newest, Shows
<1>. QED  BY <1>3, <1>4, <1>5, <1>6, <1>7 DEF LoadStep

(* On the page of records a request creates, updates or removes one. *)
LEMMA RecordOps ==
  ASSUME OpsInv, page = "records", NEW q \in Request,
         req[q].at \in SentStage \cup {"answered"}
  PROVE  /\ req[q].op \in {"createRecord", "updateRecord", "removeRecord"}
         /\ req[q].at # "guest"
<1>1. PostsOn(page) = {"removeRecord"} /\ FormsOn(page) = {"createRecord", "updateRecord"}
  BY DEF PostsOn, FormsOn
<1>2. OpFits(req[q])
  BY DEF OpsInv, OpsFit
<1>. QED  BY <1>1, <1>2 DEF OpFits

LEMMA ListSends ==
  ASSUME ListInv, page = "records", NEW q \in Request, SendStep(q)
  PROVE  ListKept'
<1>1. ListKept /\ TypeOK /\ TypeInv
  BY DEF ListInv, OpsInv, TypeInv
<1>2. /\ \A s \in Sent \cup Answered \cup {Idle} :
           ~Newest(s) /\ s.at \notin LoadStage /\ s.at # "properties"
      /\ ~Changing(Idle)
  BY DEF Sent, Answered, Idle, Newest, Changing, LoadStage, SentStage
<1>3. UNCHANGED <<filter, view, form>>
  <2>1. Serves(q) => Serve(q)
    BY <1>1, ServeTurns
  <2>. QED  BY <2>1 DEF SendStep, Submits, Posts, CreateGuest, Check, Serve, Deny, client
<1>4. ASSUME NEW s \in Sent \cup Answered \cup {Idle}, Turns(q, s),
             Changing(s) => \/ Changing(req[q])
                            \/ Shows /\ \A x \in Request : ~Newest(req[x])
      PROVE  ListKept'
  BY <1>1, <1>2, <1>3, <1>4, ListTurn
<1>5. CASE Submits(q)
  <2>1. PICK s \in Sent : Turns(q, s) /\ s.op = form.op
    BY <1>1, <1>5, SubmitTurns
  <2>2. form # NoForm /\ form.op \in {"createRecord", "updateRecord"}
    BY <1>5 DEF Submits, ListInv, OpsInv, OpsFit, FormsOn
  <2>3. form.op = "updateRecord" => Shows /\ \A x \in Request : ~Newest(req[x])
    BY <1>1, <2>2 DEF ListKept
  <2>. QED  BY <1>4, <2>1, <2>2, <2>3 DEF Changing
<1>6. CASE \E op \in QuickOps : Posts(q, op)
  <2>1. PICK op \in QuickOps : Posts(q, op)
    BY <1>6
  <2>2. PICK s \in Sent : Turns(q, s)
    BY <1>1, <2>1, PostTurns
  <2>3. view.shown.state = "listed"
    BY <2>1 DEF Posts, PostsOn
  <2>4. Shows /\ \A x \in Request : ~Newest(req[x])
    BY <1>1, <2>3 DEF ListKept, Shows, Unseen
  <2>. QED  BY <1>4, <2>2, <2>4
<1>7. CASE CreateGuest(q) \/ Check(q)
  <2>1. PICK s \in Sent : Turns(q, s) /\ s.op = req[q].op
    BY <1>1, <1>7, StageTurns DEF Copies
  <2>2. req[q].at \in SentStage
    BY <1>7 DEF CreateGuest, Check, At, SentStage
  <2>. QED  BY <1>4, <2>1, <2>2 DEF Changing
<1>8. CASE Deny(q)
  <2>1. PICK s \in Sent \cup {Idle} :
          Turns(q, s) /\ (s.at # "idle" => s.op = req[q].op)
    BY <1>1, <1>8, DenyTurns DEF Copies
  <2>2. req[q].at \in SentStage
    BY <1>8 DEF Deny, SentStage
  <2>. QED  BY <1>4, <2>1, <2>2 DEF Changing, SentStage
<1>9. CASE Serves(q)
  <2>1. PICK s \in Answered \cup {Idle} :
          Turns(q, s) /\ (s.at # "idle" => s.op = req[q].op)
    BY <1>1, <1>9, ServeTurns
  <2>2. req[q].at \in SentStage
    BY <1>1, <1>9, ServeTurns DEF SentStage
  <2>. QED  BY <1>4, <2>1, <2>2 DEF Changing, SentStage
<1>. QED  BY <1>5, <1>6, <1>7, <1>8, <1>9 DEF SendStep

LEMMA PatchedView ==
  ASSUME TypeOK, NEW q \in Request, PatchRecords(q)
  PROVE  /\ view'.filter = view.filter
         /\ Patches(q) => /\ view'.by = "patch" /\ view'.shown = req[q].shown
                          /\ view'.since = req[q].shown.version
         /\ ~Patches(q) => view' = view
<1>1. view \in View
  BY DEF TypeOK
<1>2. CASE Patches(q)
  <2>1. view' = [view EXCEPT !.by = "patch", !.last = TRUE,
                             !.since = req[q].shown.version, !.shown = req[q].shown]
    BY <1>2 DEF PatchRecords
  <2>. QED  BY <1>1, <1>2, <2>1 DEF View
<1>3. CASE ~Patches(q)
  BY <1>3 DEF PatchRecords
<1>. QED  BY <1>2, <1>3

LEMMA ListAnswers ==
  ASSUME ListInv, page = "records", NEW q \in Request, AnswerStep(q)
  PROVE  ListKept'
<1>1. ListKept /\ TypeOK /\ OpsInv
  BY DEF ListInv, OpsInv, TypeInv
<1>2. /\ ~Newest(Idle) /\ ~Changing(Idle)
      /\ Idle.at \notin LoadStage /\ Idle.at # "properties"
  BY DEF Idle, Newest, Changing, LoadStage, SentStage
<1>3. CASE Refuse(q)
  BY <1>1, <1>2, <1>3, IdleTurns, ListTurn DEF Refuse
<1>4. CASE Lose(q)
  <2>1. PICK s \in Sent \cup {Idle} :
          /\ Turns(q, s) /\ s.at \in {"idle", req[q].at}
          /\ s.at # "idle" => s.op = req[q].op
    BY <1>1, <1>4, LoseTurns DEF Copies
  <2>2. s.at \notin LoadStage /\ s.at # "properties" /\ ~Newest(s)
    BY <2>1 DEF Sent, Idle, Newest, LoadStage
  <2>3. Changing(s) => Changing(req[q])
    BY <2>1 DEF Changing, SentStage
  <2>4. UNCHANGED <<filter, view, form>>
    BY <1>4 DEF Lose
  <2>. QED  BY <1>1, <2>1, <2>2, <2>3, <2>4, ListTurn
<1>5. CASE PatchRecords(q)
  <2>1. /\ filter' = filter /\ At(q, "answered") /\ Outdate(q, Idle)
        /\ form' = form \/ form' = NoForm
    BY <1>5 DEF PatchRecords
  <2>2. /\ Turns(q, Idle)
        /\ \A x \in Request \ {q} : req[x].at \in LoadStage => ~req'[x].last
    BY <1>1, <2>1, OutdateTurns DEF AnyRequest
  <2>3. req'[q] = Idle
    BY <2>2 DEF Turns
  <2>4. \A x \in Request : ~Newest(req[x])'
    BY <1>2, <2>2, <2>3, OthersKept DEF Newest
  <2>5. \A x \in Request :
          /\ Changing(req[x])' => Changing(req[x])
          /\ req'[x].at \in LoadStage => req[x].at \in LoadStage
          /\ At(x, "properties")' => At(x, "properties")
    BY <1>2, <2>2, <2>3, OthersKept DEF Changing, At
  <2>6. Shows \/ Patches(q)
    <3>1. ~Patches(q) => Changing(req[q])
      BY <2>1 DEF Patches, Changing, At
    <3>. QED  BY <1>1, <3>1 DEF ListKept
  <2>7. (form' # NoForm /\ form'.op = "updateRecord") \/ (\E x \in Request : Changing(req[x])')
          => Shows'
    <3>1. CASE Patches(q)
      BY <1>1, <1>5, <3>1, PatchedView DEF Shows
    <3>2. CASE ~Patches(q)
      BY <1>1, <1>5, <2>6, <3>2, PatchedView DEF Shows
    <3>. QED  BY <3>1, <3>2
  <2>. QED  BY <1>1, <2>1, <2>4, <2>5, <2>7 DEF ListKept
<1>6. ~Answer(q)
  BY DEF Answer
<1>. QED  BY <1>3, <1>4, <1>5, <1>6 DEF AnswerStep

LEMMA PageKept == ASSUME TypeOK, [Next]_vars PROVE page' = page
<1>1. Kinds
  BY StepKinds
<1>2. ASSUME NEW q \in Request, LoadStep(q) \/ SendStep(q) \/ AnswerStep(q)
      PROVE  page' = page
  <2>1. Serves(q) => Serve(q)
    BY ServeTurns
  <2>. QED
    BY <1>2, <2>1
    DEF LoadStep, LoadProperties, LoseProperties, Filters, Reads, ServeSeed, ShowLoad,
        FailLoad, SendStep, Submits, Posts, CreateGuest, Check, Serve, Deny, AnswerStep,
        Answer, PatchRecords, Refuse, Lose, fixed
<1>. QED  BY <1>1, <1>2 DEF Kinds, Opens, Close, Elsewhere, vars, fixed

LEMMA ListNext == ListInv /\ [Next]_vars => ListInv'
<1>. SUFFICES ASSUME ListInv, [Next]_vars PROVE ListInv'
  OBVIOUS
<1>1. OpsInv' /\ Kinds /\ TypeOK /\ page' = page
  BY OpsNext, StepKinds, PageKept DEF ListInv, OpsInv, TypeInv
<1>2. SUFFICES ASSUME page = "records" PROVE ListKept'
  BY <1>1 DEF ListInv
<1>3. ListKept
  BY <1>2 DEF ListInv
<1>4. ASSUME UNCHANGED <<filter, view, req>>, form' = form \/ form' = NoForm
      PROVE  ListKept'
  BY <1>3, <1>4 DEF ListKept, Newest, Changing, Shows, At
<1>5. ASSUME Close \/ UNCHANGED vars \/ \E s \in RowState : Elsewhere(s)
      PROVE  ListKept'
  BY <1>4, <1>5 DEF Close, Elsewhere, vars, client
<1>6. ASSUME NEW op \in FormOps, Opens(op)
      PROVE  ListKept'
  <2>1. UNCHANGED <<filter, view, req>> /\ form'.op = op
    BY <1>1, <1>6, OpenForms DEF Opens
  <2>2. op = "updateRecord" => view.shown.state = "listed"
    BY <1>6 DEF Opens
  <2>3. op = "updateRecord" => Shows' /\ \A x \in Request : ~Newest(req[x])
    BY <1>3, <2>1, <2>2 DEF ListKept, Shows, Unseen
  <2>. QED  BY <1>3, <2>1, <2>3 DEF ListKept, Newest, Changing, Shows, At
<1>. QED  BY <1>1, <1>2, <1>5, <1>6, ListLoads, ListSends, ListAnswers DEF Kinds

LEMMA ListInit == Init => ListInv
<1>. SUFFICES ASSUME Init PROVE ListInv
  OBVIOUS
<1>1. \A q \in Request : req[q] = Idle
  BY DEF Init
<1>2. OpsInv
  BY TypeInit DEF Init, OpsInv, OpsFit, OpFits, Idle, SentStage
<1>3. ListKept
  BY <1>1 DEF Init, ListKept, Newest, Changing, Idle, LoadStage, SentStage, At
<1>. QED  BY <1>2, <1>3 DEF ListInv

-----------------------------------------------------------------------------
(* Records: the one followed.  It is created once, and once it is removed  *)
(* nothing under way is newer than the removal and has it in.              *)

Creates(r) == r.at \in {"sent", "checked"} /\ r.op = "createRecord"
Removed(r) == r.at = "answered" /\ r.op = "removeRecord"

\* shows the record, or would add it
Brings(r) == \/ r.at \in LoadStage /\ r.shown.state = "listed"
             \/ r.at = "answered" /\ r.op = "createRecord"

Followed ==
  /\ row.state \in States("records")
  /\ \A q \in Request : Creates(req[q]) =>
       row.state = "free" /\ \A x \in Request \ {q} : ~Creates(req[x])
  /\ \A q \in Request : At(q, "checked") /\ ~Creates(req[q]) => row.state # "free"
  /\ gone => row.state = "out"
  /\ \A q \in Request : Removed(req[q]) =>
       row.state = "out" /\ req[q].shown.state = "out"
  /\ \A q \in Request : Brings(req[q]) =>
       /\ gone => req[q].shown.version < own
       /\ \A x \in Request : Removed(req[x]) => req[q].shown.version < req[x].shown.version

FollowedInv == VersionsInv /\ OpsInv /\ (page = "records" => Followed)

LEMMA FollowedTypes ==
  ASSUME FollowedInv
  PROVE  /\ TypeOK /\ TypeInv /\ own \in Nat /\ row.version \in Nat
         /\ \A q \in Request :
              /\ Brings(req[q]) => /\ req[q].shown.version \in Nat
                                   /\ req[q].shown.version <= row.version
              /\ Removed(req[q]) => req[q].shown.version \in Nat
<1>1. TypeOK /\ TypeInv /\ own \in Nat /\ row.version \in Nat
  BY VersionTypes DEF FollowedInv, VersionsInv, TypeInv
<1>2. ASSUME NEW q \in Request
      PROVE  /\ Brings(req[q]) => /\ req[q].shown.version \in Nat
                                  /\ req[q].shown.version <= row.version
             /\ Removed(req[q]) => req[q].shown.version \in Nat
  <2>1. KnownTo(req[q], row.version)
    BY DEF FollowedInv, VersionsInv, VersionsKnown
  <2>2. req[q].at \in LoadStage => req[q] \in Loading
    BY <1>1, RequestKinds
  <2>3. req[q].at = "answered" => req[q] \in Answered
    BY <1>1, RequestKinds
  <2>. QED  BY <2>1, <2>2, <2>3 DEF Brings, Removed, KnownTo, Loading, Answered, Row
<1>. QED  BY <1>1, <1>2

(* What a request may become, and what may become of the row.              *)
LEMMA FollowedTurn ==
  ASSUME FollowedInv, page = "records", NEW q \in Request, NEW s, Turns(q, s),
         \/ row'.state = row.state
         \/ /\ row'.state \in States("records") \ {"free"}
            /\ row.state = "out" => row'.state = "out"
            /\ ~Creates(s) /\ \A x \in Request \ {q} : ~Creates(req[x]),
         own' \in Nat, own <= own', gone' = gone,
         Creates(s) => \/ Creates(req[q])
                       \/ row.state = "free" /\ \A x \in Request : ~Creates(req[x]),
         s.at = "checked" /\ ~Creates(s) => row'.state # "free",
         ~Removed(s),
         Brings(s) => \/ Brings(req[q]) /\ s.shown = req[q].shown
                      \/ row'.state = "listed"
  PROVE  Followed'
<1>. DEFINE Others == Request \ {q}
<1>1. Followed /\ req'[q] = s
  BY DEF FollowedInv, Turns
<1>2. \A x \in Others : /\ Creates(req[x])' <=> Creates(req[x])
                        /\ At(x, "checked")' <=> At(x, "checked")
                        /\ Removed(req[x])' => Removed(req[x]) /\ req'[x] = req[x]
                        /\ Brings(req[x])' => Brings(req[x]) /\ req'[x].shown = req[x].shown
  BY DEF Turns, Same, Creates, Removed, Brings, LoadStage, At
<1>3. /\ Creates(req[q])' <=> Creates(s)
      /\ At(q, "checked")' <=> s.at = "checked"
      /\ ~Removed(req[q])'
      /\ Brings(req[q])' <=> Brings(s)
  BY <1>1 DEF Creates, Removed, Brings, At
<1>4. /\ row'.state \in States("records")
      /\ row.state # "free" => row'.state # "free"
      /\ row.state = "out" => row'.state = "out"
  BY <1>1 DEF Followed
<1>5. \A x \in Request : Creates(req[x])' =>
        row'.state = "free" /\ \A y \in Request \ {x} : ~Creates(req[y])'
  BY <1>1, <1>2, <1>3 DEF Followed
<1>6. \A x \in Request : At(x, "checked")' /\ ~Creates(req[x])' => row'.state # "free"
  BY <1>1, <1>2, <1>3, <1>4 DEF Followed
<1>7. /\ gone' => row'.state = "out"
      /\ \A x \in Request : Removed(req[x])' => row'.state = "out" /\ req'[x].shown.state = "out"
  BY <1>1, <1>2, <1>3, <1>4 DEF Followed
<1>8. ASSUME NEW x \in Request, Brings(req[x])'
      PROVE  /\ gone' => req'[x].shown.version < own'
             /\ \A y \in Request : Removed(req[y])' =>
                  req'[x].shown.version < req'[y].shown.version
  <2>1. CASE Brings(req[x]) /\ req'[x].shown = req[x].shown
    <3>1. /\ gone => req[x].shown.version < own
          /\ \A y \in Request : Removed(req[y]) => req[x].shown.version < req[y].shown.version
      BY <1>1, <2>1 DEF Followed
    <3>2. req[x].shown.version \in Nat /\ own \in Nat
      BY <2>1, FollowedTypes
    <3>3. gone' => req'[x].shown.version < own'
      BY <2>1, <3>1, <3>2
    <3>. QED  BY <1>2, <1>3, <2>1, <3>1, <3>3
  <2>2. CASE x = q /\ row'.state = "listed"
    BY <1>7, <2>2
  <2>. QED  BY <1>1, <1>2, <1>3, <1>8, <2>1, <2>2
<1>. QED  BY <1>4, <1>5, <1>6, <1>7, <1>8 DEF Followed, Brings, Removed

LEMMA RecordStates == States("records") = {"free", "listed", "out"}
BY DEF States

LEMMA FollowedLoads ==
  ASSUME FollowedInv, page = "records", NEW q \in Request, LoadStep(q)
  PROVE  Followed'
<1>1. TypeOK /\ own \in Nat /\ Followed
  BY FollowedTypes DEF FollowedInv
<1>2. /\ \A s \in {Idle, Finding} \cup Loading :
           ~Creates(s) /\ ~Removed(s) /\ s.at # "checked"
      /\ \A s \in {Idle, Finding} : ~Brings(s)
  BY DEF Idle, Finding, Loading, Creates, Removed, Brings, LoadStage
<1>3. own' = own /\ gone' = gone
  BY DEF LoadStep, LoadProperties, LoseProperties, Filters, Reads, ServeSeed, ShowLoad,
         FailLoad, history
<1>4. CASE LoadProperties(q) \/ LoseProperties(q) \/ FailLoad(q) \/ ShowLoad(q)
  <2>1. row' = row
    BY <1>4 DEF LoadProperties, LoseProperties, FailLoad, ShowLoad
  <2>2. \E s \in {Idle, Finding} : Turns(q, s)
    BY <1>1, <1>4, FindTurns, IdleTurns
  <2>. QED  BY <1>1, <1>2, <1>3, <2>1, <2>2, FollowedTurn
<1>5. CASE Filters(q)
  <2>1. row' = row
    BY <1>5 DEF Filters
  <2>2. PICK s \in Loading : Turns(q, s) /\ s.shown = Unseen
    BY <1>1, <1>5, FilterTurns
  <2>3. ~Brings(s)
    BY <2>2 DEF Brings, Unseen, Loading
  <2>. QED  BY <1>1, <1>2, <1>3, <2>1, <2>2, <2>3, FollowedTurn
<1>6. CASE Reads(q)
  <2>1. row' = row /\ req[q].at \in LoadStage
    BY <1>6 DEF Reads
  <2>2. PICK s \in Loading : Turns(q, s) /\ s.shown \in {row, req[q].shown, Unseen}
    BY <1>1, <1>6, ReadTurns
  <2>3. Brings(s) => s.shown.state = "listed"
    BY DEF Brings, Loading
  <2>4. Brings(s) => \/ Brings(req[q]) /\ s.shown = req[q].shown
                     \/ row'.state = "listed"
    BY <2>1, <2>2, <2>3 DEF Brings, Unseen
  <2>. QED  BY <1>1, <1>2, <1>3, <2>1, <2>2, <2>4, FollowedTurn
<1>7. CASE ServeSeed(q)
  <2>1. PICK s \in Loading : Turns(q, s) /\ s.shown = req[q].shown
    BY <1>1, <1>7, SeedTurns
  <2>2. req[q].at \in LoadStage
    BY <1>7 DEF ServeSeed, At, LoadStage
  <2>3. Brings(s) => Brings(req[q]) /\ s.shown = req[q].shown
    BY <2>1, <2>2 DEF Brings, Loading
  <2>4. row' = row \/ (row'.state = "listed" /\ row.state = "free" /\ ~CreatingRecord)
    BY <1>7 DEF ServeSeed
  <2>5. ~CreatingRecord => \A x \in Request : ~Creates(req[x])
    BY DEF CreatingRecord, Creates
  <2>6. \/ row'.state = row.state
        \/ /\ row'.state \in States("records") \ {"free"}
           /\ row.state = "out" => row'.state = "out"
           /\ ~Creates(s) /\ \A x \in Request \ {q} : ~Creates(req[x])
    BY <1>2, <2>4, <2>5, RecordStates
  <2>. QED  BY <1>1, <1>2, <1>3, <2>1, <2>3, <2>6, FollowedTurn
<1>. QED  BY <1>4, <1>5, <1>6, <1>7 DEF LoadStep

(* A record is created, updated or removed. *)
LEMMA FollowedServe ==
  ASSUME FollowedInv, page = "records", NEW q \in Request, Serves(q)
  PROVE  Followed'
<1>1. TypeOK /\ own \in Nat /\ Followed /\ OpsInv
  BY FollowedTypes DEF FollowedInv
<1>2. /\ req[q].at \in {"sent", "checked"} /\ req[q].at \in SentStage
      /\ own' = own /\ gone' = gone
  BY <1>1, ServeTurns DEF Serve, SentStage
<1>3. req[q].op \in {"createRecord", "updateRecord", "removeRecord"}
  BY <1>1, <1>2, RecordOps
<1>4. At(q, "checked")
  BY <1>3 DEF Serves, Transact, Write, Serializable
<1>5. PICK s \in Answered \cup {Idle} :
        /\ Turns(q, s) /\ s.at = IF req[q].awaited THEN "answered" ELSE "idle"
        /\ s.at # "idle" => /\ s.op = req[q].op
                            /\ s.shown = Copy(req[q].op, row')
                            /\ s.shown.version = row'.version
  BY <1>1, ServeTurns
<1>6. row'.version = row.version + 1 /\ row'.state = StateAfter(req[q].op)
  <2>1. /\ row' = row \/ (row'.version = row.version + 1 /\ row'.state = StateAfter(req[q].op))
        /\ row'.version = row.version + 1
    BY <1>1, <1>3, ServeTurns
  <2>. QED  BY <2>1, FollowedTypes
<1>7. ~Creates(s) /\ s.at # "checked" /\ s.at \notin LoadStage
  BY <1>5 DEF Creates, LoadStage
<1>8. Brings(s) => s.op = "createRecord" /\ req[q].op = "createRecord"
  BY <1>5, <1>7 DEF Brings
<1>9. CASE req[q].op = "createRecord"
  <2>1. row.state = "free" /\ \A x \in Request \ {q} : ~Creates(req[x])
    BY <1>1, <1>2, <1>9 DEF Followed, Creates
  <2>2. row'.state = "listed"
    BY <1>6, <1>9 DEF StateAfter
  <2>3. ~Removed(s)
    BY <1>5, <1>9 DEF Removed
  <2>. QED  BY <1>1, <1>2, <1>5, <1>7, <2>1, <2>2, <2>3, RecordStates, FollowedTurn
<1>10. CASE req[q].op = "updateRecord"
  <2>1. row'.state = row.state
    BY <1>6, <1>10 DEF StateAfter
  <2>2. ~Removed(s)
    BY <1>5, <1>10 DEF Removed
  <2>3. ~Brings(s)
    BY <1>8, <1>10
  <2>. QED  BY <1>1, <1>2, <1>5, <1>7, <2>1, <2>2, <2>3, FollowedTurn
<1>11. CASE req[q].op = "removeRecord"
  <2>1. row.state # "free" /\ \A x \in Request : ~Creates(req[x])
    BY <1>1, <1>4, <1>11 DEF Followed, Creates
  <2>2. row'.state = "out"
    BY <1>6, <1>11 DEF StateAfter
  <2>3. req'[q] = s /\ ~Brings(s)
    BY <1>5, <1>8, <1>11 DEF Turns
  <2>4. \A x \in Request \ {q} :
          /\ ~Creates(req[x])' /\ (At(x, "checked")' <=> At(x, "checked"))
          /\ Removed(req[x])' => Removed(req[x]) /\ req'[x] = req[x]
          /\ Brings(req[x])' => Brings(req[x]) /\ req'[x].shown = req[x].shown
    BY <1>5, <2>1 DEF Turns, Same, Creates, Removed, Brings, LoadStage, At
  <2>5. Removed(s) => s.shown.state = "out" /\ s.shown.version = row.version + 1
    BY <1>5, <1>6, <1>11, <2>2 DEF Removed, Copy
  <2>6. \A x \in Request : ~Creates(req[x])'
    BY <1>7, <2>3, <2>4 DEF Creates
  <2>7. \A x \in Request : Removed(req[x])' => req'[x].shown.state = "out"
    <3>1. \A x \in Request \ {q} : Removed(req[x])' => req'[x].shown.state = "out"
      BY <1>1, <2>4 DEF Followed
    <3>. QED  BY <2>3, <2>5, <3>1 DEF Removed
  <2>8. ASSUME NEW x \in Request, Brings(req[x])'
        PROVE  /\ gone' => req'[x].shown.version < own'
               /\ \A y \in Request : Removed(req[y])' =>
                    req'[x].shown.version < req'[y].shown.version
    <3>1. x # q
      BY <2>3, <2>8 DEF Brings
    <3>2. Brings(req[x]) /\ req'[x].shown = req[x].shown
      BY <2>4, <2>8, <3>1
    <3>3. /\ gone => req[x].shown.version < own
          /\ \A y \in Request : Removed(req[y]) => req[x].shown.version < req[y].shown.version
      BY <1>1, <3>2 DEF Followed
    <3>4. req[x].shown.version < row.version + 1
      BY <3>2, FollowedTypes
    <3>5. \A y \in Request \ {q} : Removed(req[y])' =>
            req'[x].shown.version < req'[y].shown.version
      BY <2>4, <3>2, <3>3
    <3>6. Removed(req[q])' => req'[x].shown.version < req'[q].shown.version
      BY <2>3, <2>5, <3>2, <3>4 DEF Removed
    <3>. QED  BY <1>2, <3>2, <3>3, <3>5, <3>6
  <2>. QED  BY <2>2, <2>6, <2>7, <2>8, RecordStates DEF Followed, Brings, Removed
<1>. QED  BY <1>3, <1>9, <1>10, <1>11

LEMMA FollowedSends ==
  ASSUME FollowedInv, page = "records", NEW q \in Request, SendStep(q)
  PROVE  Followed'
<1>1. TypeOK /\ TypeInv /\ own \in Nat /\ Followed
  BY FollowedTypes DEF FollowedInv
<1>2. \A s \in Sent \cup {Idle} : ~Removed(s) /\ ~Brings(s)
  BY DEF Sent, Idle, Removed, Brings, LoadStage
<1>3. ASSUME ~Serves(q)
      PROVE  row' = row /\ own' = own /\ gone' = gone
  BY <1>3 DEF SendStep, Submits, Posts, CreateGuest, Check, Deny, history
<1>4. CASE Submits(q)
  <2>1. PICK s \in Sent : /\ Turns(q, s) /\ s.op = form.op /\ s.at \in {"guest", "sent"}
    BY <1>1, <1>4, SubmitTurns
  <2>2. Creates(s) => row.state = "free" /\ \A x \in Request : ~Creates(req[x])
    BY <1>4, <2>1 DEF Submits, CreatingRecord, Creates
  <2>3. row' = row /\ own' = own /\ gone' = gone
    BY <1>4 DEF Submits, history
  <2>. QED  BY <1>1, <1>2, <2>1, <2>2, <2>3, FollowedTurn
<1>5. CASE \E op \in QuickOps : Posts(q, op)
  <2>1. PICK op \in QuickOps : Posts(q, op)
    BY <1>5
  <2>2. PICK s \in Sent : Turns(q, s) /\ s.op = op /\ s.at = "sent"
    BY <1>1, <2>1, PostTurns
  <2>3. ~Creates(s)
    BY <2>1, <2>2 DEF Posts, PostsOn, Creates
  <2>4. row' = row /\ own' = own /\ gone' = gone
    BY <2>1 DEF Posts, history
  <2>. QED  BY <1>1, <1>2, <2>2, <2>3, <2>4, FollowedTurn
<1>6. CASE CreateGuest(q) \/ Check(q)
  <2>1. PICK s \in Sent : /\ Turns(q, s) /\ s.op = req[q].op
                          /\ s.at = IF At(q, "guest") THEN "sent" ELSE "checked"
    BY <1>1, <1>6, StageTurns DEF Copies
  <2>2. OpsInv /\ req[q].at \in SentStage
    BY <1>6 DEF FollowedInv, CreateGuest, Check, At, SentStage
  <2>3. req[q].op \in {"createRecord", "updateRecord", "removeRecord"} /\ req[q].at # "guest"
    BY <2>2, RecordOps
  <2>4. At(q, "sent") /\ Accepts(req[q].op, req[q].seen)
    BY <1>6, <2>3 DEF CreateGuest, Check, At
  <2>5. Creates(s) => Creates(req[q])
    BY <2>1, <2>4 DEF Creates, At
  <2>6. ~Creates(s) => row.state # "free"
    BY <2>1, <2>3, <2>4 DEF Creates, Accepts, At
  <2>7. row' = row /\ own' = own /\ gone' = gone
    BY <1>6 DEF CreateGuest, Check, history
  <2>. QED  BY <1>1, <1>2, <2>1, <2>5, <2>6, <2>7, FollowedTurn
<1>7. CASE Deny(q)
  <2>1. PICK s \in Sent \cup {Idle} : Turns(q, s) /\ s.at \in {"refused", "idle"}
    BY <1>1, <1>7, DenyTurns
  <2>2. ~Creates(s) /\ s.at # "checked"
    BY <2>1 DEF Creates
  <2>3. row' = row /\ own' = own /\ gone' = gone
    BY <1>7 DEF Deny, history
  <2>. QED  BY <1>1, <1>2, <2>1, <2>2, <2>3, FollowedTurn
<1>. QED  BY <1>4, <1>5, <1>6, <1>7, FollowedServe DEF SendStep

LEMMA FollowedAnswers ==
  ASSUME FollowedInv, page = "records", NEW q \in Request, AnswerStep(q)
  PROVE  Followed'
<1>1. TypeOK /\ own \in Nat /\ Followed
  BY FollowedTypes DEF FollowedInv
<1>2. ~Creates(Idle) /\ ~Removed(Idle) /\ ~Brings(Idle) /\ Idle.at # "checked"
  BY DEF Idle, Creates, Removed, Brings, LoadStage
<1>3. CASE Refuse(q)
  <2>1. row' = row /\ own' = own /\ gone' = gone
    BY <1>3 DEF Refuse, history
  <2>. QED  BY <1>1, <1>2, <1>3, <2>1, IdleTurns, FollowedTurn
<1>4. CASE Lose(q)
  <2>1. PICK s \in Sent \cup {Idle} :
          /\ Turns(q, s) /\ s.at \in {"idle", req[q].at}
          /\ s.at # "idle" => s.op = req[q].op /\ s.at \in {"sent", "checked"}
    BY <1>1, <1>4, LoseTurns DEF Copies
  <2>2. Creates(s) => Creates(req[q])
    BY <2>1 DEF Creates
  <2>3. s.at = "checked" /\ ~Creates(s) => row.state # "free"
    BY <1>1, <2>1 DEF Followed, Creates, At
  <2>4. ~Removed(s) /\ ~Brings(s)
    BY <2>1 DEF Sent, Idle, Removed, Brings, LoadStage
  <2>5. row' = row /\ own' = own /\ gone' = gone
    BY <1>4 DEF Lose
  <2>. QED  BY <1>1, <2>1, <2>2, <2>3, <2>4, <2>5, FollowedTurn
<1>5. CASE PatchRecords(q)
  <2>1. /\ row' = row /\ At(q, "answered") /\ Hear(q)
        /\ gone' = (gone \/ req[q].op = "removeRecord")
    BY <1>5 DEF PatchRecords
  <2>2. Turns(q, Idle)
    BY <1>1, <1>5, IdleTurns
  <2>3. req'[q] = Idle
    BY <2>2 DEF Turns
  <2>4. req[q].shown.version \in Nat
    BY <1>1, <2>1, RequestKinds DEF At, Answered, Row
  <2>5. own' \in Nat /\ own <= own' /\ req[q].shown.version <= own'
    BY <1>1, <2>1, <2>4 DEF Hear, Newer
  <2>6. \A x \in Request :
          /\ Creates(req[x])' => Creates(req[x])
          /\ At(x, "checked")' /\ ~Creates(req[x])' => At(x, "checked") /\ ~Creates(req[x])
          /\ Removed(req[x])' => Removed(req[x]) /\ req'[x] = req[x]
          /\ Brings(req[x])' => Brings(req[x]) /\ req'[x].shown = req[x].shown
    BY <1>2, <2>2, <2>3 DEF Turns, Same, Creates, Removed, Brings, LoadStage, At
  <2>7. gone' /\ ~gone => Removed(req[q])
    BY <2>1 DEF Removed, At
  <2>8. gone' => row'.state = "out"
    BY <1>1, <2>1, <2>7 DEF Followed
  <2>9. ASSUME NEW x \in Request, Brings(req[x])'
        PROVE  /\ gone' => req'[x].shown.version < own'
               /\ \A y \in Request : Removed(req[y])' =>
                    req'[x].shown.version < req'[y].shown.version
    <3>1. Brings(req[x]) /\ req'[x].shown = req[x].shown
      BY <2>6, <2>9
    <3>2. /\ gone => req[x].shown.version < own
          /\ \A y \in Request : Removed(req[y]) => req[x].shown.version < req[y].shown.version
      BY <1>1, <3>1 DEF Followed
    <3>3. req[x].shown.version \in Nat
      BY <3>1, FollowedTypes
    <3>4. gone' => req'[x].shown.version < own'
      <4>1. gone' => req[x].shown.version < own \/ req[x].shown.version < req[q].shown.version
        BY <2>7, <3>2
      <4>. QED  BY <1>1, <2>4, <2>5, <3>1, <3>3, <4>1
    <3>. QED  BY <2>6, <3>1, <3>2, <3>4
  <2>. QED  BY <1>1, <2>1, <2>6, <2>8, <2>9 DEF Followed, Creates, Removed, Brings, At
<1>6. ~Answer(q)
  BY DEF Answer
<1>. QED  BY <1>3, <1>4, <1>5, <1>6 DEF AnswerStep

LEMMA FollowedNext == FollowedInv /\ [Next]_vars => FollowedInv'
<1>. SUFFICES ASSUME FollowedInv, [Next]_vars PROVE FollowedInv'
  OBVIOUS
<1>1. OpsInv' /\ VersionsInv' /\ Kinds /\ TypeOK /\ page' = page
  BY OpsNext, VersionsNext, StepKinds, PageKept, FollowedTypes DEF FollowedInv
<1>2. SUFFICES ASSUME page = "records" PROVE Followed'
  BY <1>1 DEF FollowedInv
<1>3. Followed
  BY <1>2 DEF FollowedInv
<1>4. ASSUME UNCHANGED <<row, req, own, gone>>
      PROVE  Followed'
  BY <1>3, <1>4 DEF Followed, Creates, Removed, Brings, At
<1>5. ASSUME Close \/ UNCHANGED vars \/ \E op \in FormOps : Opens(op)
      PROVE  Followed'
  BY <1>4, <1>5 DEF Close, Opens, vars, history
<1>6. ASSUME NEW s \in RowState, Elsewhere(s)
      PROVE  Followed'
  <2>1. UNCHANGED <<req, own, gone>> /\ row'.state = s /\ s \in States("records")
    BY <1>2, <1>6 DEF Elsewhere, history
  <2>2. /\ row.state = "out" => s = "out"
        /\ row.state = "listed" => s # "free"
        /\ row.state = "free" => ~CreatingRecord
    BY <1>2, <1>6 DEF Elsewhere
  <2>3. row.state \in {"free", "listed", "out"}
    BY <1>3, RecordStates DEF Followed
  <2>4. \A x \in Request : ~Creates(req[x])
    BY <1>3, <2>2 DEF Followed, CreatingRecord, Creates
  <2>. QED  BY <1>3, <2>1, <2>2, <2>3, <2>4 DEF Followed, Creates, Removed, Brings, At
<1>. QED  BY <1>1, <1>2, <1>5, <1>6, FollowedLoads, FollowedSends, FollowedAnswers DEF Kinds

LEMMA FollowedInit == Init => FollowedInv
<1>. SUFFICES ASSUME Init PROVE FollowedInv
  OBVIOUS
<1>1. \A q \in Request : req[q] = Idle
  BY DEF Init
<1>2. page = "records" => row.state \in States("records")
  BY DEF Init
<1>3. page = "records" => Followed
  BY <1>1, <1>2 DEF Init, Followed, Creates, Removed, Brings, Idle, LoadStage, At
<1>. QED  BY <1>3, ListInit, VersionsInit DEF ListInv, FollowedInv

(* A record that the page removed comes back only as it was before, and    *)
(* only with a list that was asked for then or with the late answer to its *)
(* creation (setRecords in loadRecords, submit and remove).                *)
THEOREM RemovedStaysRemovedHolds == Spec => RemovedStaysRemoved
<1>. DEFINE Back == page = "records" /\ gone /\ view.shown.state # "listed"
                      /\ view'.shown.state = "listed"
                    => /\ view'.shown.version < own
                       /\ \E q \in Request :
                            /\ req'[q] = Idle
                            /\ \/ At(q, "loaded")
                               \/ At(q, "answered") /\ req[q].op = "createRecord"
<1>1. ASSUME FollowedInv, [Next]_vars
      PROVE  Back
  <2>. SUFFICES ASSUME page = "records", gone, view.shown.state # "listed",
                       view'.shown.state = "listed"
                PROVE  /\ view'.shown.version < own
                       /\ \E q \in Request :
                            /\ req'[q] = Idle
                            /\ \/ At(q, "loaded")
                               \/ At(q, "answered") /\ req[q].op = "createRecord"
    OBVIOUS
  <2>1. Kinds /\ TypeOK /\ Followed /\ OpsInv
    BY <1>1, StepKinds, FollowedTypes DEF FollowedInv
  <2>2. PICK q \in Request : ShowLoad(q) \/ PatchRecords(q)
    <3>1. view' # view
      OBVIOUS
    <3>2. ~\E op \in FormOps : Opens(op)
      BY <3>1 DEF Opens
    <3>3. ~Close /\ ~UNCHANGED vars /\ ~\E s \in RowState : Elsewhere(s)
      BY <3>1 DEF Close, vars, client, Elsewhere
    <3>4. ASSUME NEW q \in Request, SendStep(q) PROVE FALSE
      <4>1. Serves(q) => Serve(q)
        BY <2>1, ServeTurns
      <4>. QED
        BY <3>1, <3>4, <4>1
        DEF SendStep, Submits, Posts, CreateGuest, Check, Serve, Deny, client
    <3>5. ASSUME NEW q \in Request, AnswerStep(q) PROVE PatchRecords(q)
      BY <3>1, <3>5 DEF AnswerStep, Answer, Refuse, Lose
    <3>6. ASSUME NEW q \in Request, LoadStep(q) PROVE ShowLoad(q)
      <4>1. ~Filters(q)
        BY <2>1, FilterTurns
      <4>. QED
        BY <3>1, <3>6, <4>1
        DEF LoadStep, LoadProperties, LoseProperties, Reads, ServeSeed, FailLoad, client
    <3>. QED  BY <2>1, <3>2, <3>3, <3>4, <3>5, <3>6 DEF Kinds
  <2>3. req'[q] = Idle
    BY <2>1, <2>2, IdleTurns DEF Turns
  <2>4. CASE ShowLoad(q)
    <3>1. At(q, "loaded") /\ view'.shown = req[q].shown
      BY <2>4 DEF ShowLoad
    <3>2. Brings(req[q])
      BY <3>1 DEF Brings, At, LoadStage
    <3>3. req[q].shown.version < own
      BY <2>1, <3>2 DEF Followed
    <3>. QED  BY <2>3, <3>1, <3>3
  <2>5. CASE PatchRecords(q)
    <3>1. Patches(q) /\ view'.shown = req[q].shown
      BY <2>1, <2>5, PatchedView
    <3>2. At(q, "answered") /\ req[q].at = "answered"
      BY <2>5 DEF PatchRecords, At
    <3>3. req[q].op \in {"createRecord", "updateRecord", "removeRecord"}
      BY <2>1, <3>2, RecordOps
    <3>4. req[q].op # "updateRecord"
      BY <3>1 DEF Patches
    <3>5. req[q].op # "removeRecord"
      BY <2>1, <3>1, <3>2 DEF Followed, Removed
    <3>6. Brings(req[q])
      BY <3>2, <3>3, <3>4, <3>5 DEF Brings
    <3>7. req[q].shown.version < own
      BY <2>1, <3>6 DEF Followed
    <3>. QED  BY <2>3, <3>1, <3>2, <3>3, <3>4, <3>5, <3>7
  <2>. QED  BY <2>2, <2>4, <2>5
<1>2. FollowedInv /\ [Next]_vars => [Back]_vars
  BY <1>1
<1>. QED  BY <1>2, FollowedInit, FollowedNext, PTL DEF Spec, RemovedStaysRemoved

-----------------------------------------------------------------------------
(* What the latest load tells. *)

\* of a load under way or of the view it became
Latest(v) == v.last => (v.by = "filter" => v.filter = filter) /\ own <= v.since
Tells(v)  == row.version = v.since /\ v.shown # Unseen => v.shown = row

LoadsTell ==
  /\ view.by # "patch" => Latest(view) /\ Tells(view)
  /\ \A q \in Request :
       /\ req[q].at \in LoadStage => Latest(req[q]) /\ Tells(req[q])
       /\ req[q].at \in {"asked", "seeding"} => req[q].shown = Unseen

TellsInv == VersionsInv /\ ListInv /\ LoadsTell

(* Whatever is under way in another request stays true, unless the filter  *)
(* or what the page has heard of changes and the load is outdated.         *)
LEMMA TellsOthers ==
  ASSUME TellsInv, NEW q \in Request, NEW s, Turns(q, s),
         row' = row \/ (row'.version \in Nat /\ row'.version = row.version + 1),
         \/ filter' = filter /\ own' = own
         \/ \A x \in Request \ {q} : req[x].at \in LoadStage => ~req'[x].last,
         NEW x \in Request \ {q}
  PROVE  /\ req'[x].at \in LoadStage => Latest(req[x])' /\ Tells(req[x])'
         /\ req'[x].at \in {"asked", "seeding"} => req'[x].shown = Unseen
<1>1. Same(x) /\ KnownTo(req[x], row.version) /\ TypeOK /\ row.version \in Nat
  BY VersionTypes
  DEF Turns, TellsInv, VersionsInv, VersionsKnown, TypeInv
<1>2. ASSUME req[x].at \in LoadStage
      PROVE  Latest(req[x])' /\ Tells(req[x])'
  <2>1. /\ Latest(req[x]) /\ Tells(req[x])
        /\ req'[x].filter = req[x].filter /\ req'[x].by = req[x].by
        /\ req'[x].since = req[x].since /\ req'[x].shown = req[x].shown
        /\ req'[x].last => req[x].last
    BY <1>1, <1>2 DEF Same, TellsInv, LoadsTell
  <2>2. req[x].since <= row.version /\ req[x].since \in Nat
    BY <1>1, <1>2, RequestKinds DEF KnownTo, Loading
  <2>3. Latest(req[x])'
    BY <1>2, <2>1 DEF Latest
  <2>4. row' = row \/ row'.version # req[x].since
    BY <1>1, <2>2
  <2>5. Tells(req[x])'
    BY <2>1, <2>4 DEF Tells
  <2>. QED  BY <2>3, <2>5
<1>3. req'[x].at = req[x].at
  BY <1>1 DEF Same
<1>4. req'[x].at \in {"asked", "seeding"} => req'[x].shown = Unseen
  BY <1>1, <1>3 DEF Same, TellsInv, LoadsTell, LoadStage
<1>. QED  BY <1>2, <1>3, <1>4

(* A request turns into something that tells as well. *)
LEMMA TellsTurn ==
  ASSUME TellsInv, NEW q \in Request, NEW s, Turns(q, s),
         row' = row \/ (row'.version \in Nat /\ row'.version = row.version + 1),
         \/ filter' = filter /\ own' = own
         \/ \A x \in Request \ {q} : req[x].at \in LoadStage => ~req'[x].last,
         view'.by # "patch" => Latest(view)' /\ Tells(view)',
         s.at \in LoadStage => Latest(s)' /\ Tells(s)',
         s.at \in {"asked", "seeding"} => s.shown = Unseen
  PROVE  LoadsTell'
<1>1. req'[q] = s
  BY DEF Turns
<1>2. /\ req'[q].at \in LoadStage => Latest(req[q])' /\ Tells(req[q])'
      /\ req'[q].at \in {"asked", "seeding"} => req'[q].shown = Unseen
  BY <1>1 DEF Latest, Tells
<1>3. \A x \in Request :
        /\ req'[x].at \in LoadStage => Latest(req[x])' /\ Tells(req[x])'
        /\ req'[x].at \in {"asked", "seeding"} => req'[x].shown = Unseen
  BY <1>2, TellsOthers
<1>. QED  BY <1>3 DEF LoadsTell

LEMMA TellsView ==
  ASSUME TellsInv, row' = row \/ (row'.version \in Nat /\ row'.version = row.version + 1),
         view'.since = view.since, view'.shown = view.shown, view'.by = view.by
  PROVE  /\ view.by # "patch" => Tells(view)'
         /\ ~view'.last => Latest(view)'
         /\ view' = view /\ filter' = filter /\ own' = own /\ view'.by # "patch" => Latest(view)'
<1>1. view.since <= row.version /\ view.since \in Nat /\ row.version \in Nat
  BY VersionTypes DEF TellsInv, VersionsInv, VersionsKnown
<1>2. row' = row \/ row'.version # view.since
  BY <1>1
<1>3. view.by # "patch" => Tells(view)'
  BY <1>2 DEF TellsInv, LoadsTell, Tells
<1>. QED  BY <1>3 DEF TellsInv, LoadsTell, Latest

LEMMA TellsLoads ==
  ASSUME TellsInv, NEW q \in Request, LoadStep(q)
  PROVE  LoadsTell'
<1>. USE DEF TellsInv
<1>1. /\ TypeOK /\ row.version \in Nat /\ own \in Nat /\ own <= row.version
      /\ KnownTo(req[q], row.version)
  BY VersionTypes DEF VersionsInv, VersionsKnown, TypeInv
<1>2. \A s \in {Idle, Finding} : s.at \notin LoadStage /\ s.at \notin {"asked", "seeding"}
  BY DEF Idle, Finding, LoadStage
<1>3. req[q].at \in LoadStage =>
        /\ Latest(req[q]) /\ Tells(req[q])
        /\ req[q].at \in {"asked", "seeding"} => req[q].shown = Unseen
  BY DEF LoadsTell
<1>4. ASSUME LoadProperties(q) \/ LoseProperties(q) \/ FailLoad(q)
      PROVE  LoadsTell'
  <2>1. Turns(q, Idle) \/ Turns(q, Finding)
    BY <1>1, <1>4, FindTurns, IdleTurns
  <2>2. UNCHANGED <<row, filter, view, own>>
    BY <1>4 DEF LoadProperties, LoseProperties, FailLoad, client, history
  <2>3. view'.by # "patch" => Latest(view)' /\ Tells(view)'
    BY <2>2, TellsView
  <2>. QED  BY <1>2, <2>1, <2>2, <2>3, TellsTurn
<1>5. ASSUME Filters(q)
      PROVE  LoadsTell'
  <2>1. PICK s \in Loading : /\ Turns(q, s)
                             /\ s.at = "asked" /\ s.by = "filter" /\ s.filter = filter'
                             /\ s.since = row.version /\ s.shown = Unseen
    BY <1>1, <1>5, FilterTurns
  <2>2. UNCHANGED <<row, own>>
    BY <1>5 DEF Filters, history
  <2>3. /\ view'.since = view.since /\ view'.shown = view.shown /\ view'.by = view.by
        /\ ~view'.last
        /\ \A x \in Request \ {q} : req[x].at \in LoadStage => ~req'[x].last
    BY <1>1, <1>5, FilterTurns
  <2>4. view'.by # "patch" => Latest(view)' /\ Tells(view)'
    BY <2>2, <2>3, TellsView
  <2>5. Latest(s)' /\ Tells(s)'
    BY <1>1, <2>1, <2>2 DEF Latest, Tells
  <2>. QED  BY <2>1, <2>2, <2>3, <2>4, <2>5, TellsTurn
<1>6. ASSUME Reads(q)
      PROVE  LoadsTell'
  <2>1. PICK s \in Loading :
          /\ Turns(q, s)
          /\ s.filter = req[q].filter /\ s.by = req[q].by
          /\ s.last = req[q].last /\ s.since = req[q].since
          /\ s.shown \in {row, req[q].shown, Unseen}
          /\ s.at # "asked"
          /\ s.at = "seeding" => At(q, "asked") /\ s.shown = req[q].shown
    BY <1>1, <1>6, ReadTurns
  <2>2. UNCHANGED <<row, filter, view, own>> /\ req[q].at \in LoadStage
    BY <1>6 DEF Reads, client, history
  <2>3. view'.by # "patch" => Latest(view)' /\ Tells(view)'
    BY <2>2, TellsView
  <2>4. Latest(s)'
    BY <1>3, <2>1, <2>2 DEF Latest
  <2>5. Tells(s)'
    BY <1>3, <2>1, <2>2 DEF Tells
  <2>6. s.at \in {"asked", "seeding"} => s.shown = Unseen
    BY <1>3, <2>1, <2>2 DEF At
  <2>. QED  BY <2>1, <2>2, <2>3, <2>4, <2>5, <2>6, TellsTurn
<1>7. ASSUME ServeSeed(q)
      PROVE  LoadsTell'
  <2>1. PICK s \in Loading :
          /\ Turns(q, s)
          /\ s.filter = req[q].filter /\ s.by = req[q].by
          /\ s.last = req[q].last /\ s.since = row'.version
          /\ s.shown = req[q].shown
    BY <1>1, <1>7, SeedTurns
  <2>2. UNCHANGED <<filter, view, own>> /\ req[q].at = "seeding" /\ req[q].at \in LoadStage
    BY <1>7 DEF ServeSeed, client, history, At, LoadStage
  <2>3. row' \in Row /\ (row' = row \/ row'.version = row.version + 1)
    BY <1>1, <1>7, SeedTurns
  <2>4. row' = row \/ (row'.version \in Nat /\ row'.version = row.version + 1)
    BY <2>3 DEF Row
  <2>5. view'.by # "patch" => Latest(view)' /\ Tells(view)'
    BY <2>2, <2>4, TellsView
  <2>6. s.shown = Unseen
    BY <1>3, <2>1, <2>2
  <2>7. Tells(s)'
    BY <2>6 DEF Tells
  <2>8. own <= row'.version
    BY <1>1, <2>4
  <2>9. Latest(s)'
    BY <1>3, <2>1, <2>2, <2>8 DEF Latest
  <2>. QED  BY <2>1, <2>2, <2>4, <2>5, <2>6, <2>7, <2>9, TellsTurn
<1>8. ASSUME ShowLoad(q)
      PROVE  LoadsTell'
  <2>1. Turns(q, Idle) /\ UNCHANGED <<row, filter, own>> /\ req[q].at \in LoadStage
    BY <1>1, <1>8, IdleTurns DEF ShowLoad, history, At, LoadStage
  <2>2. view' = [filter |-> req[q].filter, by |-> req[q].by, last |-> req[q].last,
                 since |-> req[q].since, shown |-> req[q].shown]
    BY <1>8 DEF ShowLoad
  <2>3. Tells(view)'
    BY <1>3, <2>1, <2>2 DEF Tells
  <2>4. Latest(view)'
    BY <1>3, <2>1, <2>2 DEF Latest
  <2>. QED  BY <1>2, <2>1, <2>3, <2>4, TellsTurn
<1>. QED  BY <1>4, <1>5, <1>6, <1>7, <1>8 DEF LoadStep

LEMMA TellsSends ==
  ASSUME TellsInv, NEW q \in Request, SendStep(q)
  PROVE  LoadsTell'
<1>. USE DEF TellsInv
<1>1. TypeOK /\ TypeInv /\ row.version \in Nat
  BY VersionTypes DEF VersionsInv, TypeInv
<1>2. \A s \in Sent \cup Answered \cup {Idle} :
        s.at \notin LoadStage /\ s.at \notin {"asked", "seeding"}
  BY DEF Sent, Answered, Idle, LoadStage
<1>3. Serves(q) => Serve(q)
  BY <1>1, ServeTurns
<1>4. UNCHANGED <<filter, view, own>>
  BY <1>3 DEF SendStep, Submits, Posts, CreateGuest, Check, Serve, Deny, client, history
<1>5. row' = row \/ (row'.version \in Nat /\ row'.version = row.version + 1)
  <2>1. CASE Serves(q)
    <3>1. row' \in Row /\ (row' = row \/ row'.version = row.version + 1)
      BY <1>1, <2>1, ServeTurns
    <3>. QED  BY <3>1 DEF Row
  <2>2. CASE ~Serves(q)
    BY <2>2 DEF SendStep, Submits, Posts, CreateGuest, Check, Deny
  <2>. QED  BY <2>1, <2>2
<1>6. \E s \in Sent \cup Answered \cup {Idle} : Turns(q, s)
  <2>1. CASE Submits(q)
    BY <1>1, <2>1, SubmitTurns
  <2>2. CASE \E op \in QuickOps : Posts(q, op)
    BY <1>1, <2>2, PostTurns
  <2>3. CASE CreateGuest(q) \/ Check(q)
    BY <1>1, <2>3, StageTurns
  <2>4. CASE Deny(q)
    BY <1>1, <2>4, DenyTurns
  <2>5. CASE Serves(q)
    BY <1>1, <2>5, ServeTurns
  <2>. QED  BY <2>1, <2>2, <2>3, <2>4, <2>5 DEF SendStep
<1>7. view'.by # "patch" => Latest(view)' /\ Tells(view)'
  BY <1>4, <1>5, TellsView
<1>. QED  BY <1>2, <1>4, <1>5, <1>6, <1>7, TellsTurn

LEMMA TellsAnswers ==
  ASSUME TellsInv, NEW q \in Request, AnswerStep(q)
  PROVE  LoadsTell'
<1>. USE DEF TellsInv
<1>1. /\ TypeOK /\ VersionsInv
      /\ row.version \in Nat /\ own \in Nat /\ own <= row.version
  BY VersionTypes DEF VersionsInv, VersionsKnown, TypeInv
<1>2. Idle.at \notin LoadStage /\ Idle.at \notin {"asked", "seeding"}
  BY DEF Idle, LoadStage
<1>3. ASSUME Answer(q)
      PROVE  LoadsTell'
  <2>1. PICK s \in Loading : /\ Turns(q, s)
                             /\ s.at = "asked" /\ s.by = "submit"
                             /\ s.since = row.version /\ s.shown = Unseen
    BY <1>1, <1>3, AnswerTurns
  <2>2. row' = row /\ own' <= row.version
    BY <1>1, <1>3, HeardKnown DEF Answer
  <2>3. /\ view'.since = view.since /\ view'.shown = view.shown /\ view'.by = view.by
        /\ ~view'.last
        /\ \A x \in Request \ {q} : req[x].at \in LoadStage => ~req'[x].last
    BY <1>1, <1>3, AnswerTurns
  <2>4. view'.by # "patch" => Latest(view)' /\ Tells(view)'
    BY <2>2, <2>3, TellsView
  <2>5. Latest(s)' /\ Tells(s)'
    BY <2>1, <2>2 DEF Latest, Tells
  <2>. QED  BY <2>1, <2>2, <2>3, <2>4, <2>5, TellsTurn
<1>4. ASSUME PatchRecords(q)
      PROVE  LoadsTell'
  <2>1. /\ page = "records" /\ row' = row /\ filter' = filter /\ At(q, "answered")
        /\ Outdate(q, Idle)
    BY <1>4 DEF PatchRecords
  <2>2. /\ Turns(q, Idle)
        /\ \A x \in Request \ {q} : req[x].at \in LoadStage => ~req'[x].last
    <3>1. Idle \in AnyRequest
      BY DEF AnyRequest
    <3>. QED  BY <1>1, <2>1, <3>1, OutdateTurns
  <2>3. CASE Patches(q)
    <3>1. view'.by = "patch" /\ view'.shown = req[q].shown /\ view'.since = req[q].shown.version
      BY <1>1, <1>4, <2>3, PatchedView
    <3>. QED  BY <1>2, <2>1, <2>2, <3>1, TellsTurn
  <2>4. CASE ~Patches(q)
    <3>1. view' = view
      BY <1>1, <1>4, <2>4, PatchedView
    <3>2. Changing(req[q]) /\ view.shown.state # "listed"
      BY <2>1, <2>4 DEF Patches, Changing, At
    <3>3. view.by = "patch" \/ ~view.last
      BY <2>1, <3>2 DEF ListInv, ListKept, Shows
    <3>4. view'.by # "patch" => Latest(view)' /\ Tells(view)'
      BY <2>1, <3>1, <3>3, TellsView
    <3>. QED  BY <1>2, <2>1, <2>2, <3>1, <3>3, <3>4, TellsTurn
  <2>. QED  BY <2>3, <2>4
<1>5. ASSUME Refuse(q) \/ Lose(q)
      PROVE  LoadsTell'
  <2>1. UNCHANGED <<row, filter, view, own>>
    BY <1>5 DEF Refuse, Lose, history
  <2>2. PICK s \in Sent \cup {Idle} : Turns(q, s)
    BY <1>1, <1>5, IdleTurns, LoseTurns
  <2>3. s.at \notin LoadStage /\ s.at \notin {"asked", "seeding"}
    BY <2>2 DEF Sent, Idle, LoadStage
  <2>4. view'.by # "patch" => Latest(view)' /\ Tells(view)'
    BY <2>1, TellsView
  <2>. QED  BY <2>1, <2>2, <2>3, <2>4, TellsTurn
<1>. QED  BY <1>3, <1>4, <1>5 DEF AnswerStep

LEMMA TellsNext == TellsInv /\ [Next]_vars => TellsInv'
<1>. SUFFICES ASSUME TellsInv, [Next]_vars PROVE TellsInv'
  OBVIOUS
<1>1. VersionsInv' /\ ListInv' /\ Kinds /\ TypeOK /\ row.version \in Nat
  BY VersionsNext, ListNext, StepKinds, VersionTypes DEF TellsInv, VersionsInv, TypeInv
<1>2. ASSUME UNCHANGED <<row, filter, view, req, own>>
      PROVE  LoadsTell'
  BY <1>2 DEF TellsInv, LoadsTell, Latest, Tells, At
<1>3. ASSUME NEW s \in RowState, Elsewhere(s)
      PROVE  LoadsTell'
  <2>1. row'.version = row.version + 1 /\ row'.version \in Nat
    BY <1>1, <1>3 DEF Elsewhere
  <2>2. UNCHANGED <<filter, view, req, own>>
    BY <1>3 DEF Elsewhere, client, history
  <2>3. view'.by # "patch" => Latest(view)' /\ Tells(view)'
    BY <2>1, <2>2, TellsView
  <2>4. ASSUME NEW q \in Request, req[q].at \in LoadStage
        PROVE  Latest(req[q])' /\ Tells(req[q])'
    <3>1. KnownTo(req[q], row.version)
      BY DEF TellsInv, VersionsInv, VersionsKnown
    <3>2. Latest(req[q]) /\ req[q].since <= row.version /\ req[q].since \in Nat
      BY <1>1, <2>4, <3>1, RequestKinds DEF TellsInv, LoadsTell, KnownTo, Loading
    <3>3. req[q].since # row'.version
      BY <1>1, <2>1, <3>2
    <3>. QED  BY <2>2, <3>2, <3>3 DEF Latest, Tells
  <2>5. \A q \in Request : req'[q].at \in {"asked", "seeding"} => req'[q].shown = Unseen
    BY <2>2 DEF TellsInv, LoadsTell
  <2>. QED  BY <2>2, <2>3, <2>4, <2>5 DEF LoadsTell, At
<1>4. LoadsTell'
  BY <1>1, <1>2, <1>3, TellsLoads, TellsSends, TellsAnswers
  DEF Kinds, Opens, Close, vars, client, history
<1>. QED  BY <1>1, <1>4 DEF TellsInv

(* A page whose latest load was shown last shows what was chosen and asked *)
(* for, and the row as it is unless it was changed since the load began    *)
(* (loadTimeline, loadOverview, loadWorkspace).                            *)
THEOREM LatestLoadTellsHolds == Spec => []LatestLoadTells
<1>1. Init => TellsInv
  <2>. SUFFICES ASSUME Init PROVE TellsInv
    OBVIOUS
  <2>1. Tells(view) /\ Latest(view)
    BY DEF Init, Tells, Latest
  <2>2. \A q \in Request : req[q] = Idle /\ Idle.at = "idle"
    BY DEF Init, Idle
  <2>. QED  BY <2>1, <2>2, VersionsInit, ListInit DEF TellsInv, LoadsTell, LoadStage
<1>2. TellsInv => LatestLoadTells
  BY DEF TellsInv, LoadsTell, Latest, Tells, LatestLoadTells
<1>. QED  BY <1>1, <1>2, TellsNext, PTL DEF Spec

-----------------------------------------------------------------------------
(* A form has its effect once. *)

\* may still have an effect, whether or not somebody waits for it
Acts(r, f)    == r.at \in {"guest", "sent", "checked"} /\ r.id = f
Carries(r, f) == r.at \in SentStage \cup {"answered"} /\ r.id = f

\* keeps the form from being sent again
Waits(r, f) ==
  /\ r.id = f
  /\ \/ r.at \in {"guest", "answered"}
     \/ r.at \in {"sent", "checked"} /\ r.awaited

Pending(f) == {q \in Request : Acts(req[q], f)}
Still(f)   == Cardinality(Pending(f))
Free(f)    == form.id = f /\ \A q \in Request : ~Waits(req[q], f)

(* An effect is done, still to come, or - unless the form is free to be    *)
(* sent again - was not asked for.                                         *)
Counted(f) ==
  page # "records" =>
    /\ log[f].done + Still(f) <= 1 + log[f].lost
    /\ Free(f) => log[f].done + Still(f) <= log[f].lost

Unused(f) ==
  log[f].form = "none" =>
    /\ log[f].done = 0 /\ form.id # f
    /\ \A q \in Request : ~Carries(req[q], f)

(* The version that a move knows is past once the move was accepted.       *)
Spent(r, f) == r.op = "move" /\ (log[f].done = 1 => r.seen < row.version)

MoveOnce(f) ==
  log[f].form = "move" =>
    /\ log[f].done <= 1
    /\ form.id = f => Spent(form, f)
    /\ \A q \in Request : Acts(req[q], f) => Spent(req[q], f)

EffectsInv ==
  /\ FlagInv /\ OpsInv /\ VersionsInv
  /\ \A f \in FormId : Unused(f) /\ Counted(f) /\ MoveOnce(f)

LEMMA EffectTypes ==
  ASSUME EffectsInv, NEW f \in FormId
  PROVE  /\ TypeOK /\ TypeInv
         /\ log[f].done \in Nat /\ log[f].lost \in Nat /\ row.version \in Nat
         /\ f # 0 /\ NoForm.id # f
         /\ form.id = f => form \in Form /\ form # NoForm /\ form.seen \in Nat
         /\ \A q \in Request : Acts(req[q], f) =>
              req[q].seen \in Nat /\ req[q].seen <= row.version
<1>1. TypeOK /\ TypeInv
  BY DEF EffectsInv, VersionsInv, TypeInv
<1>2. /\ log[f] \in Outcome /\ row \in Row /\ form \in Form \cup {NoForm}
      /\ f # 0 /\ NoForm.id # f
  BY <1>1, BoundsAssumption DEF TypeOK, NoForm
<1>3. form.id = f => form \in Form /\ form # NoForm
  BY <1>2
<1>4. ASSUME NEW q \in Request, Acts(req[q], f)
      PROVE  req[q].seen \in Nat /\ req[q].seen <= row.version
  <2>1. req[q].at \in SentStage
    BY <1>4 DEF Acts, SentStage
  <2>2. req[q] \in Sent
    BY <1>1, <2>1, RequestKinds
  <2>. QED  BY <2>1, <2>2 DEF EffectsInv, VersionsInv, VersionsKnown, KnownTo, Sent
<1>. QED  BY <1>1, <1>2, <1>3, <1>4 DEF Outcome, Row, Form

LEMMA OneMoves ==
  ASSUME NEW S \in SUBSET Request, NEW T \in SUBSET Request, NEW q \in Request,
         \A x \in Request \ {q} : x \in S <=> x \in T
  PROVE  /\ Cardinality(S) \in Nat /\ Cardinality(T) \in Nat
         /\ q \in S /\ q \notin T => Cardinality(T) = Cardinality(S) - 1
         /\ q \notin S /\ q \in T => Cardinality(T) = Cardinality(S) + 1
         /\ (q \in S <=> q \in T) => T = S
<1>1. /\ IsFiniteSet(S) /\ IsFiniteSet(T)
      /\ Cardinality(S) \in Nat /\ Cardinality(T) \in Nat
  BY RequestAssumption, FS_Subset, FS_CardinalityType
<1>2. CASE q \in S /\ q \notin T
  <2>1. T = S \ {q}
    BY <1>2
  <2>. QED  BY <1>1, <1>2, <2>1, FS_RemoveElement
<1>3. CASE q \notin S /\ q \in T
  <2>1. T = S \cup {q}
    BY <1>3
  <2>. QED  BY <1>1, <1>3, <2>1, FS_AddElement
<1>4. CASE q \in S <=> q \in T
  BY <1>1, <1>4
<1>. QED  BY <1>2, <1>3, <1>4

(* What a step of one request does to those that act and those that wait.  *)
LEMMA ActsTurn ==
  ASSUME NEW q \in Request, NEW s, Turns(q, s), NEW f \in FormId
  PROVE  /\ Still(f) \in Nat /\ Still(f)' \in Nat
         /\ Acts(s, f) /\ ~Acts(req[q], f) => Still(f)' = Still(f) + 1
         /\ ~Acts(s, f) /\ Acts(req[q], f) => Still(f)' = Still(f) - 1
         /\ (Acts(s, f) <=> Acts(req[q], f)) => Still(f)' = Still(f)
<1>. DEFINE T == {x \in Request : Acts(req'[x], f)}
<1>1. req'[q] = s
  BY DEF Turns
<1>2. \A x \in Request \ {q} : Acts(req'[x], f) <=> Acts(req[x], f)
  BY DEF Turns, Same, Acts, LoadStage
<1>3. Still(f)' = Cardinality(T)
  BY DEF Still, Pending, Acts
<1>4. /\ Pending(f) \in SUBSET Request /\ T \in SUBSET Request
      /\ \A x \in Request \ {q} : x \in Pending(f) <=> x \in T
      /\ q \in Pending(f) <=> Acts(req[q], f)
      /\ q \in T <=> Acts(s, f)
  BY <1>1, <1>2 DEF Pending
<1>. HIDE DEF T
<1>. QED  BY <1>3, <1>4, OneMoves DEF Still

LEMMA FreeTurn ==
  ASSUME NEW q \in Request, NEW s, Turns(q, s), NEW f \in FormId, NoForm.id # f,
         form' = form \/ form' = NoForm
  PROVE  /\ Free(f)' => form' = form /\ (Free(f) \/ Waits(req[q], f))
         /\ Waits(s, f) => ~Free(f)'
<1>1. req'[q] = s
  BY DEF Turns
<1>2. \A x \in Request \ {q} : Waits(req'[x], f) <=> Waits(req[x], f)
  BY DEF Turns, Same, Waits, LoadStage
<1>3. \A x \in Request : Waits(req[x], f)' <=> Waits(req'[x], f)
  BY DEF Waits
<1>. QED  BY <1>1, <1>2, <1>3 DEF Free

(* The four ways to count: nothing is added, an answer is lost, an effect  *)
(* is done, a form that is free is sent.                                   *)
LEMMA CountedTurn ==
  ASSUME EffectsInv, NEW f \in FormId, NEW q \in Request, NEW s, Turns(q, s),
         page' = page, form' = form \/ form' = NoForm,
         log'[f].done \in Nat, log'[f].lost \in Nat,
         page # "records" =>
           \/ /\ log'[f].done = log[f].done /\ log'[f].lost = log[f].lost
              /\ Acts(s, f) => Acts(req[q], f)
              /\ Waits(req[q], f) => \/ Waits(s, f) \/ form'.id # f
                                     \/ Acts(req[q], f) /\ ~Acts(s, f)
           \/ /\ log'[f].done = log[f].done /\ log'[f].lost = log[f].lost + 1
              /\ Acts(s, f) => Acts(req[q], f)
           \/ /\ log'[f].done = log[f].done + 1 /\ log'[f].lost = log[f].lost
              /\ Acts(req[q], f) /\ ~Acts(s, f)
              /\ Waits(req[q], f) => Waits(s, f)
           \/ /\ log'[f].done = log[f].done /\ log'[f].lost = log[f].lost
              /\ Free(f) /\ Waits(s, f)
  PROVE  Counted(f)'
<1>. SUFFICES ASSUME page # "records"
              PROVE  /\ log'[f].done + Still(f)' <= 1 + log'[f].lost
                     /\ Free(f)' => log'[f].done + Still(f)' <= log'[f].lost
  BY DEF Counted
<1>1. /\ log[f].done \in Nat /\ log[f].lost \in Nat /\ NoForm.id # f
      /\ log[f].done + Still(f) <= 1 + log[f].lost
      /\ Free(f) => log[f].done + Still(f) <= log[f].lost
  BY EffectTypes DEF EffectsInv, Counted
<1>2. /\ Still(f) \in Nat /\ Still(f)' \in Nat
      /\ Acts(s, f) /\ ~Acts(req[q], f) => Still(f)' = Still(f) + 1
      /\ ~Acts(s, f) /\ Acts(req[q], f) => Still(f)' = Still(f) - 1
      /\ (Acts(s, f) <=> Acts(req[q], f)) => Still(f)' = Still(f)
  BY ActsTurn
<1>3. /\ Free(f)' => form'.id = f /\ (Free(f) \/ Waits(req[q], f))
      /\ Waits(s, f) => ~Free(f)'
  BY <1>1, FreeTurn DEF Free
<1>4. CASE /\ log'[f].done = log[f].done /\ log'[f].lost = log[f].lost
           /\ Acts(s, f) => Acts(req[q], f)
           /\ Waits(req[q], f) => \/ Waits(s, f) \/ form'.id # f
                                  \/ Acts(req[q], f) /\ ~Acts(s, f)
  <2>1. Still(f)' <= Still(f)
    BY <1>2, <1>4
  <2>2. Free(f)' => Free(f) \/ Still(f)' = Still(f) - 1
    BY <1>2, <1>3, <1>4
  <2>. QED  BY <1>1, <1>2, <1>4, <2>1, <2>2
<1>5. CASE /\ log'[f].done = log[f].done /\ log'[f].lost = log[f].lost + 1
           /\ Acts(s, f) => Acts(req[q], f)
  <2>1. Still(f)' <= Still(f)
    BY <1>2, <1>5
  <2>. QED  BY <1>1, <1>2, <1>5, <2>1
<1>6. CASE /\ log'[f].done = log[f].done + 1 /\ log'[f].lost = log[f].lost
           /\ Acts(req[q], f) /\ ~Acts(s, f)
           /\ Waits(req[q], f) => Waits(s, f)
  <2>1. Free(f)' => Free(f)
    BY <1>3, <1>6
  <2>. QED  BY <1>1, <1>2, <1>6, <2>1
<1>7. CASE /\ log'[f].done = log[f].done /\ log'[f].lost = log[f].lost
           /\ Free(f) /\ Waits(s, f)
  <2>1. Still(f)' <= Still(f) + 1 /\ ~Free(f)'
    BY <1>2, <1>3, <1>7
  <2>. QED  BY <1>1, <1>2, <1>7, <2>1
<1>. QED  BY <1>4, <1>5, <1>6, <1>7

LEMMA UnusedTurn ==
  ASSUME NEW f \in FormId, Unused(f), NEW q \in Request, NEW s, Turns(q, s), NoForm.id # f,
         form' = form \/ form' = NoForm, log'[f].form = log[f].form,
         log'[f].done = log[f].done \/ Carries(req[q], f),
         Carries(s, f) => form.id = f \/ Carries(req[q], f)
  PROVE  Unused(f)'
<1>. SUFFICES ASSUME log[f].form = "none"
              PROVE  /\ log'[f].done = 0 /\ form'.id # f
                     /\ \A x \in Request : ~Carries(req'[x], f)
  BY DEF Unused, Carries
<1>1. /\ log[f].done = 0 /\ form.id # f
      /\ \A x \in Request : ~Carries(req[x], f)
  BY DEF Unused
<1>2. req'[q] = s /\ \A x \in Request \ {q} : Carries(req'[x], f) => Carries(req[x], f)
  BY DEF Turns, Same, Carries, LoadStage, SentStage
<1>. QED  BY <1>1, <1>2

LEMMA MoveTurn ==
  ASSUME EffectsInv, NEW f \in FormId, NEW q \in Request, NEW s, Turns(q, s),
         row'.version \in Nat, row.version <= row'.version,
         form' = form \/ form' = NoForm,
         log'[f].form = log[f].form, log'[f].done = log[f].done,
         Acts(s, f) => \/ form.id = f /\ s.op = form.op /\ s.seen = form.seen
                       \/ /\ Acts(req[q], f) /\ s.op = req[q].op
                          /\ s.op = "move" => s.seen = req[q].seen
  PROVE  MoveOnce(f)'
<1>. SUFFICES ASSUME log[f].form = "move"
              PROVE  /\ log'[f].done <= 1
                     /\ form'.id = f => Spent(form, f)'
                     /\ \A x \in Request : Acts(req'[x], f) => Spent(req[x], f)'
  BY DEF MoveOnce, Acts
<1>1. /\ log[f].done <= 1
      /\ form.id = f => Spent(form, f)
      /\ \A x \in Request : Acts(req[x], f) => Spent(req[x], f)
  BY DEF EffectsInv, MoveOnce
<1>2. /\ row.version \in Nat /\ NoForm.id # f
      /\ form.id = f => form.seen \in Nat
      /\ \A x \in Request : Acts(req[x], f) => req[x].seen \in Nat
  BY EffectTypes
<1>3. ASSUME NEW seen \in Nat, log[f].done = 1 => seen < row.version
      PROVE  log[f].done = 1 => seen < row'.version
  BY <1>2, <1>3
<1>4. form'.id = f => Spent(form, f)'
  <2>. SUFFICES ASSUME form'.id = f PROVE Spent(form, f)'
    OBVIOUS
  <2>1. form' = form /\ form.seen \in Nat /\ Spent(form, f)
    BY <1>1, <1>2
  <2>. QED  BY <1>3, <2>1 DEF Spent
<1>5. ASSUME NEW x \in Request, Acts(req'[x], f)
      PROVE  Spent(req[x], f)'
  <2>1. PICK seen \in Nat : /\ req'[x].seen = seen /\ req'[x].op = "move"
                            /\ log[f].done = 1 => seen < row.version
    <3>1. CASE x # q
      <4>1. req'[x] = req[x] /\ Acts(req[x], f)
        BY <1>5, <3>1 DEF Turns, Same, Acts, LoadStage
      <4>. QED  BY <1>1, <1>2, <4>1 DEF Spent
    <3>2. CASE x = q
      <4>1. req'[x] = s /\ Acts(s, f)
        BY <1>5, <3>2 DEF Turns
      <4>. QED  BY <1>1, <1>2, <4>1 DEF Spent
    <3>. QED  BY <3>1, <3>2
  <2>. QED  BY <1>3, <2>1 DEF Spent
<1>. QED  BY <1>1, <1>4, <1>5

(* Other forms than those of the calendar and the desk are of records.     *)
LEMMA FormPages ==
  ASSUME EffectsInv, NEW f \in FormId,
         form.id = f \/ \E q \in Request : Carries(req[q], f)
  PROVE  page \in {"calendar", "desk", "records"}
<1>1. FormsOn("rates") = {} /\ page \in Page /\ f # 0
  BY EffectTypes DEF FormsOn, TypeOK
<1>2. FormsOn(page) # {}
  <2>1. CASE form.id = f
    BY <2>1, EffectTypes DEF EffectsInv, OpsInv, OpsFit
  <2>2. ASSUME NEW q \in Request, Carries(req[q], f)
        PROVE  FormsOn(page) # {}
    BY <1>1, <2>2 DEF Carries, EffectsInv, OpsInv, OpsFit, OpFits
  <2>. QED  BY <2>1, <2>2
<1>. QED  BY <1>1, <1>2 DEF Page

EffectOnce(f) == Unused(f) /\ Counted(f) /\ MoveOnce(f)

(* Nothing is logged in this step, and none of the row's versions is taken *)
(* back.                                                                   *)
LEMMA EffectTurn ==
  ASSUME EffectsInv, NEW f \in FormId, NEW q \in Request, NEW s, Turns(q, s),
         page' = page, form' = form \/ form' = NoForm, log' = log,
         row' = row \/ row'.version = row.version + 1,
         Carries(s, f) => form.id = f \/ Carries(req[q], f),
         Acts(s, f) => \/ form.id = f /\ s.op = form.op /\ s.seen = form.seen
                       \/ /\ Acts(req[q], f) /\ s.op = req[q].op
                          /\ s.op = "move" => s.seen = req[q].seen,
         page # "records" =>
           \/ /\ Acts(s, f) => Acts(req[q], f)
              /\ Waits(req[q], f) => \/ Waits(s, f) \/ form'.id # f
                                     \/ Acts(req[q], f) /\ ~Acts(s, f)
           \/ Free(f) /\ Waits(s, f)
  PROVE  EffectOnce(f)'
<1>1. /\ log[f].done \in Nat /\ log[f].lost \in Nat /\ row.version \in Nat /\ NoForm.id # f
      /\ log'[f] = log[f] /\ Unused(f)
  BY EffectTypes DEF EffectsInv
<1>2. row'.version \in Nat /\ row.version <= row'.version
  BY <1>1
<1>3. Unused(f)'
  BY <1>1, UnusedTurn
<1>4. Counted(f)'
  BY <1>1, CountedTurn
<1>5. MoveOnce(f)'
  BY <1>1, <1>2, MoveTurn
<1>. QED  BY <1>3, <1>4, <1>5 DEF EffectOnce

LEMMA EffectLoads ==
  ASSUME EffectsInv, NEW f \in FormId, NEW q \in Request, LoadStep(q)
  PROVE  EffectOnce(f)'
<1>1. TypeOK
  BY EffectTypes
<1>2. page' = page /\ form' = form /\ log' = log
  BY DEF LoadStep, LoadProperties, LoseProperties, Filters, Reads, ServeSeed, ShowLoad,
         FailLoad, fixed, client, history
<1>3. \E s \in {Idle, Finding} \cup Loading : Turns(q, s)
  BY <1>1, FindTurns, IdleTurns, FilterTurns, ReadTurns, SeedTurns DEF LoadStep
<1>4. PICK s \in {Idle, Finding} \cup Loading : Turns(q, s)
  BY <1>3
<1>5. row' = row \/ row'.version = row.version + 1
  BY <1>1, SeedTurns DEF LoadStep, LoadProperties, LoseProperties, Filters, Reads, ShowLoad,
                         FailLoad
<1>6. ~Carries(s, f) /\ ~Acts(s, f)
  BY Stages DEF Carries, Acts, LoadStage, SentStage
<1>7. ~Waits(req[q], f)
  BY DEF LoadStep, LoadProperties, LoseProperties, Filters, Reads, ServeSeed, ShowLoad,
         FailLoad, At, LoadStage, Waits
<1>. QED  BY <1>2, <1>4, <1>5, <1>6, <1>7, EffectTurn

LEMMA EffectSends ==
  ASSUME EffectsInv, NEW f \in FormId, NEW q \in Request,
         \/ Submits(q) \/ \E op \in QuickOps : Posts(q, op)
         \/ CreateGuest(q) \/ Check(q) \/ Deny(q)
  PROVE  EffectOnce(f)'
<1>1. TypeOK /\ TypeInv /\ f # 0
  BY EffectTypes
<1>2. page' = page /\ form' = form /\ log' = log /\ row' = row
  BY DEF Submits, Posts, CreateGuest, Check, Deny, fixed, client, history
<1>3. CASE Submits(q)
  <2>1. PICK s \in Sent : /\ Turns(q, s) /\ s.at \in {"guest", "sent"} /\ s.awaited
                          /\ s.op = form.op /\ s.id = form.id /\ s.seen = form.seen
    BY <1>1, <1>3, SubmitTurns
  <2>2. CASE form.id = f
    <3>1. Waits(s, f)
      BY <2>1, <2>2 DEF Waits
    <3>2. ASSUME page # "records"
          PROVE  Free(f)
      <4>1. page \in {"calendar", "desk"}
        BY <2>2, <3>2, FormPages
      <4>2. \A x \in Request : ~Submission(x)
        BY <1>3, <4>1 DEF Submits, EffectsInv, FlagInv, FlagFollowsSubmission
      <4>. QED  BY <2>2, <4>2 DEF Free, Waits, Submission
    <3>. QED  BY <1>2, <2>1, <2>2, <3>1, <3>2, EffectTurn
  <2>3. CASE form.id # f
    <3>1. ~Carries(s, f) /\ ~Acts(s, f) /\ ~Waits(req[q], f)
      BY <1>3, <2>1, <2>3 DEF Carries, Acts, Waits, Submits, At
    <3>. QED  BY <1>2, <2>1, <3>1, EffectTurn
  <2>. QED  BY <2>2, <2>3
<1>4. CASE \E op \in QuickOps : Posts(q, op)
  <2>1. PICK op \in QuickOps : Posts(q, op)
    BY <1>4
  <2>2. PICK s \in Sent : Turns(q, s) /\ s.id = 0
    BY <1>1, <2>1, PostTurns
  <2>3. ~Carries(s, f) /\ ~Acts(s, f) /\ ~Waits(req[q], f)
    BY <1>1, <2>1, <2>2 DEF Carries, Acts, Waits, Posts, At
  <2>. QED  BY <1>2, <2>2, <2>3, EffectTurn
<1>5. CASE CreateGuest(q) \/ Check(q)
  <2>1. PICK s \in Sent :
          /\ Turns(q, s) /\ s.op = req[q].op /\ s.id = req[q].id
          /\ s.awaited = req[q].awaited
          /\ s.at = IF At(q, "guest") THEN "sent" ELSE "checked"
          /\ s.seen = IF At(q, "guest") THEN req[q].seen ELSE row.version
    BY <1>1, <1>5, StageTurns DEF Copies
  <2>2. At(q, "guest") \/ (At(q, "sent") /\ req[q].op \notin Serializable)
    BY <1>5 DEF CreateGuest, Check
  <2>3. At(q, "guest") => req[q].awaited
    BY DEF EffectsInv, FlagInv, SeenInv, SentAsOpened, AsOpened, At
  <2>4. /\ Carries(s, f) => Carries(req[q], f)
        /\ Acts(s, f) => Acts(req[q], f)
        /\ Waits(req[q], f) => Waits(s, f)
    BY <2>1, <2>2, <2>3 DEF Carries, Acts, Waits, At, SentStage
  <2>5. s.op = "move" => s.seen = req[q].seen
    BY <2>1, <2>2 DEF Serializable
  <2>. QED  BY <1>2, <2>1, <2>4, <2>5, EffectTurn
<1>6. CASE Deny(q)
  <2>1. PICK s \in Sent \cup {Idle} :
          /\ Turns(q, s) /\ s.at \in {"refused", "idle"}
          /\ s.at # "idle" => s.id = req[q].id
    BY <1>1, <1>6, DenyTurns DEF Copies
  <2>2. /\ Carries(s, f) => Carries(req[q], f)
        /\ ~Acts(s, f)
        /\ Waits(req[q], f) => Acts(req[q], f)
    BY <1>6, <2>1 DEF Carries, Acts, Waits, Deny, SentStage
  <2>. QED  BY <1>2, <2>1, <2>2, EffectTurn
<1>. QED  BY <1>3, <1>4, <1>5, <1>6

(* The server accepts what was sent: the effect of its form is counted.    *)
LEMMA EffectServe ==
  ASSUME EffectsInv, NEW f \in FormId, NEW q \in Request, Serves(q)
  PROVE  EffectOnce(f)'
<1>1. /\ TypeOK /\ f # 0 /\ NoForm.id # f
      /\ log[f].done \in Nat /\ log[f].lost \in Nat /\ row.version \in Nat
      /\ Unused(f) /\ MoveOnce(f)
  BY EffectTypes DEF EffectsInv
<1>2. PICK s \in Answered \cup {Idle} :
        /\ Turns(q, s)
        /\ s.at = IF req[q].awaited THEN "answered" ELSE "idle"
        /\ s.at # "idle" => s.id = req[q].id
  BY <1>1, ServeTurns
<1>3. /\ req[q] \in Sent /\ req[q].at \in {"sent", "checked"} /\ Serve(q) /\ row' \in Row
      /\ row' = row \/ row'.version = row.version + 1
      /\ req[q].op = "move" => row'.version = row.version + 1
  BY <1>1, ServeTurns
<1>4. page' = page /\ form' = form /\ Log(req[q].id, 1, 0)
  BY <1>3 DEF Serve, fixed, client
<1>5. row'.version \in Nat /\ row.version <= row'.version
  BY <1>1, <1>3 DEF Row
<1>6. ~Acts(s, f)
  BY <1>2 DEF Acts
<1>7. /\ log'[f].form = log[f].form
      /\ req[q].id # f => log'[f] = log[f]
      /\ req[q].id = f => log'[f].done = log[f].done + 1 /\ log'[f].lost = log[f].lost
  <2>1. req[q].id \in FormId \cup {0}
    BY <1>3 DEF Sent
  <2>2. /\ log'[f].form = log[f].form
        /\ req[q].id # f => log'[f] = log[f]
        /\ req[q].id = f => /\ log'[f].done = log[f].done + 1
                            /\ log'[f].lost = log[f].lost + 0
    BY <1>1, <1>4, <2>1, LogCounts
  <2>. QED  BY <1>1, <2>2
<1>8. CASE req[q].id # f
  <2>1. ~Carries(s, f) /\ ~Carries(req[q], f) /\ ~Waits(req[q], f)
    BY <1>2, <1>8 DEF Carries, Waits, SentStage
  <2>2. Unused(f)'
    BY <1>1, <1>2, <1>4, <1>7, <1>8, <2>1, UnusedTurn
  <2>3. Counted(f)'
    BY <1>1, <1>2, <1>4, <1>6, <1>7, <1>8, <2>1, CountedTurn
  <2>4. MoveOnce(f)'
    BY <1>2, <1>4, <1>5, <1>6, <1>7, <1>8, MoveTurn
  <2>. QED  BY <2>2, <2>3, <2>4 DEF EffectOnce
<1>9. CASE req[q].id = f
  <2>1. Acts(req[q], f) /\ Carries(req[q], f) /\ (Waits(req[q], f) => Waits(s, f))
    BY <1>2, <1>3, <1>9 DEF Acts, Carries, Waits, SentStage
  <2>2. Unused(f)'
    BY <1>1, <1>2, <1>4, <1>7, <2>1, UnusedTurn
  <2>3. log'[f].done \in Nat /\ log'[f].lost \in Nat
    BY <1>1, <1>7, <1>9
  <2>4. Counted(f)'
    BY <1>2, <1>4, <1>6, <1>7, <1>9, <2>1, <2>3, CountedTurn
  <2>5. MoveOnce(f)'
    <3>. SUFFICES ASSUME log[f].form = "move"
                  PROVE  /\ log'[f].done <= 1
                         /\ form'.id = f => Spent(form, f)'
                         /\ \A x \in Request : Acts(req'[x], f) => Spent(req[x], f)'
      BY <1>7 DEF MoveOnce, Acts
    <3>1. /\ log[f].done <= 1 /\ Spent(req[q], f)
          /\ form.id = f => Spent(form, f)
          /\ \A x \in Request : Acts(req[x], f) => Spent(req[x], f)
      BY <1>1, <2>1 DEF MoveOnce
    <3>2. row.version = req[q].seen /\ row'.version = row.version + 1
      <4>1. Transact(q)
        BY <3>1 DEF Spent, Serves, Write, At, EffectsInv, OpsInv, OpsFit, OpFits, Serializable
      <4>. QED  BY <1>3, <3>1, <4>1 DEF Transact, Accepts, Spent
    <3>3. log'[f].done <= 1
      <4>1. log[f].done # 1
        BY <1>1, <3>1, <3>2 DEF Spent
      <4>. QED  BY <1>1, <1>7, <1>9, <3>1, <4>1
    <3>4. form'.id = f => Spent(form, f)'
      <4>. SUFFICES ASSUME form.id = f PROVE Spent(form, f)'
        BY <1>4
      <4>1. form # NoForm /\ form.seen \in Nat
        BY EffectTypes
      <4>2. form.seen <= row.version /\ form.op = "move"
        BY <3>1, <4>1 DEF EffectsInv, VersionsInv, VersionsKnown, Spent
      <4>3. form.seen < row'.version
        BY <1>1, <3>2, <4>1, <4>2
      <4>. QED  BY <1>4, <4>2, <4>3 DEF Spent
    <3>5. ASSUME NEW x \in Request, Acts(req'[x], f)
          PROVE  Spent(req[x], f)'
      <4>1. x # q
        BY <1>2, <1>6, <3>5 DEF Turns
      <4>2. req'[x] = req[x] /\ Acts(req[x], f)
        BY <1>2, <3>5, <4>1 DEF Turns, Same, Acts, LoadStage
      <4>3. req[x].seen \in Nat /\ req[x].seen <= row.version
        BY <4>2, EffectTypes
      <4>4. req[x].seen < row'.version /\ req[x].op = "move"
        BY <1>1, <3>1, <3>2, <4>2, <4>3 DEF Spent
      <4>. QED  BY <4>2, <4>4 DEF Spent
    <3>. QED  BY <3>3, <3>4, <3>5
  <2>. QED  BY <2>2, <2>4, <2>5 DEF EffectOnce
<1>. QED  BY <1>8, <1>9

LEMMA EffectAnswers ==
  ASSUME EffectsInv, NEW f \in FormId, NEW q \in Request, AnswerStep(q)
  PROVE  EffectOnce(f)'
<1>1. /\ TypeOK /\ f # 0 /\ NoForm.id # f
      /\ log[f].done \in Nat /\ log[f].lost \in Nat /\ row.version \in Nat
      /\ Unused(f)
  BY EffectTypes DEF EffectsInv
<1>2. page' = page /\ row' = row /\ (form' = form \/ form' = NoForm)
  BY DEF AnswerStep, Answer, PatchRecords, Refuse, Lose, fixed
<1>3. CASE Answer(q)
  <2>1. PICK s \in Loading : Turns(q, s)
    BY <1>1, <1>3, AnswerTurns
  <2>2. ~Carries(s, f) /\ ~Acts(s, f)
    BY Stages DEF Carries, Acts, LoadStage, SentStage
  <2>3. Waits(req[q], f) => form'.id # f
    <3>1. Waits(req[q], f) => Carries(req[q], f)
      BY DEF Waits, Carries, SentStage
    <3>2. Waits(req[q], f) => page \in {"calendar", "desk", "records"}
      BY <3>1, FormPages
    <3>. QED  BY <1>1, <1>3, <3>2 DEF Answer
  <2>4. log' = log
    BY <1>3 DEF Answer
  <2>. QED  BY <1>2, <2>1, <2>2, <2>3, <2>4, EffectTurn
<1>4. CASE PatchRecords(q) \/ Refuse(q)
  <2>1. Turns(q, Idle) /\ log' = log
    BY <1>1, <1>4, IdleTurns DEF PatchRecords, Refuse, history
  <2>2. ~Carries(Idle, f) /\ ~Acts(Idle, f)
    BY DEF Idle, Carries, Acts, SentStage
  <2>3. page # "records" => ~Waits(req[q], f)
    BY <1>4 DEF PatchRecords, Refuse, Waits, At
  <2>. QED  BY <1>2, <2>1, <2>2, <2>3, EffectTurn
<1>5. CASE Lose(q)
  <2>1. PICK s \in Sent \cup {Idle} :
          /\ Turns(q, s) /\ s.at \in {"idle", req[q].at}
          /\ s.at # "idle" => /\ s.op = req[q].op /\ s.id = req[q].id
                              /\ s.seen = req[q].seen
    BY <1>1, <1>5, LoseTurns DEF Copies
  <2>2. /\ Carries(s, f) => Carries(req[q], f)
        /\ Acts(s, f) => Acts(req[q], f)
    BY <2>1 DEF Carries, Acts, SentStage
  <2>3. PICK id \in FormId \cup {0} : id = req[q].id /\ Log(id, 0, 1)
    BY <1>1, <1>5, LoseTurns DEF Lose, Sent, Answered
  <2>4. /\ log'[f].form = log[f].form
        /\ req[q].id # f => log'[f] = log[f]
        /\ req[q].id = f => /\ log'[f].done = log[f].done + 0
                            /\ log'[f].lost = log[f].lost + 1
    <3>1. /\ \A x \in FormId : log'[x].form = log[x].form
          /\ \A x \in FormId \ {id} : log'[x] = log[x]
          /\ id # 0 => /\ log'[id].done = log[id].done + 0
                       /\ log'[id].lost = log[id].lost + 1
      BY <1>1, <2>3, LogCounts
    <3>. QED  BY <1>1, <2>3, <3>1
  <2>5. /\ log'[f].done = log[f].done
        /\ \/ log'[f].lost = log[f].lost /\ req[q].id # f
           \/ log'[f].lost = log[f].lost + 1
    BY <1>1, <2>4
  <2>6. log'[f].done \in Nat /\ log'[f].lost \in Nat
    BY <1>1, <2>5
  <2>7. req[q].id # f => ~Waits(req[q], f)
    BY DEF Waits
  <2>8. Unused(f)'
    BY <1>1, <1>2, <2>1, <2>2, <2>4, <2>5, UnusedTurn
  <2>9. Counted(f)'
    BY <1>2, <2>1, <2>2, <2>5, <2>6, <2>7, CountedTurn
  <2>10. MoveOnce(f)'
    <3>1. Acts(s, f) => s.op = req[q].op /\ s.seen = req[q].seen
      BY <2>1 DEF Acts
    <3>. QED  BY <1>1, <1>2, <2>1, <2>2, <2>4, <2>5, <3>1, MoveTurn
  <2>. QED  BY <2>8, <2>9, <2>10 DEF EffectOnce
<1>. QED  BY <1>3, <1>4, <1>5 DEF AnswerStep

(* The requests stay as they are, and a form may be closed.                *)
LEMMA EffectStays ==
  ASSUME EffectsInv, NEW f \in FormId, UNCHANGED <<page, req>>, log'[f] = log[f],
         form' = form \/ form'.id # f,
         row' = row \/ row'.version = row.version + 1
  PROVE  EffectOnce(f)'
<1>1. /\ log[f].done \in Nat /\ row.version \in Nat
      /\ Unused(f) /\ Counted(f) /\ MoveOnce(f)
  BY EffectTypes DEF EffectsInv
<1>2. Unused(f)'
  BY <1>1 DEF Unused, Carries
<1>3. Still(f)' = Still(f) /\ (Free(f)' => Free(f))
  BY DEF Still, Pending, Acts, Free, Waits
<1>4. Counted(f)'
  BY <1>1, <1>3 DEF Counted
<1>5. MoveOnce(f)'
  <2>. SUFFICES ASSUME log[f].form = "move"
                PROVE  /\ log[f].done <= 1
                       /\ form'.id = f => Spent(form, f)'
                       /\ \A x \in Request : Acts(req[x], f) => Spent(req[x], f)'
    BY DEF MoveOnce, Acts
  <2>1. ASSUME NEW seen \in Nat, log[f].done = 1 => seen < row.version
        PROVE  log[f].done = 1 => seen < row'.version
    BY <1>1, <2>1
  <2>2. form'.id = f => Spent(form, f)'
    <3>. SUFFICES ASSUME form'.id = f PROVE Spent(form, f)'
      OBVIOUS
    <3>1. form' = form /\ form.seen \in Nat /\ Spent(form, f)
      BY <1>1, EffectTypes DEF MoveOnce
    <3>. QED  BY <2>1, <3>1 DEF Spent
  <2>3. ASSUME NEW x \in Request, Acts(req[x], f)
        PROVE  Spent(req[x], f)'
    <3>1. req[x].seen \in Nat /\ Spent(req[x], f)
      BY <1>1, <2>3, EffectTypes DEF MoveOnce
    <3>. QED  BY <2>1, <3>1 DEF Spent
  <2>. QED  BY <1>1, <2>2, <2>3 DEF MoveOnce
<1>. QED  BY <1>2, <1>4, <1>5 DEF EffectOnce

(* A form that is opened is one that nothing was done with yet.            *)
LEMMA EffectOpens ==
  ASSUME EffectsInv, NEW f \in FormId, NEW op \in FormOps, Opens(op)
  PROVE  EffectOnce(f)'
<1>1. TypeOK /\ f # 0 /\ log[f].lost \in Nat /\ Unused(f)
  BY EffectTypes DEF EffectsInv
<1>2. /\ page' = page /\ row' = row /\ req' = req
      /\ form'.id = NextForm /\ form'.op = op
      /\ NextForm \in FormId /\ log[NextForm].form = "none"
      /\ \A x \in FormId \ {NextForm} : log'[x] = log[x]
      /\ log'[NextForm].form = IF op = "move" THEN "move" ELSE "plain"
      /\ log'[NextForm].done = log[NextForm].done
      /\ log'[NextForm].lost = log[NextForm].lost
  BY <1>1, OpenForms, NextFormLeft DEF Opens, fixed
<1>3. CASE f = NextForm
  <2>1. log[f].done = 0 /\ \A x \in Request : ~Carries(req[x], f)
    BY <1>1, <1>2, <1>3 DEF Unused
  <2>2. \A x \in Request : ~Acts(req'[x], f)
    BY <1>2, <2>1 DEF Acts, Carries, SentStage
  <2>3. Still(f)' = 0
    <3>1. Pending(f)' = {}
      BY <2>2 DEF Pending, Acts
    <3>. QED  BY <3>1, FS_EmptySet DEF Still
  <2>4. log'[f].done = 0 /\ log'[f].lost \in Nat
    BY <1>1, <1>2, <1>3, <2>1
  <2>5. Counted(f)'
    BY <2>3, <2>4 DEF Counted
  <2>6. Unused(f)'
    BY <1>2, <1>3 DEF Unused
  <2>7. MoveOnce(f)'
    <3>1. log'[f].form = "move" => op = "move"
      BY <1>2, <1>3
    <3>. QED  BY <1>2, <2>2, <2>4, <3>1 DEF MoveOnce, Spent, Acts
  <2>. QED  BY <2>5, <2>6, <2>7 DEF EffectOnce
<1>4. CASE f # NextForm
  BY <1>2, <1>4, EffectStays
<1>. QED  BY <1>3, <1>4

LEMMA EffectsInit == Init => EffectsInv
<1>. SUFFICES ASSUME Init PROVE EffectsInv
  OBVIOUS
<1>1. ASSUME NEW f \in FormId
      PROVE  Unused(f) /\ Counted(f) /\ MoveOnce(f)
  <2>1. log[f] = [form |-> "none", done |-> 0, lost |-> 0]
    BY DEF Init
  <2>2. form.id # f /\ \A q \in Request : ~Carries(req[q], f) /\ ~Acts(req[q], f)
    BY BoundsAssumption DEF Init, NoForm, Carries, Acts, Idle, SentStage
  <2>3. Still(f) = 0
    <3>1. Pending(f) = {}
      BY <2>2 DEF Pending
    <3>. QED  BY <3>1, FS_EmptySet DEF Still
  <2>. QED  BY <2>1, <2>2, <2>3 DEF Unused, Counted, MoveOnce
<1>. QED  BY <1>1, FlagInit, ListInit, VersionsInit DEF EffectsInv, ListInv

LEMMA EffectsNext == EffectsInv /\ [Next]_vars => EffectsInv'
<1>. SUFFICES ASSUME EffectsInv, [Next]_vars PROVE EffectsInv'
  OBVIOUS
<1>1. TypeOK /\ Kinds /\ FlagInv' /\ OpsInv' /\ VersionsInv'
  BY FlagNext, OpsNext, VersionsNext, StepKinds DEF EffectsInv, VersionsInv, TypeInv
<1>2. ASSUME NEW f \in FormId
      PROVE  EffectOnce(f)'
  <2>1. ASSUME UNCHANGED vars \/ Close \/ \E s \in RowState : Elsewhere(s)
        PROVE  EffectOnce(f)'
    <3>1. NoForm.id # f
      BY EffectTypes
    <3>2. UNCHANGED <<page, req, log>> /\ (form' = form \/ form' = NoForm)
      BY <2>1 DEF vars, fixed, client, history, Close, Elsewhere
    <3>3. row' = row \/ row'.version = row.version + 1
      BY <2>1 DEF vars, Close, Elsewhere
    <3>. QED  BY <3>1, <3>2, <3>3, EffectStays
  <2>2. ASSUME NEW q \in Request, LoadStep(q) \/ SendStep(q) \/ AnswerStep(q)
        PROVE  EffectOnce(f)'
    BY <2>2, EffectLoads, EffectSends, EffectServe, EffectAnswers DEF SendStep
  <2>. QED  BY <1>1, <2>1, <2>2, EffectOpens DEF Kinds
<1>. QED  BY <1>1, <1>2 DEF EffectsInv, EffectOnce

(* A form has its effect once, and once more for each answer that was      *)
(* lost, also when what was lost is done later; a move has it once at most *)
(* (disabled={submitting}, expectedUpdatedAt).                             *)
THEOREM OneEffectPerFormHolds == Spec => []OneEffectPerForm
<1>1. ASSUME EffectsInv
      PROVE  OneEffectPerForm
  <2>1. ASSUME NEW f \in FormId, page # "records"
        PROVE  /\ log[f].done <= 1 + log[f].lost
               /\ log[f].form = "move" => log[f].done <= 1
    <3>1. /\ log[f].done \in Nat /\ log[f].lost \in Nat
          /\ Counted(f) /\ MoveOnce(f)
      BY <1>1, EffectTypes DEF EffectsInv
    <3>2. Still(f) \in Nat
      BY RequestAssumption, FS_Subset, FS_CardinalityType DEF Still, Pending
    <3>. QED  BY <2>1, <3>1, <3>2 DEF Counted, MoveOnce
  <2>. QED  BY <2>1 DEF OneEffectPerForm
<1>2. EffectsInv => OneEffectPerForm
  BY <1>1
<1>. QED  BY <1>2, EffectsInit, EffectsNext, PTL DEF Spec
=============================================================================
