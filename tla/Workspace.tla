------------------------------ MODULE Workspace ------------------------------
(***************************************************************************)
(* A page of the web client beside the row it works on: the calendar, the  *)
(* front desk, the rooms and rates, or a module of plain records.  A page  *)
(* keeps its filters, what it shows, and one form.  The first three load   *)
(* when a filter changes and after a submission that went well; records are*)
(* loaded once and then patched with each answer.  No page cancels or      *)
(* orders what it asked for: answers come in any order, or not at all.     *)
(*                                                                         *)
(* One page is open and one row is looked at, versioned by updatedAt: a    *)
(* slot of the calendar, a reservation, the list of types and rate plans,  *)
(* a record.  Everybody else is Elsewhere.  The server reads the row,      *)
(* decides, and writes it by its id: one step where the transaction is     *)
(* serializable, two where it is not; other modules look further inside.   *)
(* Which rows a filter lets through is left out.                           *)
(***************************************************************************)
EXTENDS Integers, FiniteSets, Sequences

CONSTANTS
  Request,    \* requests under way at once; a finished one is used again
  Filter,     \* property, dates and the other controls of a page
  NoFilter,   \* before the properties have arrived
  Stay,       \* dates and payment of the reservation, as the overview sorts it
  FormId,     \* bound: forms that are opened
  MaxVersion, \* bound: changes without a form stop here
  MaxLost     \* bound: requests whose answer never arrives

Page == {"calendar", "desk", "rates", "records"}
Day  == {"past", "today", "future"}

ASSUME RequestAssumption == IsFiniteSet(Request)
ASSUME FilterAssumption == NoFilter \notin Filter
ASSUME StayAssumption ==
  Stay # {} /\ Stay \subseteq [arrives : Day, departs : Day, new : BOOLEAN, paid : BOOLEAN]
ASSUME BoundsAssumption ==
  /\ MaxVersion \in Nat /\ MaxLost \in Nat
  /\ FormId \subseteq Nat \ {0}

VARIABLES
  page,       \* which page is open
  stay,       \* the reservation's dates
  row,        \* the row on the server: state and updatedAt
  filter,     \* the controls of the page
  view,       \* what the page shows
  form,       \* the form it has open
  submitting, \* the flag that disables the buttons of a form
  req,        \* requests under way
  own,        \* newest version of the row that the page made and heard of
  gone,       \* the page has heard that its removal of the record was done
  log,        \* what became of each form
  lost        \* answers that never arrived

fixed   == <<page, stay>>
client  == <<filter, view, form, submitting>>
history == <<own, gone, log, lost>>
vars    == <<fixed, row, client, req, history>>

RowState == {"free", "booked", "in", "out", "blocked", "listed", "priced"}
Row      == [state : RowState, version : Nat]
Unseen   == [state |-> "free", version |-> 0]

FormOps  == {"create", "move", "createBlock", "updateBlock", "deleteBlock",
             "assign-room", "check-in", "check-out", "mark-no-show", "record-payment",
             "createRecord", "updateRecord"}
QuickOps == {"createRoomType", "createRoom", "createRatePlan", "bulkUpdateRate",
             "removeRecord"}
Op       == FormOps \cup QuickOps

Lists == <<"arrivals", "departures", "inHouse", "pendingCheckIns",
           "pendingCheckOuts", "outstandingBalances", "newReservations">>
ListName == {Lists[i] : i \in DOMAIN Lists}

NoForm == [id |-> 0]
Form   == [id : FormId, op : FormOps, seen : Nat]

\* by: a filter, a submission or the answer to a change; last: nothing the page
\* shows was begun later; since: the row's version when it was begun
View == [filter : Filter \cup {NoFilter}, by : {"filter", "submit", "patch"},
         last : BOOLEAN, since : Nat, shown : Row]

Idle     == [at |-> "idle"]
Finding  == [at |-> "properties"]
Loading  == [at : {"asked", "reading", "seeding", "loaded"}, filter : Filter,
             by : {"filter", "submit"}, last : BOOLEAN, since : Nat,
             lists : SUBSET ListName, shown : Row]
\* seen: the version that was sent; once the request is checked, the one it read
Sent     == [at : {"guest", "sent", "checked", "refused"}, filter : Filter,
             op : Op, id : FormId \cup {0}, seen : Nat, opened : Nat,
             awaited : BOOLEAN]
Answered == [at : {"answered"}, filter : Filter, op : Op, id : FormId \cup {0},
             shown : Row]
Outcome  == [form : {"none", "move", "plain"}, done : Nat, lost : Nat]

TypeOK ==
  /\ page \in Page /\ stay \in Stay
  /\ row \in Row
  /\ filter \in Filter \cup {NoFilter}
  /\ view \in View
  /\ form \in Form \cup {NoForm}
  /\ submitting \in BOOLEAN
  /\ req \in [Request -> {Idle, Finding} \cup Loading \cup Sent \cup Answered]
  /\ own \in Nat /\ gone \in BOOLEAN
  /\ log \in [FormId -> Outcome]
  /\ lost \in 0..MaxLost

At(q, stage)  == req[q].at = stage
Go(q, state)  == req' = [req EXCEPT ![q] = state]
Done(q)       == Go(q, Idle)
Log(id, done, away) ==
  log' = IF id = 0 THEN log
         ELSE [log EXCEPT ![id] = [form |-> log[id].form, done |-> log[id].done + done,
                                   lost |-> log[id].lost + away]]

States(p) ==
  CASE p = "calendar" -> {"free", "booked", "in", "blocked"}
    [] p = "desk"     -> {"booked", "in", "out"}
    [] p = "rates"    -> {"free", "listed", "priced"}
    [] p = "records"  -> {"free", "listed", "out"}

Init ==
  /\ page \in Page
  /\ stay \in IF page = "desk" THEN Stay ELSE {CHOOSE s \in Stay : TRUE}
  /\ row \in [state : States(page), version : {1}]
  /\ filter = NoFilter
  /\ view = [filter |-> NoFilter, by |-> "filter", last |-> FALSE, since |-> 0,
             shown |-> Unseen]
  /\ form = NoForm
  /\ submitting = FALSE
  /\ req = [q \in Request |-> Idle]
  /\ own = 0 /\ gone = FALSE
  /\ log = [f \in FormId |-> [form |-> "none", done |-> 0, lost |-> 0]]
  /\ lost = 0

-----------------------------------------------------------------------------
(* Loading. *)
LoadStage == {"asked", "reading", "seeding", "loaded"}

(* Loads under way are no longer the latest; request q becomes s.          *)
Outdate(q, s) ==
  /\ req' = [x \in Request |->
       IF x = q THEN s
       ELSE IF req[x].at \in LoadStage THEN [req[x] EXCEPT !.last = FALSE] ELSE req[x]]

Load(q, f, by) ==
  /\ Outdate(q, [at |-> "asked", filter |-> f, by |-> by, last |-> TRUE,
                 since |-> row.version, lists |-> {}, shown |-> Unseen])
  /\ view' = [view EXCEPT !.last = FALSE]

(* loadProperties, when the page opens. *)
LoadProperties(q) ==
  /\ At(q, "idle") /\ filter = NoFilter
  /\ \A x \in Request : ~At(x, "properties")
  /\ Go(q, Finding)
  /\ UNCHANGED <<fixed, row, client, history>>

(* The first property is chosen, and the effect on propertyId loads. *)
SetProperties(q, f) ==
  /\ At(q, "properties")
  /\ filter' = f
  /\ Load(q, f, "filter")
  /\ UNCHANGED <<fixed, row, form, submitting, history>>

(* Mutant: a filter was left out of the list the effect depends on. *)
SetFilterOnly(q, f) ==
  /\ At(q, "idle") /\ filter # NoFilter /\ page # "records" /\ form = NoForm
  /\ filter' = f
  /\ UNCHANGED <<fixed, row, view, form, submitting, req, history>>

(* A control changes, or a search is sent off with the controls as they    *)
(* are.  An open form covers the controls; records have none that load.    *)
SetFilter(q, f) ==
  /\ At(q, "idle") /\ filter # NoFilter /\ page # "records" /\ form = NoForm
  /\ filter' = f
  /\ Load(q, f, "filter")
  /\ UNCHANGED <<fixed, row, form, submitting, history>>

(* The lists of the front desk's overview that a reservation is on. *)
ListsOf(state) ==
  {l \in ListName :
     CASE l = "arrivals"        -> state = "booked" /\ stay.arrives = "today"
       [] l = "departures"      -> state \in {"booked", "in"} /\ stay.departs = "today"
       [] l = "inHouse"         -> state = "in"
       [] l = "pendingCheckIns" -> state = "booked" /\ stay.arrives # "future"
       [] l = "pendingCheckOuts" -> state = "in" /\ stay.departs # "future"
       [] l = "outstandingBalances" -> state \in {"booked", "in"} /\ ~stay.paid
       [] l = "newReservations" -> stay.new}

OnSomeList == UNION {ListsOf(s) : s \in States("desk")}

(* The page merges the lists by the reservation's id; the last one counts. *)
Merged(early, first) ==
  LET from(l) == IF l \in early THEN first ELSE row
      hits == {i \in DOMAIN Lists : Lists[i] \in ListsOf(from(Lists[i]).state)}
  IN  IF hits = {} THEN Unseen
      ELSE from(Lists[CHOOSE i \in hits : \A j \in hits : j <= i])

(* The overview is put together from queries that run side by side: some of*)
(* them read now and the others later.                                     *)
ReadSomeLists(q) ==
  /\ page = "desk" /\ At(q, "asked")
  /\ \E early \in (SUBSET OnSomeList) \ {{}, OnSomeList} :
       Go(q, [req[q] EXCEPT !.at = "reading", !.lists = early, !.shown = row])
  /\ UNCHANGED <<fixed, row, client, history>>

ServeOverview(q) ==
  /\ page = "desk" /\ req[q].at \in {"asked", "reading"}
  /\ Go(q, [req[q] EXCEPT !.at = "loaded", !.lists = {},
                          !.shown = Merged(req[q].lists, req[q].shown)])
  /\ UNCHANGED <<fixed, row, client, history>>

(* The timeline, the lists of the rates page, the records of a module: a   *)
(* list without the record followed may be empty, or hold others.          *)
ServeLoad(q) ==
  /\ page # "desk" /\ At(q, "asked")
  /\ \/ Go(q, [req[q] EXCEPT !.at = "loaded", !.shown = row])
     \/ /\ page = "records" /\ row.state # "listed"
        /\ Go(q, [req[q] EXCEPT !.at = "seeding"])
  /\ UNCHANGED <<fixed, row, client, history>>

(* One record is followed, and it is created once: by the page if it is at *)
(* it, or else by the samples or by others.                                *)
CreatingRecord ==
  \E x \in Request : req[x].at \in {"sent", "checked"} /\ req[x].op = "createRecord"

(* An empty list of records is filled with samples, the one followed among *)
(* them if it is not there yet, and asked for again.                       *)
ServeSeed(q) ==
  /\ At(q, "seeding")
  /\ row' = IF row.state = "free" /\ ~CreatingRecord
            THEN [state |-> "listed", version |-> row.version + 1] ELSE row
  /\ Go(q, [req[q] EXCEPT !.at = "asked", !.since = row'.version])
  /\ UNCHANGED <<fixed, client, history>>

(* The end of a submission waits for the load it made. *)
Rest(q) == submitting' = (submitting /\ req[q].by # "submit")

(* Whichever answer comes is shown. *)
ShowLoad(q) ==
  /\ At(q, "loaded")
  /\ view' = [filter |-> req[q].filter, by |-> req[q].by, last |-> req[q].last,
              since |-> req[q].since, shown |-> req[q].shown]
  /\ Rest(q)
  /\ Done(q)
  /\ UNCHANGED <<fixed, row, filter, form, history>>

(* A load fails; the page says so and shows what it showed. *)
FailLoad(q) ==
  /\ req[q].at \in LoadStage /\ lost < MaxLost
  /\ lost' = lost + 1
  /\ Rest(q)
  /\ Done(q)
  /\ UNCHANGED <<fixed, row, filter, view, form, own, gone, log>>

LoseProperties(q) ==
  /\ At(q, "properties") /\ lost < MaxLost
  /\ lost' = lost + 1
  /\ Done(q)
  /\ UNCHANGED <<fixed, row, client, own, gone, log>>

-----------------------------------------------------------------------------
(* Forms. *)
FormsLeft == {f \in FormId : log[f].form = "none"}
NextForm  == CHOOSE f \in FormsLeft : TRUE

(* What is sent back as expectedUpdatedAt: nothing, but for these two. *)
Versioned == {"move", "updateBlock"}

(* A form about a row as the page shows it; its version is kept. *)
Open(p, op, states) ==
  /\ page = p /\ form = NoForm /\ FormsLeft # {}
  /\ view.shown.state \in states
  /\ form' = [id |-> NextForm, op |-> op,
              seen |-> IF op \in Versioned THEN view.shown.version ELSE 0]
  /\ log' = [log EXCEPT ![NextForm].form = IF op = "move" THEN "move" ELSE "plain"]
  /\ UNCHANGED <<fixed, row, filter, view, submitting, req, own, gone, lost>>

(* openCreate on a free slot, and the form's way over to a block. *)
OpenCreate ==
  /\ view.filter # NoFilter
  /\ \E op \in {"create", "createBlock"} : Open("calendar", op, {"free"})

(* openDetails and openEdit, by button or by drag and drop. *)
OpenEdit == Open("calendar", "move", {"booked", "in"})

(* openBlock, and the form to edit it. *)
OpenBlock ==
  \E op \in {"updateBlock", "deleteBlock"} : Open("calendar", op, {"blocked"})

(* The statuses each action of the front desk is offered for. *)
ReservationStatuses(action) ==
  CASE action = "assign-room"    -> {"booked", "in"}
    [] action = "check-in"       -> {"booked"}
    [] action = "check-out"      -> {"in"}
    [] action = "mark-no-show"   -> {"booked"}
    [] action = "record-payment" -> {"booked", "in", "out"}

(* openAction picks a reservation in one of them. *)
OpenAction ==
  \E op \in {"assign-room", "check-in", "check-out", "mark-no-show", "record-payment"} :
    Open("desk", op, ReservationStatuses(op))

(* The form of a record: a new one at any time, the first list may still   *)
(* be on its way; or one that is shown.                                    *)
NewRecord  == Open("records", "createRecord", RowState)
EditRecord == Open("records", "updateRecord", {"listed"})

(* Close and Cancel work at any time, also while the form is on its way. *)
Close ==
  /\ form # NoForm
  /\ form' = NoForm
  /\ UNCHANGED <<fixed, row, filter, view, submitting, req, history>>

AlwaysEnabled == TRUE \* mutant: the button is not disabled

(* disabled={submitting}; the form of a record has no flag. *)
Enabled == ~submitting

NewestVersion(f) == IF f.op \in Versioned THEN view.shown.version ELSE 0 \* mutant
(* expectedUpdatedAt: of the copy the form was opened with. *)
Expected(f) == f.seen

(* The form goes off as it is, with the filters of now. *)
Submit(q, ops, stage) ==
  /\ At(q, "idle") /\ form # NoForm /\ Enabled
  /\ form.op \in ops
  /\ submitting' = (page # "records")
  /\ Go(q, [at |-> stage, filter |-> filter, op |-> form.op, id |-> form.id,
            seen |-> Expected(form), opened |-> form.seen, awaited |-> TRUE])
  /\ UNCHANGED <<fixed, row, filter, view, form, history>>

(* createReservation posts the guest first. *)
CreateReservation(q) == Submit(q, {"create"}, "guest")
MoveReservation(q)   == Submit(q, {"move"}, "sent")
CreateBlock(q)       == Submit(q, {"createBlock"}, "sent")
UpdateBlock(q)       == Submit(q, {"updateBlock"}, "sent")
DeleteBlock(q)       == Submit(q, {"deleteBlock"}, "sent")
SubmitAction(q) ==
  Submit(q, {"assign-room", "check-in", "check-out", "mark-no-show", "record-payment"},
         "sent")
(* Without a companyId the page only says so.  Records other than the one  *)
(* followed are left out.                                                  *)
SubmitRecord(q) ==
  /\ filter # NoFilter
  /\ Submit(q, {"createRecord", "updateRecord"}, "sent")
  /\ form.op = "createRecord" =>
       row = [state |-> "free", version |-> 1] /\ ~CreatingRecord

(* A button that posts at once, with neither form nor flag. *)
Post(q, p, op, states) ==
  /\ page = p /\ At(q, "idle") /\ filter # NoFilter
  /\ view.shown.state \in states
  /\ Go(q, [at |-> "sent", filter |-> filter, op |-> op, id |-> 0,
            seen |-> 0, opened |-> 0, awaited |-> TRUE])
  /\ UNCHANGED <<fixed, row, client, history>>

PostRates(q, op, states) == row.version < MaxVersion /\ Post(q, "rates", op, states)

CreateRoomType(q) == PostRates(q, "createRoomType", RowState)
CreateRoom(q)     == PostRates(q, "createRoom", {"listed", "priced"})
CreateRatePlan(q) == PostRates(q, "createRatePlan", {"listed", "priced"})
BulkUpdateRate(q) == PostRates(q, "bulkUpdateRate", {"priced"})
RemoveRecord(q)   == Post(q, "records", "removeRecord", {"listed"})

(* The guest's answer sends the reservation off. *)
CreateGuest(q) ==
  /\ At(q, "guest")
  /\ Go(q, [req[q] EXCEPT !.at = "sent"])
  /\ UNCHANGED <<fixed, row, client, history>>

-----------------------------------------------------------------------------
(* The server. *)

(* What it asks of the row it reads. *)
Accepts(op, seen) ==
  CASE op \in {"create", "createBlock"} -> row.state = "free"
    [] op = "move"        -> row.state = "booked" /\ row.version = seen
    [] op = "updateBlock" -> row.state = "blocked" /\ row.version = seen
    [] op = "deleteBlock" -> row.state = "blocked"
    [] op \in {"check-in", "mark-no-show"} -> row.state = "booked"
    [] op = "check-out"   -> row.state = "in"
    [] op = "assign-room" -> row.state \in {"booked", "in"}
    [] op = "record-payment" -> row.state \in {"booked", "in", "out"}
    [] op \in {"createRoomType", "createRecord"} -> TRUE
    [] op \in {"createRoom", "createRatePlan"} -> row.state \in {"listed", "priced"}
    [] op = "bulkUpdateRate" -> row.state = "priced"
    [] op \in {"updateRecord", "removeRecord"} -> row.state = "listed"

StateAfter(op) ==
  CASE op = "create"      -> "booked"
    [] op = "createBlock" -> "blocked"
    [] op = "check-in"    -> "in"
    [] op \in {"check-out", "mark-no-show", "removeRecord"} -> "out"
    [] op = "deleteBlock" -> "free"
    [] op = "createRatePlan" -> "priced"
    [] op = "createRecord" -> "listed"
    [] op = "createRoomType" /\ row.state = "free" -> "listed"
    [] OTHER -> row.state

(* Transactions that run alone: createReservation and moveReservation. *)
Serializable == {"create", "move"}

(* What a request leaves behind.  A block is written by its id, which may  *)
(* be deleted by now, with another block or a stay in its slot.            *)
Written(q) ==
  LET landed == [state |-> StateAfter(req[q].op), version |-> row.version + 1]
      other  == /\ req[q].op \in {"updateBlock", "deleteBlock"}
                /\ row.version # req[q].seen
  IN  {r \in {row, landed} :
         /\ r = row => other
         /\ r = landed => ~other \/ row.state = "blocked"}

(* An update answers with the record, whether or not it is removed by now. *)
Copy(op, r) == IF op = "updateRecord" THEN [r EXCEPT !.state = "listed"] ELSE r

Serve(q) ==
  /\ row' \in Written(q)
  /\ Go(q, IF req[q].awaited
           THEN [at |-> "answered", filter |-> req[q].filter, op |-> req[q].op,
                 id |-> req[q].id, shown |-> Copy(req[q].op, row')]
           ELSE Idle)
  /\ Log(req[q].id, 1, 0)
  /\ UNCHANGED <<fixed, client, own, gone, lost>>

(* Reads, decides and writes at once. *)
Transact(q) ==
  /\ At(q, "sent") /\ req[q].op \in Serializable
  /\ Accepts(req[q].op, req[q].seen)
  /\ Serve(q)

(* Reads and decides ... *)
Check(q) ==
  /\ At(q, "sent") /\ req[q].op \notin Serializable
  /\ Accepts(req[q].op, req[q].seen)
  /\ Go(q, [req[q] EXCEPT !.at = "checked", !.seen = row.version])
  /\ UNCHANGED <<fixed, row, client, history>>

(* ... and writes, whatever the row is by then. *)
Write(q) == At(q, "checked") /\ Serve(q)

(* What is asked of the row does not hold, a name is taken, a transaction  *)
(* was aborted, or the like.                                               *)
Deny(q) ==
  /\ req[q].at \in {"guest", "sent", "checked"}
  /\ Go(q, IF req[q].awaited THEN [req[q] EXCEPT !.at = "refused"] ELSE Idle)
  /\ UNCHANGED <<fixed, row, client, history>>

(* Somebody else changes the row. *)
Elsewhere(s) ==
  /\ row.version < MaxVersion
  /\ s \in States(page)
  /\ row.state = "out" => s = "out"
  /\ page = "records" /\ row.state = "listed" => s # "free"
  /\ row.state = "free" => ~CreatingRecord
  /\ row' = [state |-> s, version |-> row.version + 1]
  /\ UNCHANGED <<fixed, client, req, history>>

-----------------------------------------------------------------------------
(* Answers. *)
Newer(n, m) == IF n > m THEN n ELSE m
Hear(q) == own' = Newer(own, req[q].shown.version)

(* Mutant: the page does not load what it has changed. *)
AnswerOnly(q) ==
  /\ At(q, "answered") /\ page # "records"
  /\ form' = NoForm
  /\ submitting' = FALSE
  /\ Hear(q)
  /\ Done(q)
  /\ UNCHANGED <<fixed, row, filter, view, gone, log, lost>>

(* Success closes whatever form is open and loads with the filters of the  *)
(* click.                                                                  *)
Answer(q) ==
  /\ At(q, "answered") /\ page # "records"
  /\ form' = IF page = "rates" THEN form ELSE NoForm
  /\ Hear(q)
  /\ Load(q, req[q].filter, "submit")
  /\ UNCHANGED <<fixed, row, filter, submitting, gone, log, lost>>

PatchAnyway(q) == TRUE \* mutant: the saved record is put in if it is not there
(* An update maps over the records shown; a creation adds one. *)
Patches(q) == req[q].op # "updateRecord" \/ view.shown.state = "listed"

(* The saved record takes its place among those shown, or a removed one    *)
(* goes; the form, whichever it is, closes unless this was a removal.      *)
PatchRecords(q) ==
  /\ At(q, "answered") /\ page = "records"
  /\ form' = IF req[q].op = "removeRecord" THEN form ELSE NoForm
  /\ view' = IF Patches(q)
             THEN [view EXCEPT !.by = "patch", !.last = TRUE,
                               !.since = req[q].shown.version, !.shown = req[q].shown]
             ELSE view
  /\ Outdate(q, Idle)
  /\ Hear(q)
  /\ gone' = (gone \/ req[q].op = "removeRecord")
  /\ UNCHANGED <<fixed, row, filter, submitting, log, lost>>

FlagStays == submitting \* mutant: the flag goes only after a success
(* finally: the form stays open and its buttons work again. *)
FlagGone == FALSE

Refuse(q) ==
  /\ At(q, "refused")
  /\ submitting' = FlagGone
  /\ Done(q)
  /\ UNCHANGED <<fixed, row, filter, view, form, history>>

(* The connection fails and the page is told so, whatever becomes of the   *)
(* request: one that has reached the server may be done yet.               *)
Lose(q) ==
  /\ req[q].at \in {"guest", "sent", "checked", "answered"} /\ lost < MaxLost
  /\ req[q].at \in {"sent", "checked"} => req[q].awaited
  /\ lost' = lost + 1
  /\ submitting' = FlagGone
  /\ \/ Done(q)
     \/ req[q].at \in {"sent", "checked"} /\ Go(q, [req[q] EXCEPT !.awaited = FALSE])
  /\ Log(req[q].id, 0, 1)
  /\ UNCHANGED <<fixed, row, filter, view, form, own, gone>>

-----------------------------------------------------------------------------
Click(q) ==
  \/ LoadProperties(q) \/ \E f \in Filter : SetFilter(q, f)
  \/ CreateReservation(q) \/ MoveReservation(q)
  \/ CreateBlock(q) \/ UpdateBlock(q) \/ DeleteBlock(q)
  \/ SubmitAction(q) \/ SubmitRecord(q) \/ RemoveRecord(q)
  \/ CreateRoomType(q) \/ CreateRoom(q) \/ CreateRatePlan(q) \/ BulkUpdateRate(q)

Proceed(q) ==
  \/ \E f \in Filter : SetProperties(q, f)
  \/ ReadSomeLists(q) \/ ServeOverview(q) \/ ServeLoad(q) \/ ServeSeed(q)
  \/ ShowLoad(q) \/ FailLoad(q)
  \/ CreateGuest(q) \/ Transact(q) \/ Check(q) \/ Write(q) \/ Deny(q)
  \/ Answer(q) \/ PatchRecords(q) \/ Refuse(q)
  \/ Lose(q) \/ LoseProperties(q)

Next ==
  \/ OpenCreate \/ OpenEdit \/ OpenBlock \/ OpenAction
  \/ NewRecord \/ EditRecord \/ Close
  \/ \E q \in Request : Click(q) \/ Proceed(q)
  \/ \E s \in RowState : Elsewhere(s)

Spec == Init /\ [][Next]_vars

-----------------------------------------------------------------------------
Quiet == \A q \in Request : At(q, "idle")

(* A move replaces the very version that was on the screen when its form   *)
(* was opened, and a change of a block is decided on that version, whatever*)
(* was loaded behind the form since.  The change is written later, by id,  *)
(* and of that write nothing of the kind holds (moveReservation,           *)
(* updateBlock, expectedUpdatedAt).                                        *)
NothingOverwrittenUnseen ==
  [][\A q \in Request :
       /\ At(q, "sent") /\ req'[q] # req[q]
       /\ \/ req[q].op = "move" /\ row' # row
          \/ req[q].op = "updateBlock" /\ req'[q].at = "checked"
       => row.version = req[q].opened]_vars

(* A form has its effect once, and once more for each answer that was lost,*)
(* also when the form is closed and others are opened while it is on its   *)
(* way, and although what was lost may still be done later; a move never   *)
(* has it twice (disabled={submitting} with the guards of the services).   *)
OneEffectPerForm ==
  page # "records" =>
    \A f \in FormId :
      /\ log[f].done <= 1 + log[f].lost
      /\ log[f].form = "move" => log[f].done <= 1

(* A page that is quiet, and whose latest load was the one shown last, has *)
(* asked after its own changes; shows the chosen filters, unless the load  *)
(* belonged to a submission, which keeps those of its click; and shows the *)
(* row as it is unless somebody has changed it since the load began - an   *)
(* overview put together meanwhile may show an older state or no           *)
(* reservation at all (loadTimeline, loadOverview, loadWorkspace).         *)
LatestLoadTells ==
  Quiet /\ view.last /\ view.by # "patch" =>
    /\ view.by = "filter" => view.filter = filter
    /\ own <= view.since
    /\ row.version = view.since /\ view.shown # Unseen => view.shown = row

(* A record that the page removed comes back only as it was before, and    *)
(* only with a list that was asked for then, or with the late answer to its*)
(* creation: never with the answer to an update, however late, or to       *)
(* another removal (setRecords in loadRecords, submit and remove).         *)
RemovedStaysRemoved ==
  [][page = "records" /\ gone /\ view.shown.state # "listed"
       /\ view'.shown.state = "listed"
     => /\ view'.shown.version < own
        /\ \E q \in Request :
             /\ req'[q] = Idle
             /\ \/ At(q, "loaded")
                \/ At(q, "answered") /\ req[q].op = "createRecord"]_vars

(* The flag that disables the buttons of a form is up exactly while one    *)
(* submission is on its way, the load behind it included, whatever other   *)
(* loads end meanwhile, whichever form is open by then and however the     *)
(* submission ends (setSubmitting and its finally).                        *)
Submission(q) ==
  \/ req[q].at \in {"guest", "refused", "answered"}
  \/ req[q].at \in {"sent", "checked"} /\ req[q].awaited
  \/ req[q].at \in LoadStage /\ req[q].by = "submit"

FlagFollowsSubmission ==
  page \in {"calendar", "desk"} =>
    /\ submitting <=> \E q \in Request : Submission(q)
    /\ \A q, x \in Request : Submission(q) /\ Submission(x) => q = x
=============================================================================
