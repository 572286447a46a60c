------------------------------ MODULE Inventory ------------------------------
(***************************************************************************)
(* The database rows the front desk and the calendar share, the guards both*)
(* services apply to them, and the in-flight requests that work on them.   *)
(*                                                                         *)
(* A request runs in two steps, because the code does: it reads rows (a    *)
(* "context"), and a later transaction writes using what was read.  A      *)
(* transaction the code opens as Serializable is one atomic step; one it   *)
(* opens at PostgreSQL's default, READ COMMITTED, has a reading step and a *)
(* writing step.                                                           *)
(***************************************************************************)
EXTENDS ReservationRules, Sequences, FiniteSets

CONSTANTS
  Reservation,   \* identifiers of reservations that may be created
  Room,          \* rooms of one property
  Block,         \* identifiers of calendar blocks that may be created
  Request,       \* HTTP requests that reach a transaction, each used once
  IdemKey,       \* Idempotency-Key header values
  NoKey,         \* the header is absent
  NoReservation, \* "no reservation" in an answer or an idempotency record
  Horizon,       \* bound: the last departure day
  RoomLists,     \* room lists a creation request may ask for
  CreateStatuses,\* values of the optional status field of a creation
  StopSell,      \* nights closed by an inventory override
  Ops,           \* the operations clients use in this instance
  Concurrency,   \* bound: requests between their read and their write
  MaxAttempts,   \* attempts retrySerializable makes
  RoomUpdates,   \* inputs of the room status endpoint
  Policy         \* the property's operational policy

Keep == "keep" \* a room status field left out of an update

Day   == 0 .. Horizon
Stays == {s \in [in : Day, out : Day] : s.in < s.out}

(* Front desk operations that give a reservation a room, and that end a    *)
(* stay.                                                                   *)
RoomOps  == {"assign", "change", "checkIn"}
LeaveOps == {"checkOut", "noShow"}
BlockOps == {"blockCreate", "blockUpdate", "blockDelete"}
AllOps   == RoomOps \cup LeaveOps \cup BlockOps
              \cup {"create", "move", "roomStatus", "housekeeping", "maintenance"}

(* Operations that run inside retrySerializable. *)
RetriedOps == {"assign", "change", "checkIn", "checkOut", "move"}

ASSUME SetsAssumption ==
  /\ NoKey \notin IdemKey
  /\ NoReservation \notin Reservation
ASSUME BoundAssumption ==
  /\ Horizon \in Nat \ {0}
  /\ Concurrency \in Nat \ {0}
  /\ MaxAttempts \in Nat \ {0}
ASSUME InputAssumption ==
  /\ RoomLists \subseteq Seq(Room)
  /\ CreateStatuses \subseteq ReservationStatus
  /\ StopSell \subseteq Day
  /\ Ops \subseteq AllOps
  /\ RoomUpdates \subseteq [status : RoomStatus \cup {Keep},
                             cleaningStatus : RoomStatus \cup {Keep},
                             maintenanceStatus : RoomStatus \cup {Keep}]
ASSUME PolicyAssumption ==
  Policy \in [requireCleanRoomForCheckIn : BOOLEAN,
              autoGenerateInvoiceOnCheckout : BOOLEAN,
              createHousekeepingTaskOnCheckout : BOOLEAN]

VARIABLES
  reservation, \* Reservation and ReservationRoom rows
  room,        \* Room rows: the three operational statuses
  block,       \* CalendarBlock rows
  outbox,      \* idempotency keys of InventoryOutboxEvent rows
  idem,        \* ReservationIdempotencyRecord rows
  invoices,    \* Invoice rows per reservation
  tasks,       \* <<room, reservation>> of checkout HousekeepingTask rows
  req          \* what each request holds between its read and its write

vars == <<reservation, room, block, outbox, idem, invoices, tasks, req>>

-----------------------------------------------------------------------------
(* Row types.  Row k of `rooms' is the k-th ReservationRoom row: rows are   *)
(* appended and rewritten, never deleted.  updatedAt is the row version.    *)

ReservationRow ==
  [status : ReservationStatus \cup {"ABSENT"}, stay : Stays,
   rooms : Seq(Room), updatedAt : Nat]

RoomRow ==
  [status : RoomStatus, cleaningStatus : RoomStatus,
   maintenanceStatus : RoomStatus]

BlockRow ==
  [live : BOOLEAN, room : Room, stay : Stays, type : CalendarBlockType,
   issueOpen : BOOLEAN, updatedAt : Nat]

(* A creation request's payload, the part hashReservationRequest covers. *)
CreateDto ==
  [rooms : RoomLists, stay : Stays, status : CreateStatuses]

NoStay    == [in |-> 0, out |-> 1]
AbsentRow == [status |-> "ABSENT", stay |-> NoStay, rooms |-> <<>>,
              updatedAt |-> 0]
NoBlock   == [live |-> FALSE, updatedAt |-> 0]
NoRecord  == [status |-> "NONE"]

IdleReq == [op |-> "idle"]

(* What getReservationContext read of a reservation. *)
ContextRow == [status : ReservationStatus, stay : Stays, rooms : Seq(Room)]

(* The shapes of an open request: what it read and what it was asked. *)
RoomReq ==
  [op : RoomOps, of : Reservation, room : Room, context : ContextRow,
   row : Nat, tries : Nat]
LeaveReq ==
  [op : LeaveOps, of : Reservation, context : ContextRow, tries : Nat]
MoveReq ==
  [op : {"move"}, of : Reservation, room : Room, stay : Stays,
   expectedUpdatedAt : Nat, tries : Nat]
BlockReq ==
  [op : BlockOps, of : Block, read : BlockRow, next : BlockRow,
   roomRead : RoomRow]
DoneReq ==
  [op : {"done"}, key : IdemKey \cup {NoKey},
   answer : Reservation \cup {NoReservation}]

Answered(key, r) == [op |-> "done", key |-> key, answer |-> r]
Ended            == Answered(NoKey, NoReservation)

-----------------------------------------------------------------------------
Exists(r)  == reservation[r].status # "ABSENT"
RoomsOf(r) == {reservation[r].rooms[k] : k \in DOMAIN reservation[r].rooms}

OpenRequests == {q \in Request : req[q].op \notin {"idle", "done"}}

(* A request may start. *)
MayOpen(q, op) ==
  /\ op \in Ops
  /\ req[q].op = "idle"
  /\ Cardinality(OpenRequests) < Concurrency

(* Mutant: only the arrival night is looked at. *)
HeldOnArrival(r, rm, stay, statuses) ==
  \E o \in Reservation \ {r} :
    /\ reservation[o].status \in statuses
    /\ rm \in RoomsOf(o)
    /\ reservation[o].stay.in <= stay.in /\ stay.in < reservation[o].stay.out

(* Another reservation, in one of `statuses', holds rm for part of stay.   *)
HeldByOther(r, rm, stay, statuses) ==
  \E o \in Reservation \ {r} :
    /\ reservation[o].status \in statuses
    /\ rm \in RoomsOf(o)
    /\ Overlap(reservation[o].stay, stay)

(* Mutant: a block that covers only a part of the stay is overlooked. *)
BlockedThroughout(rm, stay, but) ==
  \E b \in Block \ but :
    /\ block[b].live
    /\ block[b].room = rm
    /\ block[b].stay.in <= stay.in /\ stay.out <= block[b].stay.out

(* A live block other than `but' covers rm for part of stay. *)
BlockedFor(rm, stay, but) ==
  \E b \in Block \ but :
    /\ block[b].live
    /\ block[b].room = rm
    /\ Overlap(block[b].stay, stay)

(* rooms[0] of a query without an order: any row may come first; 0 when    *)
(* the reservation has none.                                               *)
FirstRow(rooms) == IF rooms = <<>> THEN {0} ELSE DOMAIN rooms

(* Rewrite the first row that was read, or add a row when there was none.  *)
PutRoom(rooms, row, rm) ==
  IF row = 0 THEN Append(rooms, rm) ELSE [rooms EXCEPT ![row] = rm]

(* Updates of a reservation row; reservation.update bumps updatedAt, and a  *)
(* change of its ReservationRoom rows alone does not.                      *)
WithRoom(c, row, rm) == [c EXCEPT !.rooms = PutRoom(c.rooms, row, rm)]
Touched(c)           == [c EXCEPT !.updatedAt = c.updatedAt + 1]
WithStatus(c, s)     == Touched([c EXCEPT !.status = s])
WithStayOnly(c, stay) == [c EXCEPT !.stay = stay] \* mutant: same version
WithStay(c, stay)    == Touched([c EXCEPT !.stay = stay])

(* The unique index on (reservationId, roomId) of ReservationRoom. *)
UniqueRow(r, row, rm) ==
  \A k \in DOMAIN reservation[r].rooms :
    reservation[r].rooms[k] = rm => k = row

(* createInventoryOutbox / createOutboxEvent: an upsert by key, so an event*)
(* whose key was already used is not recorded again.                       *)
Event(type, of, detail) == [type |-> type, of |-> of, detail |-> detail]

(* Mutant: the key is the reservation alone. *)
EmitOnce(e) ==
  outbox' = IF \E f \in outbox : f.of = e.of THEN outbox
            ELSE outbox \cup {e}

Emit(e) == outbox' = outbox \cup {e}

(* One more attempt of a request, with the context it already has. *)
Retried(o) == [o EXCEPT !.tries = o.tries + 1]

(* retrySerializable: P2034 aborts the transaction and rolls it back; the  *)
(* closure runs again with the context it already has, and the request     *)
(* fails when the last attempt does.                                       *)
SerializationFailure(q) ==
  /\ req[q].op \in RetriedOps
  /\ req' = [req EXCEPT ![q] = IF req[q].tries + 1 < MaxAttempts
                               THEN Retried(req[q])
                               ELSE Ended]
  /\ UNCHANGED <<reservation, room, block, outbox, idem, invoices, tasks>>

RefuseSilently(q) == req[q].op # "idle" /\ UNCHANGED vars \* mutant: no answer

(* A transaction whose checks throw rolls back and answers with an error.  *)
Refuse(q) ==
  /\ req' = [req EXCEPT ![q] = Ended]
  /\ UNCHANGED <<reservation, room, block, outbox, idem, invoices, tasks>>

InventoryInit ==
  /\ reservation = [r \in Reservation |-> AbsentRow]
  /\ room = [rm \in Room |-> [status |-> "AVAILABLE",
                              cleaningStatus |-> "READY",
                              maintenanceStatus |-> "AVAILABLE"]]
  /\ block = [b \in Block |-> NoBlock]
  /\ outbox = {}
  /\ idem = [k \in IdemKey |-> NoRecord]
  /\ invoices = [r \in Reservation |-> 0]
  /\ tasks = {}
  /\ req = [q \in Request |-> IdleReq]

TypeOK ==
  /\ reservation \in [Reservation -> ReservationRow]
  /\ room \in [Room -> RoomRow]
  /\ block \in [Block -> BlockRow \cup {NoBlock}]
  /\ idem \in [IdemKey -> [status : {"COMPLETED"}, dto : CreateDto,
                           reservation : Reservation] \cup {NoRecord}]
  /\ invoices \in [Reservation -> Nat]
  /\ tasks \subseteq Room \X Reservation
  /\ req \in [Request -> RoomReq \cup LeaveReq \cup MoveReq
                           \cup BlockReq \cup DoneReq \cup {IdleReq}]
=============================================================================
