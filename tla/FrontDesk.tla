------------------------------ MODULE FrontDesk ------------------------------
(***************************************************************************)
(* ReservationsService: creation with an idempotency key, and the front    *)
(* desk operations.  Every front desk operation first reads the reservation*)
(* outside any transaction (getReservationContext) and decides on what it  *)
(* read; only the room row and the other reservations are read again       *)
(* inside the transaction.                                                 *)
(***************************************************************************)
EXTENDS Inventory

-----------------------------------------------------------------------------
(* Creation: createWithConcurrencyProtection, one Serializable transaction.*)

(* The room can be sold: not in maintenance and not out of service. *)
Sellable(rm) ==
  /\ room[rm].status \notin {"MAINTENANCE", "OUT_OF_SERVICE"}
  /\ room[rm].maintenanceStatus # "MAINTENANCE"

CanCreate(d) ==
  /\ \A k \in DOMAIN d.rooms :
       /\ \A j \in DOMAIN d.rooms : d.rooms[j] = d.rooms[k] => j = k
       /\ ~\E r \in Reservation :
            /\ reservation[r].status \in ReservationStatus \ releasedForCreate
            /\ d.rooms[k] \in RoomsOf(r)
            /\ Overlap(reservation[r].stay, d.stay)
       /\ Sellable(d.rooms[k])
       /\ ~BlockedFor(d.rooms[k], d.stay, {})
  /\ d.rooms # <<>> => \A n \in StopSell : ~(d.stay.in <= n /\ n < d.stay.out)

KeyUnchecked(key) == TRUE \* mutant: the record is not looked up

(* No earlier request used the key; without one there is nothing to look up.*)
KeyUnused(key) == key \in IdemKey => idem[key] = NoRecord

CreateReservation(q, r, key, d) ==
  /\ MayOpen(q, "create")
  /\ KeyUnused(key)
  /\ ~Exists(r)
  /\ CanCreate(d)
  /\ reservation' = [reservation EXCEPT ![r] =
       [status |-> d.status, stay |-> d.stay, rooms |-> d.rooms,
        updatedAt |-> 1]]
  /\ idem' = [k \in IdemKey |->
       IF k = key THEN [status |-> "COMPLETED", dto |-> d, reservation |-> r]
                  ELSE idem[k]]
  /\ Emit(Event("RESERVATION_CREATED", r, <<>>))
  /\ req' = [req EXCEPT ![q] = Answered(key, r)]
  /\ UNCHANGED <<room, block, invoices, tasks>>

(* hashReservationRequest: the rooms are sorted, so their order is not part *)
(* of the payload.                                                         *)
SamePayload(d, e) ==
  /\ d.stay = e.stay /\ d.status = e.status
  /\ Len(d.rooms) = Len(e.rooms)
  /\ {d.rooms[k] : k \in DOMAIN d.rooms} = {e.rooms[k] : k \in DOMAIN e.rooms}

(* The key was used before: the same payload is answered with the          *)
(* reservation the first request made.                                     *)
ReplayCreate(q, key, d) ==
  /\ MayOpen(q, "create")
  /\ idem[key].status = "COMPLETED"
  /\ SamePayload(idem[key].dto, d)
  /\ req' = [req EXCEPT ![q] = Answered(key, idem[key].reservation)]
  /\ UNCHANGED <<reservation, room, block, outbox, idem, invoices, tasks>>

-----------------------------------------------------------------------------
(* Reading the context and checking what the operation requires of it.     *)

(* Mutants: a check-out guarded like the other operations, by the          *)
(* transition table; a check-in guarded like an assignment.                *)
ContextAllowsRepeat(op, status) ==
  CASE op \in {"assign", "change"} -> status \in assignableStatuses
    [] op = "checkIn"  -> TransitionAllowed(status, "CHECKED_IN")
    [] op = "checkOut" -> TransitionAllowed(status, "CHECKED_OUT")
    [] op = "noShow"   -> TransitionAllowed(status, "NO_SHOW")

ContextAllowsPending(op, status) ==
  CASE op \in RoomOps -> status \in assignableStatuses
    [] op = "checkOut" -> status = "CHECKED_IN"
    [] op = "noShow"   -> TransitionAllowed(status, "NO_SHOW")

ContextAllows(op, status) ==
  CASE op \in {"assign", "change"} -> status \in assignableStatuses
    [] op = "checkIn"  -> TransitionAllowed(status, "CHECKED_IN")
    [] op = "checkOut" -> status = "CHECKED_IN"
    [] op = "noShow"   -> TransitionAllowed(status, "NO_SHOW")

Context(r) == [status |-> reservation[r].status,
               stay |-> reservation[r].stay, rooms |-> reservation[r].rooms]

ReadForRoom(q, op, r, rm) ==
  /\ MayOpen(q, op)
  /\ Exists(r)
  /\ ContextAllows(op, reservation[r].status)
  /\ \E row \in FirstRow(reservation[r].rooms) :
       req' = [req EXCEPT ![q] =
         [op |-> op, of |-> r, room |-> rm, context |-> Context(r),
          row |-> row, tries |-> 0]]
  /\ UNCHANGED <<reservation, room, block, outbox, idem, invoices, tasks>>

ReadForLeave(q, op, r) ==
  /\ MayOpen(q, op)
  /\ Exists(r)
  /\ ContextAllows(op, reservation[r].status)
  /\ req' = [req EXCEPT ![q] =
       [op |-> op, of |-> r, context |-> Context(r), tries |-> 0]]
  /\ UNCHANGED <<reservation, room, block, outbox, idem, invoices, tasks>>

-----------------------------------------------------------------------------
(* The guards inside the transaction. *)

(* assertRoomAssignable. *)
RoomAssignable(c, rm, requireReady) ==
  /\ room[rm].maintenanceStatus # "MAINTENANCE"
  /\ room[rm].status \notin {"OUT_OF_SERVICE", "MAINTENANCE"}
  /\ requireReady => room[rm].cleaningStatus \in readyStatuses
  /\ c.status # "CHECKED_IN" => room[rm].status # "OCCUPIED"

(* assertNoRoomOverlap: the dates are the context's. *)
NoRoomOverlap(r, c, rm) ==
  ~HeldByOther(r, rm, c.stay, blockingReservationStatuses)

RoomGuard(q) ==
  LET o == req[q] IN
  /\ RoomAssignable(o.context, o.room,
       o.op = "checkIn" /\ Policy.requireCleanRoomForCheckIn)
  /\ NoRoomOverlap(o.of, o.context, o.room)
  /\ UniqueRow(o.of, o.row, o.room)

Answer(q) == req' = [req EXCEPT ![q] = Answered(NoKey, @.of)]

-----------------------------------------------------------------------------
AssignRoom(q) ==
  LET o == req[q] IN
  /\ o.op = "assign" /\ RoomGuard(q) /\ Answer(q)
  /\ reservation' =
       [reservation EXCEPT ![o.of] = WithRoom(@, o.row, o.room)]
  /\ Emit(Event("ROOM_ASSIGNED", o.of, <<o.room>>))
  /\ UNCHANGED <<room, block, idem, invoices, tasks>>

VacatedClean(row) == [row EXCEPT !.status = "AVAILABLE"] \* mutant: not DIRTY

(* The room left behind by a checked-in guest. *)
Vacated(row) ==
  [row EXCEPT !.status = "AVAILABLE", !.cleaningStatus = "DIRTY"]

(* A checked-in guest frees the old room, then occupies the new one; the   *)
(* event's key carries the time, so it is always a new one.                *)
ChangeRoom(q) ==
  LET o     == req[q]
      freed == IF o.row = 0 THEN room
               ELSE [room EXCEPT ![o.context.rooms[o.row]] = Vacated(@)]
  IN
  /\ o.op = "change" /\ RoomGuard(q) /\ Answer(q)
  /\ reservation' =
       [reservation EXCEPT ![o.of] = WithRoom(@, o.row, o.room)]
  /\ room' = IF o.context.status = "CHECKED_IN"
             THEN [freed EXCEPT ![o.room].status = "OCCUPIED"]
             ELSE room
  /\ Emit(Event("ROOM_CHANGED", o.of, <<o.room, q>>))
  /\ UNCHANGED <<block, idem, invoices, tasks>>

CheckIn(q) ==
  LET o == req[q] IN
  /\ o.op = "checkIn" /\ RoomGuard(q) /\ Answer(q)
  /\ reservation' = [reservation EXCEPT ![o.of] =
       WithStatus(WithRoom(@, o.row, o.room), "CHECKED_IN")]
  /\ room' = [room EXCEPT ![o.room].status = "OCCUPIED"]
  /\ Emit(Event("CHECKED_IN", o.of, <<>>))
  /\ UNCHANGED <<block, idem, invoices, tasks>>

(* The rooms freed are the context's, not the ones assigned now. *)
CheckOut(q) ==
  LET o     == req[q]
      freed == {o.context.rooms[k] : k \in DOMAIN o.context.rooms}
  IN
  /\ o.op = "checkOut" /\ Answer(q)
  /\ reservation' = [reservation EXCEPT ![o.of] = WithStatus(@, "CHECKED_OUT")]
  /\ room' = [rm \in Room |->
                IF rm \in freed THEN Vacated(room[rm]) ELSE room[rm]]
  /\ invoices' = IF Policy.autoGenerateInvoiceOnCheckout
                 THEN [invoices EXCEPT ![o.of] = @ + 1] ELSE invoices
  /\ tasks' = IF Policy.createHousekeepingTaskOnCheckout
              THEN tasks \cup (freed \X {o.of}) ELSE tasks
  /\ Emit(Event("CHECKED_OUT", o.of, <<>>))
  /\ UNCHANGED <<block, idem>>

(* READ COMMITTED, and it writes the status without reading it again. *)
NoShow(q) ==
  LET o == req[q] IN
  /\ o.op = "noShow" /\ Answer(q)
  /\ reservation' = [reservation EXCEPT ![o.of] = WithStatus(@, "NO_SHOW")]
  /\ Emit(Event("NO_SHOW", o.of, <<>>))
  /\ UNCHANGED <<room, block, idem, invoices, tasks>>

RefuseRoom(q) == req[q].op \in RoomOps /\ ~RoomGuard(q) /\ Refuse(q)

-----------------------------------------------------------------------------
(* Operations on a room alone: each is one READ COMMITTED transaction that *)
(* reads nothing it depends on.                                            *)

PatchBlindly(old, new) == new \* mutant: an absent field is written too

(* A field the request leaves out keeps its value. *)
Patch(old, new) == IF new = Keep THEN old ELSE new

UpdateRoomStatus(q, rm, dto) ==
  /\ MayOpen(q, "roomStatus")
  /\ room' = [room EXCEPT ![rm] =
       [status |-> Patch(@.status, dto.status),
        cleaningStatus |-> Patch(@.cleaningStatus, dto.cleaningStatus),
        maintenanceStatus |-> Patch(@.maintenanceStatus, dto.maintenanceStatus)]]
  /\ req' = [req EXCEPT ![q] = Ended]
  /\ UNCHANGED <<reservation, block, outbox, idem, invoices, tasks>>

(* A task created IN_PROGRESS puts the room into CLEANING. *)
CreateHousekeepingTask(q, rm, inProgress) ==
  /\ MayOpen(q, "housekeeping")
  /\ room' = IF inProgress
             THEN [room EXCEPT ![rm].cleaningStatus = "CLEANING"] ELSE room
  /\ req' = [req EXCEPT ![q] = Ended]
  /\ UNCHANGED <<reservation, block, outbox, idem, invoices, tasks>>

(* An issue that blocks the room from sale takes it out of service. *)
CreateMaintenanceIssue(q, rm, blocksRoomFromSale) ==
  /\ MayOpen(q, "maintenance")
  /\ IF blocksRoomFromSale
     THEN /\ room' = [room EXCEPT ![rm].status = "OUT_OF_SERVICE",
                                  ![rm].maintenanceStatus = "MAINTENANCE"]
          /\ Emit(Event("ROOM_MAINTENANCE_STARTED", rm, <<q>>))
     ELSE UNCHANGED <<room, outbox>>
  /\ req' = [req EXCEPT ![q] = Ended]
  /\ UNCHANGED <<reservation, block, idem, invoices, tasks>>

-----------------------------------------------------------------------------
FrontDeskNext ==
  \E q \in Request :
    \/ \E r \in Reservation, key \in IdemKey \cup {NoKey}, d \in CreateDto :
         CreateReservation(q, r, key, d)
    \/ \E key \in IdemKey, d \in CreateDto : ReplayCreate(q, key, d)
    \/ \E r \in Reservation :
         \/ \E op \in RoomOps, rm \in Room : ReadForRoom(q, op, r, rm)
         \/ \E op \in LeaveOps : ReadForLeave(q, op, r)
    \/ AssignRoom(q)
    \/ ChangeRoom(q)
    \/ CheckIn(q)
    \/ CheckOut(q)
    \/ NoShow(q)
    \/ RefuseRoom(q)
    \/ \E rm \in Room, dto \in RoomUpdates : UpdateRoomStatus(q, rm, dto)
    \/ \E rm \in Room, flag \in BOOLEAN :
         \/ CreateHousekeepingTask(q, rm, flag)
         \/ CreateMaintenanceIssue(q, rm, flag)
=============================================================================
