------------------------------ MODULE Calendar ------------------------------
(***************************************************************************)
(* CalendarService: moving or resizing a reservation on the timeline, and  *)
(* the blocks that take a room off the calendar.  A move reads everything  *)
(* inside one Serializable transaction and is protected by the version the *)
(* client loaded; block operations run at READ COMMITTED.                  *)
(***************************************************************************)
EXTENDS Inventory

(* The client loads the timeline: the version it will send as              *)
(* expectedUpdatedAt is the one it sees here.                              *)
LoadTimeline(q, r, rm, stay) ==
  /\ MayOpen(q, "move")
  /\ Exists(r)
  /\ req' = [req EXCEPT ![q] =
       [op |-> "move", of |-> r, room |-> rm, stay |-> stay,
        expectedUpdatedAt |-> reservation[r].updatedAt, tries |-> 0]]
  /\ UNCHANGED <<reservation, room, block, outbox, idem, invoices, tasks>>

(* assertRoomAvailable. *)
RoomAvailable(rm) ==
  /\ room[rm].maintenanceStatus # "MAINTENANCE"
  /\ room[rm].status \notin {"MAINTENANCE", "OUT_OF_SERVICE", "OCCUPIED"}

(* assertMoveConflicts, for a reservation in `own' or a block in `but'. *)
NoMoveConflicts(own, rm, stay, but) ==
  /\ ~\E r \in Reservation \ own :
        /\ reservation[r].status \in blockingReservationStatuses
        /\ rm \in RoomsOf(r)
        /\ Overlap(reservation[r].stay, stay)
  /\ ~BlockedFor(rm, stay, but)

(* Mutant: the conflicts are looked for on the old dates. *)
CanMoveOldDates(q) ==
  LET o == req[q]
      r == reservation[o.of]
  IN
  /\ r.updatedAt = o.expectedUpdatedAt
  /\ r.status \notin terminalStatuses \cup {"CHECKED_IN"}
  /\ RoomAvailable(o.room)
  /\ NoMoveConflicts({o.of}, o.room, r.stay, {})

CanMove(q) ==
  LET o == req[q]
      r == reservation[o.of]
  IN
  /\ r.updatedAt = o.expectedUpdatedAt
  /\ r.status \notin terminalStatuses \cup {"CHECKED_IN"}
  /\ RoomAvailable(o.room)
  /\ NoMoveConflicts({o.of}, o.room, o.stay, {})

MoveReservation(q) ==
  LET o == req[q]
      r == reservation[o.of]
  IN
  /\ o.op = "move"
  /\ CanMove(q)
  /\ \E row \in FirstRow(r.rooms) :
       /\ UniqueRow(o.of, row, o.room)
       /\ reservation' = [reservation EXCEPT ![o.of] =
            WithStay(WithRoom(@, row, o.room), o.stay)]
  /\ Emit(Event("RESERVATION_UPDATED", o.of,
                <<o.expectedUpdatedAt, o.room, o.stay>>))
  /\ req' = [req EXCEPT ![q] = Answered(NoKey, o.of)]
  /\ UNCHANGED <<room, block, idem, invoices, tasks>>

RefuseMove(q) ==
  LET o == req[q] IN
  /\ o.op = "move"
  /\ \/ ~CanMove(q)
     \/ \E row \in FirstRow(reservation[o.of].rooms) :
          ~UniqueRow(o.of, row, o.room)
  /\ Refuse(q)

-----------------------------------------------------------------------------
(* Blocks.  The reading step is the findFirst and the conflict queries; the*)
(* writing step is the update that follows them in the same transaction.   *)

OpenBlock(q, op, b, read, next) ==
  /\ MayOpen(q, op)
  /\ req' = [req EXCEPT ![q] =
       [op |-> op, of |-> b, read |-> read, next |-> next,
        roomRead |-> room[read.room]]]
  /\ UNCHANGED <<reservation, room, block, outbox, idem, invoices, tasks>>

CheckCreateBlock(q, b, rm, stay, type, issueOpen) ==
  LET new == [live |-> TRUE, room |-> rm, stay |-> stay, type |-> type,
              issueOpen |-> issueOpen, updatedAt |-> 1]
  IN
  /\ block[b] = NoBlock
  /\ \A p \in OpenRequests : req[p].op = "blockCreate" => req[p].of # b
  /\ NoMoveConflicts({}, rm, stay, {})
  /\ OpenBlock(q, "blockCreate", b, new, new)

InsertBlock(q) ==
  LET o == req[q] IN
  /\ o.op = "blockCreate"
  /\ block' = [block EXCEPT ![o.of] = o.next]
  /\ room' = IF o.next.type = "MAINTENANCE"
             THEN [room EXCEPT ![o.next.room].maintenanceStatus = "MAINTENANCE"]
             ELSE room
  /\ Emit(Event("CALENDAR_BLOCK_CREATED", o.of, <<>>))
  /\ req' = [req EXCEPT ![q] = Ended]
  /\ UNCHANGED <<reservation, idem, invoices, tasks>>

(* The version compared is the one the transaction reads; the client's     *)
(* view is fresh when it passes.                                           *)
CheckUpdateBlock(q, b, rm, stay, type) ==
  LET next == [block[b] EXCEPT !.room = rm, !.stay = stay, !.type = type] IN
  /\ block[b].live
  /\ NoMoveConflicts({}, rm, stay, {b})
  /\ OpenBlock(q, "blockUpdate", b, block[b], next)

(* The fields an update writes; the others stay as they are. *)
Rewritten(b, next) ==
  [live |-> b.live, room |-> next.room, stay |-> next.stay,
   type |-> next.type, issueOpen |-> b.issueOpen,
   updatedAt |-> b.updatedAt + 1]

(* update({where: {id}}): neither the version nor deletedAt is looked at   *)
(* again, and no room's maintenanceStatus follows the block.               *)
WriteBlock(q) ==
  LET o == req[q] IN
  /\ o.op = "blockUpdate"
  /\ block' = [block EXCEPT ![o.of] = Rewritten(@, o.next)]
  /\ Emit(Event("CALENDAR_BLOCK_UPDATED", o.of, <<block[o.of].updatedAt + 1>>))
  /\ req' = [req EXCEPT ![q] = Ended]
  /\ UNCHANGED <<reservation, room, idem, invoices, tasks>>

CheckDeleteBlock(q, b) ==
  /\ block[b].live
  /\ ~block[b].issueOpen
  /\ OpenBlock(q, "blockDelete", b, block[b], block[b])

(* deletedAt is set; the row and its version remain. *)
Removed(b) ==
  [live |-> FALSE, room |-> b.room, stay |-> b.stay, type |-> b.type,
   issueOpen |-> b.issueOpen, updatedAt |-> b.updatedAt + 1]

(* A maintenance block gives its room back, judged on the room as read. *)
DeleteBlock(q) ==
  LET o == req[q] IN
  /\ o.op = "blockDelete"
  /\ block' = [block EXCEPT ![o.of] = Removed(@)]
  /\ room' = IF /\ o.read.type = "MAINTENANCE"
                /\ o.roomRead.maintenanceStatus = "MAINTENANCE"
                /\ o.roomRead.status # "OUT_OF_SERVICE"
             THEN [room EXCEPT ![o.read.room].maintenanceStatus = "AVAILABLE"]
             ELSE room
  /\ Emit(Event("CALENDAR_BLOCK_DELETED", o.of, <<>>))
  /\ req' = [req EXCEPT ![q] = Ended]
  /\ UNCHANGED <<reservation, idem, invoices, tasks>>

-----------------------------------------------------------------------------
CalendarNext ==
  \E q \in Request :
    \/ \E r \in Reservation, rm \in Room, stay \in Stays :
         LoadTimeline(q, r, rm, stay)
    \/ MoveReservation(q)
    \/ RefuseMove(q)
    \/ \E b \in Block, rm \in Room, stay \in Stays,
          type \in CalendarBlockType :
         \/ \E issueOpen \in BOOLEAN :
              CheckCreateBlock(q, b, rm, stay, type, issueOpen)
         \/ CheckUpdateBlock(q, b, rm, stay, type)
    \/ \E b \in Block : CheckDeleteBlock(q, b)
    \/ InsertBlock(q)
    \/ WriteBlock(q)
    \/ DeleteBlock(q)
=============================================================================
