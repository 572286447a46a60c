----------------------------- MODULE PmsProofs -----------------------------
(***************************************************************************)
(* Theorems about Pms for every set of rooms, reservations, requests and   *)
(* blocks, every horizon and every degree of concurrency.                  *)
(***************************************************************************)
EXTENDS Pms, SequenceTheorems, TLAPS

-----------------------------------------------------------------------------
(* Lemmas about the operators. *)

(* The absent row is typed: day 1 is always a departure day. *)
LEMMA AbsentRowType == AbsentRow \in ReservationRow
<1>1. NoStay \in Stays
  BY BoundAssumption DEF NoStay, Stays, Day
<1>2. <<>> \in Seq(Room)
  BY EmptySeq
<1> QED
  BY <1>1, <1>2 DEF AbsentRow, ReservationRow

(* Rewriting a row of a reservation, or adding one, leaves a room list. *)
LEMMA PutRoomType ==
  ASSUME NEW rooms \in Seq(Room), NEW row \in Nat, NEW rm \in Room
  PROVE  PutRoom(rooms, row, rm) \in Seq(Room)
<1>1. CASE row = 0
  BY <1>1, AppendProperties DEF PutRoom
<1>2. CASE row # 0 /\ row \in 1 .. Len(rooms)
  BY <1>2, ExceptSeq DEF PutRoom
<1>3. CASE row # 0 /\ row \notin 1 .. Len(rooms)
  <2>1. [rooms EXCEPT ![row] = rm] = rooms
    BY <1>3, LenProperties
  <2> QED
    BY <1>3, <2>1 DEF PutRoom
<1> QED
  BY <1>1, <1>2, <1>3

(* Updates of a typed reservation row are typed. *)
LEMMA WithRoomType ==
  ASSUME NEW c \in ReservationRow, NEW row \in Nat, NEW rm \in Room
  PROVE  WithRoom(c, row, rm) \in ReservationRow
<1>1. PutRoom(c.rooms, row, rm) \in Seq(Room)
  BY PutRoomType DEF ReservationRow
<1> QED
  BY <1>1 DEF WithRoom, ReservationRow

LEMMA TouchedType ==
  ASSUME NEW c \in ReservationRow PROVE Touched(c) \in ReservationRow
BY DEF Touched, ReservationRow

LEMMA WithStatusType ==
  ASSUME NEW c \in ReservationRow, NEW s \in ReservationStatus
  PROVE  WithStatus(c, s) \in ReservationRow
<1>1. [c EXCEPT !.status = s] \in ReservationRow
  BY DEF ReservationRow
<1> QED
  BY <1>1, TouchedType DEF WithStatus

LEMMA WithStayType ==
  ASSUME NEW c \in ReservationRow, NEW stay \in Stays
  PROVE  WithStay(c, stay) \in ReservationRow
<1>1. [c EXCEPT !.stay = stay] \in ReservationRow
  BY DEF ReservationRow
<1> QED
  BY <1>1, TouchedType DEF WithStay

(* The first row a query returns is 0 or the number of a row. *)
LEMMA FirstRowType ==
  ASSUME NEW rooms \in Seq(Room)
  PROVE  FirstRow(rooms) \subseteq Nat
BY LenProperties DEF FirstRow

(* What an open request holds, by the operation it asks for. *)
LEMMA RequestShapes ==
  ASSUME TypeOK, NEW q \in Request
  PROVE  /\ req[q].op \in RoomOps => req[q] \in RoomReq
         /\ req[q].op \in LeaveOps => req[q] \in LeaveReq
         /\ req[q].op = "move" => req[q] \in MoveReq
         /\ req[q].op \in BlockOps => req[q] \in BlockReq
<1>1. req[q] \in RoomReq \cup LeaveReq \cup MoveReq \cup BlockReq
                   \cup DoneReq \cup {IdleReq}
  BY DEF TypeOK
<1> QED
  BY <1>1 DEF RoomReq, LeaveReq, MoveReq, BlockReq, DoneReq, IdleReq,
              RoomOps, LeaveOps, BlockOps

-----------------------------------------------------------------------------
(* Type correctness.  An update or a deletion writes the block it read, so *)
(* the invariant has to remember that this block exists.                   *)

BlockRequestsKnown ==
  \A q \in Request :
    req[q].op \in {"blockUpdate", "blockDelete"}
      => block[req[q].of] \in BlockRow

TypeInv == TypeOK /\ BlockRequestsKnown

LEMMA TypeInit == Init => TypeInv
<1> SUFFICES ASSUME Init PROVE TypeInv
  OBVIOUS
<1>1. TypeOK
  BY AbsentRowType DEF Init, InventoryInit, TypeOK, RoomRow, RoomStatus
<1>2. BlockRequestsKnown
  BY DEF Init, InventoryInit, BlockRequestsKnown, IdleReq
<1> QED
  BY <1>1, <1>2 DEF TypeInv

LEMMA TypeCreate ==
  ASSUME TypeInv, NEW q \in Request, NEW r \in Reservation,
         NEW key \in IdemKey \cup {NoKey}, NEW d \in CreateDto,
         CreateReservation(q, r, key, d)
  PROVE  TypeInv'
<1> USE DEF TypeInv, CreateReservation
<1>1. Answered(key, r) \in DoneReq
  BY DEF Answered, DoneReq
<1>2. reservation' \in [Reservation -> ReservationRow]
  BY InputAssumption DEF TypeOK, CreateDto, ReservationRow
<1>3. idem' \in [IdemKey -> [status : {"COMPLETED"}, dto : CreateDto,
                            reservation : Reservation] \cup {NoRecord}]
  BY DEF TypeOK
<1>4. TypeOK'
  BY <1>1, <1>2, <1>3 DEF TypeOK
<1>5. BlockRequestsKnown'
  BY <1>1 DEF BlockRequestsKnown, TypeOK, DoneReq
<1> QED
  BY <1>4, <1>5

(* A request that only ends leaves everything typed. *)
LEMMA TypeEnd ==
  ASSUME TypeInv, NEW q \in Request, NEW done \in DoneReq,
         req' = [req EXCEPT ![q] = done], UNCHANGED block
  PROVE  /\ req' \in [Request -> RoomReq \cup LeaveReq \cup MoveReq
                           \cup BlockReq \cup DoneReq \cup {IdleReq}]
         /\ BlockRequestsKnown'
BY DEF TypeInv, TypeOK, BlockRequestsKnown, DoneReq

LEMMA EndedType == Ended \in DoneReq
BY DEF Ended, Answered, DoneReq

(* A request that opens holds typed data; an update or a deletion names a  *)
(* block that exists.                                                      *)
LEMMA TypeOpen ==
  ASSUME TypeInv, NEW q \in Request,
         NEW held \in RoomReq \cup LeaveReq \cup MoveReq \cup BlockReq,
         held.op \in {"blockUpdate", "blockDelete"} => block[held.of] \in BlockRow,
         req' = [req EXCEPT ![q] = held],
         UNCHANGED <<reservation, room, block, outbox, idem, invoices, tasks>>
  PROVE  TypeInv'
BY DEF TypeInv, TypeOK, BlockRequestsKnown

LEMMA TypeReplay ==
  ASSUME TypeInv, NEW q \in Request, NEW key \in IdemKey, NEW d \in CreateDto,
         ReplayCreate(q, key, d)
  PROVE  TypeInv'
<1>1. idem[key].reservation \in Reservation
  <2>1. idem[key] \in [status : {"COMPLETED"}, dto : CreateDto, reservation : Reservation]
    BY DEF TypeInv, TypeOK, ReplayCreate, NoRecord
  <2> QED
    BY <2>1
<1>2. Answered(key, idem[key].reservation) \in DoneReq
  BY <1>1 DEF Answered, DoneReq
<1> QED
  BY <1>2, TypeEnd DEF ReplayCreate, TypeInv, TypeOK

(* An existing reservation's context is typed. *)
LEMMA ContextType ==
  ASSUME TypeOK, NEW r \in Reservation, Exists(r)
  PROVE  Context(r) \in ContextRow
BY DEF TypeOK, Exists, Context, ContextRow, ReservationRow

LEMMA TypeReadForRoom ==
  ASSUME TypeInv, NEW q \in Request, NEW op \in RoomOps,
         NEW r \in Reservation, NEW rm \in Room, ReadForRoom(q, op, r, rm)
  PROVE  TypeInv'
<1>1. PICK row \in FirstRow(reservation[r].rooms) :
        req' = [req EXCEPT ![q] =
          [op |-> op, of |-> r, room |-> rm, context |-> Context(r),
           row |-> row, tries |-> 0]]
  BY DEF ReadForRoom
<1>2. row \in Nat
  BY FirstRowType DEF TypeInv, TypeOK, ReservationRow
<1>3. Context(r) \in ContextRow
  BY ContextType DEF TypeInv, ReadForRoom
<1> DEFINE held == [op |-> op, of |-> r, room |-> rm, context |-> Context(r),
                    row |-> row, tries |-> 0]
<1>4. held \in RoomReq
  BY <1>2, <1>3 DEF RoomReq
<1>5. held.op \notin {"blockUpdate", "blockDelete"}
  BY DEF RoomOps
<1> QED
  BY <1>1, <1>4, <1>5, TypeOpen DEF ReadForRoom

LEMMA TypeReadForLeave ==
  ASSUME TypeInv, NEW q \in Request, NEW op \in LeaveOps,
         NEW r \in Reservation, ReadForLeave(q, op, r)
  PROVE  TypeInv'
<1> DEFINE held == [op |-> op, of |-> r, context |-> Context(r), tries |-> 0]
<1>1. Context(r) \in ContextRow
  BY ContextType DEF TypeInv, ReadForLeave
<1>2. held \in LeaveReq
  BY <1>1 DEF LeaveReq
<1>3. held.op \notin {"blockUpdate", "blockDelete"}
  BY DEF LeaveOps
<1> QED
  BY <1>2, <1>3, TypeOpen DEF ReadForLeave

LEMMA TypeLoadTimeline ==
  ASSUME TypeInv, NEW q \in Request, NEW r \in Reservation, NEW rm \in Room,
         NEW stay \in Stays, LoadTimeline(q, r, rm, stay)
  PROVE  TypeInv'
<1> DEFINE held == [op |-> "move", of |-> r, room |-> rm, stay |-> stay,
                    expectedUpdatedAt |-> reservation[r].updatedAt,
                    tries |-> 0]
<1>1. held \in MoveReq
  BY DEF TypeInv, TypeOK, ReservationRow, MoveReq
<1> QED
  BY <1>1, TypeOpen DEF LoadTimeline

(* The three reading steps of the block operations. *)
LEMMA TypeOpenBlock ==
  ASSUME TypeInv, NEW q \in Request, NEW op \in BlockOps, NEW b \in Block,
         NEW read \in BlockRow, NEW next \in BlockRow,
         op \in {"blockUpdate", "blockDelete"} => block[b] \in BlockRow,
         OpenBlock(q, op, b, read, next)
  PROVE  TypeInv'
<1> DEFINE held == [op |-> op, of |-> b, read |-> read, next |-> next,
                    roomRead |-> room[read.room]]
<1>1. room[read.room] \in RoomRow
  BY DEF TypeInv, TypeOK, BlockRow
<1>2. held \in BlockReq
  BY <1>1 DEF BlockReq
<1> QED
  BY <1>2, TypeOpen DEF OpenBlock

LEMMA LiveBlockType ==
  ASSUME TypeOK, NEW b \in Block, block[b].live
  PROVE  block[b] \in BlockRow
BY DEF TypeOK, NoBlock

LEMMA TypeCheckCreateBlock ==
  ASSUME TypeInv, NEW q \in Request, NEW b \in Block, NEW rm \in Room,
         NEW stay \in Stays, NEW type \in CalendarBlockType,
         NEW issueOpen \in BOOLEAN,
         CheckCreateBlock(q, b, rm, stay, type, issueOpen)
  PROVE  TypeInv'
<1> DEFINE new == [live |-> TRUE, room |-> rm, stay |-> stay, type |-> type,
                   issueOpen |-> issueOpen, updatedAt |-> 1]
<1>1. new \in BlockRow
  BY DEF BlockRow
<1>2. OpenBlock(q, "blockCreate", b, new, new)
  BY DEF CheckCreateBlock
<1> HIDE DEF new
<1>3. "blockCreate" \in BlockOps /\ "blockCreate" \notin {"blockUpdate", "blockDelete"}
  BY DEF BlockOps
<1> QED
  BY <1>1, <1>2, <1>3, TypeOpenBlock

LEMMA TypeCheckUpdateBlock ==
  ASSUME TypeInv, NEW q \in Request, NEW b \in Block, NEW rm \in Room,
         NEW stay \in Stays, NEW type \in CalendarBlockType,
         CheckUpdateBlock(q, b, rm, stay, type)
  PROVE  TypeInv'
<1> DEFINE next == [block[b] EXCEPT !.room = rm, !.stay = stay, !.type = type]
<1>1. block[b] \in BlockRow
  BY LiveBlockType DEF CheckUpdateBlock, TypeInv
<1>2. next \in BlockRow
  BY <1>1 DEF BlockRow
<1>3. OpenBlock(q, "blockUpdate", b, block[b], next)
  BY DEF CheckUpdateBlock
<1> HIDE DEF next
<1>4. "blockUpdate" \in BlockOps
  BY DEF BlockOps
<1> QED
  BY <1>1, <1>2, <1>3, <1>4, TypeOpenBlock

LEMMA TypeCheckDeleteBlock ==
  ASSUME TypeInv, NEW q \in Request, NEW b \in Block, CheckDeleteBlock(q, b)
  PROVE  TypeInv'
<1>1. block[b] \in BlockRow
  BY LiveBlockType DEF CheckDeleteBlock, TypeInv
<1>2. "blockDelete" \in BlockOps
  BY DEF BlockOps
<1> QED
  BY <1>1, <1>2, TypeOpenBlock DEF CheckDeleteBlock

-----------------------------------------------------------------------------
(* The writing steps. *)

(* The answer of a front desk request names its reservation. *)
LEMMA AnswerType ==
  ASSUME TypeInv, NEW q \in Request, req[q].op \in RoomOps \cup LeaveOps,
         Answer(q), UNCHANGED block
  PROVE  /\ req' \in [Request -> RoomReq \cup LeaveReq \cup MoveReq
                           \cup BlockReq \cup DoneReq \cup {IdleReq}]
         /\ BlockRequestsKnown'
<1>1. req[q].of \in Reservation
  BY RequestShapes DEF TypeInv, RoomReq, LeaveReq
<1>2. Answered(NoKey, req[q].of) \in DoneReq
  BY <1>1 DEF Answered, DoneReq
<1> QED
  BY <1>2, TypeEnd DEF Answer

(* Writing a typed row keeps the table typed. *)
LEMMA RowWritten ==
  ASSUME TypeOK, NEW r \in Reservation, NEW row \in ReservationRow
  PROVE  [reservation EXCEPT ![r] = row] \in [Reservation -> ReservationRow]
BY DEF TypeOK

(* What a room request holds is typed, and so is the row it works on. *)
LEMMA TypeRoomRequest ==
  ASSUME TypeInv, NEW q \in Request, req[q].op \in RoomOps
  PROVE  /\ req[q].of \in Reservation
         /\ req[q].room \in Room
         /\ req[q].context \in ContextRow
         /\ req[q].row \in Nat
         /\ reservation[req[q].of] \in ReservationRow
<1>1. req[q] \in RoomReq
  BY RequestShapes DEF TypeInv
<1>2. /\ req[q].of \in Reservation
      /\ req[q].room \in Room
      /\ req[q].context \in ContextRow
      /\ req[q].row \in Nat
  BY <1>1 DEF RoomReq
<1> QED
  BY <1>2 DEF TypeInv, TypeOK

(* Likewise for a request that ends a stay. *)
LEMMA TypeLeave ==
  ASSUME TypeInv, NEW q \in Request, req[q].op \in LeaveOps
  PROVE  /\ req[q].of \in Reservation
         /\ req[q].context \in ContextRow
         /\ reservation[req[q].of] \in ReservationRow
<1>1. req[q] \in LeaveReq
  BY RequestShapes DEF TypeInv
<1>2. req[q].of \in Reservation /\ req[q].context \in ContextRow
  BY <1>1 DEF LeaveReq
<1> QED
  BY <1>2 DEF TypeInv, TypeOK

LEMMA TypeAssignRoom ==
  ASSUME TypeInv, NEW q \in Request, AssignRoom(q)
  PROVE  TypeInv'
<1>1. req[q].op \in RoomOps
  BY DEF AssignRoom, RoomOps
<1>2. reservation' \in [Reservation -> ReservationRow]
  BY <1>1, TypeRoomRequest, WithRoomType, RowWritten DEF AssignRoom, TypeInv
<1> QED
  BY <1>1, <1>2, AnswerType DEF AssignRoom, TypeInv, TypeOK

(* A vacated room and an occupied one are typed rooms. *)
LEMMA RoomWritten ==
  ASSUME TypeOK, NEW rm \in Room
  PROVE  /\ Vacated(room[rm]) \in RoomRow
         /\ [room EXCEPT ![rm] = Vacated(@)] \in [Room -> RoomRow]
BY DEF Vacated, TypeOK, RoomRow, RoomStatus

LEMMA TypeChangeRoom ==
  ASSUME TypeInv, NEW q \in Request, ChangeRoom(q)
  PROVE  TypeInv'
<1> DEFINE old   == req[q].context.rooms[req[q].row]
           freed == IF req[q].row = 0 THEN room
                    ELSE [room EXCEPT ![old] = Vacated(room[old])]
<1>1. req[q].op \in RoomOps
  BY DEF ChangeRoom, RoomOps
<1>2. reservation' \in [Reservation -> ReservationRow]
  BY <1>1, TypeRoomRequest, WithRoomType, RowWritten DEF ChangeRoom, TypeInv
<1>3. freed \in [Room -> RoomRow]
  BY RoomWritten DEF TypeInv, TypeOK
<1>4. ASSUME NEW f \in [Room -> RoomRow], NEW rm \in Room
      PROVE  [f EXCEPT ![rm].status = "OCCUPIED"] \in [Room -> RoomRow]
  BY DEF RoomRow, RoomStatus
<1>5. room' = IF req[q].context.status = "CHECKED_IN"
              THEN [freed EXCEPT ![req[q].room].status = "OCCUPIED"] ELSE room
  BY DEF ChangeRoom
<1>6. room' \in [Room -> RoomRow]
  <2> HIDE DEF freed
  <2> QED
    BY <1>1, <1>3, <1>4, <1>5, TypeRoomRequest DEF TypeInv, TypeOK
<1> QED
  BY <1>1, <1>2, <1>6, AnswerType DEF ChangeRoom, TypeInv, TypeOK

LEMMA TypeCheckIn ==
  ASSUME TypeInv, NEW q \in Request, CheckIn(q)
  PROVE  TypeInv'
<1>1. req[q].op \in RoomOps
  BY DEF CheckIn, RoomOps
<1>2. "CHECKED_IN" \in ReservationStatus
  BY DEF ReservationStatus
<1>3. reservation' \in [Reservation -> ReservationRow]
  BY <1>1, <1>2, TypeRoomRequest, WithRoomType, WithStatusType, RowWritten
     DEF CheckIn, TypeInv
<1>4. room' \in [Room -> RoomRow]
  BY <1>1, TypeRoomRequest DEF CheckIn, TypeInv, TypeOK, RoomRow, RoomStatus
<1> QED
  BY <1>1, <1>3, <1>4, AnswerType DEF CheckIn, TypeInv, TypeOK

LEMMA TypeCheckOut ==
  ASSUME TypeInv, NEW q \in Request, CheckOut(q)
  PROVE  TypeInv'
<1>1. req[q].op \in LeaveOps
  BY DEF CheckOut, LeaveOps
<1>2. "CHECKED_OUT" \in ReservationStatus
  BY DEF ReservationStatus
<1>3. reservation' \in [Reservation -> ReservationRow]
  BY <1>1, <1>2, TypeLeave, WithStatusType, RowWritten DEF CheckOut, TypeInv
<1>4. room' \in [Room -> RoomRow]
  BY RoomWritten DEF CheckOut, TypeInv, TypeOK
<1>5. invoices' \in [Reservation -> Nat]
  BY <1>1, TypeLeave DEF CheckOut, TypeInv, TypeOK
<1>6. \A k \in DOMAIN req[q].context.rooms : req[q].context.rooms[k] \in Room
  <2>1. req[q].context.rooms \in Seq(Room)
    BY <1>1, TypeLeave DEF ContextRow
  <2> QED
    BY <2>1, LenProperties, ElementOfSeq
<1>7. tasks' \subseteq Room \X Reservation
  BY <1>1, <1>6, TypeLeave DEF CheckOut, TypeInv, TypeOK
<1> QED
  BY <1>1, <1>3, <1>4, <1>5, <1>7, AnswerType DEF CheckOut, TypeInv, TypeOK

LEMMA TypeNoShow ==
  ASSUME TypeInv, NEW q \in Request, NoShow(q)
  PROVE  TypeInv'
<1>1. req[q].op \in LeaveOps
  BY DEF NoShow, LeaveOps
<1>2. "NO_SHOW" \in ReservationStatus
  BY DEF ReservationStatus
<1>3. reservation' \in [Reservation -> ReservationRow]
  BY <1>1, <1>2, TypeLeave, WithStatusType, RowWritten DEF NoShow, TypeInv
<1> QED
  BY <1>1, <1>3, AnswerType DEF NoShow, TypeInv, TypeOK

LEMMA TypeRefuse ==
  ASSUME TypeInv, NEW q \in Request, Refuse(q)
  PROVE  TypeInv'
BY EndedType, TypeEnd DEF Refuse, TypeInv, TypeOK

LEMMA TypeMoveReservation ==
  ASSUME TypeInv, NEW q \in Request, MoveReservation(q)
  PROVE  TypeInv'
<1>1. req[q] \in MoveReq
  BY RequestShapes DEF MoveReservation, TypeInv
<1>2. PICK row \in FirstRow(reservation[req[q].of].rooms) :
        reservation' = [reservation EXCEPT ![req[q].of] =
                          WithStay(WithRoom(@, row, req[q].room), req[q].stay)]
  BY DEF MoveReservation
<1>3. /\ req[q].of \in Reservation
      /\ req[q].room \in Room
      /\ req[q].stay \in Stays
  BY <1>1 DEF MoveReq
<1>4. reservation[req[q].of] \in ReservationRow
  BY <1>3 DEF TypeInv, TypeOK
<1>5. reservation' \in [Reservation -> ReservationRow]
  <2>1. row \in Nat
    BY <1>4, FirstRowType DEF ReservationRow
  <2> QED
    BY <1>2, <1>3, <1>4, <2>1, WithRoomType, WithStayType, RowWritten DEF TypeInv
<1>6. Answered(NoKey, req[q].of) \in DoneReq
  BY <1>1 DEF Answered, DoneReq, MoveReq
<1> QED
  BY <1>5, <1>6, TypeEnd DEF MoveReservation, TypeInv, TypeOK

LEMMA TypeBlockRequest ==
  ASSUME TypeInv, NEW q \in Request, req[q].op \in BlockOps
  PROVE  /\ req[q].of \in Block
         /\ req[q].read \in BlockRow
         /\ req[q].next \in BlockRow
<1>1. req[q] \in BlockReq
  BY RequestShapes DEF TypeInv
<1> QED
  BY <1>1 DEF BlockReq

(* A block operation ends by writing one typed block row. *)
LEMMA TypeBlockWritten ==
  ASSUME TypeInv, NEW q \in Request, NEW b \in Block, NEW row \in BlockRow,
         block' = [block EXCEPT ![b] = row],
         room' \in [Room -> RoomRow],
         req' = [req EXCEPT ![q] = Ended],
         UNCHANGED <<reservation, idem, invoices, tasks>>
  PROVE  TypeInv'
<1>1. block' \in [Block -> BlockRow \cup {NoBlock}]
  BY DEF TypeInv, TypeOK
<1>2. req' \in [Request -> RoomReq \cup LeaveReq \cup MoveReq
                           \cup BlockReq \cup DoneReq \cup {IdleReq}]
  BY EndedType DEF TypeInv, TypeOK
<1>3. BlockRequestsKnown'
  <2> SUFFICES ASSUME NEW p \in Request,
                      req'[p].op \in {"blockUpdate", "blockDelete"}
               PROVE  block'[req'[p].of] \in BlockRow
    BY DEF BlockRequestsKnown
  <2>1. p # q /\ req'[p] = req[p]
    BY EndedType DEF TypeInv, TypeOK, DoneReq
  <2>2. block[req[p].of] \in BlockRow
    BY <2>1 DEF TypeInv, BlockRequestsKnown
  <2>3. req[p].of \in Block
    BY <2>1, TypeBlockRequest DEF BlockOps
  <2> QED
    BY <2>1, <2>2, <2>3 DEF TypeInv, TypeOK
<1> QED
  BY <1>1, <1>2, <1>3 DEF TypeInv, TypeOK

(* Setting a room's maintenanceStatus keeps the rooms typed. *)
LEMMA MaintenanceSetType ==
  ASSUME TypeOK, NEW rm \in Room, NEW m \in RoomStatus
  PROVE  [room EXCEPT ![rm].maintenanceStatus = m] \in [Room -> RoomRow]
BY DEF TypeOK, RoomRow

LEMMA TypeInsertBlock ==
  ASSUME TypeInv, NEW q \in Request, InsertBlock(q)
  PROVE  TypeInv'
<1>1. req[q].of \in Block /\ req[q].next \in BlockRow
  BY TypeBlockRequest DEF InsertBlock, BlockOps
<1>2. req[q].next.room \in Room /\ "MAINTENANCE" \in RoomStatus
  BY <1>1 DEF BlockRow, RoomStatus
<1>3. room' \in [Room -> RoomRow]
  BY <1>2, MaintenanceSetType DEF InsertBlock, TypeInv, TypeOK
<1> QED
  BY <1>1, <1>3, TypeBlockWritten DEF InsertBlock

LEMMA TypeWriteBlock ==
  ASSUME TypeInv, NEW q \in Request, WriteBlock(q)
  PROVE  TypeInv'
<1>1. req[q].of \in Block /\ req[q].next \in BlockRow
  BY TypeBlockRequest DEF WriteBlock, BlockOps
<1>2. block[req[q].of] \in BlockRow
  BY DEF WriteBlock, TypeInv, BlockRequestsKnown
<1>3. Rewritten(block[req[q].of], req[q].next) \in BlockRow
  BY <1>1, <1>2 DEF Rewritten, BlockRow
<1>4. room' \in [Room -> RoomRow]
  BY DEF WriteBlock, TypeInv, TypeOK
<1> QED
  BY <1>1, <1>3, <1>4, TypeBlockWritten DEF WriteBlock

LEMMA TypeDeleteBlock ==
  ASSUME TypeInv, NEW q \in Request, DeleteBlock(q)
  PROVE  TypeInv'
<1>1. req[q].of \in Block /\ req[q].read \in BlockRow
  BY TypeBlockRequest DEF DeleteBlock, BlockOps
<1>2. block[req[q].of] \in BlockRow
  BY DEF DeleteBlock, TypeInv, BlockRequestsKnown
<1>3. Removed(block[req[q].of]) \in BlockRow
  BY <1>2 DEF Removed, BlockRow
<1>4. req[q].read.room \in Room /\ "AVAILABLE" \in RoomStatus
  BY <1>1 DEF BlockRow, RoomStatus
<1>5. room' \in [Room -> RoomRow]
  BY <1>4, MaintenanceSetType DEF DeleteBlock, TypeInv, TypeOK
<1> QED
  BY <1>1, <1>3, <1>5, TypeBlockWritten DEF DeleteBlock

-----------------------------------------------------------------------------
(* The operations on a room, and an aborted transaction. *)

LEMMA TypeRoomOnly ==
  ASSUME TypeInv, NEW q \in Request, room' \in [Room -> RoomRow],
         req' = [req EXCEPT ![q] = Ended],
         UNCHANGED <<reservation, block, idem, invoices, tasks>>
  PROVE  TypeInv'
BY EndedType, TypeEnd DEF TypeInv, TypeOK

LEMMA TypeUpdateRoomStatus ==
  ASSUME TypeInv, NEW q \in Request, NEW rm \in Room, NEW dto \in RoomUpdates,
         UpdateRoomStatus(q, rm, dto)
  PROVE  TypeInv'
<1> DEFINE new == [status |-> Patch(room[rm].status, dto.status),
                   cleaningStatus |-> Patch(room[rm].cleaningStatus,
                                            dto.cleaningStatus),
                   maintenanceStatus |-> Patch(room[rm].maintenanceStatus,
                                               dto.maintenanceStatus)]
<1>1. room[rm] \in RoomRow
  BY DEF TypeInv, TypeOK
<1>2. dto \in [status : RoomStatus \cup {Keep},
              cleaningStatus : RoomStatus \cup {Keep},
              maintenanceStatus : RoomStatus \cup {Keep}]
  BY InputAssumption
<1>3. new \in RoomRow
  BY <1>1, <1>2 DEF RoomRow, Patch
<1>4. room' = [room EXCEPT ![rm] = new]
  BY DEF UpdateRoomStatus
<1>5. room' \in [Room -> RoomRow]
  BY <1>3, <1>4 DEF TypeInv, TypeOK
<1> QED
  BY <1>5, TypeRoomOnly DEF UpdateRoomStatus

LEMMA TypeCreateHousekeepingTask ==
  ASSUME TypeInv, NEW q \in Request, NEW rm \in Room, NEW flag \in BOOLEAN,
         CreateHousekeepingTask(q, rm, flag)
  PROVE  TypeInv'
<1>1. room' \in [Room -> RoomRow]
  BY DEF CreateHousekeepingTask, TypeInv, TypeOK, RoomRow, RoomStatus
<1> QED
  BY <1>1, TypeRoomOnly DEF CreateHousekeepingTask

LEMMA TypeCreateMaintenanceIssue ==
  ASSUME TypeInv, NEW q \in Request, NEW rm \in Room, NEW flag \in BOOLEAN,
         CreateMaintenanceIssue(q, rm, flag)
  PROVE  TypeInv'
<1> DEFINE new == [room[rm] EXCEPT !.status = "OUT_OF_SERVICE",
                                   !.maintenanceStatus = "MAINTENANCE"]
<1>1. room' \in [Room -> RoomRow]
  BY DEF CreateMaintenanceIssue, TypeInv, TypeOK, RoomRow, RoomStatus
<1> QED
  BY <1>1, TypeRoomOnly DEF CreateMaintenanceIssue

LEMMA TypeSerializationFailure ==
  ASSUME TypeInv, NEW q \in Request, SerializationFailure(q)
  PROVE  TypeInv'
<1>1. CASE req' = [req EXCEPT ![q] = Ended]
  BY <1>1, TypeRoomOnly DEF SerializationFailure, TypeInv, TypeOK
<1>2. CASE req' = [req EXCEPT ![q] = Retried(req[q])]
  <2> DEFINE held == Retried(req[q])
  <2>1. req[q] \in RoomReq \cup LeaveReq \cup MoveReq
    BY RequestShapes
       DEF SerializationFailure, RetriedOps, RoomOps, LeaveOps, TypeInv
  <2>2. held \in RoomReq \cup LeaveReq \cup MoveReq
    BY <2>1 DEF Retried, RoomReq, LeaveReq, MoveReq
  <2>3. held.op = req[q].op
    BY <2>1 DEF Retried, RoomReq, LeaveReq, MoveReq
  <2>4. held.op \notin {"blockUpdate", "blockDelete"}
    BY <2>3 DEF SerializationFailure, RetriedOps
  <2> QED
    BY <1>2, <2>2, <2>4, TypeOpen DEF SerializationFailure
<1> QED
  BY <1>1, <1>2 DEF SerializationFailure

LEMMA TypeFrontDeskStep ==
  ASSUME TypeInv, FrontDeskNext PROVE TypeInv'
<1> PICK q \in Request :
      \/ \E r \in Reservation, key \in IdemKey \cup {NoKey}, d \in CreateDto :
           CreateReservation(q, r, key, d)
      \/ \E key \in IdemKey, d \in CreateDto : ReplayCreate(q, key, d)
      \/ \E r \in Reservation :
           \/ \E op \in RoomOps, rm \in Room : ReadForRoom(q, op, r, rm)
           \/ \E op \in LeaveOps : ReadForLeave(q, op, r)
      \/ AssignRoom(q) \/ ChangeRoom(q) \/ CheckIn(q) \/ CheckOut(q)
      \/ NoShow(q) \/ RefuseRoom(q)
      \/ \E rm \in Room, dto \in RoomUpdates : UpdateRoomStatus(q, rm, dto)
      \/ \E rm \in Room, flag \in BOOLEAN :
           \/ CreateHousekeepingTask(q, rm, flag)
           \/ CreateMaintenanceIssue(q, rm, flag)
  BY DEF FrontDeskNext
<1>1. ASSUME NEW r \in Reservation, NEW key \in IdemKey \cup {NoKey},
             NEW d \in CreateDto, CreateReservation(q, r, key, d)
      PROVE  TypeInv'
  BY <1>1, TypeCreate
<1>2. ASSUME NEW key \in IdemKey, NEW d \in CreateDto, ReplayCreate(q, key, d)
      PROVE  TypeInv'
  BY <1>2, TypeReplay
<1>3. ASSUME NEW r \in Reservation, NEW op \in RoomOps, NEW rm \in Room,
             ReadForRoom(q, op, r, rm)
      PROVE  TypeInv'
  BY <1>3, TypeReadForRoom
<1>4. ASSUME NEW r \in Reservation, NEW op \in LeaveOps, ReadForLeave(q, op, r)
      PROVE  TypeInv'
  BY <1>4, TypeReadForLeave
<1>5. CASE AssignRoom(q)
  BY <1>5, TypeAssignRoom
<1>6. CASE ChangeRoom(q)
  BY <1>6, TypeChangeRoom
<1>7. CASE CheckIn(q)
  BY <1>7, TypeCheckIn
<1>8. CASE CheckOut(q)
  BY <1>8, TypeCheckOut
<1>9. CASE NoShow(q)
  BY <1>9, TypeNoShow
<1>10. CASE RefuseRoom(q)
  BY <1>10, TypeRefuse DEF RefuseRoom
<1>11. ASSUME NEW rm \in Room, NEW dto \in RoomUpdates,
              UpdateRoomStatus(q, rm, dto)
       PROVE  TypeInv'
  BY <1>11, TypeUpdateRoomStatus
<1>12. ASSUME NEW rm \in Room, NEW flag \in BOOLEAN,
              CreateHousekeepingTask(q, rm, flag)
       PROVE  TypeInv'
  BY <1>12, TypeCreateHousekeepingTask
<1>13. ASSUME NEW rm \in Room, NEW flag \in BOOLEAN,
              CreateMaintenanceIssue(q, rm, flag)
       PROVE  TypeInv'
  BY <1>13, TypeCreateMaintenanceIssue
<1> QED
  BY <1>1, <1>2, <1>3, <1>4, <1>5, <1>6, <1>7, <1>8, <1>9, <1>10, <1>11,
     <1>12, <1>13

LEMMA TypeCalendarStep ==
  ASSUME TypeInv, CalendarNext PROVE TypeInv'
<1> PICK q \in Request :
      \/ \E r \in Reservation, rm \in Room, stay \in Stays :
           LoadTimeline(q, r, rm, stay)
      \/ MoveReservation(q)
      \/ RefuseMove(q)
      \/ \E b \in Block, rm \in Room, stay \in Stays,
            type \in CalendarBlockType :
           \/ \E issueOpen \in BOOLEAN :
                CheckCreateBlock(q, b, rm, stay, type, issueOpen)
           \/ CheckUpdateBlock(q, b, rm, stay, type)
      \/ \E b \in Block : CheckDeleteBlock(q, b)
      \/ InsertBlock(q) \/ WriteBlock(q) \/ DeleteBlock(q)
  BY DEF CalendarNext
<1>1. ASSUME NEW r \in Reservation, NEW rm \in Room, NEW stay \in Stays,
             LoadTimeline(q, r, rm, stay)
      PROVE  TypeInv'
  BY <1>1, TypeLoadTimeline
<1>2. CASE MoveReservation(q)
  BY <1>2, TypeMoveReservation
<1>3. CASE RefuseMove(q)
  BY <1>3, TypeRefuse DEF RefuseMove
<1>4. ASSUME NEW b \in Block, NEW rm \in Room, NEW stay \in Stays,
             NEW type \in CalendarBlockType, NEW issueOpen \in BOOLEAN,
             CheckCreateBlock(q, b, rm, stay, type, issueOpen)
      PROVE  TypeInv'
  BY <1>4, TypeCheckCreateBlock
<1>5. ASSUME NEW b \in Block, NEW rm \in Room, NEW stay \in Stays,
             NEW type \in CalendarBlockType,
             CheckUpdateBlock(q, b, rm, stay, type)
      PROVE  TypeInv'
  BY <1>5, TypeCheckUpdateBlock
<1>6. ASSUME NEW b \in Block, CheckDeleteBlock(q, b)
      PROVE  TypeInv'
  BY <1>6, TypeCheckDeleteBlock
<1>7. CASE InsertBlock(q)
  BY <1>7, TypeInsertBlock
<1>8. CASE WriteBlock(q)
  BY <1>8, TypeWriteBlock
<1>9. CASE DeleteBlock(q)
  BY <1>9, TypeDeleteBlock
<1> QED
  BY <1>1, <1>2, <1>3, <1>4, <1>5, <1>6, <1>7, <1>8, <1>9

LEMMA TypeStep ==
  ASSUME TypeInv, [Next]_vars PROVE TypeInv'
<1>1. CASE FrontDeskNext
  BY <1>1, TypeFrontDeskStep
<1>2. CASE CalendarNext
  BY <1>2, TypeCalendarStep
<1>3. ASSUME NEW q \in Request, SerializationFailure(q) PROVE TypeInv'
  BY <1>3, TypeSerializationFailure
<1>4. CASE UNCHANGED vars
  BY <1>4 DEF vars, TypeInv, TypeOK, BlockRequestsKnown
<1> QED
  BY <1>1, <1>2, <1>3, <1>4 DEF Next

(* The type invariant holds in every reachable state of every instance.    *)
THEOREM TypeCorrect == Spec => []TypeOK
<1>1. Spec => []TypeInv
  BY TypeInit, TypeStep, PTL DEF Spec
<1>2. TypeInv => TypeOK
  BY DEF TypeInv
<1> QED
  BY <1>1, <1>2, PTL

-----------------------------------------------------------------------------
(* What a step does to reservations, events and requests: whatever the     *)
(* action, it is one of eight kinds.  The safety proofs go by kind.        *)

(* The operations whose open request names a reservation. *)
StayOps == RoomOps \cup LeaveOps \cup {"move"}

(* The events a channel reads as the life of a stay. *)
StayEvents ==
  {"RESERVATION_CREATED", "RESERVATION_UPDATED", "ROOM_ASSIGNED",
   "ROOM_CHANGED", "CHECKED_IN", "CHECKED_OUT", "NO_SHOW"}

(* Request q no longer names a reservation; the others wait. *)
Finished(q) ==
  /\ req'[q].op \notin StayOps
  /\ \A p \in Request \ {q} : req'[p] = req[p]

(* No stay that holds its room would be under a block of rm for stay. *)
Clear(rm, stay) ==
  \A r \in Reservation :
    Blocking(r) /\ rm \in RoomsOf(r) => ~Overlap(reservation[r].stay, stay)

(* Row r becomes n, and one event is added. *)
Writes(q, r, n, e) ==
  /\ Finished(q) /\ req'[q].op = "done"
  /\ r \in Reservation
  /\ reservation' = [reservation EXCEPT ![r] = n]
  /\ outbox' = outbox \cup {e}

(* The request ends without a write to reservations, or opens on a block   *)
(* after its conflicts were looked for.                                    *)
Quiet(q) ==
  /\ Finished(q)
  /\ req'[q].op \in {"blockCreate", "blockUpdate"} =>
       Clear(req'[q].next.room, req'[q].next.stay)
  /\ UNCHANGED reservation
  /\ outbox \subseteq outbox'
  /\ \A e \in outbox' \ outbox : e.type \notin StayEvents

Opens(q) ==
  /\ UNCHANGED <<reservation, outbox>>
  /\ \A p \in Request \ {q} : req'[p] = req[p]
  /\ req'[q].op \in Ops \cap StayOps
  /\ req'[q].of \in Reservation /\ Exists(req'[q].of)
  /\ req'[q].op \in RoomOps \cup LeaveOps =>
       /\ req'[q].context = Context(req'[q].of)
       /\ ContextAllows(req'[q].op, req'[q].context.status)
  /\ req'[q].op \in RoomOps =>
       req'[q].row \in FirstRow(reservation[req'[q].of].rooms)

Retries(q) ==
  /\ UNCHANGED <<reservation, outbox>>
  /\ \A p \in Request \ {q} : req'[p] = req[p]
  /\ req[q].op \in StayOps
  /\ req'[q].op = req[q].op /\ req'[q].of = req[q].of
  /\ req[q].op \in RoomOps \cup LeaveOps => req'[q].context = req[q].context
  /\ req[q].op \in RoomOps => req'[q].row = req[q].row

Creates(q, r, d) ==
  /\ MayOpen(q, "create")
  /\ ~Exists(r)
  /\ CanCreate(d)
  /\ Writes(q, r, [status |-> d.status, stay |-> d.stay, rooms |-> d.rooms,
                   updatedAt |-> 1], Event("RESERVATION_CREATED", r, <<>>))

(* The new row of a room operation: the status follows a check-in only. *)
Rerooms(q) ==
  /\ req[q].op \in {"assign", "change"}
  /\ RoomGuard(q)
  /\ \E e \in outbox' :
       /\ e.type \in {"ROOM_ASSIGNED", "ROOM_CHANGED"}
       /\ Writes(q, req[q].of,
            WithRoom(reservation[req[q].of], req[q].row, req[q].room), e)

Arrives(q) ==
  /\ req[q].op = "checkIn"
  /\ RoomGuard(q)
  /\ Writes(q, req[q].of,
       WithStatus(WithRoom(reservation[req[q].of], req[q].row, req[q].room),
                  "CHECKED_IN"),
       Event("CHECKED_IN", req[q].of, <<>>))

Leaves(q, s) ==
  /\ req[q].op \in LeaveOps
  /\ \/ s = "CHECKED_OUT" /\ CheckOut(q)
     \/ s = "NO_SHOW" /\ NoShow(q)
  /\ Writes(q, req[q].of, WithStatus(reservation[req[q].of], s),
            Event(s, req[q].of, <<>>))

Moves(q, row) ==
  /\ req[q].op = "move"
  /\ CanMove(q)
  /\ row \in FirstRow(reservation[req[q].of].rooms)
  /\ Writes(q, req[q].of,
       WithStay(WithRoom(reservation[req[q].of], row, req[q].room),
                req[q].stay),
       Event("RESERVATION_UPDATED", req[q].of,
             <<req[q].expectedUpdatedAt, req[q].room, req[q].stay>>))

Kind(q) ==
  \/ Quiet(q) \/ Opens(q) \/ Retries(q)
  \/ \E r \in Reservation, d \in CreateDto : Creates(q, r, d)
  \/ Rerooms(q)
  \/ Arrives(q)
  \/ \E s \in {"CHECKED_OUT", "NO_SHOW"} : Leaves(q, s)
  \/ \E row \in Nat : Moves(q, row)

-----------------------------------------------------------------------------
(* An ended request names no reservation. *)
LEMMA AnsweredFinishes ==
  ASSUME TypeOK, NEW q \in Request, NEW key, NEW r,
         req' = [req EXCEPT ![q] = Answered(key, r)]
  PROVE  Finished(q) /\ req'[q].op = "done"
BY DEF TypeOK, Answered, Finished, StayOps, RoomOps, LeaveOps

LEMMA AnswerFinishes ==
  ASSUME TypeOK, NEW q \in Request, Answer(q)
  PROVE  Finished(q) /\ req'[q].op = "done"
BY AnsweredFinishes DEF Answer

LEMMA EndedFinishes ==
  ASSUME TypeOK, NEW q \in Request, req' = [req EXCEPT ![q] = Ended]
  PROVE  Finished(q) /\ req'[q].op = "done"
BY AnsweredFinishes DEF Ended

LEMMA KindCreate ==
  ASSUME TypeInv, NEW q \in Request, NEW r \in Reservation,
         NEW key \in IdemKey \cup {NoKey}, NEW d \in CreateDto,
         CreateReservation(q, r, key, d)
  PROVE  Creates(q, r, d)
<1>1. Finished(q) /\ req'[q].op = "done"
  BY AnsweredFinishes DEF CreateReservation, TypeInv
<1> QED
  BY <1>1 DEF CreateReservation, Creates, Writes, Emit

LEMMA KindOpenRoom ==
  ASSUME TypeInv, NEW q \in Request, NEW op \in RoomOps,
         NEW r \in Reservation, NEW rm \in Room, ReadForRoom(q, op, r, rm)
  PROVE  Opens(q)
BY DEF ReadForRoom, MayOpen, Opens, Context, TypeInv, TypeOK, StayOps, RoomOps,
       LeaveOps

LEMMA KindOpenLeave ==
  ASSUME TypeInv, NEW q \in Request, NEW op \in LeaveOps,
         NEW r \in Reservation, ReadForLeave(q, op, r)
  PROVE  Opens(q)
BY DEF ReadForLeave, MayOpen, Opens, Context, TypeInv, TypeOK, StayOps, RoomOps,
       LeaveOps

LEMMA KindOpenMove ==
  ASSUME TypeInv, NEW q \in Request, NEW r \in Reservation, NEW rm \in Room,
         NEW stay \in Stays, LoadTimeline(q, r, rm, stay)
  PROVE  Opens(q)
BY DEF LoadTimeline, MayOpen, Opens, Context, TypeInv, TypeOK, StayOps, RoomOps,
       LeaveOps

LEMMA KindAssign ==
  ASSUME TypeInv, NEW q \in Request, AssignRoom(q)
  PROVE  Rerooms(q)
<1>1. Finished(q) /\ req'[q].op = "done"
  BY AnswerFinishes DEF AssignRoom, TypeInv
<1>2. req[q].of \in Reservation
  BY TypeRoomRequest DEF AssignRoom, RoomOps
<1> DEFINE e == Event("ROOM_ASSIGNED", req[q].of, <<req[q].room>>)
<1>3. e \in outbox' /\ outbox' = outbox \cup {e} /\ e.type = "ROOM_ASSIGNED"
  BY DEF AssignRoom, Emit, Event
<1>4. reservation' = [reservation EXCEPT ![req[q].of] =
        WithRoom(reservation[req[q].of], req[q].row, req[q].room)]
  BY DEF AssignRoom
<1>5. RoomGuard(q) /\ req[q].op = "assign"
  BY DEF AssignRoom
<1> HIDE DEF e
<1> QED
  BY <1>1, <1>2, <1>3, <1>4, <1>5 DEF Rerooms, Writes

LEMMA KindChange ==
  ASSUME TypeInv, NEW q \in Request, ChangeRoom(q)
  PROVE  Rerooms(q)
<1>1. Finished(q) /\ req'[q].op = "done"
  BY AnswerFinishes DEF ChangeRoom, TypeInv
<1>2. req[q].of \in Reservation
  BY TypeRoomRequest DEF ChangeRoom, RoomOps
<1> DEFINE e == Event("ROOM_CHANGED", req[q].of, <<req[q].room, q>>)
<1>3. e \in outbox' /\ outbox' = outbox \cup {e} /\ e.type = "ROOM_CHANGED"
  BY DEF ChangeRoom, Emit, Event
<1>4. reservation' = [reservation EXCEPT ![req[q].of] =
        WithRoom(reservation[req[q].of], req[q].row, req[q].room)]
  BY DEF ChangeRoom
<1>5. RoomGuard(q) /\ req[q].op = "change"
  BY DEF ChangeRoom
<1> HIDE DEF e
<1> QED
  BY <1>1, <1>2, <1>3, <1>4, <1>5 DEF Rerooms, Writes

LEMMA KindCheckIn ==
  ASSUME TypeInv, NEW q \in Request, CheckIn(q)
  PROVE  Arrives(q)
<1>1. Finished(q) /\ req'[q].op = "done"
  BY AnswerFinishes DEF CheckIn, TypeInv
<1>2. req[q].of \in Reservation
  BY TypeRoomRequest DEF CheckIn, RoomOps
<1> QED
  BY <1>1, <1>2 DEF CheckIn, Arrives, Writes, Emit

LEMMA KindCheckOut ==
  ASSUME TypeInv, NEW q \in Request, CheckOut(q)
  PROVE  Leaves(q, "CHECKED_OUT")
<1>1. Finished(q) /\ req'[q].op = "done"
  BY AnswerFinishes DEF CheckOut, TypeInv
<1>2. req[q].op \in LeaveOps /\ req[q].of \in Reservation
  BY TypeLeave DEF CheckOut, LeaveOps
<1> QED
  BY <1>1, <1>2 DEF CheckOut, Leaves, Writes, Emit

LEMMA KindNoShow ==
  ASSUME TypeInv, NEW q \in Request, NoShow(q)
  PROVE  Leaves(q, "NO_SHOW")
<1>1. Finished(q) /\ req'[q].op = "done"
  BY AnswerFinishes DEF NoShow, TypeInv
<1>2. req[q].op \in LeaveOps /\ req[q].of \in Reservation
  BY TypeLeave DEF NoShow, LeaveOps
<1> QED
  BY <1>1, <1>2 DEF NoShow, Leaves, Writes, Emit

LEMMA KindMove ==
  ASSUME TypeInv, NEW q \in Request, MoveReservation(q)
  PROVE  \E row \in Nat : Moves(q, row)
<1>1. Finished(q) /\ req'[q].op = "done"
  BY AnsweredFinishes DEF MoveReservation, TypeInv
<1>2. req[q].of \in Reservation
  BY RequestShapes DEF MoveReservation, TypeInv, MoveReq
<1>3. PICK row \in FirstRow(reservation[req[q].of].rooms) :
        reservation' = [reservation EXCEPT ![req[q].of] =
          WithStay(WithRoom(@, row, req[q].room), req[q].stay)]
  BY DEF MoveReservation
<1>4. row \in Nat
  BY <1>2, <1>3, FirstRowType DEF TypeInv, TypeOK, ReservationRow
<1>5. Moves(q, row)
  BY <1>1, <1>2, <1>3 DEF MoveReservation, Moves, Writes, Emit
<1> QED
  BY <1>4, <1>5

LEMMA KindRetry ==
  ASSUME TypeInv, NEW q \in Request, SerializationFailure(q)
  PROVE  Quiet(q) \/ Retries(q)
<1>1. CASE req' = [req EXCEPT ![q] = Ended]
  BY <1>1, EndedFinishes DEF SerializationFailure, Quiet, TypeInv
<1>2. CASE req' = [req EXCEPT ![q] = Retried(req[q])]
  <2>1. req[q] \in RoomReq \cup LeaveReq \cup MoveReq
    BY RequestShapes
       DEF SerializationFailure, RetriedOps, RoomOps, LeaveOps, TypeInv
  <2>2. /\ Retried(req[q]).op = req[q].op
        /\ Retried(req[q]).of = req[q].of
    BY <2>1 DEF Retried, RoomReq, LeaveReq, MoveReq
  <2>3. /\ req[q].op \in RoomOps \cup LeaveOps =>
             Retried(req[q]).context = req[q].context
        /\ req[q].op \in RoomOps => Retried(req[q]).row = req[q].row
    BY RequestShapes DEF Retried, RoomReq, LeaveReq, TypeInv
  <2> QED
    BY <1>2, <2>2, <2>3
       DEF SerializationFailure, Retries, RetriedOps, StayOps, RoomOps, LeaveOps,
           TypeInv, TypeOK
<1> QED
  BY <1>1, <1>2 DEF SerializationFailure

(* A block request, or a request that only ends, touches no reservation.   *)
LEMMA KindRefuse ==
  ASSUME TypeInv, NEW q \in Request, Refuse(q)
  PROVE  Quiet(q)
BY EndedFinishes DEF Refuse, Quiet, TypeInv

LEMMA KindReplay ==
  ASSUME TypeInv, NEW q \in Request, NEW key \in IdemKey, NEW d \in CreateDto,
         ReplayCreate(q, key, d)
  PROVE  Quiet(q)
BY AnsweredFinishes DEF ReplayCreate, Quiet, TypeInv

LEMMA KindOpenBlock ==
  ASSUME TypeInv, NEW q \in Request, NEW op \in BlockOps, NEW b,
         NEW read, NEW next, OpenBlock(q, op, b, read, next),
         op \in {"blockCreate", "blockUpdate"} => Clear(next.room, next.stay)
  PROVE  Quiet(q)
<1>1. Finished(q)
  BY DEF OpenBlock, Finished, TypeInv, TypeOK, StayOps, RoomOps, LeaveOps,
         BlockOps
<1>2. req'[q].op = op /\ req'[q].next = next
  BY DEF OpenBlock, TypeInv, TypeOK
<1> QED
  BY <1>1, <1>2 DEF OpenBlock, Quiet

LEMMA KindBlockWrite ==
  ASSUME TypeInv, NEW q \in Request,
         InsertBlock(q) \/ WriteBlock(q) \/ DeleteBlock(q)
  PROVE  Quiet(q)
<1>1. Finished(q) /\ req'[q].op = "done"
  BY EndedFinishes DEF InsertBlock, WriteBlock, DeleteBlock, TypeInv
<1> QED
  BY <1>1 DEF InsertBlock, WriteBlock, DeleteBlock, Quiet, Emit, Event,
              StayEvents

LEMMA KindRoomOnly ==
  ASSUME TypeInv, NEW q \in Request, NEW rm, NEW dto, NEW flag,
         \/ UpdateRoomStatus(q, rm, dto)
         \/ CreateHousekeepingTask(q, rm, flag)
         \/ CreateMaintenanceIssue(q, rm, flag)
  PROVE  Quiet(q)
<1>1. Finished(q) /\ req'[q].op = "done"
  BY EndedFinishes DEF UpdateRoomStatus, CreateHousekeepingTask,
                       CreateMaintenanceIssue, TypeInv
<1> QED
  BY <1>1 DEF UpdateRoomStatus, CreateHousekeepingTask,
              CreateMaintenanceIssue, Quiet, Emit, Event, StayEvents

LEMMA FrontDeskKinds ==
  ASSUME TypeInv, FrontDeskNext PROVE \E q \in Request : Kind(q)
<1> USE DEF Kind
<1> PICK q \in Request :
      \/ \E r \in Reservation, key \in IdemKey \cup {NoKey}, d \in CreateDto :
           CreateReservation(q, r, key, d)
      \/ \E key \in IdemKey, d \in CreateDto : ReplayCreate(q, key, d)
      \/ \E r \in Reservation :
           \/ \E op \in RoomOps, rm \in Room : ReadForRoom(q, op, r, rm)
           \/ \E op \in LeaveOps : ReadForLeave(q, op, r)
      \/ AssignRoom(q) \/ ChangeRoom(q) \/ CheckIn(q) \/ CheckOut(q)
      \/ NoShow(q) \/ RefuseRoom(q)
      \/ \E rm \in Room, dto \in RoomUpdates : UpdateRoomStatus(q, rm, dto)
      \/ \E rm \in Room, flag \in BOOLEAN :
           \/ CreateHousekeepingTask(q, rm, flag)
           \/ CreateMaintenanceIssue(q, rm, flag)
  BY DEF FrontDeskNext
<1>1. ASSUME NEW r \in Reservation, NEW key \in IdemKey \cup {NoKey},
             NEW d \in CreateDto, CreateReservation(q, r, key, d)
      PROVE  Kind(q)
  BY <1>1, KindCreate
<1>2. ASSUME NEW key \in IdemKey, NEW d \in CreateDto, ReplayCreate(q, key, d)
      PROVE  Kind(q)
  BY <1>2, KindReplay
<1>3. ASSUME NEW r \in Reservation, NEW op \in RoomOps, NEW rm \in Room,
             ReadForRoom(q, op, r, rm)
      PROVE  Kind(q)
  BY <1>3, KindOpenRoom
<1>4. ASSUME NEW r \in Reservation, NEW op \in LeaveOps, ReadForLeave(q, op, r)
      PROVE  Kind(q)
  BY <1>4, KindOpenLeave
<1>5. CASE AssignRoom(q) \/ ChangeRoom(q)
  BY <1>5, KindAssign, KindChange
<1>6. CASE CheckIn(q)
  BY <1>6, KindCheckIn
<1>7. CASE CheckOut(q) \/ NoShow(q)
  BY <1>7, KindCheckOut, KindNoShow
<1>8. CASE RefuseRoom(q)
  BY <1>8, KindRefuse DEF RefuseRoom
<1>9. ASSUME NEW rm, NEW dto, NEW flag,
             \/ UpdateRoomStatus(q, rm, dto)
             \/ CreateHousekeepingTask(q, rm, flag)
             \/ CreateMaintenanceIssue(q, rm, flag)
      PROVE  Kind(q)
  BY <1>9, KindRoomOnly
<1> HIDE DEF Kind
<1> QED
  BY <1>1, <1>2, <1>3, <1>4, <1>5, <1>6, <1>7, <1>8, <1>9

LEMMA CalendarKinds ==
  ASSUME TypeInv, CalendarNext PROVE \E q \in Request : Kind(q)
<1> PICK q \in Request :
      \/ \E r \in Reservation, rm \in Room, stay \in Stays :
           LoadTimeline(q, r, rm, stay)
      \/ MoveReservation(q)
      \/ RefuseMove(q)
      \/ \E b \in Block, rm \in Room, stay \in Stays,
            type \in CalendarBlockType :
           \/ \E issueOpen \in BOOLEAN :
                CheckCreateBlock(q, b, rm, stay, type, issueOpen)
           \/ CheckUpdateBlock(q, b, rm, stay, type)
      \/ \E b \in Block : CheckDeleteBlock(q, b)
      \/ InsertBlock(q) \/ WriteBlock(q) \/ DeleteBlock(q)
  BY DEF CalendarNext
<1>1. ASSUME NEW r \in Reservation, NEW rm \in Room, NEW stay \in Stays,
             LoadTimeline(q, r, rm, stay)
      PROVE  Kind(q)
  BY <1>1, KindOpenMove DEF Kind
<1>2. CASE MoveReservation(q)
  BY <1>2, KindMove DEF Kind
<1>3. CASE RefuseMove(q)
  BY <1>3, KindRefuse DEF RefuseMove, Kind
<1>4. ASSUME NEW b, NEW op \in BlockOps, NEW read, NEW next,
             OpenBlock(q, op, b, read, next),
             op \in {"blockCreate", "blockUpdate"} => Clear(next.room, next.stay)
      PROVE  Kind(q)
  BY <1>4, KindOpenBlock DEF Kind
<1>5. ASSUME NEW b, NEW rm, NEW stay, NEW type, NEW issueOpen,
             CheckCreateBlock(q, b, rm, stay, type, issueOpen)
      PROVE  Kind(q)
  <2> DEFINE new == [live |-> TRUE, room |-> rm, stay |-> stay, type |-> type,
                     issueOpen |-> issueOpen, updatedAt |-> 1]
  <2>1. NoMoveConflicts({}, rm, stay, {}) /\ OpenBlock(q, "blockCreate", b, new, new)
    BY <1>5 DEF CheckCreateBlock
  <2>2. new.room = rm /\ new.stay = stay
    OBVIOUS
  <2>3. Clear(rm, stay)
    BY <2>1 DEF NoMoveConflicts, Clear, Blocking
  <2> HIDE DEF new
  <2> QED
    BY <1>4, <2>1, <2>2, <2>3 DEF BlockOps
<1>6. ASSUME NEW b \in Block, NEW rm, NEW stay, NEW type,
             CheckUpdateBlock(q, b, rm, stay, type)
      PROVE  Kind(q)
  <2> DEFINE next == [block[b] EXCEPT !.room = rm, !.stay = stay, !.type = type]
  <2>1. /\ block[b].live
        /\ NoMoveConflicts({}, rm, stay, {b})
        /\ OpenBlock(q, "blockUpdate", b, block[b], next)
    BY <1>6 DEF CheckUpdateBlock
  <2>2. next.room = rm /\ next.stay = stay
    BY <2>1 DEF TypeInv, TypeOK, BlockRow, NoBlock
  <2>3. Clear(rm, stay)
    BY <2>1 DEF NoMoveConflicts, Clear, Blocking
  <2> HIDE DEF next
  <2> QED
    BY <1>4, <2>1, <2>2, <2>3 DEF BlockOps
<1>7. ASSUME NEW b, CheckDeleteBlock(q, b)
      PROVE  Kind(q)
  BY <1>4, <1>7 DEF CheckDeleteBlock, BlockOps
<1>8. CASE InsertBlock(q) \/ WriteBlock(q) \/ DeleteBlock(q)
  BY <1>8, KindBlockWrite DEF Kind
<1> QED
  BY <1>1, <1>2, <1>3, <1>5, <1>6, <1>7, <1>8

(* Every step of Pms is of one of the eight kinds. *)
LEMMA StepKinds ==
  ASSUME TypeInv, Next PROVE \E q \in Request : Kind(q)
<1>1. ASSUME NEW q \in Request, SerializationFailure(q) PROVE Kind(q)
  BY <1>1, KindRetry DEF Kind
<1> QED
  BY <1>1, FrontDeskKinds, CalendarKinds DEF Next
=============================================================================
