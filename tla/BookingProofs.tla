--------------------------- MODULE BookingProofs ---------------------------
(***************************************************************************)
(* Safety theorems about Pms.  However requests interleave: the optimistic *)
(* lock of the calendar, the recording of stay events, one reservation per *)
(* idempotency key.  The other properties fail for some interleavings, and *)
(* the theorems say which: double bookings and the room diary, the life    *)
(* cycle of a stay, its invoice, the rooms a check-out frees, and stays    *)
(* clear of blocks each hold as long as one kind of pair of requests is    *)
(* kept apart (Apart), and in particular where requests take turns.        *)
(*                                                                         *)
(* They rest on one case analysis, StepKinds of PmsProofs: whatever the    *)
(* action, a step does one of eight things to reservations, events and     *)
(* requests.                                                               *)
(***************************************************************************)
EXTENDS PmsProofs

-----------------------------------------------------------------------------
(* The fields of a rewritten reservation row. *)

LEMMA WithRoomFields ==
  ASSUME NEW c \in ReservationRow, NEW row, NEW rm
  PROVE  /\ WithRoom(c, row, rm).status = c.status
         /\ WithRoom(c, row, rm).stay = c.stay
         /\ WithRoom(c, row, rm).updatedAt = c.updatedAt
         /\ WithRoom(c, row, rm).rooms = PutRoom(c.rooms, row, rm)
BY DEF WithRoom, ReservationRow

LEMMA TouchedFields ==
  ASSUME NEW c \in ReservationRow
  PROVE  /\ Touched(c).status = c.status
         /\ Touched(c).stay = c.stay
         /\ Touched(c).updatedAt = c.updatedAt + 1
         /\ Touched(c).rooms = c.rooms
BY DEF Touched, ReservationRow

LEMMA WithStatusFields ==
  ASSUME NEW c \in ReservationRow, NEW s \in ReservationStatus
  PROVE  /\ WithStatus(c, s).status = s
         /\ WithStatus(c, s).stay = c.stay
         /\ WithStatus(c, s).updatedAt = c.updatedAt + 1
         /\ WithStatus(c, s).rooms = c.rooms
<1> DEFINE d == [c EXCEPT !.status = s]
<1>1. d \in ReservationRow
  BY DEF ReservationRow
<1>2. d.status = s /\ d.stay = c.stay /\ d.updatedAt = c.updatedAt
        /\ d.rooms = c.rooms
  BY DEF ReservationRow
<1> HIDE DEF d
<1>3. WithStatus(c, s) = Touched(d)
  BY DEF WithStatus, d
<1> QED
  BY <1>1, <1>2, <1>3, TouchedFields

LEMMA WithStayFields ==
  ASSUME NEW c \in ReservationRow, NEW stay \in Stays
  PROVE  /\ WithStay(c, stay).status = c.status
         /\ WithStay(c, stay).stay = stay
         /\ WithStay(c, stay).updatedAt = c.updatedAt + 1
         /\ WithStay(c, stay).rooms = c.rooms
<1> DEFINE d == [c EXCEPT !.stay = stay]
<1>1. d \in ReservationRow
  BY DEF ReservationRow
<1>2. d.status = c.status /\ d.stay = stay /\ d.updatedAt = c.updatedAt
        /\ d.rooms = c.rooms
  BY DEF ReservationRow
<1> HIDE DEF d
<1>3. WithStay(c, stay) = Touched(d)
  BY DEF WithStay, d
<1> QED
  BY <1>1, <1>2, <1>3, TouchedFields

-----------------------------------------------------------------------------
(* Reservations never disappear, so an open request's reservation exists.  *)

RequestsKnown ==
  \A q \in Request :
    req[q].op \in StayOps => req[q].of \in Reservation /\ Exists(req[q].of)

(* What a step does to the row of the reservation it names. *)
RowStep(r) ==
  \/ reservation'[r] = reservation[r]
  \/ /\ ~Exists(r)
     /\ reservation'[r].updatedAt = 1
     /\ reservation'[r].status \in CreateStatuses
     /\ Event("RESERVATION_CREATED", r, <<>>) \in outbox'
  \/ /\ reservation'[r].status = reservation[r].status
     /\ reservation'[r].updatedAt = reservation[r].updatedAt
  \/ /\ reservation'[r].status = reservation[r].status
     /\ reservation'[r].updatedAt = reservation[r].updatedAt + 1
  \/ /\ Exists(r)
     /\ reservation'[r].status \in {"CHECKED_IN", "CHECKED_OUT", "NO_SHOW"}
     /\ reservation'[r].updatedAt = reservation[r].updatedAt + 1
     /\ Event(reservation'[r].status, r, <<>>) \in outbox'

LEMMA RowSteps ==
  ASSUME TypeInv, RequestsKnown, NEW q \in Request, Kind(q)
  PROVE  outbox \subseteq outbox' /\ \A r \in Reservation : RowStep(r)
<1> USE DEF RowStep
<1>1. CASE Quiet(q) \/ Opens(q) \/ Retries(q)
  BY <1>1 DEF Quiet, Opens, Retries
<1>2. ASSUME NEW r \in Reservation, NEW d \in CreateDto, Creates(q, r, d)
      PROVE  outbox \subseteq outbox' /\ \A x \in Reservation : RowStep(x)
  <2>1. d.status \in CreateStatuses
    BY DEF CreateDto
  <2> QED
    BY <1>2, <2>1 DEF Creates, Writes, TypeInv, TypeOK
<1>3. CASE Rerooms(q)
  <2>1. reservation[req[q].of] \in ReservationRow
    BY <1>3, TypeRoomRequest DEF Rerooms, RoomOps
  <2> QED
    BY <1>3, <2>1, WithRoomFields DEF Rerooms, Writes, TypeInv, TypeOK
<1>4. CASE Arrives(q)
  <2>1. /\ reservation[req[q].of] \in ReservationRow
        /\ req[q].row \in Nat /\ req[q].room \in Room
    BY <1>4, TypeRoomRequest DEF Arrives, RoomOps
  <2>2. Exists(req[q].of)
    BY <1>4 DEF Arrives, RequestsKnown, StayOps, RoomOps
  <2> DEFINE c == WithRoom(reservation[req[q].of], req[q].row, req[q].room)
  <2>3. c \in ReservationRow /\ c.updatedAt = reservation[req[q].of].updatedAt
    BY <2>1, WithRoomType, WithRoomFields
  <2>4. reservation' = [reservation EXCEPT ![req[q].of] =
                          WithStatus(c, "CHECKED_IN")]
    BY <1>4 DEF Arrives, Writes
  <2> HIDE DEF c
  <2>5. "CHECKED_IN" \in ReservationStatus
    BY DEF ReservationStatus
  <2> QED
    BY <1>4, <2>2, <2>3, <2>4, <2>5, WithStatusFields
       DEF Arrives, Writes, TypeInv, TypeOK
<1>5. ASSUME NEW s \in {"CHECKED_OUT", "NO_SHOW"}, Leaves(q, s)
      PROVE  outbox \subseteq outbox' /\ \A x \in Reservation : RowStep(x)
  <2>1. reservation[req[q].of] \in ReservationRow
    BY <1>5, TypeLeave DEF Leaves
  <2>2. Exists(req[q].of)
    BY <1>5 DEF Leaves, RequestsKnown, StayOps
  <2>3. s \in ReservationStatus
    BY DEF ReservationStatus
  <2> QED
    BY <1>5, <2>1, <2>2, <2>3, WithStatusFields
       DEF Leaves, Writes, TypeInv, TypeOK
<1>6. ASSUME NEW row \in Nat, Moves(q, row)
      PROVE  outbox \subseteq outbox' /\ \A x \in Reservation : RowStep(x)
  <2>1. /\ req[q].of \in Reservation
        /\ req[q].room \in Room /\ req[q].stay \in Stays
    BY <1>6, RequestShapes DEF Moves, TypeInv, MoveReq
  <2> DEFINE c == WithRoom(reservation[req[q].of], row, req[q].room)
  <2>2. /\ c \in ReservationRow
        /\ c.updatedAt = reservation[req[q].of].updatedAt
        /\ c.status = reservation[req[q].of].status
    BY <2>1, WithRoomType, WithRoomFields DEF TypeInv, TypeOK
  <2>3. reservation' = [reservation EXCEPT ![req[q].of] =
                          WithStay(c, req[q].stay)]
    BY <1>6 DEF Moves, Writes
  <2> HIDE DEF c
  <2> QED
    BY <1>6, <2>1, <2>2, <2>3, WithStayFields
       DEF Moves, Writes, TypeInv, TypeOK
<1> HIDE DEF RowStep
<1> QED
  BY <1>1, <1>2, <1>3, <1>4, <1>5, <1>6 DEF Kind

LEMMA ExistenceKept ==
  ASSUME TypeInv, RequestsKnown, NEW q \in Request, Kind(q),
         NEW r \in Reservation, Exists(r)
  PROVE  Exists(r)'
BY RowSteps, InputAssumption DEF RowStep, Exists, ReservationStatus

LEMMA RequestsKnownStep ==
  ASSUME TypeInv, RequestsKnown, NEW q \in Request, Kind(q)
  PROVE  RequestsKnown'
<1> SUFFICES ASSUME NEW p \in Request, req'[p].op \in StayOps
             PROVE  /\ req'[p].of \in Reservation
                    /\ reservation'[req'[p].of].status # "ABSENT"
  BY DEF RequestsKnown, Exists
<1>1. CASE req'[p].op = req[p].op /\ req'[p].of = req[p].of
  BY <1>1, ExistenceKept DEF RequestsKnown, Exists
<1>2. CASE Opens(q) /\ p = q
  BY <1>2 DEF Opens, Exists
<1>3. \/ Opens(q) /\ p = q
      \/ req'[p].op = req[p].op /\ req'[p].of = req[p].of
  BY DEF Kind, Quiet, Opens, Retries, Creates, Rerooms, Arrives, Leaves,
         Moves, Writes, Finished
<1> QED
  BY <1>1, <1>2, <1>3

-----------------------------------------------------------------------------
(* The optimistic lock of the calendar.  A move's event carries a version  *)
(* older than the row's, so no later move can start from it.               *)

MovesArePast ==
  \A e \in outbox :
    e.type = "RESERVATION_UPDATED" =>
      /\ e.of \in Reservation /\ Exists(e.of)
      /\ e.detail[1] \in Nat
      /\ e.detail[1] < reservation[e.of].updatedAt

VersionInv == TypeInv /\ RequestsKnown /\ MovesArePast /\ OneMovePerVersion

(* Only a move adds a RESERVATION_UPDATED event, and it adds one. *)
LEMMA MoveEvents ==
  ASSUME TypeInv, NEW q \in Request, Kind(q), NEW e \in outbox' \ outbox,
         e.type = "RESERVATION_UPDATED"
  PROVE  /\ e.of \in Reservation
         /\ e.detail[1] = reservation[e.of].updatedAt
         /\ reservation'[e.of].updatedAt = reservation[e.of].updatedAt + 1
         /\ reservation'[e.of].status = reservation[e.of].status
         /\ e.of = req[q].of
         /\ outbox' = outbox \cup {e}
<1>1. ~(Quiet(q) \/ Opens(q) \/ Retries(q))
  BY DEF Quiet, Opens, Retries, StayEvents
<1>2. ~\E r \in Reservation, d \in CreateDto : Creates(q, r, d)
  BY DEF Creates, Writes, Event
<1>3. ~(Rerooms(q) \/ Arrives(q))
  BY DEF Rerooms, Arrives, Writes, Event
<1>4. ~\E s \in {"CHECKED_OUT", "NO_SHOW"} : Leaves(q, s)
  BY DEF Leaves, Writes, Event
<1>5. PICK row \in Nat : Moves(q, row)
  BY <1>1, <1>2, <1>3, <1>4 DEF Kind
<1>6. /\ req[q].of \in Reservation
      /\ req[q].room \in Room /\ req[q].stay \in Stays
  BY <1>5, RequestShapes DEF Moves, TypeInv, MoveReq
<1>7. /\ outbox' = outbox \cup {e}
      /\ e = Event("RESERVATION_UPDATED", req[q].of,
              <<req[q].expectedUpdatedAt, req[q].room, req[q].stay>>)
  BY <1>5 DEF Moves, Writes
<1>8. e.of = req[q].of /\ e.detail[1] = req[q].expectedUpdatedAt
  BY <1>7 DEF Event
<1>9. req[q].expectedUpdatedAt = reservation[req[q].of].updatedAt
  BY <1>5 DEF Moves, CanMove
<1> DEFINE c == WithRoom(reservation[req[q].of], row, req[q].room)
<1>10. /\ c \in ReservationRow
       /\ c.updatedAt = reservation[req[q].of].updatedAt
       /\ c.status = reservation[req[q].of].status
  BY <1>6, WithRoomType, WithRoomFields DEF TypeInv, TypeOK
<1>11. reservation' = [reservation EXCEPT ![req[q].of] = WithStay(c, req[q].stay)]
  BY <1>5 DEF Moves, Writes
<1>12. /\ reservation'[req[q].of].updatedAt = reservation[req[q].of].updatedAt + 1
       /\ reservation'[req[q].of].status = reservation[req[q].of].status
  <2> HIDE DEF c
  <2> QED
    BY <1>6, <1>10, <1>11, WithStayFields DEF TypeInv, TypeOK
<1> QED
  BY <1>6, <1>7, <1>8, <1>9, <1>12

(* A move's reservation exists. *)
LEMMA MoveKnown ==
  ASSUME TypeInv, RequestsKnown, NEW q \in Request, Kind(q),
         NEW e \in outbox' \ outbox, e.type = "RESERVATION_UPDATED"
  PROVE  Exists(e.of)
<1>1. ~(Quiet(q) \/ Opens(q) \/ Retries(q))
  BY DEF Quiet, Opens, Retries, StayEvents
<1>2. ~\E r \in Reservation, d \in CreateDto : Creates(q, r, d)
  BY DEF Creates, Writes, Event
<1>3. req[q].op \in StayOps
  BY <1>1, <1>2 DEF Kind, Rerooms, Arrives, Leaves, Moves, StayOps, RoomOps
<1> QED
  BY <1>3, MoveEvents DEF RequestsKnown

(* An event of the past stays past. *)
LEMMA PastMovesKept ==
  ASSUME VersionInv, NEW q \in Request, Kind(q), NEW e \in outbox,
         e.type = "RESERVATION_UPDATED"
  PROVE  /\ reservation'[e.of].status # "ABSENT"
         /\ e.detail[1] < reservation'[e.of].updatedAt
<1>1. /\ e.of \in Reservation /\ Exists(e.of) /\ e.detail[1] \in Nat
      /\ e.detail[1] < reservation[e.of].updatedAt
  BY DEF VersionInv, MovesArePast
<1>2. RowStep(e.of)
  BY <1>1, RowSteps DEF VersionInv
<1>3. reservation[e.of].updatedAt \in Nat
  BY <1>1 DEF VersionInv, TypeInv, TypeOK, ReservationRow
<1> QED
  BY <1>1, <1>2, <1>3, InputAssumption DEF RowStep, Exists, ReservationStatus

LEMMA VersionStep ==
  ASSUME VersionInv, NEW q \in Request, Kind(q), TypeInv'
  PROVE  VersionInv'
<1>1. RequestsKnown'
  BY RequestsKnownStep DEF VersionInv
<1>2. MovesArePast'
  <2> SUFFICES ASSUME NEW e \in outbox', e.type = "RESERVATION_UPDATED"
               PROVE  /\ e.of \in Reservation
                      /\ reservation'[e.of].status # "ABSENT"
                      /\ e.detail[1] \in Nat
                      /\ e.detail[1] < reservation'[e.of].updatedAt
    BY DEF MovesArePast, Exists
  <2>1. CASE e \in outbox
    BY <2>1, PastMovesKept DEF VersionInv, MovesArePast
  <2>2. CASE e \notin outbox
    <3>1. /\ e.of \in Reservation /\ e.of = req[q].of
          /\ e.detail[1] = reservation[e.of].updatedAt
          /\ reservation'[e.of].updatedAt = reservation[e.of].updatedAt + 1
          /\ reservation'[e.of].status = reservation[e.of].status
      BY <2>2, MoveEvents DEF VersionInv
    <3>2. reservation[e.of].updatedAt \in Nat
      BY <3>1 DEF VersionInv, TypeInv, TypeOK, ReservationRow
    <3>3. Exists(e.of)
      BY <2>2, <3>1, MoveKnown DEF VersionInv
    <3> QED
      BY <3>1, <3>2, <3>3 DEF Exists
  <2> QED
    BY <2>1, <2>2
<1>3. OneMovePerVersion'
  <2> SUFFICES ASSUME NEW e \in outbox', NEW f \in outbox',
                      e.type = "RESERVATION_UPDATED",
                      f.type = "RESERVATION_UPDATED",
                      e.of = f.of, e.detail[1] = f.detail[1]
               PROVE  e = f
    BY DEF OneMovePerVersion
  <2>1. CASE e \in outbox /\ f \in outbox
    BY <2>1 DEF VersionInv, OneMovePerVersion
  <2>2. ASSUME NEW g \in outbox, NEW h \in outbox' \ outbox,
               g.type = "RESERVATION_UPDATED", h.type = "RESERVATION_UPDATED",
               g.of = h.of
        PROVE  g.detail[1] # h.detail[1]
    <3>1. h.detail[1] = reservation[h.of].updatedAt
      BY <2>2, MoveEvents DEF VersionInv
    <3>2. g.detail[1] \in Nat /\ g.detail[1] < reservation[g.of].updatedAt
      BY <2>2 DEF VersionInv, MovesArePast
    <3> QED
      BY <2>2, <3>1, <3>2
  <2>3. CASE e \notin outbox /\ f \notin outbox
    BY <2>3, MoveEvents DEF VersionInv
  <2> QED
    BY <2>1, <2>2, <2>3
<1> QED
  BY <1>1, <1>2, <1>3 DEF VersionInv

LEMMA VersionInit == Init => VersionInv
<1> SUFFICES ASSUME Init PROVE VersionInv
  OBVIOUS
<1>1. RequestsKnown
  BY DEF Init, InventoryInit, RequestsKnown, IdleReq, StayOps, RoomOps, LeaveOps
<1>2. MovesArePast /\ OneMovePerVersion
  BY DEF Init, InventoryInit, MovesArePast, OneMovePerVersion
<1> QED
  BY <1>1, <1>2, TypeInit DEF VersionInv

LEMMA VersionNext == VersionInv /\ [Next]_vars => VersionInv'
<1> SUFFICES ASSUME VersionInv, [Next]_vars PROVE VersionInv'
  OBVIOUS
<1>1. TypeInv'
  BY TypeStep DEF VersionInv
<1>2. CASE Next
  BY <1>1, <1>2, StepKinds, VersionStep DEF VersionInv
<1>3. CASE UNCHANGED vars
  BY <1>1, <1>3 DEF vars, VersionInv, RequestsKnown, MovesArePast,
                    OneMovePerVersion, Exists
<1> QED
  BY <1>2, <1>3

(* Of the clients that loaded one version of a reservation, at most one    *)
(* moves it: CalendarService.moveReservation, in every instance.           *)
THEOREM OneMovePerVersionHolds == Spec => []OneMovePerVersion
<1>1. Spec => []VersionInv
  BY VersionInit, VersionNext, PTL DEF Spec
<1>2. VersionInv => OneMovePerVersion
  BY DEF VersionInv
<1> QED
  BY <1>1, <1>2, PTL

-----------------------------------------------------------------------------
(* The outbox follows the stay. *)

EventsInv == TypeInv /\ RequestsKnown /\ StayEventsRecorded

LEMMA EventsStep ==
  ASSUME EventsInv, NEW q \in Request, Kind(q), TypeInv'
  PROVE  EventsInv'
<1>1. RequestsKnown'
  BY RequestsKnownStep DEF EventsInv
<1>2. ASSUME NEW r \in Reservation
      PROVE  /\ reservation'[r].status # "ABSENT" =>
                  Event("RESERVATION_CREATED", r, <<>>) \in outbox'
             /\ reservation'[r].status \in {"CHECKED_IN", "CHECKED_OUT", "NO_SHOW"}
                                           \ CreateStatuses
                  => Event(reservation'[r].status, r, <<>>) \in outbox'
  <2>1. RowStep(r) /\ outbox \subseteq outbox'
    BY RowSteps DEF EventsInv
  <2>2. /\ Exists(r) => Event("RESERVATION_CREATED", r, <<>>) \in outbox
        /\ reservation[r].status \in {"CHECKED_IN", "CHECKED_OUT", "NO_SHOW"}
                                     \ CreateStatuses
             => Event(reservation[r].status, r, <<>>) \in outbox
    BY DEF EventsInv, StayEventsRecorded
  <2> QED
    BY <2>1, <2>2 DEF RowStep, Exists
<1>3. StayEventsRecorded'
  BY <1>2 DEF StayEventsRecorded, Exists
<1> QED
  BY <1>1, <1>3 DEF EventsInv

LEMMA EventsNext == EventsInv /\ [Next]_vars => EventsInv'
<1> SUFFICES ASSUME EventsInv, [Next]_vars PROVE EventsInv'
  OBVIOUS
<1>1. TypeInv'
  BY TypeStep DEF EventsInv
<1>2. CASE Next
  BY <1>1, <1>2, StepKinds, EventsStep DEF EventsInv
<1>3. CASE UNCHANGED vars
  BY <1>1, <1>3 DEF vars, EventsInv, RequestsKnown, StayEventsRecorded, Exists
<1> QED
  BY <1>2, <1>3

LEMMA EventsInit == Init => EventsInv
<1> SUFFICES ASSUME Init PROVE EventsInv
  OBVIOUS
<1>1. StayEventsRecorded
  BY DEF Init, InventoryInit, StayEventsRecorded, Exists, AbsentRow
<1> QED
  BY <1>1, VersionInit DEF VersionInv, EventsInv

(* Whatever the row of a stay shows, the event of it is in the outbox: the *)
(* transactional outbox of ReservationsService, in every instance.         *)
THEOREM StayEventsHold == Spec => []StayEventsRecorded
<1>1. Spec => []EventsInv
  BY EventsInit, EventsNext, PTL DEF Spec
<1>2. EventsInv => StayEventsRecorded
  BY DEF EventsInv
<1> QED
  BY <1>1, <1>2, PTL

-----------------------------------------------------------------------------
(* No double bookings.  With one room per reservation, rewriting the first *)
(* room row rewrites all of them; where no move comes between its read and *)
(* its write, an assignment decided on the dates the reservation still has *)
(* when it writes.  PmsMoveRace shows that the second condition cannot be  *)
(* dropped: with both operations in use, and two requests at once, a room  *)
(* is booked twice.                                                        *)

OneRoomLists == \A list \in RoomLists : Len(list) = 1

OneRoomEach ==
  \A r \in Reservation : Exists(r) => Len(reservation[r].rooms) = 1

ContextsCurrent ==
  \A q \in Request :
    req[q].op \in RoomOps =>
      /\ req[q].row = 1
      /\ req[q].context.stay = reservation[req[q].of].stay

BookingInv ==
  TypeInv /\ RequestsKnown /\ OneRoomEach /\ ContextsCurrent /\ NoDoubleBooking

LEMMA OverlapSymmetric ==
  ASSUME NEW a \in Stays, NEW b \in Stays, Overlap(a, b)
  PROVE  Overlap(b, a)
BY BoundAssumption DEF Stays, Day, Overlap

(* A row that becomes the only room rm of reservation r. *)
LEMMA SingleRoomWritten ==
  ASSUME NEW rooms \in Seq(Room), Len(rooms) = 1, NEW rm \in Room
  PROVE  /\ PutRoom(rooms, 1, rm) \in Seq(Room)
         /\ Len(PutRoom(rooms, 1, rm)) = 1
         /\ PutRoom(rooms, 1, rm)[1] = rm
         /\ FirstRow(rooms) = {1}
<1>1. DOMAIN rooms = 1 .. 1 /\ rooms # <<>>
  <2>1. DOMAIN rooms = 1 .. 1
    BY LenProperties
  <2>2. DOMAIN <<>> # 1 .. 1
    OBVIOUS
  <2> QED
    BY <2>1, <2>2
<1>2. PutRoom(rooms, 1, rm) = [rooms EXCEPT ![1] = rm]
  BY DEF PutRoom
<1>3. FirstRow(rooms) = {1}
  BY <1>1 DEF FirstRow
<1> QED
  BY <1>1, <1>2, <1>3, ExceptSeq, LenProperties

(* Rewriting one reservation so that its one room is free of every other   *)
(* blocking reservation for its dates.                                     *)
LEMMA Rebooked ==
  ASSUME TypeInv, OneRoomEach, NoDoubleBooking,
         NEW r \in Reservation, NEW n \in ReservationRow,
         Len(n.rooms) = 1,
         reservation' = [reservation EXCEPT ![r] = n],
         \A o \in Reservation \ {r} :
           Blocking(o) /\ n.rooms[1] \in RoomsOf(o)
             => ~Overlap(reservation[o].stay, n.stay)
  PROVE  OneRoomEach' /\ NoDoubleBooking'
<1>1. reservation'[r] = n /\ \A o \in Reservation \ {r} : reservation'[o] = reservation[o]
  BY DEF TypeInv, TypeOK
<1>2. OneRoomEach'
  BY <1>1 DEF OneRoomEach, Exists
<1>3. DOMAIN n.rooms = {1}
  BY LenProperties DEF ReservationRow
<1>4. ASSUME NEW o \in Reservation \ {r}, Blocking(o), n.rooms[1] \in RoomsOf(o)
      PROVE  /\ ~Overlap(reservation[o].stay, n.stay)
             /\ ~Overlap(n.stay, reservation[o].stay)
  <2>1. reservation[o].stay \in Stays /\ n.stay \in Stays
    BY DEF TypeInv, TypeOK, ReservationRow
  <2> QED
    BY <1>4, <2>1, OverlapSymmetric
<1>5. ASSUME NEW x \in Reservation, NEW y \in Reservation, x # y,
             reservation'[x].status \in blockingReservationStatuses,
             reservation'[y].status \in blockingReservationStatuses,
             Overlap(reservation'[x].stay, reservation'[y].stay),
             NEW j \in DOMAIN reservation'[x].rooms,
             NEW k \in DOMAIN reservation'[y].rooms
      PROVE  reservation'[x].rooms[j] # reservation'[y].rooms[k]
  <2>1. CASE x = r
    BY <1>1, <1>3, <1>4, <1>5, <2>1 DEF Blocking, RoomsOf
  <2>2. CASE y = r
    BY <1>1, <1>3, <1>4, <1>5, <2>2 DEF Blocking, RoomsOf
  <2>3. CASE x # r /\ y # r
    BY <1>1, <1>5, <2>3 DEF NoDoubleBooking, Blocking, RoomsOf
  <2> QED
    BY <2>1, <2>2, <2>3
<1>6. NoDoubleBooking'
  BY <1>5 DEF NoDoubleBooking, Blocking, RoomsOf
<1> QED
  BY <1>2, <1>6

(* Where no blocking reservation is new or rewritten, nothing can collide. *)
LEMMA BookingsKept ==
  ASSUME NoDoubleBooking,
         \A x \in Reservation :
           reservation'[x].status \in blockingReservationStatuses
             => reservation'[x] = reservation[x]
  PROVE  NoDoubleBooking'
<1>1. ASSUME NEW x \in Reservation, NEW y \in Reservation, x # y,
             reservation'[x].status \in blockingReservationStatuses,
             reservation'[y].status \in blockingReservationStatuses,
             Overlap(reservation'[x].stay, reservation'[y].stay),
             NEW j \in DOMAIN reservation'[x].rooms,
             NEW k \in DOMAIN reservation'[y].rooms
      PROVE  reservation'[x].rooms[j] # reservation'[y].rooms[k]
  <2>1. reservation'[x] = reservation[x] /\ reservation'[y] = reservation[y]
    BY <1>1
  <2>2. RoomsOf(x) \cap RoomsOf(y) = {}
    BY <1>1, <2>1 DEF NoDoubleBooking, Blocking
  <2>3. /\ reservation'[x].rooms[j] \in RoomsOf(x)
        /\ reservation'[y].rooms[k] \in RoomsOf(y)
    BY <2>1 DEF RoomsOf
  <2> QED
    BY <2>2, <2>3
<1> QED
  BY <1>1 DEF NoDoubleBooking, Blocking, RoomsOf

(* Ending a stay only frees its room. *)
LEMMA Released ==
  ASSUME TypeInv, OneRoomEach, NoDoubleBooking,
         NEW r \in Reservation, NEW n \in ReservationRow,
         Len(n.rooms) = 1, n.status \notin blockingReservationStatuses,
         reservation' = [reservation EXCEPT ![r] = n]
  PROVE  OneRoomEach' /\ NoDoubleBooking'
<1>1. reservation'[r] = n /\ \A o \in Reservation \ {r} : reservation'[o] = reservation[o]
  BY DEF TypeInv, TypeOK
<1>2. OneRoomEach'
  BY <1>1 DEF OneRoomEach, Exists
<1>3. NoDoubleBooking'
  BY <1>1, BookingsKept
<1> QED
  BY <1>2, <1>3

(* Requests hold what they held before, or end, or have just been opened.  *)
LEMMA ContextsKept ==
  ASSUME BookingInv, NEW q \in Request, Retries(q) \/ Finished(q),
         \A p \in Request \ {q} :
           req[p].op \in RoomOps =>
             reservation'[req[p].of].stay = reservation[req[p].of].stay
  PROVE  ContextsCurrent'
<1> SUFFICES ASSUME NEW p \in Request
             PROVE  req'[p].op \in RoomOps =>
                      /\ req'[p].row = 1
                      /\ req'[p].context.stay = reservation'[req'[p].of].stay
  BY DEF ContextsCurrent
<1>1. req[p].op \in RoomOps =>
        /\ req[p].row = 1
        /\ req[p].context.stay = reservation[req[p].of].stay
  BY DEF BookingInv, ContextsCurrent
<1>2. RoomOps \subseteq StayOps
  BY DEF StayOps
<1>3. CASE Retries(q)
  BY <1>1, <1>2, <1>3 DEF Retries
<1>4. CASE Finished(q)
  BY <1>1, <1>2, <1>4 DEF Finished
<1> QED
  BY <1>3, <1>4

(* A request just opened has read the present row. *)
LEMMA BookingOpens ==
  ASSUME BookingInv, NEW q \in Request, Opens(q)
  PROVE  OneRoomEach' /\ ContextsCurrent' /\ NoDoubleBooking'
<1>1. OneRoomEach' /\ NoDoubleBooking'
  BY BookingsKept DEF BookingInv, Opens, OneRoomEach, Exists
<1>2. ASSUME req'[q].op \in RoomOps
      PROVE  /\ req'[q].row = 1
             /\ req'[q].context.stay = reservation[req'[q].of].stay
  <2>1. /\ req'[q].of \in Reservation /\ Exists(req'[q].of)
        /\ req'[q].context = Context(req'[q].of)
        /\ req'[q].row \in FirstRow(reservation[req'[q].of].rooms)
    BY <1>2 DEF Opens
  <2>2. /\ reservation[req'[q].of].rooms \in Seq(Room)
        /\ Len(reservation[req'[q].of].rooms) = 1
    BY <2>1 DEF BookingInv, OneRoomEach, TypeInv, TypeOK, ReservationRow
  <2>3. FirstRow(reservation[req'[q].of].rooms) = {1}
    <3>1. PICK rm : rm \in Room
      <4>1. reservation[req'[q].of].rooms[1] \in Room
        BY <2>2, LenProperties, ElementOfSeq
      <4> QED
        BY <4>1
    <3> QED
      BY <2>2, <3>1, SingleRoomWritten
  <2> QED
    BY <2>1, <2>3 DEF Context
<1>3. ContextsCurrent'
  <2> SUFFICES ASSUME NEW p \in Request
               PROVE  req'[p].op \in RoomOps =>
                        /\ req'[p].row = 1
                        /\ req'[p].context.stay = reservation'[req'[p].of].stay
    BY DEF ContextsCurrent
  <2>1. CASE p = q
    BY <1>2, <2>1 DEF Opens
  <2>2. CASE p # q
    BY <2>2 DEF BookingInv, ContextsCurrent, Opens
  <2> QED
    BY <2>1, <2>2
<1> QED
  BY <1>1, <1>3

(* A creation takes rooms no blocking reservation has for those nights.    *)
LEMMA BookingCreates ==
  ASSUME BookingInv, OneRoomLists, NEW q \in Request,
         NEW r \in Reservation, NEW d \in CreateDto, Creates(q, r, d)
  PROVE  OneRoomEach' /\ ContextsCurrent' /\ NoDoubleBooking'
<1> DEFINE n == [status |-> d.status, stay |-> d.stay, rooms |-> d.rooms,
                 updatedAt |-> 1]
<1>1. n \in ReservationRow /\ Len(n.rooms) = 1
  BY InputAssumption DEF OneRoomLists, CreateDto, ReservationRow
<1>2. reservation' = [reservation EXCEPT ![r] = n]
  BY DEF Creates, Writes
<1>3. ~Exists(r) /\ CanCreate(d)
  BY DEF Creates
<1>4. ASSUME NEW o \in Reservation \ {r}, Blocking(o),
             n.rooms[1] \in RoomsOf(o)
      PROVE  ~Overlap(reservation[o].stay, n.stay)
  <2>1. 1 \in DOMAIN d.rooms
    BY <1>1, LenProperties DEF ReservationRow
  <2>2. reservation[o].status \in ReservationStatus \ releasedForCreate
    BY <1>4 DEF Blocking, blockingReservationStatuses, ReservationStatus,
                releasedForCreate
  <2> QED
    BY <1>3, <1>4, <2>1, <2>2 DEF CanCreate
<1> HIDE DEF n
<1>5. OneRoomEach' /\ NoDoubleBooking'
  BY <1>1, <1>2, <1>4, Rebooked DEF BookingInv
<1>6. ASSUME NEW p \in Request, req[p].op \in RoomOps
      PROVE  reservation'[req[p].of].stay = reservation[req[p].of].stay
  BY <1>2, <1>3, <1>6 DEF BookingInv, RequestsKnown, StayOps, TypeInv, TypeOK
<1>7. Finished(q)
  BY DEF Creates, Writes
<1> QED
  BY <1>5, <1>6, <1>7, ContextsKept

(* An assignment, a change or a check-in: the dates its guard checked are  *)
(* the reservation's.                                                      *)
LEMMA BookingReroomed ==
  ASSUME BookingInv, NEW q \in Request, req[q].op \in RoomOps, RoomGuard(q),
         NEW n \in ReservationRow,
         n.rooms = PutRoom(reservation[req[q].of].rooms, req[q].row, req[q].room),
         n.stay = reservation[req[q].of].stay,
         reservation' = [reservation EXCEPT ![req[q].of] = n],
         Finished(q)
  PROVE  OneRoomEach' /\ ContextsCurrent' /\ NoDoubleBooking'
<1>1. /\ req[q].of \in Reservation /\ Exists(req[q].of)
      /\ req[q].room \in Room
      /\ req[q].row = 1
      /\ req[q].context.stay = reservation[req[q].of].stay
  BY TypeRoomRequest DEF BookingInv, RequestsKnown, ContextsCurrent, StayOps
<1>2. /\ reservation[req[q].of].rooms \in Seq(Room)
      /\ Len(reservation[req[q].of].rooms) = 1
  BY <1>1 DEF BookingInv, OneRoomEach, TypeInv, TypeOK, ReservationRow
<1>3. Len(n.rooms) = 1 /\ n.rooms[1] = req[q].room
  BY <1>1, <1>2, SingleRoomWritten
<1>4. ASSUME NEW o \in Reservation \ {req[q].of}, Blocking(o),
             n.rooms[1] \in RoomsOf(o)
      PROVE  ~Overlap(reservation[o].stay, n.stay)
  <2>1. ~HeldByOther(req[q].of, req[q].room, req[q].context.stay,
                     blockingReservationStatuses)
    BY DEF RoomGuard, NoRoomOverlap
  <2> QED
    BY <1>1, <1>3, <1>4, <2>1 DEF HeldByOther, Blocking
<1>5. OneRoomEach' /\ NoDoubleBooking'
  BY <1>1, <1>3, <1>4, Rebooked DEF BookingInv
<1>6. ASSUME NEW p \in Request, req[p].op \in RoomOps
      PROVE  reservation'[req[p].of].stay = reservation[req[p].of].stay
  BY <1>6 DEF BookingInv, RequestsKnown, StayOps, TypeInv, TypeOK
<1> QED
  BY <1>5, <1>6, ContextsKept

LEMMA BookingRerooms ==
  ASSUME BookingInv, NEW q \in Request, Rerooms(q)
  PROVE  OneRoomEach' /\ ContextsCurrent' /\ NoDoubleBooking'
<1> DEFINE n == WithRoom(reservation[req[q].of], req[q].row, req[q].room)
<1>1. req[q].op \in RoomOps
  BY DEF Rerooms, RoomOps
<1>2. /\ n \in ReservationRow
      /\ n.rooms = PutRoom(reservation[req[q].of].rooms, req[q].row, req[q].room)
      /\ n.stay = reservation[req[q].of].stay
  BY <1>1, TypeRoomRequest, WithRoomType, WithRoomFields DEF BookingInv
<1>3. /\ reservation' = [reservation EXCEPT ![req[q].of] = n]
      /\ Finished(q) /\ RoomGuard(q)
  BY DEF Rerooms, Writes
<1> HIDE DEF n
<1> QED
  BY <1>1, <1>2, <1>3, BookingReroomed

LEMMA BookingArrives ==
  ASSUME BookingInv, NEW q \in Request, Arrives(q)
  PROVE  OneRoomEach' /\ ContextsCurrent' /\ NoDoubleBooking'
<1> DEFINE c == WithRoom(reservation[req[q].of], req[q].row, req[q].room)
           n == WithStatus(c, "CHECKED_IN")
<1>1. req[q].op \in RoomOps
  BY DEF Arrives, RoomOps
<1>2. /\ c \in ReservationRow
      /\ c.rooms = PutRoom(reservation[req[q].of].rooms, req[q].row, req[q].room)
      /\ c.stay = reservation[req[q].of].stay
  BY <1>1, TypeRoomRequest, WithRoomType, WithRoomFields DEF BookingInv
<1>3. /\ reservation' = [reservation EXCEPT ![req[q].of] = n]
      /\ Finished(q) /\ RoomGuard(q)
  BY DEF Arrives, Writes
<1>4. "CHECKED_IN" \in ReservationStatus
  BY DEF ReservationStatus
<1> HIDE DEF c
<1>5. /\ n \in ReservationRow
      /\ n.rooms = c.rooms /\ n.stay = c.stay
  BY <1>2, <1>4, WithStatusType, WithStatusFields
<1> HIDE DEF n
<1> QED
  BY <1>1, <1>2, <1>3, <1>5, BookingReroomed

LEMMA BookingLeaves ==
  ASSUME BookingInv, NEW q \in Request, NEW s \in {"CHECKED_OUT", "NO_SHOW"},
         Leaves(q, s)
  PROVE  OneRoomEach' /\ ContextsCurrent' /\ NoDoubleBooking'
<1> DEFINE c == reservation[req[q].of]
           n == WithStatus(c, s)
<1>1. req[q].of \in Reservation /\ Exists(req[q].of) /\ c \in ReservationRow
  BY TypeLeave DEF Leaves, BookingInv, RequestsKnown, StayOps
<1>2. s \in ReservationStatus /\ s \notin blockingReservationStatuses
  BY DEF ReservationStatus, blockingReservationStatuses
<1>3. /\ n \in ReservationRow
      /\ n.rooms = c.rooms /\ n.stay = c.stay /\ n.status = s
  BY <1>1, <1>2, WithStatusType, WithStatusFields
<1>4. Len(n.rooms) = 1
  BY <1>1, <1>3 DEF BookingInv, OneRoomEach
<1>5. reservation' = [reservation EXCEPT ![req[q].of] = n] /\ Finished(q)
  BY DEF Leaves, Writes
<1> HIDE DEF n
<1>6. OneRoomEach' /\ NoDoubleBooking'
  BY <1>1, <1>2, <1>3, <1>4, <1>5, Released DEF BookingInv
<1>7. ASSUME NEW p \in Request, req[p].op \in RoomOps
      PROVE  reservation'[req[p].of].stay = reservation[req[p].of].stay
  BY <1>3, <1>5, <1>7 DEF BookingInv, RequestsKnown, StayOps, TypeInv, TypeOK
<1> QED
  BY <1>5, <1>6, <1>7, ContextsKept

(* A move, where no room operation on its reservation is open.             *)
LEMMA BookingMoves ==
  ASSUME BookingInv, MovesApart, NEW q \in Request,
         NEW row \in Nat, Moves(q, row)
  PROVE  OneRoomEach' /\ ContextsCurrent' /\ NoDoubleBooking'
<1> DEFINE c == WithRoom(reservation[req[q].of], row, req[q].room)
           n == WithStay(c, req[q].stay)
<1>1. req[q] \in MoveReq /\ req[q].op = "move"
  BY RequestShapes DEF Moves, BookingInv, TypeInv
<1>2. /\ req[q].of \in Reservation /\ Exists(req[q].of)
      /\ req[q].room \in Room /\ req[q].stay \in Stays
  BY <1>1 DEF MoveReq, BookingInv, RequestsKnown, StayOps
<1>3. /\ reservation[req[q].of] \in ReservationRow
      /\ reservation[req[q].of].rooms \in Seq(Room)
      /\ Len(reservation[req[q].of].rooms) = 1
  BY <1>2 DEF BookingInv, OneRoomEach, TypeInv, TypeOK, ReservationRow
<1>4. row = 1
  <2>1. FirstRow(reservation[req[q].of].rooms) = {1}
    BY <1>2, <1>3, SingleRoomWritten
  <2>2. row \in FirstRow(reservation[req[q].of].rooms)
    BY DEF Moves
  <2> QED
    BY <2>1, <2>2
<1>5. c \in ReservationRow /\ Len(c.rooms) = 1 /\ c.rooms[1] = req[q].room
  <2>1. c.rooms = PutRoom(reservation[req[q].of].rooms, 1, req[q].room)
    BY <1>2, <1>3, <1>4, WithRoomFields
  <2>2. c \in ReservationRow
    BY <1>2, <1>3, WithRoomType
  <2> QED
    BY <1>2, <1>3, <2>1, <2>2, SingleRoomWritten
<1>6. reservation' = [reservation EXCEPT ![req[q].of] = n] /\ Finished(q)
  BY DEF Moves, Writes
<1> HIDE DEF c
<1>7. n \in ReservationRow /\ n.rooms = c.rooms /\ n.stay = req[q].stay
  BY <1>2, <1>5, WithStayType, WithStayFields
<1> HIDE DEF n
<1>8. ASSUME NEW o \in Reservation \ {req[q].of}, Blocking(o),
             n.rooms[1] \in RoomsOf(o)
      PROVE  ~Overlap(reservation[o].stay, n.stay)
  <2>1. NoMoveConflicts({req[q].of}, req[q].room, req[q].stay, {})
    BY DEF Moves, CanMove
  <2> QED
    BY <1>5, <1>7, <1>8, <2>1 DEF NoMoveConflicts, Blocking
<1>9. OneRoomEach' /\ NoDoubleBooking'
  BY <1>2, <1>5, <1>6, <1>7, <1>8, Rebooked DEF BookingInv
<1>10. ASSUME NEW p \in Request \ {q}, req[p].op \in RoomOps
       PROVE  reservation'[req[p].of].stay = reservation[req[p].of].stay
  <2>1. req[p].of # req[q].of
    BY <1>1, <1>10 DEF MovesApart, Apart
  <2>2. req[p].of \in Reservation
    BY <1>10 DEF BookingInv, RequestsKnown, StayOps
  <2> QED
    BY <1>2, <1>6, <2>1, <2>2 DEF BookingInv, TypeInv, TypeOK
<1> QED
  BY <1>6, <1>9, <1>10, ContextsKept

LEMMA BookingStep ==
  ASSUME BookingInv, OneRoomLists, MovesApart, NEW q \in Request, Kind(q),
         TypeInv'
  PROVE  BookingInv'
<1>1. CASE Quiet(q) \/ Retries(q)
  <2>1. UNCHANGED reservation /\ (Retries(q) \/ Finished(q))
    BY <1>1 DEF Quiet, Retries
  <2>2. OneRoomEach' /\ NoDoubleBooking'
    BY <2>1, BookingsKept DEF BookingInv, OneRoomEach, Exists
  <2>3. ContextsCurrent'
    BY <2>1, ContextsKept
  <2> QED
    BY <2>2, <2>3, RequestsKnownStep DEF BookingInv
<1>2. CASE Opens(q)
  BY <1>2, BookingOpens, RequestsKnownStep DEF BookingInv
<1>3. ASSUME NEW r \in Reservation, NEW d \in CreateDto, Creates(q, r, d)
      PROVE  BookingInv'
  BY <1>3, BookingCreates, RequestsKnownStep DEF BookingInv
<1>4. CASE Rerooms(q)
  BY <1>4, BookingRerooms, RequestsKnownStep DEF BookingInv
<1>5. CASE Arrives(q)
  BY <1>5, BookingArrives, RequestsKnownStep DEF BookingInv
<1>6. ASSUME NEW s \in {"CHECKED_OUT", "NO_SHOW"}, Leaves(q, s)
      PROVE  BookingInv'
  BY <1>6, BookingLeaves, RequestsKnownStep DEF BookingInv
<1>7. ASSUME NEW row \in Nat, Moves(q, row) PROVE BookingInv'
  BY <1>7, BookingMoves, RequestsKnownStep DEF BookingInv
<1> QED
  BY <1>1, <1>2, <1>3, <1>4, <1>5, <1>6, <1>7 DEF Kind

LEMMA BookingInit == Init => BookingInv
<1> SUFFICES ASSUME Init PROVE BookingInv
  OBVIOUS
<1>1. OneRoomEach /\ ContextsCurrent
  BY DEF Init, InventoryInit, OneRoomEach, ContextsCurrent, Exists, AbsentRow,
         IdleReq, RoomOps
<1>2. NoDoubleBooking
  BY DEF Init, InventoryInit, NoDoubleBooking, Blocking, AbsentRow,
         blockingReservationStatuses
<1> QED
  BY <1>1, <1>2, VersionInit DEF VersionInv, BookingInv

LEMMA BookingNext ==
  OneRoomLists /\ MovesApart /\ BookingInv /\ [Next]_vars => BookingInv'
<1> SUFFICES ASSUME OneRoomLists, MovesApart, BookingInv, [Next]_vars
             PROVE  BookingInv'
  OBVIOUS
<1>1. TypeInv'
  BY TypeStep DEF BookingInv
<1>2. CASE Next
  BY <1>1, <1>2, StepKinds, BookingStep DEF BookingInv
<1>3. CASE UNCHANGED vars
  <2>1. NoDoubleBooking'
    BY <1>3, BookingsKept DEF vars, BookingInv
  <2>2. RequestsKnown' /\ OneRoomEach' /\ ContextsCurrent'
    BY <1>3 DEF vars, BookingInv, RequestsKnown, OneRoomEach, ContextsCurrent, Exists
  <2> QED
    BY <1>1, <2>1, <2>2 DEF BookingInv
<1> QED
  BY <1>2, <1>3

LEMMA BookingHolds ==
  ASSUME OneRoomLists
  PROVE  Spec /\ []MovesApart => []BookingInv
<1>1. MovesApart /\ BookingInv /\ [Next]_vars => BookingInv'
  BY BookingNext
<1> QED
  BY <1>1, BookingInit, PTL DEF Spec

(* Where every reservation is created with one room, the only race that    *)
(* can book a room twice for one night is a calendar move between the read *)
(* and the write of an assignment, a room change or a check-in of the same *)
(* reservation: however many requests are open at once, and whatever else  *)
(* they do to each other.                                                  *)
THEOREM OnlyMovesDoubleBook ==
  ASSUME OneRoomLists
  PROVE  Spec /\ []MovesApart => []NoDoubleBooking
<1>1. BookingInv => NoDoubleBooking
  BY DEF BookingInv
<1> QED
  BY <1>1, BookingHolds, PTL

-----------------------------------------------------------------------------
(* The front desk and the calendar implement the room diary: every step of *)
(* Pms maps to one line being rewritten, or to nothing.                    *)

(* Two stays with a night in common overlap in the sense of the queries.   *)
LEMMA CommonNightOverlaps ==
  ASSUME NEW a \in Stays, NEW b \in Stays, Nights(a) \cap Nights(b) # {}
  PROVE  Overlap(a, b)
<1>1. /\ a.in \in Nat /\ a.out \in Nat /\ b.in \in Nat /\ b.out \in Nat
      /\ a.in < a.out /\ b.in < b.out
  BY BoundAssumption DEF Stays, Day
<1>2. PICK n : n \in a.in .. a.out - 1 /\ n \in b.in .. b.out - 1
  BY DEF Nights
<1> QED
  BY <1>1, <1>2 DEF Overlap

LEMMA NightsInHorizon ==
  ASSUME NEW a \in Stays
  PROVE  Nights(a) \subseteq 0 .. Horizon - 1
BY BoundAssumption DEF Stays, Day, Nights

LEMMA DiaryTyped ==
  ASSUME TypeInv
  PROVE  diary \in [Reservation -> Diary!Line]
<1> SUFFICES ASSUME NEW r \in Reservation
             PROVE  /\ RoomsOf(r) \subseteq Room
                    /\ Nights(reservation[r].stay) \subseteq 0 .. Horizon - 1
  BY DEF diary, Diary!Line
<1>1. /\ reservation[r].stay \in Stays
      /\ reservation[r].rooms \in Seq(Room)
  BY DEF TypeInv, TypeOK, ReservationRow
<1>2. RoomsOf(r) \subseteq Room
  BY <1>1, ElementOfSeq, LenProperties DEF RoomsOf
<1> QED
  BY <1>1, <1>2, NightsInHorizon

(* What the absence of double bookings means for the diary's lines. *)
LEMMA LinesDisjoint ==
  ASSUME TypeInv, NoDoubleBooking, NEW r \in Reservation,
         NEW o \in Reservation \ {r},
         diary[o].nights \cap diary[r].nights # {}
  PROVE  diary[o].rooms \cap diary[r].rooms = {}
<1>1. Blocking(o) /\ Blocking(r)
  BY DEF diary
<1>2. reservation[o].stay \in Stays /\ reservation[r].stay \in Stays
  BY DEF TypeInv, TypeOK, ReservationRow
<1>3. Nights(reservation[o].stay) \cap Nights(reservation[r].stay) # {}
  BY <1>1 DEF diary
<1>4. RoomsOf(o) \cap RoomsOf(r) = {}
  BY <1>1, <1>2, <1>3, CommonNightOverlaps DEF NoDoubleBooking
<1> QED
  BY <1>1, <1>4 DEF diary

(* A transaction rewrites at most one reservation. *)
OneRowAtMost ==
  \/ UNCHANGED reservation
  \/ \E r \in Reservation : \A o \in Reservation \ {r} :
       reservation'[o] = reservation[o]

LEMMA WritesOneRow ==
  ASSUME TypeInv, NEW q \in Request, NEW r, NEW n, NEW e, Writes(q, r, n, e)
  PROVE  OneRowAtMost
BY DEF Writes, TypeInv, TypeOK, OneRowAtMost

LEMMA KindWritesOneRow ==
  ASSUME TypeInv, NEW q \in Request, Kind(q)
  PROVE  OneRowAtMost
<1>1. CASE Quiet(q) \/ Opens(q) \/ Retries(q)
  BY <1>1 DEF Quiet, Opens, Retries, OneRowAtMost
<1>2. ASSUME NEW r \in Reservation, NEW d \in CreateDto, Creates(q, r, d)
      PROVE  OneRowAtMost
  BY <1>2, WritesOneRow DEF Creates
<1>3. CASE Rerooms(q)
  BY <1>3, WritesOneRow DEF Rerooms
<1>4. CASE Arrives(q)
  BY <1>4, WritesOneRow DEF Arrives
<1>5. ASSUME NEW s \in {"CHECKED_OUT", "NO_SHOW"}, Leaves(q, s)
      PROVE  OneRowAtMost
  BY <1>5, WritesOneRow DEF Leaves
<1>6. ASSUME NEW row \in Nat, Moves(q, row)
      PROVE  OneRowAtMost
  BY <1>6, WritesOneRow DEF Moves
<1> QED
  BY <1>1, <1>2, <1>3, <1>4, <1>5, <1>6 DEF Kind

LEMMA DiaryInit == Init => Diary!Init
BY DEF Init, InventoryInit, Diary!Init, Diary!Nowhere, diary, Blocking,
       AbsentRow, blockingReservationStatuses

(* Where only r's row changed, only r's line did, and it fits. *)
LEMMA LineRewritten ==
  ASSUME TypeInv, TypeInv', NoDoubleBooking', NEW r \in Reservation,
         \A o \in Reservation \ {r} : reservation'[o] = reservation[o]
  PROVE  Diary!Enter(r, diary'[r]) /\ diary'[r] \in Diary!Line
<1>1. \A o \in Reservation \ {r} : diary'[o] = diary[o]
  BY DEF diary, Blocking, RoomsOf
<1>2. diary' \in [Reservation -> Diary!Line]
  <2>1. TypeInv' => (diary \in [Reservation -> Diary!Line])'
    BY DiaryTyped, PTL
  <2> QED
    BY <2>1 DEF Diary!Line
<1>3. diary \in [Reservation -> Diary!Line]
  BY DiaryTyped
<1>4. diary' = [diary EXCEPT ![r] = diary'[r]]
  BY <1>1, <1>2, <1>3
<1>5. ASSUME NEW o \in Reservation \ {r},
             diary[o].nights \cap diary'[r].nights # {}
      PROVE  diary[o].rooms \cap diary'[r].rooms = {}
  <2>1. /\ reservation'[o].stay \in Stays /\ reservation'[r].stay \in Stays
    BY DEF TypeInv, TypeOK, ReservationRow
  <2>2. Blocking(o)' /\ Blocking(r)'
    BY <1>1, <1>5 DEF diary
  <2>3. Nights(reservation'[o].stay) \cap Nights(reservation'[r].stay) # {}
    BY <1>1, <1>5, <2>2 DEF diary
  <2>4. RoomsOf(o)' \cap RoomsOf(r)' = {}
    BY <2>1, <2>2, <2>3, CommonNightOverlaps DEF NoDoubleBooking
  <2> QED
    BY <1>1, <2>2, <2>4 DEF diary
<1>6. Diary!Fits(r, diary'[r])
  BY <1>5 DEF Diary!Fits
<1> QED
  BY <1>2, <1>4, <1>6 DEF Diary!Enter

LEMMA DiaryStep ==
  ASSUME BookingInv, BookingInv', [Next]_vars
  PROVE  [Diary!Next]_diary
<1>1. OneRowAtMost
  <2>1. CASE Next
    BY <2>1, StepKinds, KindWritesOneRow DEF BookingInv
  <2>2. CASE UNCHANGED vars
    BY <2>2 DEF vars, OneRowAtMost
  <2> QED
    BY <2>1, <2>2
<1>2. CASE UNCHANGED reservation
  BY <1>2 DEF diary, Blocking, RoomsOf
<1>3. ASSUME NEW r \in Reservation,
             \A o \in Reservation \ {r} : reservation'[o] = reservation[o]
      PROVE  Diary!Next
  BY <1>3, LineRewritten DEF BookingInv, Diary!Next
<1> QED
  BY <1>1, <1>2, <1>3 DEF OneRowAtMost

(* Where every reservation is created with one room, only a calendar move  *)
(* between the read and the write of a room operation on the same          *)
(* reservation can spoil the diary: kept apart, the front desk and the     *)
(* calendar implement it.                                                  *)
THEOREM OnlyMovesSpoilDiary ==
  ASSUME OneRoomLists
  PROVE  Spec /\ []MovesApart => DiaryKept
<1>1. BookingInv /\ BookingInv' /\ [Next]_vars => [Diary!Next]_diary
  BY DiaryStep
<1> QED
  BY <1>1, BookingHolds, DiaryInit, PTL DEF Spec, DiaryKept, Diary!Spec

-----------------------------------------------------------------------------
(* One reservation per idempotency key: an answer repeats the record of its*)
(* key, and a record is never rewritten.                                   *)

AnswersRecorded ==
  \A q \in Request :
    req[q].op = "done" /\ req[q].key \in IdemKey =>
      /\ idem[req[q].key] # NoRecord
      /\ idem[req[q].key].reservation = req[q].answer

KeysInv == TypeInv /\ AnswersRecorded

(* Request q is not answered with a key, and no record is written. *)
Keyless(q) ==
  /\ UNCHANGED idem
  /\ \A p \in Request \ {q} : req'[p] = req[p]
  /\ req'[q].op = "done" => req'[q].key = NoKey

LEMMA AnsweredKeyless ==
  ASSUME TypeOK, NEW q \in Request, NEW r, UNCHANGED idem,
         req' = [req EXCEPT ![q] = Answered(NoKey, r)]
  PROVE  Keyless(q)
BY DEF TypeOK, Answered, Keyless

LEMMA EndedKeyless ==
  ASSUME TypeOK, NEW q \in Request, UNCHANGED idem,
         req' = [req EXCEPT ![q] = Ended]
  PROVE  Keyless(q)
BY AnsweredKeyless DEF Ended

LEMMA OpenedKeyless ==
  ASSUME TypeOK, NEW q \in Request, NEW s, UNCHANGED idem,
         req' = [req EXCEPT ![q] = s], s.op # "done"
  PROVE  Keyless(q)
BY DEF TypeOK, Keyless

(* The front desk's operations, creation apart. *)
LEMMA DeskKeyless ==
  ASSUME TypeInv, NEW q \in Request,
         \/ AssignRoom(q) \/ ChangeRoom(q) \/ CheckIn(q) \/ CheckOut(q)
         \/ NoShow(q) \/ RefuseRoom(q)
         \/ \E r \in Reservation :
              \/ \E op \in RoomOps, rm \in Room : ReadForRoom(q, op, r, rm)
              \/ \E op \in LeaveOps : ReadForLeave(q, op, r)
         \/ \E rm \in Room, dto \in RoomUpdates : UpdateRoomStatus(q, rm, dto)
         \/ \E rm \in Room, flag \in BOOLEAN :
              \/ CreateHousekeepingTask(q, rm, flag)
              \/ CreateMaintenanceIssue(q, rm, flag)
  PROVE  Keyless(q)
<1>1. CASE AssignRoom(q) \/ ChangeRoom(q) \/ CheckIn(q) \/ CheckOut(q) \/ NoShow(q)
  <2>1. UNCHANGED idem /\ Answer(q)
    BY <1>1 DEF AssignRoom, ChangeRoom, CheckIn, CheckOut, NoShow
  <2> QED
    BY <2>1, AnsweredKeyless DEF Answer, TypeInv
<1>2. CASE RefuseRoom(q)
  BY <1>2, EndedKeyless DEF RefuseRoom, Refuse, TypeInv
<1>3. ASSUME NEW r \in Reservation, NEW op \in RoomOps, NEW rm \in Room,
             ReadForRoom(q, op, r, rm)
      PROVE  Keyless(q)
  <2>1. PICK row : req' = [req EXCEPT ![q] =
          [op |-> op, of |-> r, room |-> rm, context |-> Context(r),
           row |-> row, tries |-> 0]]
    BY <1>3 DEF ReadForRoom
  <2> DEFINE s == [op |-> op, of |-> r, room |-> rm, context |-> Context(r),
                   row |-> row, tries |-> 0]
  <2>2. s.op # "done" /\ req' = [req EXCEPT ![q] = s]
    BY <2>1 DEF RoomOps
  <2>3. UNCHANGED idem
    BY <1>3 DEF ReadForRoom
  <2> HIDE DEF s
  <2> QED
    BY <2>2, <2>3, OpenedKeyless DEF TypeInv
<1>4. ASSUME NEW r \in Reservation, NEW op \in LeaveOps, ReadForLeave(q, op, r)
      PROVE  Keyless(q)
  <2> DEFINE s == [op |-> op, of |-> r, context |-> Context(r), tries |-> 0]
  <2>1. s.op # "done" /\ req' = [req EXCEPT ![q] = s] /\ UNCHANGED idem
    BY <1>4 DEF ReadForLeave, LeaveOps
  <2> HIDE DEF s
  <2> QED
    BY <2>1, OpenedKeyless DEF TypeInv
<1>5. ASSUME NEW rm, NEW dto, NEW flag,
             \/ UpdateRoomStatus(q, rm, dto)
             \/ CreateHousekeepingTask(q, rm, flag)
             \/ CreateMaintenanceIssue(q, rm, flag)
      PROVE  Keyless(q)
  BY <1>5, EndedKeyless DEF UpdateRoomStatus, CreateHousekeepingTask,
                            CreateMaintenanceIssue, TypeInv
<1> QED
  BY <1>1, <1>2, <1>3, <1>4, <1>5

LEMMA CalendarKeyless ==
  ASSUME TypeInv, CalendarNext PROVE \E q \in Request : Keyless(q)
<1> PICK q \in Request :
      \/ \E r \in Reservation, rm \in Room, stay \in Stays :
           LoadTimeline(q, r, rm, stay)
      \/ MoveReservation(q)
      \/ RefuseMove(q)
      \/ \E b \in Block, rm \in Room, stay \in Stays,
            type \in CalendarBlockType :
           \/ \E issueOpen \in BOOLEAN :
                CheckCreateBlock(q, b, rm, stay, type, issueOpen)
           \/ CheckUpdateBlock(q, b, rm, stay, type)
      \/ \E b \in Block : CheckDeleteBlock(q, b)
      \/ InsertBlock(q) \/ WriteBlock(q) \/ DeleteBlock(q)
  BY DEF CalendarNext
<1>1. ASSUME NEW r \in Reservation, NEW rm \in Room, NEW stay \in Stays,
             LoadTimeline(q, r, rm, stay)
      PROVE  Keyless(q)
  <2> DEFINE s == [op |-> "move", of |-> r, room |-> rm, stay |-> stay,
                   expectedUpdatedAt |-> reservation[r].updatedAt, tries |-> 0]
  <2>1. s.op # "done" /\ req' = [req EXCEPT ![q] = s] /\ UNCHANGED idem
    BY <1>1 DEF LoadTimeline
  <2> HIDE DEF s
  <2> QED
    BY <2>1, OpenedKeyless DEF TypeInv
<1>2. CASE MoveReservation(q)
  BY <1>2, AnsweredKeyless DEF MoveReservation, TypeInv
<1>3. CASE RefuseMove(q)
  BY <1>3, EndedKeyless DEF RefuseMove, Refuse, TypeInv
<1>4. ASSUME NEW op \in BlockOps, NEW b, NEW read, NEW next,
             OpenBlock(q, op, b, read, next)
      PROVE  Keyless(q)
  <2> DEFINE s == [op |-> op, of |-> b, read |-> read, next |-> next,
                   roomRead |-> room[read.room]]
  <2>1. s.op # "done" /\ req' = [req EXCEPT ![q] = s] /\ UNCHANGED idem
    BY <1>4 DEF OpenBlock, BlockOps
  <2> HIDE DEF s
  <2> QED
    BY <2>1, OpenedKeyless DEF TypeInv
<1>5. ASSUME NEW b, NEW rm, NEW stay, NEW type, NEW issueOpen,
             \/ CheckCreateBlock(q, b, rm, stay, type, issueOpen)
             \/ CheckUpdateBlock(q, b, rm, stay, type)
             \/ CheckDeleteBlock(q, b)
      PROVE  Keyless(q)
  BY <1>4, <1>5 DEF CheckCreateBlock, CheckUpdateBlock, CheckDeleteBlock, BlockOps
<1>6. CASE InsertBlock(q) \/ WriteBlock(q) \/ DeleteBlock(q)
  BY <1>6, EndedKeyless DEF InsertBlock, WriteBlock, DeleteBlock, TypeInv
<1> QED
  BY <1>1, <1>2, <1>3, <1>5, <1>6

LEMMA RetryKeyless ==
  ASSUME TypeInv, NEW q \in Request, SerializationFailure(q)
  PROVE  Keyless(q)
<1>1. CASE req' = [req EXCEPT ![q] = Ended]
  BY <1>1, EndedKeyless DEF SerializationFailure, TypeInv
<1>2. CASE req' = [req EXCEPT ![q] = Retried(req[q])]
  <2>1. req[q] \in RoomReq \cup LeaveReq \cup MoveReq
    BY RequestShapes
       DEF SerializationFailure, RetriedOps, RoomOps, LeaveOps, TypeInv
  <2>2. Retried(req[q]).op # "done"
    BY <2>1 DEF Retried, RoomReq, LeaveReq, MoveReq, RoomOps, LeaveOps
  <2> QED
    BY <1>2, <2>2, OpenedKeyless DEF SerializationFailure, TypeInv
<1> QED
  BY <1>1, <1>2 DEF SerializationFailure

LEMMA KeylessKeeps ==
  ASSUME KeysInv, NEW q \in Request, Keyless(q)
  PROVE  AnswersRecorded'
BY SetsAssumption DEF KeysInv, AnswersRecorded, Keyless

LEMMA CreateKeeps ==
  ASSUME KeysInv, NEW q \in Request, NEW r \in Reservation,
         NEW key \in IdemKey \cup {NoKey}, NEW d \in CreateDto,
         CreateReservation(q, r, key, d)
  PROVE  AnswersRecorded'
<1>1. /\ \A k \in IdemKey : idem'[k] = IF k = key
           THEN [status |-> "COMPLETED", dto |-> d, reservation |-> r] ELSE idem[k]
      /\ key \in IdemKey => idem[key] = NoRecord
  BY DEF CreateReservation, KeyUnused
<1>2. /\ req'[q] = [op |-> "done", key |-> key, answer |-> r]
      /\ \A p \in Request \ {q} : req'[p] = req[p]
  BY DEF CreateReservation, Answered, KeysInv, TypeInv, TypeOK
<1>3. [status |-> "COMPLETED", dto |-> d, reservation |-> r] # NoRecord
  BY DEF NoRecord
<1> SUFFICES ASSUME NEW p \in Request, req'[p].op = "done", req'[p].key \in IdemKey
             PROVE  /\ idem'[req'[p].key] # NoRecord
                    /\ idem'[req'[p].key].reservation = req'[p].answer
  BY DEF AnswersRecorded
<1>4. CASE p = q
  BY <1>1, <1>2, <1>3, <1>4
<1>5. CASE p # q
  <2>1. /\ idem[req[p].key] # NoRecord
        /\ idem[req[p].key].reservation = req[p].answer
    BY <1>2, <1>5 DEF KeysInv, AnswersRecorded
  <2>2. req[p].key # key
    BY <1>1, <1>2, <1>5, <2>1
  <2> QED
    BY <1>1, <1>2, <1>5, <2>1, <2>2
<1> QED
  BY <1>4, <1>5

LEMMA ReplayKeeps ==
  ASSUME KeysInv, NEW q \in Request, NEW key \in IdemKey, NEW d \in CreateDto,
         ReplayCreate(q, key, d)
  PROVE  AnswersRecorded'
<1>1. /\ req'[q] = [op |-> "done", key |-> key, answer |-> idem[key].reservation]
      /\ \A p \in Request \ {q} : req'[p] = req[p]
      /\ UNCHANGED idem
  BY DEF ReplayCreate, Answered, KeysInv, TypeInv, TypeOK
<1>2. idem[key] # NoRecord
  BY DEF ReplayCreate, NoRecord
<1> QED
  BY <1>1, <1>2 DEF KeysInv, AnswersRecorded

LEMMA KeysNext == KeysInv /\ [Next]_vars => KeysInv'
<1> SUFFICES ASSUME KeysInv, [Next]_vars PROVE KeysInv'
  OBVIOUS
<1>1. TypeInv /\ TypeInv'
  BY TypeStep DEF KeysInv
<1>2. CASE FrontDeskNext
  <2> PICK q \in Request :
        \/ \E r \in Reservation, key \in IdemKey \cup {NoKey}, d \in CreateDto :
             CreateReservation(q, r, key, d)
        \/ \E key \in IdemKey, d \in CreateDto : ReplayCreate(q, key, d)
        \/ Keyless(q)
    BY <1>1, <1>2, DeskKeyless DEF FrontDeskNext
  <2> QED
    BY <1>1, CreateKeeps, ReplayKeeps, KeylessKeeps DEF KeysInv
<1>3. CASE CalendarNext
  BY <1>1, <1>3, CalendarKeyless, KeylessKeeps DEF KeysInv
<1>4. ASSUME NEW q \in Request, SerializationFailure(q) PROVE KeysInv'
  BY <1>1, <1>4, RetryKeyless, KeylessKeeps DEF KeysInv
<1>5. CASE UNCHANGED vars
  BY <1>1, <1>5 DEF vars, KeysInv, AnswersRecorded
<1> QED
  BY <1>2, <1>3, <1>4, <1>5 DEF Next

LEMMA KeysInit == Init => KeysInv
<1> SUFFICES ASSUME Init PROVE KeysInv
  OBVIOUS
<1>1. AnswersRecorded
  BY DEF Init, InventoryInit, AnswersRecorded, IdleReq
<1> QED
  BY <1>1, TypeInit DEF KeysInv

(* All requests with one Idempotency-Key are answered with one reservation,*)
(* however many are sent and however they interleave:                      *)
(* createWithConcurrencyProtection.                                        *)
THEOREM OneReservationPerKeyHolds == Spec => []OneReservationPerKey
<1>1. Spec => []KeysInv
  BY KeysInit, KeysNext, PTL DEF Spec
<1>2. KeysInv => OneReservationPerKey
  BY DEF KeysInv, AnswersRecorded, OneReservationPerKey
<1> QED
  BY <1>1, <1>2, PTL

-----------------------------------------------------------------------------
(* The life cycle of a stay.  Check-in, check-out and no-show write a      *)
(* status; where they are apart, the guard of each still holds when it     *)
(* writes, whatever else is open.                                          *)

StatusesFresh ==
  \A q \in Request :
    req[q].op \in StatusOps =>
      ContextAllows(req[q].op, reservation[req[q].of].status)

InvoicedOnce ==
  \A r \in Reservation :
    invoices[r] <= IF reservation[r].status = "CHECKED_OUT" THEN 1 ELSE 0

StatusInv == TypeInv /\ RequestsKnown /\ StatusesFresh /\ InvoicedOnce

(* The status a step gives a reservation, and the request that gives it. *)
StatusWritten(q, r) ==
  \/ reservation'[r].status = reservation[r].status
  \/ ~Exists(r)
  \/ /\ r = req[q].of /\ Finished(q)
     /\ \/ req[q].op = "checkIn" /\ reservation'[r].status = "CHECKED_IN"
        \/ CheckOut(q) /\ reservation'[r].status = "CHECKED_OUT"
        \/ req[q].op = "noShow" /\ reservation'[r].status = "NO_SHOW"

(* The same, where the guard of that request still holds. *)
StatusStep(q, r) ==
  \/ reservation'[r].status = reservation[r].status
  \/ ~Exists(r)
  \/ /\ TransitionAllowed(reservation[r].status, "CHECKED_IN")
     /\ reservation'[r].status = "CHECKED_IN"
  \/ /\ reservation[r].status = "CHECKED_IN"
     /\ reservation'[r].status = "CHECKED_OUT"
  \/ /\ TransitionAllowed(reservation[r].status, "NO_SHOW")
     /\ reservation'[r].status = "NO_SHOW"

LEMMA StatusWrites ==
  ASSUME TypeInv, NEW q \in Request, Kind(q), NEW r \in Reservation
  PROVE  StatusWritten(q, r)
<1> USE DEF StatusWritten
<1>1. CASE Quiet(q) \/ Opens(q) \/ Retries(q)
  BY <1>1 DEF Quiet, Opens, Retries
<1>2. ASSUME NEW x \in Reservation, NEW d \in CreateDto, Creates(q, x, d)
      PROVE  StatusWritten(q, r)
  BY <1>2 DEF Creates, Writes, TypeInv, TypeOK
<1>3. CASE Rerooms(q)
  <2>1. reservation[req[q].of] \in ReservationRow
    BY <1>3, TypeRoomRequest DEF Rerooms, RoomOps
  <2> QED
    BY <1>3, <2>1, WithRoomFields DEF Rerooms, Writes, TypeInv, TypeOK
<1>4. CASE Arrives(q)
  <2>1. /\ reservation[req[q].of] \in ReservationRow
        /\ req[q].row \in Nat /\ req[q].room \in Room
    BY <1>4, TypeRoomRequest DEF Arrives, RoomOps
  <2> DEFINE c == WithRoom(reservation[req[q].of], req[q].row, req[q].room)
  <2>2. c \in ReservationRow
    BY <2>1, WithRoomType
  <2>3. /\ reservation' = [reservation EXCEPT ![req[q].of] =
                             WithStatus(c, "CHECKED_IN")]
        /\ Finished(q) /\ req[q].op = "checkIn"
    BY <1>4 DEF Arrives, Writes
  <2> HIDE DEF c
  <2>4. "CHECKED_IN" \in ReservationStatus
    BY DEF ReservationStatus
  <2>5. WithStatus(c, "CHECKED_IN").status = "CHECKED_IN"
    BY <2>2, <2>4, WithStatusFields
  <2> QED
    BY <2>3, <2>5 DEF TypeInv, TypeOK
<1>5. ASSUME NEW s \in {"CHECKED_OUT", "NO_SHOW"}, Leaves(q, s)
      PROVE  StatusWritten(q, r)
  <2>1. reservation[req[q].of] \in ReservationRow
    BY <1>5, TypeLeave DEF Leaves
  <2>2. s \in ReservationStatus
    BY DEF ReservationStatus
  <2>3. WithStatus(reservation[req[q].of], s).status = s
    BY <2>1, <2>2, WithStatusFields
  <2>4. /\ reservation' = [reservation EXCEPT ![req[q].of] =
                             WithStatus(reservation[req[q].of], s)]
        /\ Finished(q)
    BY <1>5 DEF Leaves, Writes
  <2>5. \/ s = "CHECKED_OUT" /\ CheckOut(q)
        \/ s = "NO_SHOW" /\ req[q].op = "noShow"
    BY <1>5 DEF Leaves, NoShow
  <2> QED
    BY <2>3, <2>4, <2>5 DEF TypeInv, TypeOK
<1>6. ASSUME NEW row \in Nat, Moves(q, row)
      PROVE  StatusWritten(q, r)
  <2>1. /\ req[q].of \in Reservation
        /\ req[q].room \in Room /\ req[q].stay \in Stays
    BY <1>6, RequestShapes DEF Moves, TypeInv, MoveReq
  <2> DEFINE c == WithRoom(reservation[req[q].of], row, req[q].room)
  <2>2. /\ c \in ReservationRow
        /\ c.status = reservation[req[q].of].status
    BY <2>1, WithRoomType, WithRoomFields DEF TypeInv, TypeOK
  <2>3. reservation' = [reservation EXCEPT ![req[q].of] =
                          WithStay(c, req[q].stay)]
    BY <1>6 DEF Moves, Writes
  <2> HIDE DEF c
  <2> QED
    BY <2>1, <2>2, <2>3, WithStayFields DEF TypeInv, TypeOK
<1> HIDE DEF StatusWritten
<1> QED
  BY <1>1, <1>2, <1>3, <1>4, <1>5, <1>6 DEF Kind

LEMMA StatusSteps ==
  ASSUME TypeInv, StatusesFresh, NEW q \in Request, Kind(q),
         NEW r \in Reservation
  PROVE  StatusStep(q, r)
<1>1. CASE r = req[q].of /\ req[q].op = "checkIn" /\ reservation'[r].status = "CHECKED_IN"
  BY <1>1 DEF StatusesFresh, StatusOps, ContextAllows, StatusStep
<1>2. CASE r = req[q].of /\ CheckOut(q) /\ reservation'[r].status = "CHECKED_OUT"
  <2>1. ContextAllows("checkOut", reservation[r].status)
    BY <1>2 DEF CheckOut, StatusesFresh, StatusOps, LeaveOps
  <2> QED
    BY <1>2, <2>1 DEF ContextAllows, StatusStep
<1>3. CASE r = req[q].of /\ req[q].op = "noShow" /\ reservation'[r].status = "NO_SHOW"
  <2>1. ContextAllows("noShow", reservation[r].status)
    BY <1>3 DEF StatusesFresh, StatusOps, LeaveOps
  <2> QED
    BY <1>3, <2>1 DEF ContextAllows, StatusStep
<1> QED
  BY <1>1, <1>2, <1>3, StatusWrites DEF StatusWritten, StatusStep

(* Where they are apart, nobody else writes the status a request decided   *)
(* upon.                                                                   *)
LEMMA StatusesFreshKept ==
  ASSUME TypeInv, RequestsKnown, StatusesApart, StatusesFresh,
         NEW q \in Request, Kind(q)
  PROVE  StatusesFresh'
<1> SUFFICES ASSUME NEW p \in Request, req'[p].op \in StatusOps
             PROVE  ContextAllows(req'[p].op, reservation'[req'[p].of].status)
  BY DEF StatusesFresh, ContextAllows
<1>1. req'[p].op \in StayOps
  BY DEF StayOps, StatusOps, RoomOps
<1>2. \/ Opens(q) /\ p = q
      \/ req'[p].op = req[p].op /\ req'[p].of = req[p].of
  BY <1>1 DEF Kind, Quiet, Opens, Retries, Creates, Rerooms, Arrives, Leaves,
              Moves, Writes, Finished
<1>3. CASE Opens(q) /\ p = q
  <2>1. /\ req'[p].context = Context(req'[p].of)
        /\ ContextAllows(req'[p].op, req'[p].context.status)
        /\ UNCHANGED reservation
    BY <1>3 DEF Opens, StatusOps, RoomOps
  <2>2. req'[p].context.status = reservation[req'[p].of].status
    BY <2>1 DEF Context
  <2> QED
    BY <2>1, <2>2
<1>4. CASE req'[p].op = req[p].op /\ req'[p].of = req[p].of
  <2>1. req[p].of \in Reservation /\ Exists(req[p].of)
    BY <1>1, <1>4 DEF RequestsKnown
  <2>2. StatusWritten(q, req[p].of)
    BY <2>1, StatusWrites
  <2>3. ASSUME req[p].of = req[q].of, Finished(q), req[q].op \in StatusOps
        PROVE  FALSE
    <3>1. p # q
      BY <1>1, <2>3 DEF Finished
    <3> QED
      BY <1>4, <2>3, <3>1 DEF StatusesApart, Apart
  <2>4. reservation'[req[p].of].status = reservation[req[p].of].status
    BY <2>1, <2>2, <2>3 DEF StatusWritten, StatusOps, LeaveOps, CheckOut
  <2>5. ContextAllows(req[p].op, reservation[req[p].of].status)
    BY <1>4 DEF StatusesFresh
  <2> QED
    BY <1>4, <2>4, <2>5
<1> QED
  BY <1>2, <1>3, <1>4

LEMMA DeskInvoices ==
  ASSUME FrontDeskNext
  PROVE  UNCHANGED invoices \/ \E q \in Request : CheckOut(q)
BY DEF FrontDeskNext, CreateReservation, ReplayCreate, ReadForRoom, ReadForLeave,
       AssignRoom, ChangeRoom, CheckIn, NoShow, RefuseRoom, Refuse,
       UpdateRoomStatus, CreateHousekeepingTask, CreateMaintenanceIssue

LEMMA CalendarInvoices ==
  ASSUME CalendarNext PROVE UNCHANGED invoices
<1>1. ASSUME NEW q, NEW r, NEW rm, NEW stay, LoadTimeline(q, r, rm, stay)
      PROVE  UNCHANGED invoices
  BY <1>1 DEF LoadTimeline
<1>2. ASSUME NEW q, MoveReservation(q) PROVE UNCHANGED invoices
  BY <1>2 DEF MoveReservation
<1>3. ASSUME NEW q, RefuseMove(q) PROVE UNCHANGED invoices
  BY <1>3 DEF RefuseMove, Refuse
<1>4. ASSUME NEW q, NEW b, NEW rm, NEW stay, NEW type, NEW issueOpen,
             \/ CheckCreateBlock(q, b, rm, stay, type, issueOpen)
             \/ CheckUpdateBlock(q, b, rm, stay, type)
             \/ CheckDeleteBlock(q, b)
      PROVE  UNCHANGED invoices
  BY <1>4 DEF CheckCreateBlock, CheckUpdateBlock, CheckDeleteBlock, OpenBlock
<1>5. ASSUME NEW q, InsertBlock(q) \/ WriteBlock(q) \/ DeleteBlock(q)
      PROVE  UNCHANGED invoices
  BY <1>5 DEF InsertBlock, WriteBlock, DeleteBlock
<1> QED
  BY <1>1, <1>2, <1>3, <1>4, <1>5 DEF CalendarNext

LEMMA StepInvoices ==
  ASSUME Next
  PROVE  UNCHANGED invoices \/ \E q \in Request : CheckOut(q)
<1>1. ASSUME NEW q \in Request, SerializationFailure(q) PROVE UNCHANGED invoices
  BY <1>1 DEF SerializationFailure
<1> QED
  BY <1>1, DeskInvoices, CalendarInvoices DEF Next

(* A stay that was checked out stays so, and one that was not has no       *)
(* invoice yet.                                                            *)
LEMMA InvoicedOnceKept ==
  ASSUME TypeInv, StatusesFresh, InvoicedOnce, Next
  PROVE  InvoicedOnce'
<1> SUFFICES ASSUME NEW r \in Reservation
             PROVE  invoices'[r] <=
                      IF reservation'[r].status = "CHECKED_OUT" THEN 1 ELSE 0
  BY DEF InvoicedOnce
<1>1. /\ invoices[r] \in Nat
      /\ invoices[r] <= IF reservation[r].status = "CHECKED_OUT" THEN 1 ELSE 0
  BY DEF TypeInv, TypeOK, InvoicedOnce
<1>2. CASE UNCHANGED invoices
  <2>1. PICK q \in Request : Kind(q)
    BY StepKinds
  <2>2. StatusStep(q, r)
    BY <2>1, StatusSteps
  <2>3. reservation[r].status = "CHECKED_OUT" => reservation'[r].status = "CHECKED_OUT"
    BY <2>2 DEF StatusStep, Exists, TransitionAllowed, allowedTransitions
  <2> QED
    BY <1>1, <1>2, <2>3
<1>3. ASSUME NEW q \in Request, CheckOut(q)
      PROVE  invoices'[r] <=
               IF reservation'[r].status = "CHECKED_OUT" THEN 1 ELSE 0
  <2>1. Leaves(q, "CHECKED_OUT")
    BY <1>3, KindCheckOut
  <2>2. Kind(q)
    BY <2>1 DEF Kind
  <2>3. StatusStep(q, r)
    BY <2>2, StatusSteps
  <2>4. CASE r = req[q].of
    <3>1. reservation[r].status = "CHECKED_IN"
      <4>1. ContextAllows("checkOut", reservation[r].status)
        BY <1>3, <2>4 DEF CheckOut, StatusesFresh, StatusOps, LeaveOps
      <4> QED
        BY <4>1 DEF ContextAllows
    <3>2. reservation[r] \in ReservationRow
      BY DEF TypeInv, TypeOK
    <3>3. reservation'[r] = WithStatus(reservation[r], "CHECKED_OUT")
      BY <2>1, <2>4 DEF Leaves, Writes, TypeInv, TypeOK
    <3>4. "CHECKED_OUT" \in ReservationStatus
      BY DEF ReservationStatus
    <3>5. reservation'[r].status = "CHECKED_OUT"
      BY <3>2, <3>3, <3>4, WithStatusFields
    <3>6. invoices'[r] \in {invoices[r], invoices[r] + 1}
      BY <1>3, <2>4 DEF CheckOut, TypeInv, TypeOK
    <3> QED
      BY <1>1, <3>1, <3>5, <3>6
  <2>5. CASE r # req[q].of
    <3>1. reservation'[r] = reservation[r]
      BY <2>1, <2>5 DEF Leaves, Writes, TypeInv, TypeOK
    <3>2. invoices'[r] = invoices[r]
      BY <1>3, <2>5 DEF CheckOut, TypeInv, TypeOK
    <3> QED
      BY <1>1, <3>1, <3>2
  <2> QED
    BY <2>4, <2>5
<1> QED
  BY <1>2, <1>3, StepInvoices

LEMMA StatusInit == Init => StatusInv
<1> SUFFICES ASSUME Init PROVE StatusInv
  OBVIOUS
<1>1. StatusesFresh
  BY DEF Init, InventoryInit, StatusesFresh, IdleReq, StatusOps, LeaveOps
<1>2. InvoicedOnce
  BY DEF Init, InventoryInit, InvoicedOnce
<1> QED
  BY <1>1, <1>2, VersionInit DEF VersionInv, StatusInv

LEMMA StatusNext ==
  StatusesApart /\ StatusInv /\ [Next]_vars => StatusInv'
<1> SUFFICES ASSUME StatusesApart, StatusInv, [Next]_vars PROVE StatusInv'
  OBVIOUS
<1>1. TypeInv'
  BY TypeStep DEF StatusInv
<1>2. CASE Next
  <2>1. RequestsKnown' /\ StatusesFresh'
    BY <1>2, StepKinds, RequestsKnownStep, StatusesFreshKept DEF StatusInv
  <2>2. InvoicedOnce'
    BY <1>2, InvoicedOnceKept DEF StatusInv
  <2> QED
    BY <1>1, <2>1, <2>2 DEF StatusInv
<1>3. CASE UNCHANGED vars
  BY <1>1, <1>3 DEF vars, StatusInv, RequestsKnown, StatusesFresh, InvoicedOnce,
                    Exists
<1> QED
  BY <1>2, <1>3

LEMMA StatusHolds == Spec /\ []StatusesApart => []StatusInv
BY StatusInit, StatusNext, PTL DEF Spec

(* A stay is invoiced at check-out once, unless a check-in, a check-out or *)
(* a no-show comes between the read and the write of another of the same   *)
(* reservation: check-out asks for a guest who is in the house, of the     *)
(* context it read (checkOut).                                             *)
THEOREM OnlyStatusRacesInvoiceTwice ==
  Spec /\ []StatusesApart => []OneCheckoutInvoice
<1>1. StatusInv => OneCheckoutInvoice
  BY DEF StatusInv, InvoicedOnce, OneCheckoutInvoice, TypeInv, TypeOK
<1> QED
  BY <1>1, StatusHolds, PTL

LEMMA LegalStep ==
  ASSUME StatusInv, [Next]_vars, NEW r \in Reservation, Exists(r)
  PROVE  TransitionAllowed(reservation[r].status, reservation'[r].status)
<1>1. CASE Next
  <2>1. PICK q \in Request : StatusStep(q, r)
    BY <1>1, StepKinds, StatusSteps DEF StatusInv
  <2> QED
    BY <2>1 DEF StatusStep, TransitionAllowed, allowedTransitions
<1>2. CASE UNCHANGED vars
  BY <1>2 DEF vars, TransitionAllowed
<1> QED
  BY <1>1, <1>2

(* A reservation goes along allowedTransitions unless a check-in, a        *)
(* check-out or a no-show comes between the read and the write of another: *)
(* assertReservationTransition looks at the context, the update at nothing.*)
(* Creations, moves, assignments and room changes may come between freely. *)
THEOREM OnlyStatusRacesBreakTransitions ==
  Spec /\ []StatusesApart => LegalTransitions
<1>1. StatusInv /\ [Next]_vars =>
        \A r \in Reservation :
          Exists(r) => TransitionAllowed(reservation[r].status,
                                         reservation'[r].status)
  BY LegalStep
<1> QED
  BY <1>1, StatusHolds, PTL DEF Spec, LegalTransitions

-----------------------------------------------------------------------------
(* The rooms a check-out frees are the ones it read; they are still the    *)
(* guest's where no operation that gives him a room came between.          *)

RoomsFresh ==
  \A q \in Request :
    req[q].op = "checkOut" =>
      req[q].context.rooms = reservation[req[q].of].rooms

ReleaseInv == TypeInv /\ RequestsKnown /\ RoomsFresh

(* Who writes the rooms of a reservation. *)
RoomsWritten(q, r) ==
  \/ reservation'[r].rooms = reservation[r].rooms
  \/ ~Exists(r)
  \/ r = req[q].of /\ Finished(q) /\ req[q].op \in RoomOps \cup {"move"}

LEMMA RoomsWrites ==
  ASSUME TypeInv, NEW q \in Request, Kind(q), NEW r \in Reservation
  PROVE  RoomsWritten(q, r)
<1> USE DEF RoomsWritten
<1>1. CASE Quiet(q) \/ Opens(q) \/ Retries(q)
  BY <1>1 DEF Quiet, Opens, Retries
<1>2. ASSUME NEW x \in Reservation, NEW d \in CreateDto, Creates(q, x, d)
      PROVE  RoomsWritten(q, r)
  BY <1>2 DEF Creates, Writes, TypeInv, TypeOK
<1>3. CASE Rerooms(q) \/ Arrives(q) \/ (\E row \in Nat : Moves(q, row))
  BY <1>3 DEF Rerooms, Arrives, Moves, Writes, RoomOps, TypeInv, TypeOK
<1>4. ASSUME NEW s \in {"CHECKED_OUT", "NO_SHOW"}, Leaves(q, s)
      PROVE  RoomsWritten(q, r)
  <2>1. reservation[req[q].of] \in ReservationRow
    BY <1>4, TypeLeave DEF Leaves
  <2>2. s \in ReservationStatus
    BY DEF ReservationStatus
  <2>3. WithStatus(reservation[req[q].of], s).rooms = reservation[req[q].of].rooms
    BY <2>1, <2>2, WithStatusFields
  <2> QED
    BY <1>4, <2>3 DEF Leaves, Writes, TypeInv, TypeOK
<1> HIDE DEF RoomsWritten
<1> QED
  BY <1>1, <1>2, <1>3, <1>4 DEF Kind

LEMMA RoomsFreshKept ==
  ASSUME ReleaseInv, CheckOutsApart, NEW q \in Request, Kind(q)
  PROVE  RoomsFresh'
<1> SUFFICES ASSUME NEW p \in Request, req'[p].op = "checkOut"
             PROVE  req'[p].context.rooms = reservation'[req'[p].of].rooms
  BY DEF RoomsFresh
<1>1. req'[p].op \in StayOps
  BY DEF StayOps, LeaveOps
<1>2. \/ Opens(q) /\ p = q
      \/ /\ req'[p].op = req[p].op /\ req'[p].of = req[p].of
         /\ req'[p].context = req[p].context
  BY <1>1 DEF Kind, Quiet, Opens, Retries, Creates, Rerooms, Arrives, Leaves,
              Moves, Writes, Finished, LeaveOps
<1>3. CASE Opens(q) /\ p = q
  <2>1. req'[p].context = Context(req'[p].of) /\ UNCHANGED reservation
    BY <1>3 DEF Opens, LeaveOps
  <2> QED
    BY <2>1 DEF Context
<1>4. CASE /\ req'[p].op = req[p].op /\ req'[p].of = req[p].of
           /\ req'[p].context = req[p].context
  <2>1. req[p].of \in Reservation /\ Exists(req[p].of)
    BY <1>1, <1>4 DEF ReleaseInv, RequestsKnown
  <2>2. RoomsWritten(q, req[p].of)
    BY <2>1, RoomsWrites DEF ReleaseInv
  <2>3. ASSUME req[p].of = req[q].of, req[q].op \in RoomOps \cup {"move"}
        PROVE  FALSE
    <3>1. p # q
      BY <1>4, <2>3 DEF RoomOps
    <3> QED
      BY <1>4, <2>3, <3>1 DEF CheckOutsApart, Apart
  <2>4. reservation'[req[p].of].rooms = reservation[req[p].of].rooms
    BY <2>1, <2>2, <2>3 DEF RoomsWritten
  <2> QED
    BY <1>4, <2>4 DEF ReleaseInv, RoomsFresh
<1> QED
  BY <1>2, <1>3, <1>4

LEMMA ReleaseInit == Init => ReleaseInv
<1> SUFFICES ASSUME Init PROVE ReleaseInv
  OBVIOUS
<1>1. RoomsFresh
  BY DEF Init, InventoryInit, RoomsFresh, IdleReq
<1> QED
  BY <1>1, VersionInit DEF VersionInv, ReleaseInv

LEMMA ReleaseNext ==
  CheckOutsApart /\ ReleaseInv /\ [Next]_vars => ReleaseInv'
<1> SUFFICES ASSUME CheckOutsApart, ReleaseInv, [Next]_vars PROVE ReleaseInv'
  OBVIOUS
<1>1. TypeInv'
  BY TypeStep DEF ReleaseInv
<1>2. CASE Next
  <2>1. PICK q \in Request : Kind(q)
    BY <1>2, StepKinds DEF ReleaseInv
  <2> QED
    BY <1>1, <2>1, RequestsKnownStep, RoomsFreshKept DEF ReleaseInv
<1>3. CASE UNCHANGED vars
  BY <1>1, <1>3 DEF vars, ReleaseInv, RequestsKnown, RoomsFresh, Exists
<1> QED
  BY <1>2, <1>3

LEMMA ReleaseStep ==
  ASSUME ReleaseInv, [Next]_vars, NEW r \in Reservation,
         reservation[r].status = "CHECKED_IN",
         reservation'[r].status = "CHECKED_OUT",
         NEW rm \in RoomsOf(r)
  PROVE  /\ room'[rm].status = "AVAILABLE"
         /\ room'[rm].cleaningStatus = "DIRTY"
         /\ Policy.createHousekeepingTaskOnCheckout => <<rm, r>> \in tasks'
<1>1. CASE UNCHANGED vars
  BY <1>1 DEF vars
<1>2. CASE Next
  <2>1. PICK q \in Request : StatusWritten(q, r)
    BY <1>2, StepKinds, StatusWrites DEF ReleaseInv
  <2>2. CheckOut(q) /\ r = req[q].of
    BY <2>1 DEF StatusWritten, Exists
  <2>3. req[q].context.rooms = reservation[r].rooms
    BY <2>2 DEF CheckOut, ReleaseInv, RoomsFresh
  <2> DEFINE freed == {req[q].context.rooms[k] : k \in DOMAIN req[q].context.rooms}
  <2>4. rm \in freed
    BY <2>3 DEF RoomsOf
  <2>5. rm \in Room
    <3>1. reservation[r].rooms \in Seq(Room)
      BY DEF ReleaseInv, TypeInv, TypeOK, ReservationRow
    <3> QED
      BY <3>1, ElementOfSeq, LenProperties DEF RoomsOf
  <2>6. /\ room' = [x \in Room |-> IF x \in freed THEN Vacated(room[x]) ELSE room[x]]
        /\ tasks' = IF Policy.createHousekeepingTaskOnCheckout
                    THEN tasks \cup (freed \X {r}) ELSE tasks
    BY <2>2 DEF CheckOut
  <2> HIDE DEF freed
  <2>7. room'[rm] = Vacated(room[rm])
    BY <2>4, <2>5, <2>6
  <2>8. room[rm] \in RoomRow
    BY <2>5 DEF ReleaseInv, TypeInv, TypeOK
  <2>9. Vacated(room[rm]).status = "AVAILABLE" /\ Vacated(room[rm]).cleaningStatus = "DIRTY"
    BY <2>8 DEF Vacated, RoomRow
  <2> QED
    BY <2>4, <2>6, <2>7, <2>9
<1> QED
  BY <1>1, <1>2

(* Every room of a guest who checks out is left free, to be cleaned, and   *)
(* with a housekeeping task, unless an assignment, a room change, a        *)
(* check-in or a move comes between the read and the write of the check-out*)
(* (checkOut frees the rooms of its context).                              *)
THEOREM OnlyRoomRacesKeepRooms ==
  Spec /\ []CheckOutsApart => CheckedOutRoomsReleased
<1>1. Spec /\ []CheckOutsApart => []ReleaseInv
  BY ReleaseInit, ReleaseNext, PTL DEF Spec
<1>2. ReleaseInv /\ [Next]_vars =>
        \A r \in Reservation :
          /\ reservation[r].status = "CHECKED_IN"
          /\ reservation'[r].status = "CHECKED_OUT"
          => \A rm \in RoomsOf(r) :
               /\ room'[rm].status = "AVAILABLE"
               /\ room'[rm].cleaningStatus = "DIRTY"
               /\ Policy.createHousekeepingTaskOnCheckout
                    => <<rm, r>> \in tasks'
  BY ReleaseStep
<1> QED
  BY <1>1, <1>2, PTL DEF Spec, CheckedOutRoomsReleased

-----------------------------------------------------------------------------
(* Stays and blocks.  A block request found the room it writes free of     *)
(* stays; creations, and moves of a reservation with one room, find theirs *)
(* free of blocks.  BlindWritesOffBlocks is about the writes that look at  *)
(* no block, StaysOffBlockRequests about those that come in between.       *)

(* What an open block request is about to write was found free. *)
NextClear ==
  \A q \in Request :
    req[q].op \in {"blockCreate", "blockUpdate"} =>
      Clear(req[q].next.room, req[q].next.stay)

BlocksInv == TypeInv /\ RequestsKnown /\ NextClear /\ NoStayUnderBlock

LEMMA DeskBlocks ==
  ASSUME FrontDeskNext PROVE UNCHANGED block
BY DEF FrontDeskNext, CreateReservation, ReplayCreate, ReadForRoom, ReadForLeave,
       AssignRoom, ChangeRoom, CheckIn, CheckOut, NoShow, RefuseRoom, Refuse,
       UpdateRoomStatus, CreateHousekeepingTask, CreateMaintenanceIssue

LEMMA CalendarBlocks ==
  ASSUME CalendarNext
  PROVE  \/ UNCHANGED block
         \/ \E q \in Request : InsertBlock(q) \/ WriteBlock(q) \/ DeleteBlock(q)
<1>1. ASSUME NEW q, NEW r, NEW rm, NEW stay, LoadTimeline(q, r, rm, stay)
      PROVE  UNCHANGED block
  BY <1>1 DEF LoadTimeline
<1>2. ASSUME NEW q, MoveReservation(q) PROVE UNCHANGED block
  BY <1>2 DEF MoveReservation
<1>3. ASSUME NEW q, RefuseMove(q) PROVE UNCHANGED block
  BY <1>3 DEF RefuseMove, Refuse
<1>4. ASSUME NEW q, NEW b, NEW rm, NEW stay, NEW type, NEW issueOpen,
             \/ CheckCreateBlock(q, b, rm, stay, type, issueOpen)
             \/ CheckUpdateBlock(q, b, rm, stay, type)
             \/ CheckDeleteBlock(q, b)
      PROVE  UNCHANGED block
  BY <1>4 DEF CheckCreateBlock, CheckUpdateBlock, CheckDeleteBlock, OpenBlock
<1> QED
  BY <1>1, <1>2, <1>3, <1>4 DEF CalendarNext

LEMMA StepBlocks ==
  ASSUME Next
  PROVE  \/ UNCHANGED block
         \/ \E q \in Request : InsertBlock(q) \/ WriteBlock(q) \/ DeleteBlock(q)
<1>1. ASSUME NEW q \in Request, SerializationFailure(q) PROVE UNCHANGED block
  BY <1>1 DEF SerializationFailure
<1> QED
  BY <1>1, DeskBlocks, CalendarBlocks DEF Next

(* A written block is where its request found the room free, or is gone.   *)
LEMMA BlockWritten ==
  ASSUME BlocksInv, NEW q \in Request,
         InsertBlock(q) \/ WriteBlock(q) \/ DeleteBlock(q),
         NEW b \in Block, block'[b].live
  PROVE  Clear(block'[b].room, block'[b].stay)
<1>1. req[q] \in BlockReq
  BY RequestShapes DEF InsertBlock, WriteBlock, DeleteBlock, BlocksInv,
                       TypeInv, BlockOps
<1>2. req[q].of \in Block
  BY <1>1 DEF BlockReq
<1>3. CASE b # req[q].of
  <2>1. block'[b] = block[b]
    BY <1>2, <1>3 DEF InsertBlock, WriteBlock, DeleteBlock, BlocksInv,
                      TypeInv, TypeOK
  <2> QED
    BY <2>1 DEF BlocksInv, NoStayUnderBlock, Clear
<1>4. CASE b = req[q].of /\ InsertBlock(q)
  <2>1. block'[b] = req[q].next
    BY <1>4 DEF InsertBlock, BlocksInv, TypeInv, TypeOK
  <2> QED
    BY <1>4, <2>1 DEF InsertBlock, BlocksInv, NextClear
<1>5. CASE b = req[q].of /\ WriteBlock(q)
  <2>1. block'[b] = Rewritten(block[b], req[q].next)
    BY <1>5 DEF WriteBlock, BlocksInv, TypeInv, TypeOK
  <2>2. block'[b].room = req[q].next.room /\ block'[b].stay = req[q].next.stay
    BY <2>1 DEF Rewritten
  <2> QED
    BY <1>5, <2>2 DEF WriteBlock, BlocksInv, NextClear
<1>6. CASE b = req[q].of /\ DeleteBlock(q)
  <2>1. block'[b] = Removed(block[b])
    BY <1>6 DEF DeleteBlock, BlocksInv, TypeInv, TypeOK
  <2> QED
    BY <2>1 DEF Removed
<1> QED
  BY <1>3, <1>4, <1>5, <1>6

LEMMA NextClearKept ==
  ASSUME BlocksInv, NEW q \in Request, Kind(q), StaysOffBlockRequests
  PROVE  NextClear'
<1> SUFFICES ASSUME NEW p \in Request, req'[p].op \in {"blockCreate", "blockUpdate"},
                    NEW r \in Reservation, Blocking(r)',
                    req'[p].next.room \in RoomsOf(r)'
             PROVE  ~Overlap(reservation'[r].stay, req'[p].next.stay)
  BY DEF NextClear, Clear
<1>1. CASE p = q /\ Quiet(q)
  BY <1>1 DEF Quiet, Clear, Blocking, RoomsOf
<1>2. CASE req'[p] = req[p]
  <2>1. Clear(req[p].next.room, req[p].next.stay)
    BY <1>2 DEF BlocksInv, NextClear
  <2>2. reservation'[r] = reservation[r]
    BY <1>2 DEF StaysOffBlockRequests
  <2> QED
    BY <1>2, <2>1, <2>2 DEF Clear, Blocking, RoomsOf
<1>3. CASE p = q /\ (Opens(q) \/ Retries(q))
  BY <1>3 DEF Opens, Retries, StayOps, RoomOps, LeaveOps
<1>4. \/ Quiet(q) \/ Opens(q) \/ Retries(q)
      \/ Finished(q) /\ req'[q].op = "done"
  BY DEF Kind, Creates, Rerooms, Arrives, Leaves, Moves, Writes
<1>5. p # q => req'[p] = req[p]
  BY <1>4 DEF Quiet, Opens, Retries, Finished
<1> QED
  BY <1>1, <1>2, <1>3, <1>4, <1>5

(* A single room is not blocked on the new dates. *)
LEMMA RowUnderNoBlock ==
  ASSUME BlocksInv, UNCHANGED block, NEW r \in Reservation,
         \A o \in Reservation \ {r} : reservation'[o] = reservation[o],
         Blocking(r)' => \A rm \in RoomsOf(r)' : ~BlockedFor(rm, reservation'[r].stay, {})
  PROVE  NoStayUnderBlock'
<1> SUFFICES ASSUME NEW o \in Reservation, NEW b \in Block, Blocking(o)',
                    block[b].live, block[b].room \in RoomsOf(o)'
             PROVE  ~Overlap(reservation'[o].stay, block[b].stay)
  BY DEF NoStayUnderBlock, Overlap
<1>1. CASE o = r
  <2>1. ~BlockedFor(block[b].room, reservation'[r].stay, {})
    BY <1>1
  <2>2. ~Overlap(block[b].stay, reservation'[r].stay)
    BY <2>1 DEF BlockedFor
  <2> QED
    BY <1>1, <2>2 DEF Overlap
<1>2. CASE o # r
  BY <1>2 DEF BlocksInv, NoStayUnderBlock, Blocking, RoomsOf
<1> QED
  BY <1>1, <1>2

LEMMA CreatesUnderNoBlock ==
  ASSUME BlocksInv, UNCHANGED block, NEW q \in Request, NEW r \in Reservation,
         NEW d \in CreateDto, Creates(q, r, d)
  PROVE  NoStayUnderBlock'
<1>1. /\ reservation' = [reservation EXCEPT ![r] =
           [status |-> d.status, stay |-> d.stay, rooms |-> d.rooms,
            updatedAt |-> 1]]
      /\ CanCreate(d)
  BY DEF Creates, Writes
<1>2. /\ reservation'[r].rooms = d.rooms /\ reservation'[r].stay = d.stay
      /\ \A o \in Reservation \ {r} : reservation'[o] = reservation[o]
  BY <1>1 DEF BlocksInv, TypeInv, TypeOK
<1>3. \A k \in DOMAIN d.rooms : ~BlockedFor(d.rooms[k], d.stay, {})
  BY <1>1 DEF CanCreate
<1>4. \A rm \in RoomsOf(r)' : ~BlockedFor(rm, reservation'[r].stay, {})
  BY <1>2, <1>3 DEF RoomsOf
<1> QED
  BY <1>2, <1>4, RowUnderNoBlock

LEMMA LeavesUnderNoBlock ==
  ASSUME BlocksInv, UNCHANGED block, NEW q \in Request,
         NEW s \in {"CHECKED_OUT", "NO_SHOW"}, Leaves(q, s)
  PROVE  NoStayUnderBlock'
<1>1. req[q].of \in Reservation /\ reservation[req[q].of] \in ReservationRow
  BY TypeLeave DEF Leaves, BlocksInv
<1>2. s \in ReservationStatus /\ s \notin blockingReservationStatuses
  BY DEF ReservationStatus, blockingReservationStatuses
<1>3. /\ reservation'[req[q].of] = WithStatus(reservation[req[q].of], s)
      /\ \A o \in Reservation \ {req[q].of} : reservation'[o] = reservation[o]
  BY <1>1 DEF Leaves, Writes, BlocksInv, TypeInv, TypeOK
<1>4. reservation'[req[q].of].status = s
  BY <1>1, <1>2, <1>3, WithStatusFields
<1>5. PICK r \in Reservation : r = req[q].of
  BY <1>1
<1>6. ~Blocking(r)' /\ \A o \in Reservation \ {r} : reservation'[o] = reservation[o]
  BY <1>2, <1>3, <1>4, <1>5 DEF Blocking
<1> QED
  BY <1>6, RowUnderNoBlock

(* A write that looks at no block lands under none, by assumption. *)
LEMMA BlindUnderNoBlock ==
  ASSUME BlocksInv, UNCHANGED block, BlindWritesOffBlocks,
         NEW q \in Request, NEW r \in Reservation, NEW n, NEW e, Writes(q, r, n, e),
         \/ req[q].op \in RoomOps
         \/ req[q].op = "move" /\ Len(reservation[r].rooms) > 1
  PROVE  NoStayUnderBlock'
<1>1. \A o \in Reservation \ {r} : reservation'[o] = reservation[o]
  BY DEF Writes, BlocksInv, TypeInv, TypeOK
<1>2. req'[q] # req[q]
  BY DEF Writes, RoomOps
<1>3. CASE reservation'[r] = reservation[r]
  BY <1>1, <1>3 DEF BlocksInv, NoStayUnderBlock, Blocking, RoomsOf
<1>4. CASE reservation'[r] # reservation[r]
  <2>1. ASSUME Blocking(r)', NEW rm \in RoomsOf(r)'
        PROVE  ~BlockedFor(rm, reservation[r].stay, {})'
    BY <1>2, <1>4, <2>1 DEF BlindWritesOffBlocks
  <2>2. Blocking(r)' => \A rm \in RoomsOf(r)' : ~BlockedFor(rm, reservation'[r].stay, {})
    BY <2>1 DEF BlockedFor
  <2> QED
    BY <1>1, <2>2, RowUnderNoBlock
<1> QED
  BY <1>3, <1>4

(* A move of a reservation that has one room or none. *)
LEMMA MovesUnderNoBlock ==
  ASSUME BlocksInv, UNCHANGED block, NEW q \in Request, NEW row \in Nat,
         Moves(q, row), Len(reservation[req[q].of].rooms) <= 1
  PROVE  NoStayUnderBlock'
<1>1. /\ req[q].of \in Reservation /\ Exists(req[q].of)
      /\ req[q].room \in Room /\ req[q].stay \in Stays
  <2>1. req[q] \in MoveReq /\ req[q].op = "move"
    BY RequestShapes DEF Moves, BlocksInv, TypeInv
  <2> QED
    BY <2>1 DEF MoveReq, BlocksInv, RequestsKnown, StayOps
<1>2. PICK r \in Reservation : r = req[q].of
  BY <1>1
<1>3. /\ reservation[r] \in ReservationRow
      /\ reservation[r].rooms \in Seq(Room)
      /\ Len(reservation[r].rooms) \in {0, 1}
  <2>1. reservation[r] \in ReservationRow /\ reservation[r].rooms \in Seq(Room)
    BY <1>1, <1>2 DEF BlocksInv, TypeInv, TypeOK, ReservationRow
  <2>2. Len(reservation[r].rooms) \in Nat
    BY <2>1, LenProperties
  <2>3. Len(reservation[r].rooms) <= 1
    BY <1>2
  <2>4. \A n \in Nat : n <= 1 => n \in {0, 1}
    OBVIOUS
  <2> QED
    BY <2>1, <2>2, <2>3, <2>4, Zenon
<1>4. row \in FirstRow(reservation[r].rooms)
  BY <1>2 DEF Moves
<1>5. PICK c : c = WithRoom(reservation[r], row, req[q].room)
  OBVIOUS
<1>6. c \in ReservationRow /\ Len(c.rooms) = 1 /\ c.rooms[1] = req[q].room
  <2>1. c.rooms = PutRoom(reservation[r].rooms, row, req[q].room)
    BY <1>1, <1>3, <1>4, <1>5, WithRoomFields
  <2>2. c \in ReservationRow
    BY <1>1, <1>3, <1>4, <1>5, WithRoomType
  <2>3. CASE Len(reservation[r].rooms) = 1
    <3>1. row = 1
      BY <1>1, <1>3, <1>4, <2>3, SingleRoomWritten
    <3> QED
      BY <1>1, <1>3, <2>1, <2>2, <2>3, <3>1, SingleRoomWritten
  <2>4. CASE Len(reservation[r].rooms) = 0
    <3>1. reservation[r].rooms = <<>>
      BY <1>3, <2>4, EmptySeq
    <3>2. row = 0
      BY <1>4, <3>1 DEF FirstRow
    <3>3. c.rooms = Append(<<>>, req[q].room)
      BY <2>1, <3>1, <3>2 DEF PutRoom
    <3> QED
      BY <2>2, <3>3
  <2> QED
    BY <1>3, <2>3, <2>4
<1>7. /\ reservation'[r] = WithStay(c, req[q].stay)
      /\ \A o \in Reservation \ {r} : reservation'[o] = reservation[o]
  BY <1>2, <1>5 DEF Moves, Writes, BlocksInv, TypeInv, TypeOK
<1>8. reservation'[r].rooms = c.rooms /\ reservation'[r].stay = req[q].stay
  BY <1>1, <1>6, <1>7, WithStayFields
<1>9. ~BlockedFor(req[q].room, req[q].stay, {})
  BY DEF Moves, CanMove, NoMoveConflicts
<1>10. \A rm \in RoomsOf(r)' : rm = req[q].room
  BY <1>6, <1>8, LenProperties DEF RoomsOf, ReservationRow
<1> QED
  BY <1>7, <1>8, <1>9, <1>10, RowUnderNoBlock

LEMMA UnderNoBlockKept ==
  ASSUME BlocksInv, BlindWritesOffBlocks, NEW q \in Request, Kind(q),
         UNCHANGED block
  PROVE  NoStayUnderBlock'
<1>1. CASE Quiet(q) \/ Opens(q) \/ Retries(q)
  BY <1>1 DEF Quiet, Opens, Retries, BlocksInv, NoStayUnderBlock, Blocking, RoomsOf
<1>2. ASSUME NEW r \in Reservation, NEW d \in CreateDto, Creates(q, r, d)
      PROVE  NoStayUnderBlock'
  BY <1>2, CreatesUnderNoBlock
<1>3. CASE Rerooms(q) \/ Arrives(q)
  <2>1. req[q].op \in RoomOps
    BY <1>3 DEF Rerooms, Arrives, RoomOps
  <2>2. \E n, e : Writes(q, req[q].of, n, e)
    BY <1>3 DEF Rerooms, Arrives
  <2>3. req[q].of \in Reservation
    BY <2>2 DEF Writes
  <2> QED
    BY <2>1, <2>2, <2>3, BlindUnderNoBlock
<1>4. ASSUME NEW s \in {"CHECKED_OUT", "NO_SHOW"}, Leaves(q, s)
      PROVE  NoStayUnderBlock'
  BY <1>4, LeavesUnderNoBlock
<1>5. ASSUME NEW row \in Nat, Moves(q, row) PROVE NoStayUnderBlock'
  <2>1. CASE Len(reservation[req[q].of].rooms) > 1
    <3>1. \E n, e : Writes(q, req[q].of, n, e)
      BY <1>5 DEF Moves
    <3>2. req[q].of \in Reservation /\ req[q].op = "move"
      BY <1>5 DEF Moves, Writes
    <3> QED
      BY <2>1, <3>1, <3>2, BlindUnderNoBlock
  <2>2. CASE ~(Len(reservation[req[q].of].rooms) > 1)
    <3>1. req[q].of \in Reservation
      BY <1>5 DEF Moves, Writes
    <3>2. reservation[req[q].of].rooms \in Seq(Room)
      BY <3>1 DEF BlocksInv, TypeInv, TypeOK, ReservationRow
    <3>3. Len(reservation[req[q].of].rooms) <= 1
      BY <2>2, <3>2, LenProperties
    <3> QED
      BY <1>5, <3>3, MovesUnderNoBlock
  <2> QED
    BY <2>1, <2>2
<1> QED
  BY <1>1, <1>2, <1>3, <1>4, <1>5 DEF Kind

LEMMA BlocksNext ==
  ASSUME BlocksInv, [Next]_vars, [StaysOffBlockRequests]_vars,
         [BlindWritesOffBlocks]_vars
  PROVE  BlocksInv'
<1>1. TypeInv /\ TypeInv'
  BY TypeStep DEF BlocksInv
<1>2. CASE Next /\ StaysOffBlockRequests /\ BlindWritesOffBlocks
  <2>1. PICK q \in Request : Kind(q)
    BY <1>1, <1>2, StepKinds
  <2>2. NextClear' /\ RequestsKnown'
    BY <1>2, <2>1, NextClearKept, RequestsKnownStep DEF BlocksInv
  <2>3. ASSUME UNCHANGED block PROVE NoStayUnderBlock'
    BY <1>2, <2>1, <2>3, UnderNoBlockKept
  <2>4. ASSUME NEW x \in Request, InsertBlock(x) \/ WriteBlock(x) \/ DeleteBlock(x)
        PROVE  NoStayUnderBlock'
    <3>1. UNCHANGED reservation
      BY <2>4 DEF InsertBlock, WriteBlock, DeleteBlock
    <3>2. \A b \in Block : block'[b].live => Clear(block'[b].room, block'[b].stay)
      BY <2>4, BlockWritten
    <3> QED
      BY <3>1, <3>2 DEF NoStayUnderBlock, Clear, Blocking, RoomsOf
  <2>5. NoStayUnderBlock'
    BY <1>2, <2>3, <2>4, StepBlocks
  <2> QED
    BY <1>1, <2>2, <2>5 DEF BlocksInv
<1>3. CASE UNCHANGED vars
  BY <1>1, <1>3 DEF vars, BlocksInv, RequestsKnown, Exists, NextClear, Clear,
                    NoStayUnderBlock, Blocking, RoomsOf
<1> QED
  BY <1>2, <1>3

LEMMA BlocksInit == Init => BlocksInv
<1> SUFFICES ASSUME Init PROVE BlocksInv
  OBVIOUS
<1>1. NextClear
  BY DEF Init, InventoryInit, NextClear, IdleReq
<1>2. NoStayUnderBlock
  BY DEF Init, InventoryInit, NoStayUnderBlock, NoBlock
<1> QED
  BY <1>1, <1>2, VersionInit DEF VersionInv, BlocksInv

(* There are two ways for a stay to come under a live block, whatever else *)
(* interleaves and however many rooms a reservation has.  Either it is     *)
(* written between the conflict queries and the write of createBlock or    *)
(* updateBlock on its room, which run at READ COMMITTED; or assignRoom,    *)
(* changeRoom or checkIn, or a move of a reservation with several rooms,   *)
(* puts it there, because they do not look at the blocks of all its rooms. *)
(* Creations and moves of one room never do.                               *)
THEOREM OnlyBlindOrRacingWritesEndUnderBlocks ==
  Spec /\ [][StaysOffBlockRequests]_vars /\ [][BlindWritesOffBlocks]_vars
    => []NoStayUnderBlock
<1>1. /\ BlocksInv /\ [Next]_vars /\ [StaysOffBlockRequests]_vars
      /\ [BlindWritesOffBlocks]_vars
      => BlocksInv'
  BY BlocksNext
<1>2. BlocksInv => NoStayUnderBlock
  BY DEF BlocksInv
<1> QED
  BY <1>1, <1>2, BlocksInit, PTL DEF Spec
=============================================================================
