--------------------------------- MODULE Pms ---------------------------------
(***************************************************************************)
(* The front desk and the calendar working on one property's rows, and     *)
(* what the two of them together must keep true.                           *)
(***************************************************************************)
EXTENDS FrontDesk, Calendar

Init == InventoryInit

Next ==
  \/ FrontDeskNext
  \/ CalendarNext
  \/ \E q \in Request : SerializationFailure(q)

Spec == Init /\ [][Next]_vars

(* What a request that has read its rows may do next. *)
Proceed(q) ==
  \/ AssignRoom(q) \/ ChangeRoom(q) \/ CheckIn(q) \/ CheckOut(q) \/ NoShow(q)
  \/ RefuseRoom(q)
  \/ MoveReservation(q) \/ RefuseMove(q)
  \/ InsertBlock(q) \/ WriteBlock(q) \/ DeleteBlock(q)

(* The handler of an open request keeps running: an awaited query returns. *)
(* The database need not abort anything, and may abort every attempt.      *)
FairSpec == Spec /\ \A q \in Request : WF_vars(Proceed(q))

-----------------------------------------------------------------------------
(* Safety. *)

Blocking(r) == reservation[r].status \in blockingReservationStatuses

(* Two reservations that both hold their rooms never share a room for a    *)
(* common night: the promise behind assertNoRoomOverlap,                   *)
(* assertMoveConflicts and the conflict query of a creation.               *)
NoDoubleBooking ==
  \A r, s \in Reservation :
    /\ r # s
    /\ Blocking(r) /\ Blocking(s)
    /\ Overlap(reservation[r].stay, reservation[s].stay)
    => RoomsOf(r) \cap RoomsOf(s) = {}

(* The diary a hotelier sees: the rooms and nights each reservation that   *)
(* still blocks its rooms holds.  A stay leaves its departure night free.  *)
Nights(stay) == stay.in .. stay.out - 1

diary ==
  [r \in Reservation |->
     IF Blocking(r)
     THEN [rooms |-> RoomsOf(r), nights |-> Nights(reservation[r].stay)]
     ELSE [rooms |-> {}, nights |-> {}]]

Diary == INSTANCE RoomDiary
           WITH Night <- 0 .. Horizon - 1, entry <- diary

(* The two services implement the diary: whatever requests interleave, a   *)
(* transaction rewrites the line of one reservation, with rooms nobody     *)
(* else holds for those nights.                                            *)
DiaryKept == Diary!Spec

(* Every creation request sent with one Idempotency-Key is answered with   *)
(* one reservation, however often the client repeats it.                   *)
OneReservationPerKey ==
  \A p, q \in Request :
    /\ req[p].op = "done" /\ req[q].op = "done"
    /\ req[p].key \in IdemKey /\ req[p].key = req[q].key
    => req[p].answer = req[q].answer

(* Each event of a stay's life is in the outbox as soon as the row shows   *)
(* it: the event is written by the transaction that writes the row.        *)
StayEventsRecorded ==
  \A r \in Reservation :
    /\ Exists(r) => Event("RESERVATION_CREATED", r, <<>>) \in outbox
    /\ reservation[r].status \in {"CHECKED_IN", "CHECKED_OUT", "NO_SHOW"}
                                   \ CreateStatuses
         => Event(reservation[r].status, r, <<>>) \in outbox

(* Optimistic concurrency of the calendar: of the clients that loaded one  *)
(* version of a reservation, at most one moves it.  The move's event       *)
(* carries the version it was based on.                                    *)
OneMovePerVersion ==
  \A e, f \in outbox :
    /\ e.type = "RESERVATION_UPDATED" /\ f.type = "RESERVATION_UPDATED"
    /\ e.of = f.of
    /\ e.detail[1] = f.detail[1]
    => e = f

(* A stay that holds its room is never under a live calendar block. *)
NoStayUnderBlock ==
  \A r \in Reservation, b \in Block :
    /\ Blocking(r)
    /\ block[b].live /\ block[b].room \in RoomsOf(r)
    => ~Overlap(reservation[r].stay, block[b].stay)

-----------------------------------------------------------------------------
(* Overlaps.  Nothing keeps two requests about one reservation apart, and  *)
(* some properties break when two of certain kinds are between their reads *)
(* and their writes at once.  Each formula here excludes one such overlap  *)
(* and nothing else; the specifications that follow are Spec without it.   *)

StatusOps == {"checkIn"} \cup LeaveOps

Apart(S, T) ==
  \A p, q \in Request :
    p # q /\ req[p].op \in S /\ req[q].op \in T => req[p].of # req[q].of

(* A move of a reservation, beside an operation that gives it a room. *)
MovesApart == Apart({"move"}, RoomOps)

(* Two operations that write the status of a reservation. *)
StatusesApart == Apart(StatusOps, StatusOps)

(* A check-out, beside an operation that gives the guest another room. *)
CheckOutsApart == Apart({"checkOut"}, RoomOps \cup {"move"})

(* While a block request is between its conflict queries and its write, no *)
(* reservation that holds its room is written.                             *)
StaysOffBlockRequests ==
  \A q \in Request, r \in Reservation :
    /\ req[q].op \in {"blockCreate", "blockUpdate"}
    /\ reservation'[r] # reservation[r]
    /\ Blocking(r)'
    => req[q].next.room \notin RoomsOf(r)'

(* assignRoom, changeRoom and checkIn look at no block, and a move looks   *)
(* at blocks for one of the rooms only: none happens to give a reservation *)
(* a room, or dates, under a live block.                                   *)
BlindWritesOffBlocks ==
  \A q \in Request, r \in Reservation :
    /\ \/ req[q].op \in RoomOps
       \/ req[q].op = "move" /\ Len(reservation[r].rooms) > 1
    /\ req'[q] # req[q] /\ reservation'[r] # reservation[r]
    /\ Blocking(r)'
    => \A rm \in RoomsOf(r)' : ~BlockedFor(rm, reservation[r].stay, {})'

BookingSpec == Init /\ [][Next /\ MovesApart']_vars
StaysSpec   == Init /\ [][Next /\ (StatusesApart /\ CheckOutsApart)']_vars
BlocksSpec ==
  Init /\ [][Next /\ MovesApart' /\ StaysOffBlockRequests /\ BlindWritesOffBlocks]_vars

-----------------------------------------------------------------------------
(* What a step may never do. *)

(* A reservation's status follows allowedTransitions. *)
LegalTransitions ==
  [][\A r \in Reservation :
       Exists(r) => TransitionAllowed(reservation[r].status,
                                      reservation'[r].status)]_vars

(* A check-out leaves each of the guest's rooms free, to be cleaned, with  *)
(* a housekeeping task.                                                    *)
CheckedOutRoomsReleased ==
  [][\A r \in Reservation :
       /\ reservation[r].status = "CHECKED_IN"
       /\ reservation'[r].status = "CHECKED_OUT"
       => \A rm \in RoomsOf(r) :
            /\ room'[rm].status = "AVAILABLE"
            /\ room'[rm].cleaningStatus = "DIRTY"
            /\ Policy.createHousekeepingTaskOnCheckout
                 => <<rm, r>> \in tasks']_vars

(* A stay is invoiced at check-out once. *)
OneCheckoutInvoice == \A r \in Reservation : invoices[r] <= 1

-----------------------------------------------------------------------------
(* Liveness: every request that starts a transaction is answered, however  *)
(* often the database aborts it.                                           *)
EveryRequestAnswered ==
  \A q \in Request : (q \in OpenRequests) ~> (req[q].op = "done")
=============================================================================
