-------------------------------- MODULE Sales --------------------------------
(***************************************************************************)
(* RoomsService: the catalogue of room types and rooms, the inventory      *)
(* overrides, and the availability search that counts what can be sold,    *)
(* beside the reservations and blocks that use the rooms up.  One property;*)
(* a booking takes one room.                                               *)
(*                                                                         *)
(* A catalogue request reads its rows and later writes, outside any        *)
(* transaction: a clerk is between the two.  Reservations and blocks are   *)
(* one step here: their own races are the subject of Pms.                  *)
(***************************************************************************)
EXTENDS ReservationRules, Integers, FiniteSets

CONSTANTS
  RoomType, Room,  \* identifiers that may be created
  Override,        \* identifiers of InventoryOverride rows
  Booking,         \* identifiers of reservations
  Clerk,           \* catalogue requests at a time
  CreateStatuses,  \* values of the optional status field of a creation
  NoRoom,          \* roomId null: the override is for the whole type
  NoOverride,      \* findFirst found nothing
  Horizon,         \* bound: the last departure day
  MaxBlocks,       \* bound: live blocks at a time
  Upserts,         \* bodies of upsertInventoryOverride
  TypePatches,     \* bodies of updateRoomType, absent fields left out
  RoomPatches,     \* bodies of updateRoom and bulkUpdateRoomStatus
  Restricted       \* <<type, night>> under a STOP_SELL rate restriction

Nights    == 0 .. Horizon - 1
Night(d)  == [in |-> d, out |-> d + 1]
Stays     == {s \in [in : Nights, out : 1 .. Horizon] : s.in < s.out}
RowState  == {"none", "live", "deleted"}

TypeFields == [state : RowState, open : BOOLEAN, active : BOOLEAN]
RoomFields ==
  [state : RowState, type : RoomType, status : RoomStatus,
   maintenanceStatus : RoomStatus, open : BOOLEAN, active : BOOLEAN]
OverrideKey == [type : RoomType, room : Room \cup {NoRoom}, night : Nights]
OverrideRow == [key : OverrideKey, quantity : Nat, stopSell : BOOLEAN]

ASSUME SalesAssumption ==
  /\ Horizon \in Nat \ {0} /\ MaxBlocks \in Nat
  /\ IsFiniteSet(Room)
  /\ RoomType # {}
  /\ NoRoom \notin Room
  /\ CreateStatuses \subseteq ReservationStatus
  /\ NoOverride \notin Override
  /\ Upserts \subseteq OverrideRow
  /\ Restricted \subseteq RoomType \X Nights
ASSUME PatchAssumption ==
  /\ \A p \in TypePatches : /\ DOMAIN p \subseteq {"open", "active"}
                            /\ \A f \in DOMAIN p : p[f] \in BOOLEAN
  /\ \A p \in RoomPatches :
        /\ DOMAIN p \subseteq {"type", "status", "maintenanceStatus", "open", "active"}
        /\ "type" \in DOMAIN p => p.type \in RoomType
        /\ \A f \in DOMAIN p \cap {"status", "maintenanceStatus"} : p[f] \in RoomStatus
        /\ \A f \in DOMAIN p \cap {"open", "active"} : p[f] \in BOOLEAN

VARIABLES
  type,      \* RoomType rows: saleStatus = OPEN is `open', isActive `active'
  room,      \* Room rows
  override,  \* InventoryOverride rows, a partial function of their ids
  booking,   \* Reservation and ReservationRoom rows
  blocks,    \* live CalendarBlock rows
  clerk      \* what each catalogue request holds between read and write

vars == <<type, room, override, booking, blocks, clerk>>

Idle     == [op |-> "idle"]
Deletion == [state |-> "deleted", active |-> FALSE, open |-> FALSE]

ClerkRequest ==
  {Idle}
    \cup [op : {"type"}, of : RoomType, patch : TypePatches \cup {Deletion}]
    \cup [op : {"create"}, of : RoomType, rooms : SUBSET Room]
    \cup [op : {"rooms"}, rooms : SUBSET Room, patch : RoomPatches \cup {Deletion}]
    \cup [op : {"upsert"}, found : Override \cup {NoOverride}, row : Upserts]

-----------------------------------------------------------------------------
(* The availability search: getAvailability. *)

(* OUT_OF_SERVICE, MAINTENANCE and closed rooms are not for sale. *)
InService(rm) ==
  /\ room[rm].status \notin {"OUT_OF_SERVICE", "MAINTENANCE"}
  /\ room[rm].maintenanceStatus # "MAINTENANCE"
  /\ room[rm].open

PhysicalRooms(t) ==
  {rm \in Room : /\ room[rm].state = "live" /\ room[rm].active
                 /\ room[rm].type = t /\ InService(rm)}

(* Mutant: the night of arrival is not counted. *)
OverlapsLaterNight(d, stay) == stay.in < d /\ stay.out > d

OverlapsNight(d, stay) == stay.in < d + 1 /\ stay.out > d

(* Reservations and blocks count by their room's type, whatever the room's *)
(* own state.                                                              *)
ReservedRooms(t, d) ==
  {rm \in Room : /\ room[rm].type = t
                 /\ \E r \in Booking : /\ booking[r].status \in blockingReservationStatuses
                                       /\ booking[r].room = rm
                                       /\ OverlapsNight(d, booking[r].stay)}

BlockedRooms(t, d) ==
  {rm \in Room : /\ room[rm].type = t
                 /\ \E b \in blocks : b.room = rm /\ OverlapsNight(d, b.stay)}

Calculated(t, d) ==
  Cardinality(PhysicalRooms(t))
    - Cardinality(ReservedRooms(t, d) \cup BlockedRooms(t, d))

(* The rows overrides.find chooses from: any of them, in no stated order. *)
NightOverrides(t, d) ==
  {o \in DOMAIN override :
     override[o].key = [type |-> t, room |-> NoRoom, night |-> d]}

AtLeastZero(n) == IF n > 0 THEN n ELSE 0

(* What a search may answer for a type and a night; types that are deleted *)
(* or inactive are not in the answer.                                      *)
Offers(t, d) ==
  IF ~(type[t].state = "live" /\ type[t].active) THEN {}
  ELSE IF ~type[t].open \/ <<t, d>> \in Restricted THEN {0}
  ELSE IF NightOverrides(t, d) = {} THEN {AtLeastZero(Calculated(t, d))}
  ELSE {IF override[o].stopSell THEN 0 ELSE override[o].quantity :
          o \in NightOverrides(t, d)}

-----------------------------------------------------------------------------
(* Reservations and blocks, as far as they change what is left to sell. *)

(* The guards createReservation applies to one room. *)
CanReserve(rm, stay) ==
  /\ ~\E r \in Booking : /\ booking[r].status \notin releasedForCreate \cup {"NONE"}
                         /\ booking[r].room = rm
                         /\ Overlap(booking[r].stay, stay)
  /\ room[rm].state = "live" /\ room[rm].active
  /\ type[room[rm].type].open /\ type[room[rm].type].active
  /\ InService(rm)
  /\ ~\E b \in blocks : b.room = rm /\ Overlap(b.stay, stay)
  /\ ~\E o \in DOMAIN override :
        /\ override[o].key.type = room[rm].type
        /\ override[o].stopSell
        /\ override[o].key.night \in stay.in .. stay.out - 1

CreateReservation(r, rm, stay, status) ==
  /\ booking[r].status = "NONE"
  /\ CanReserve(rm, stay)
  /\ booking' = [booking EXCEPT ![r] =
       [status |-> status, room |-> rm, stay |-> stay]]
  /\ UNCHANGED <<type, room, override, blocks, clerk>>

(* Check-in, check-out and no-show, by their status; nothing else changes  *)
(* the status of a stay.                                                   *)
Transition(r, s) ==
  /\ <<booking[r].status, s>> \in allowedTransitions
  /\ booking' = [booking EXCEPT ![r].status = s]
  /\ UNCHANGED <<type, room, override, blocks, clerk>>

CreateBlock(rm, stay, kind) ==
  /\ Cardinality(blocks) < MaxBlocks
  /\ room[rm].state = "live"
  /\ ~\E r \in Booking : /\ booking[r].status \in blockingReservationStatuses
                         /\ booking[r].room = rm
                         /\ Overlap(booking[r].stay, stay)
  /\ ~\E b \in blocks : b.room = rm /\ Overlap(b.stay, stay)
  /\ blocks' = blocks \cup {[room |-> rm, stay |-> stay, type |-> kind]}
  /\ room' = IF kind = "MAINTENANCE"
             THEN [room EXCEPT ![rm].maintenanceStatus = "MAINTENANCE"]
             ELSE room
  /\ UNCHANGED <<type, override, booking, clerk>>

DeleteBlock(b) ==
  /\ blocks' = blocks \ {b}
  /\ room' = IF /\ b.type = "MAINTENANCE"
                /\ room[b.room].maintenanceStatus = "MAINTENANCE"
                /\ room[b.room].status # "OUT_OF_SERVICE"
             THEN [room EXCEPT ![b.room].maintenanceStatus = "AVAILABLE"]
             ELSE room
  /\ UNCHANGED <<type, override, booking, clerk>>

-----------------------------------------------------------------------------
(* The catalogue: room types and rooms. *)

(* Mutant: fields the body leaves out are cleared. *)
MergeUndefined(row, patch) == patch

(* definedOnly: fields the body leaves out keep their value. *)
Merge(row, patch) ==
  [f \in DOMAIN row |-> IF f \in DOMAIN patch THEN patch[f] ELSE row[f]]

NewRoom(t) ==
  [state |-> "live", type |-> t, status |-> "AVAILABLE",
   maintenanceStatus |-> "AVAILABLE", open |-> TRUE, active |-> TRUE]

Hold(c, request) ==
  /\ clerk[c].op = "idle"
  /\ clerk' = [clerk EXCEPT ![c] = request]
  /\ UNCHANGED <<type, room, override, booking, blocks>>

Release(c) == clerk' = [clerk EXCEPT ![c] = Idle]

CreateRoomType(t) ==
  /\ type[t].state = "none"
  /\ type' = [type EXCEPT ![t] = [state |-> "live", open |-> TRUE, active |-> TRUE]]
  /\ UNCHANGED <<room, override, booking, blocks, clerk>>

(* updateRoomType loads the type, then updates it by id. *)
BeginUpdateType(c, t, patch) ==
  /\ type[t].state = "live"
  /\ Hold(c, [op |-> "type", of |-> t, patch |-> patch])

HasRooms(t) == \E rm \in Room : room[rm].state = "live" /\ room[rm].type = t

(* deleteRoomType loads the type and counts its rooms, then updates it. *)
BeginDeleteType(c, t) ==
  /\ type[t].state = "live"
  /\ ~HasRooms(t)
  /\ Hold(c, [op |-> "type", of |-> t, patch |-> Deletion])

WriteType(c) ==
  /\ clerk[c].op = "type"
  /\ type' = [type EXCEPT ![clerk[c].of] = Merge(@, clerk[c].patch)]
  /\ Release(c)
  /\ UNCHANGED <<room, override, booking, blocks>>

(* createRoom, and bulkCreateRooms for several names. *)
BeginCreateRooms(c, t, rooms) ==
  /\ type[t].state = "live"
  /\ Hold(c, [op |-> "create", of |-> t, rooms |-> rooms])

(* A name the property already has is skipped, or the request refused. *)
CreateRooms(c) ==
  /\ clerk[c].op = "create"
  /\ room' = [rm \in Room |->
       IF rm \in clerk[c].rooms /\ room[rm].state = "none"
       THEN NewRoom(clerk[c].of) ELSE room[rm]]
  /\ Release(c)
  /\ UNCHANGED <<type, override, booking, blocks>>

(* updateRoom for one room; bulkUpdateRoomStatus for several, whose body   *)
(* has no type and no isActive.                                            *)
BeginUpdateRooms(c, rooms, patch) ==
  /\ \A rm \in rooms : room[rm].state = "live"
  /\ "type" \in DOMAIN patch => type[patch.type].state = "live"
  /\ DOMAIN patch \cap {"type", "active"} # {} => Cardinality(rooms) = 1
  /\ Hold(c, [op |-> "rooms", rooms |-> rooms, patch |-> patch])

BeginDeleteRoom(c, rm) ==
  /\ room[rm].state = "live"
  /\ Hold(c, [op |-> "rooms", rooms |-> {rm}, patch |-> Deletion])

WriteRooms(c) ==
  /\ clerk[c].op = "rooms"
  /\ room' = [rm \in Room |->
       IF rm \in clerk[c].rooms THEN Merge(room[rm], clerk[c].patch) ELSE room[rm]]
  /\ Release(c)
  /\ UNCHANGED <<type, override, booking, blocks>>

-----------------------------------------------------------------------------
(* Inventory overrides. *)

(* Mutant: an absent roomId is not looked up. *)
KeyedRoomOnly(key) ==
  {o \in DOMAIN override : override[o].key = key /\ key.room # NoRoom}

RowsOf(key) == {o \in DOMAIN override : override[o].key = key}

(* upsertInventoryOverride looks for the row of its key ... *)
BeginUpsert(c, row) ==
  /\ type[row.key.type].state = "live"
  /\ row.key.room # NoRoom => room[row.key.room].state = "live"
  /\ \E found \in IF RowsOf(row.key) = {} THEN {NoOverride} ELSE RowsOf(row.key) :
       Hold(c, [op |-> "upsert", found |-> found, row |-> row])

(* ... and updates it ... *)
UpdateOverride(c) ==
  /\ clerk[c].op = "upsert" /\ clerk[c].found # NoOverride
  /\ override' = [override EXCEPT ![clerk[c].found] = clerk[c].row]
  /\ Release(c)
  /\ UNCHANGED <<type, room, booking, blocks>>

(* ... or inserts it.  The unique index covers rows that name a room only: *)
(* NULLs are distinct.                                                     *)
Unique(key) ==
  key.room # NoRoom => ~\E o \in DOMAIN override : override[o].key = key

InsertOverride(c, o) ==
  /\ clerk[c].op = "upsert" /\ clerk[c].found = NoOverride
  /\ o \notin DOMAIN override
  /\ override' = IF Unique(clerk[c].row.key)
                 THEN [x \in DOMAIN override \cup {o} |->
                         IF x = o THEN clerk[c].row ELSE override[x]]
                 ELSE override
  /\ Release(c)
  /\ UNCHANGED <<type, room, booking, blocks>>

-----------------------------------------------------------------------------
NoType     == [state |-> "none", open |-> FALSE, active |-> FALSE]
NoRoomRow  == [NewRoom(CHOOSE t \in RoomType : TRUE) EXCEPT !.state = "none"]
NoBooking(rm) == [status |-> "NONE", room |-> rm, stay |-> Night(0)]

Init ==
  /\ type = [t \in RoomType |-> NoType]
  /\ room = [rm \in Room |-> NoRoomRow]
  /\ override = [o \in {} |-> NoOverride]
  /\ \E rm \in Room : booking = [r \in Booking |-> NoBooking(rm)]
  /\ blocks = {}
  /\ clerk = [c \in Clerk |-> Idle]

Catalogue(c) ==
  \/ \E t \in RoomType, patch \in TypePatches : BeginUpdateType(c, t, patch)
  \/ \E t \in RoomType : BeginDeleteType(c, t)
  \/ WriteType(c)
  \/ \E t \in RoomType, rooms \in SUBSET Room \ {{}} : BeginCreateRooms(c, t, rooms)
  \/ CreateRooms(c)
  \/ \E rooms \in SUBSET Room \ {{}}, patch \in RoomPatches : BeginUpdateRooms(c, rooms, patch)
  \/ \E rm \in Room : BeginDeleteRoom(c, rm)
  \/ WriteRooms(c)
  \/ \E row \in Upserts : BeginUpsert(c, row)
  \/ UpdateOverride(c)
  \/ \E o \in Override : InsertOverride(c, o)

Next ==
  \/ \E c \in Clerk : Catalogue(c)
  \/ \E t \in RoomType : CreateRoomType(t)
  \/ \E r \in Booking, rm \in Room, stay \in Stays, status \in CreateStatuses :
       CreateReservation(r, rm, stay, status)
  \/ \E r \in Booking, s \in {"CHECKED_IN", "CHECKED_OUT", "NO_SHOW"} : Transition(r, s)
  \/ \E rm \in Room, stay \in Stays, kind \in CalendarBlockType : CreateBlock(rm, stay, kind)
  \/ \E b \in blocks : DeleteBlock(b)

Spec == Init /\ [][Next]_vars

-----------------------------------------------------------------------------
(* Two requests for one override that names no room: the unique index does *)
(* not hold where roomId is null, and nothing else keeps them apart.       *)

TypeWide(c) == clerk[c].op = "upsert" /\ clerk[c].row.key.room = NoRoom

UpsertsApart ==
  \A c, d \in Clerk :
    c # d /\ TypeWide(c) /\ TypeWide(d) => clerk[c].row.key # clerk[d].row.key

(* Spec without that overlap. *)
CatalogueSpec == Init /\ [][Next /\ UpsertsApart']_vars

-----------------------------------------------------------------------------
(* Properties. *)

(* definedOnly and the spread updates leave complete rows of their types,  *)
(* and so is what a clerk holds.                                           *)
TypeOK ==
  /\ type \in [RoomType -> TypeFields]
  /\ room \in [Room -> RoomFields]
  /\ DOMAIN override \subseteq Override
  /\ \A o \in DOMAIN override : override[o] \in OverrideRow
  /\ booking \in [Booking -> [status : ReservationStatus \cup {"NONE"},
                            room : Room, stay : Stays]]
  /\ blocks \subseteq [room : Room, stay : Stays, type : CalendarBlockType]
  /\ clerk \in [Clerk -> ClerkRequest]

(* Rooms a one-night reservation of a type could be given. *)
Bookable(t, d) ==
  {rm \in Room : room[rm].type = t /\ CanReserve(rm, Night(d))}

(* Creation is stricter than the search in two ways: a checked-out stay    *)
(* keeps its dates, and a stop-sell on one room closes the whole type.     *)
OnlyCreationCloses(t, d) ==
  \/ \E r \in Booking : /\ booking[r].status = "CHECKED_OUT"
                        /\ OverlapsNight(d, booking[r].stay)
  \/ \E o \in DOMAIN override : /\ override[o].key.type = t
                               /\ override[o].key.night = d
                               /\ override[o].stopSell

(* Where no override sets the quantity, getAvailability never offers more  *)
(* rooms of a type for a night than createReservation would accept.        *)
OfferBackedByRooms ==
  \A t \in RoomType, d \in Nights :
    \/ NightOverrides(t, d) # {}
    \/ OnlyCreationCloses(t, d)
    \/ \A n \in Offers(t, d) : n <= Cardinality(Bookable(t, d))

(* upsertInventoryOverride keeps one row for a type, a room or none, and a *)
(* night: a second row would keep its stop-sell when the first is lifted.  *)
OneOverridePerNight ==
  \A o1, o2 \in DOMAIN override : override[o1].key = override[o2].key => o1 = o2
=============================================================================
