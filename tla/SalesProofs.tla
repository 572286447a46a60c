----------------------------- MODULE SalesProofs -----------------------------
(***************************************************************************)
(* Theorems about Sales for every set of types, rooms, reservations and    *)
(* overrides, and for any number of catalogue requests at a time.          *)
(***************************************************************************)
EXTENDS Sales, FiniteSetTheorems, TLAPS

-----------------------------------------------------------------------------
(* Lemmas about the operators. *)

LEMMA NightIsStay == Night(0) \in Stays
BY SalesAssumption DEF Night, Stays, Nights

LEMMA NewRoomType == ASSUME NEW t \in RoomType PROVE NewRoom(t) \in RoomFields
BY DEF NewRoom, RoomFields, RowState, RoomStatus

(* definedOnly leaves a complete row of a type ... *)
LEMMA MergeTypeRow ==
  ASSUME NEW row \in TypeFields, NEW p \in TypePatches \cup {Deletion}
  PROVE  Merge(row, p) \in TypeFields
<1> DEFINE Val(f) == IF f \in DOMAIN p THEN p[f] ELSE row[f]
<1>1. DOMAIN row = {"state", "open", "active"}
  BY DEF TypeFields
<1>2. Val("state") \in RowState /\ Val("open") \in BOOLEAN /\ Val("active") \in BOOLEAN
  <2>1. CASE p \in TypePatches
    BY <2>1, PatchAssumption DEF TypeFields
  <2>2. CASE p = Deletion
    BY <2>2 DEF TypeFields, Deletion, RowState
  <2> QED
    BY <2>1, <2>2
<1>3. Merge(row, p) =
        [state |-> Val("state"), open |-> Val("open"), active |-> Val("active")]
  BY <1>1 DEF Merge
<1> HIDE DEF Val
<1> QED
  BY <1>2, <1>3 DEF TypeFields

(* ... and of a room. *)
LEMMA MergeRoomRow ==
  ASSUME NEW row \in RoomFields, NEW p \in RoomPatches \cup {Deletion}
  PROVE  Merge(row, p) \in RoomFields
<1> DEFINE Val(f) == IF f \in DOMAIN p THEN p[f] ELSE row[f]
<1>1. DOMAIN row = {"state", "type", "status", "maintenanceStatus", "open", "active"}
  BY DEF RoomFields
<1>2. /\ Val("state") \in RowState
      /\ Val("type") \in RoomType
      /\ Val("status") \in RoomStatus
      /\ Val("maintenanceStatus") \in RoomStatus
      /\ Val("open") \in BOOLEAN
      /\ Val("active") \in BOOLEAN
  <2>1. CASE p \in RoomPatches
    BY <2>1, PatchAssumption DEF RoomFields
  <2>2. CASE p = Deletion
    BY <2>2 DEF RoomFields, Deletion, RowState
  <2> QED
    BY <2>1, <2>2
<1>3. Merge(row, p) =
        [state |-> Val("state"), type |-> Val("type"), status |-> Val("status"),
         maintenanceStatus |-> Val("maintenanceStatus"),
         open |-> Val("open"), active |-> Val("active")]
  BY <1>1 DEF Merge
<1> HIDE DEF Val
<1> QED
  BY <1>2, <1>3 DEF RoomFields

-----------------------------------------------------------------------------
(* Types. *)

(* Every reachable state is typed: no update, spread or insert leaves a    *)
(* row with a field missing or of another type.                            *)
THEOREM SalesType == Spec => []TypeOK
<1>1. Init => TypeOK
  <2> SUFFICES ASSUME Init PROVE TypeOK
    OBVIOUS
  <2>1. type \in [RoomType -> TypeFields]
    BY DEF Init, NoType, TypeFields, RowState
  <2>2. NoRoomRow \in RoomFields
    <3>1. (CHOOSE t \in RoomType : TRUE) \in RoomType
      BY SalesAssumption
    <3> QED
      BY <3>1 DEF NoRoomRow, NewRoom, RoomFields, RowState, RoomStatus
  <2>3. room \in [Room -> RoomFields]
    BY <2>2 DEF Init
  <2>4. booking \in [Booking -> [status : ReservationStatus \cup {"NONE"},
                                 room : Room, stay : Stays]]
    BY NightIsStay DEF Init, NoBooking
  <2> QED
    BY <2>1, <2>3, <2>4 DEF Init, TypeOK, ClerkRequest
<1>2. TypeOK /\ [Next]_vars => TypeOK'
  <2> SUFFICES ASSUME TypeOK, [Next]_vars PROVE TypeOK'
    OBVIOUS
  <2>1. ASSUME NEW c \in Clerk, Catalogue(c) PROVE TypeOK'
    <3>1. ASSUME NEW request \in ClerkRequest, Hold(c, request) PROVE TypeOK'
      BY <3>1 DEF TypeOK, Hold
    <3>2. Release(c) => clerk' \in [Clerk -> ClerkRequest]
      BY DEF Release, TypeOK, ClerkRequest
    <3>3. ASSUME NEW t \in RoomType, NEW p \in TypePatches, BeginUpdateType(c, t, p)
          PROVE  TypeOK'
      BY <3>1, <3>3 DEF BeginUpdateType, ClerkRequest
    <3>4. ASSUME NEW t \in RoomType, BeginDeleteType(c, t) PROVE TypeOK'
      BY <3>1, <3>4 DEF BeginDeleteType, ClerkRequest
    <3>5. CASE WriteType(c)
      <4>1. clerk[c].of \in RoomType /\ clerk[c].patch \in TypePatches \cup {Deletion}
        BY <3>5 DEF WriteType, TypeOK, ClerkRequest, Idle
      <4>2. type' \in [RoomType -> TypeFields]
        BY <3>5, <4>1, MergeTypeRow DEF WriteType, TypeOK
      <4> QED
        BY <3>2, <3>5, <4>2 DEF WriteType, TypeOK
    <3>6. ASSUME NEW t \in RoomType, NEW rooms \in SUBSET Room \ {{}},
                 BeginCreateRooms(c, t, rooms)
          PROVE  TypeOK'
      BY <3>1, <3>6 DEF BeginCreateRooms, ClerkRequest
    <3>7. CASE CreateRooms(c)
      <4>1. clerk[c].of \in RoomType
        BY <3>7 DEF CreateRooms, TypeOK, ClerkRequest, Idle
      <4>2. room' \in [Room -> RoomFields]
        BY <3>7, <4>1, NewRoomType DEF CreateRooms, TypeOK
      <4> QED
        BY <3>2, <3>7, <4>2 DEF CreateRooms, TypeOK
    <3>8. ASSUME NEW rooms \in SUBSET Room \ {{}}, NEW p \in RoomPatches,
                 BeginUpdateRooms(c, rooms, p)
          PROVE  TypeOK'
      BY <3>1, <3>8 DEF BeginUpdateRooms, ClerkRequest
    <3>9. ASSUME NEW rm \in Room, BeginDeleteRoom(c, rm) PROVE TypeOK'
      BY <3>1, <3>9 DEF BeginDeleteRoom, ClerkRequest
    <3>10. CASE WriteRooms(c)
      <4>1. clerk[c].patch \in RoomPatches \cup {Deletion}
        BY <3>10 DEF WriteRooms, TypeOK, ClerkRequest, Idle
      <4>2. room' \in [Room -> RoomFields]
        BY <3>10, <4>1, MergeRoomRow DEF WriteRooms, TypeOK
      <4> QED
        BY <3>2, <3>10, <4>2 DEF WriteRooms, TypeOK
    <3>11. ASSUME NEW row \in Upserts, BeginUpsert(c, row) PROVE TypeOK'
      <4>1. PICK found \in IF RowsOf(row.key) = {} THEN {NoOverride} ELSE RowsOf(row.key) :
              Hold(c, [op |-> "upsert", found |-> found, row |-> row])
        BY <3>11 DEF BeginUpsert
      <4>2. found \in Override \cup {NoOverride}
        BY DEF RowsOf, TypeOK
      <4> QED
        BY <3>1, <4>1, <4>2 DEF ClerkRequest
    <3>12. ASSUME clerk[c].op = "upsert" PROVE clerk[c].row \in OverrideRow
      BY <3>12, SalesAssumption DEF TypeOK, ClerkRequest, Idle
    <3>13. CASE UpdateOverride(c)
      <4>1. /\ DOMAIN override' \subseteq Override
            /\ \A o \in DOMAIN override' : override'[o] \in OverrideRow
        BY <3>12, <3>13 DEF UpdateOverride, TypeOK
      <4> QED
        BY <3>2, <3>13, <4>1 DEF UpdateOverride, TypeOK
    <3>14. ASSUME NEW o \in Override, InsertOverride(c, o) PROVE TypeOK'
      <4>1. /\ DOMAIN override' \subseteq Override
            /\ \A x \in DOMAIN override' : override'[x] \in OverrideRow
        BY <3>12, <3>14 DEF InsertOverride, TypeOK
      <4> QED
        BY <3>2, <3>14, <4>1 DEF InsertOverride, TypeOK
    <3> QED
      BY <2>1, <3>3, <3>4, <3>5, <3>6, <3>7, <3>8, <3>9, <3>10, <3>11, <3>13, <3>14
      DEF Catalogue
  <2>2. ASSUME NEW t \in RoomType, CreateRoomType(t) PROVE TypeOK'
    BY <2>2 DEF CreateRoomType, TypeOK, TypeFields, RowState
  <2>3. ASSUME NEW r \in Booking, NEW rm \in Room, NEW stay \in Stays,
               NEW status \in CreateStatuses, CreateReservation(r, rm, stay, status)
        PROVE  TypeOK'
    BY <2>3, SalesAssumption DEF CreateReservation, TypeOK
  <2>4. ASSUME NEW r \in Booking, NEW s \in {"CHECKED_IN", "CHECKED_OUT", "NO_SHOW"},
               Transition(r, s)
        PROVE  TypeOK'
    BY <2>4 DEF Transition, TypeOK, ReservationStatus
  <2>5. ASSUME NEW rm \in Room, NEW stay \in Stays, NEW kind \in CalendarBlockType,
               CreateBlock(rm, stay, kind)
        PROVE  TypeOK'
    <3>1. room' \in [Room -> RoomFields]
      BY <2>5 DEF CreateBlock, TypeOK, RoomFields, RoomStatus
    <3> QED
      BY <2>5, <3>1 DEF CreateBlock, TypeOK
  <2>6. ASSUME NEW b \in blocks, DeleteBlock(b) PROVE TypeOK'
    <3>1. room' \in [Room -> RoomFields]
      BY <2>6 DEF DeleteBlock, TypeOK, RoomFields, RoomStatus
    <3> QED
      BY <2>6, <3>1 DEF DeleteBlock, TypeOK
  <2>7. CASE UNCHANGED vars
    BY <2>7 DEF vars, TypeOK
  <2> QED
    BY <2>1, <2>2, <2>3, <2>4, <2>5, <2>6, <2>7 DEF Next
<1> QED
  BY <1>1, <1>2, PTL DEF Spec

-----------------------------------------------------------------------------
(* The offer. *)

(* Counting the rooms in use against all rooms of the type never leaves    *)
(* more than are free, whichever rooms are in use.                         *)
LEMMA CountedOff ==
  ASSUME NEW P, NEW U, NEW F, IsFiniteSet(P), IsFiniteSet(U), IsFiniteSet(F),
         P \ U \subseteq F
  PROVE  Cardinality(P) - Cardinality(U) <= Cardinality(F)
<1>1. /\ IsFiniteSet(P \ U)
      /\ Cardinality(P \ U) = Cardinality(P) - Cardinality(P \cap U)
  BY FS_Difference
<1>2. /\ IsFiniteSet(P \cap U)
      /\ Cardinality(P \cap U) <= Cardinality(U)
  BY FS_Intersection
<1>3. Cardinality(P \ U) <= Cardinality(F)
  BY FS_Subset
<1>4. /\ Cardinality(P) \in Nat /\ Cardinality(U) \in Nat /\ Cardinality(F) \in Nat
      /\ Cardinality(P \cap U) \in Nat
  BY <1>2, FS_CardinalityType
<1> QED
  BY <1>1, <1>2, <1>3, <1>4

(* A room the search counts as physical and neither reserved nor blocked   *)
(* passes every guard of createReservation.                                *)
LEMMA FreeIsBookable ==
  ASSUME TypeOK, NEW t \in RoomType, NEW d \in Nights,
         type[t].open, type[t].active, ~OnlyCreationCloses(t, d)
  PROVE  PhysicalRooms(t) \ (ReservedRooms(t, d) \cup BlockedRooms(t, d))
           \subseteq Bookable(t, d)
<1> SUFFICES ASSUME NEW rm \in PhysicalRooms(t),
                    rm \notin ReservedRooms(t, d), rm \notin BlockedRooms(t, d)
             PROVE  rm \in Bookable(t, d)
  OBVIOUS
<1>1. /\ rm \in Room /\ room[rm].state = "live" /\ room[rm].active
      /\ room[rm].type = t /\ InService(rm)
  BY DEF PhysicalRooms
<1>2. d \in Int
  BY SalesAssumption DEF Nights
<1>3. ASSUME NEW r \in Booking,
             booking[r].status \notin releasedForCreate \cup {"NONE"},
             booking[r].room = rm, Overlap(booking[r].stay, Night(d))
      PROVE  FALSE
  <2>1. OverlapsNight(d, booking[r].stay)
    BY <1>3 DEF Overlap, OverlapsNight, Night
  <2>2. booking[r].status # "CHECKED_OUT"
    BY <2>1 DEF OnlyCreationCloses
  <2>3. booking[r].status \in ReservationStatus \cup {"NONE"}
    BY DEF TypeOK
  <2>4. booking[r].status \in blockingReservationStatuses
    BY <1>3, <2>2, <2>3
    DEF ReservationStatus, releasedForCreate, blockingReservationStatuses
  <2> QED
    BY <1>1, <1>3, <2>1, <2>4 DEF ReservedRooms
<1>4. ~\E b \in blocks : b.room = rm /\ Overlap(b.stay, Night(d))
  BY <1>1 DEF BlockedRooms, Overlap, OverlapsNight, Night
<1>5. ASSUME NEW o \in DOMAIN override, override[o].key.type = room[rm].type,
             override[o].stopSell,
             override[o].key.night \in Night(d).in .. Night(d).out - 1
      PROVE  FALSE
  <2>1. override[o].key.night = d
    BY <1>2, <1>5 DEF Night
  <2> QED
    BY <1>1, <1>5, <2>1 DEF OnlyCreationCloses
<1> QED
  BY <1>1, <1>3, <1>4, <1>5 DEF Bookable, CanReserve

(* No search offers more rooms of a type than a reservation could be given,*)
(* whatever requests the clerks have open.                                 *)
THEOREM OffersBacked == Spec => []OfferBackedByRooms
<1>1. TypeOK => OfferBackedByRooms
  <2> SUFFICES ASSUME TypeOK, NEW t \in RoomType, NEW d \in Nights,
                      NightOverrides(t, d) = {}, ~OnlyCreationCloses(t, d),
                      NEW n \in Offers(t, d)
               PROVE  n <= Cardinality(Bookable(t, d))
    BY DEF OfferBackedByRooms
  <2> DEFINE P == PhysicalRooms(t)
             U == ReservedRooms(t, d) \cup BlockedRooms(t, d)
             F == Bookable(t, d)
  <2>1. IsFiniteSet(P) /\ IsFiniteSet(U) /\ IsFiniteSet(F)
    <3>1. P \in SUBSET Room /\ U \in SUBSET Room /\ F \in SUBSET Room
      BY DEF PhysicalRooms, ReservedRooms, BlockedRooms, Bookable
    <3> HIDE DEF P, U, F
    <3> QED
      BY <3>1, SalesAssumption, FS_Subset
  <2>2. Cardinality(F) \in Nat /\ Cardinality(P) \in Nat /\ Cardinality(U) \in Nat
    BY <2>1, FS_CardinalityType
  <2>3. CASE n = 0
    BY <2>2, <2>3
  <2>4. CASE n # 0
    <3>1. /\ type[t].open /\ type[t].active
          /\ n = AtLeastZero(Calculated(t, d))
      BY <2>4 DEF Offers
    <3>2. P \ U \subseteq F
      BY <3>1, FreeIsBookable
    <3>3. n = Cardinality(P) - Cardinality(U)
      BY <2>4, <3>1 DEF AtLeastZero, Calculated
    <3> HIDE DEF P, U, F
    <3>4. Cardinality(P) - Cardinality(U) <= Cardinality(F)
      BY <2>1, <3>2, CountedOff
    <3> QED
      BY <3>3, <3>4 DEF F
  <2> QED
    BY <2>3, <2>4
<1> QED
  BY <1>1, SalesType, PTL

-----------------------------------------------------------------------------
(* Overrides.  A row keeps its key for good, so the row an upsert found is *)
(* still the row of its key when it is written.                            *)

FoundKept ==
  \A c \in Clerk :
    clerk[c].op = "upsert" /\ clerk[c].found # NoOverride =>
      clerk[c].found \in RowsOf(clerk[c].row.key)

(* Two rows for one room, type and night cannot be: the unique index. *)
OneOverridePerRoomNight ==
  \A o1, o2 \in DOMAIN override :
    override[o1].key = override[o2].key /\ override[o1].key.room # NoRoom => o1 = o2

OverrideInv == TypeOK /\ FoundKept /\ OneOverridePerRoomNight

(* The rows without a room have no index.  As long as UpsertsApart holds,  *)
(* a request that found no row still knows that there is none.             *)
MissingKept ==
  \A c \in Clerk :
    TypeWide(c) /\ clerk[c].found = NoOverride => RowsOf(clerk[c].row.key) = {}

TypeWideInv == OverrideInv /\ MissingKept /\ OneOverridePerNight

(* What a step does to the overrides and to what the clerks hold. *)
Opened(c) ==
  /\ UNCHANGED override
  /\ \A x \in Clerk \ {c} : clerk'[x] = clerk[x]
  /\ clerk'[c].op = "upsert" =>
       IF clerk'[c].found = NoOverride THEN RowsOf(clerk'[c].row.key) = {}
       ELSE clerk'[c].found \in RowsOf(clerk'[c].row.key)

Closed(c) ==
  /\ \A x \in Clerk \ {c} : clerk'[x] = clerk[x]
  /\ clerk'[c].op = "idle"

LEMMA HoldOpens ==
  ASSUME TypeOK, NEW c \in Clerk, NEW request, Hold(c, request),
         request.op # "upsert"
  PROVE  Opened(c)
BY DEF Hold, Opened, TypeOK

LEMMA UpsertOpens ==
  ASSUME TypeOK, NEW c \in Clerk, NEW row \in Upserts, BeginUpsert(c, row)
  PROVE  Opened(c)
<1>1. PICK found \in IF RowsOf(row.key) = {} THEN {NoOverride} ELSE RowsOf(row.key) :
        Hold(c, [op |-> "upsert", found |-> found, row |-> row])
  BY DEF BeginUpsert
<1>2. /\ clerk'[c].found = found /\ clerk'[c].row = row
      /\ \A x \in Clerk \ {c} : clerk'[x] = clerk[x]
      /\ UNCHANGED override
  BY <1>1 DEF Hold, TypeOK
<1>3. found # NoOverride => found \in RowsOf(row.key)
  OBVIOUS
<1>4. found = NoOverride => RowsOf(row.key) = {}
  BY SalesAssumption DEF RowsOf, TypeOK
<1> QED
  BY <1>2, <1>3, <1>4 DEF Opened

LEMMA ReleaseCloses ==
  ASSUME TypeOK, NEW c \in Clerk, Release(c)
  PROVE  Closed(c)
BY DEF TypeOK, Release, Idle, Closed

LEMMA CatalogueSteps ==
  ASSUME TypeOK, NEW c \in Clerk, Catalogue(c)
  PROVE  \/ Opened(c)
         \/ Closed(c) /\ UNCHANGED override
         \/ Closed(c) /\ UpdateOverride(c)
         \/ Closed(c) /\ \E o \in Override : InsertOverride(c, o)
<1>1. ASSUME NEW t, NEW p, BeginUpdateType(c, t, p) PROVE Opened(c)
  BY <1>1, HoldOpens DEF BeginUpdateType
<1>2. ASSUME NEW t, BeginDeleteType(c, t) PROVE Opened(c)
  BY <1>2, HoldOpens DEF BeginDeleteType
<1>3. ASSUME NEW t, NEW rooms, BeginCreateRooms(c, t, rooms) PROVE Opened(c)
  BY <1>3, HoldOpens DEF BeginCreateRooms
<1>4. ASSUME NEW rooms, NEW p, BeginUpdateRooms(c, rooms, p) PROVE Opened(c)
  BY <1>4, HoldOpens DEF BeginUpdateRooms
<1>5. ASSUME NEW rm, BeginDeleteRoom(c, rm) PROVE Opened(c)
  BY <1>5, HoldOpens DEF BeginDeleteRoom
<1>6. CASE WriteType(c) \/ CreateRooms(c) \/ WriteRooms(c)
  BY <1>6, ReleaseCloses DEF WriteType, CreateRooms, WriteRooms
<1>7. CASE UpdateOverride(c)
  BY <1>7, ReleaseCloses DEF UpdateOverride
<1>8. ASSUME NEW o \in Override, InsertOverride(c, o) PROVE Closed(c)
  BY <1>8, ReleaseCloses DEF InsertOverride
<1> QED
  BY <1>1, <1>2, <1>3, <1>4, <1>5, <1>6, <1>7, <1>8, UpsertOpens DEF Catalogue

(* An update rewrites the row of its key, and no row changes its key. *)
LEMMA UpdateKeepsKeys ==
  ASSUME TypeOK, FoundKept, NEW c \in Clerk, UpdateOverride(c)
  PROVE  /\ DOMAIN override' = DOMAIN override
         /\ \A o \in DOMAIN override : override'[o].key = override[o].key
<1>1. clerk[c].found \in RowsOf(clerk[c].row.key)
  BY DEF UpdateOverride, FoundKept
<1>2. override' = [override EXCEPT ![clerk[c].found] = clerk[c].row]
  BY DEF UpdateOverride
<1> QED
  BY <1>1, <1>2 DEF RowsOf

LEMMA InsertKeepsKeys ==
  ASSUME TypeOK, NEW c \in Clerk, NEW o, InsertOverride(c, o)
  PROVE  \/ UNCHANGED override
         \/ /\ o \notin DOMAIN override /\ DOMAIN override' = DOMAIN override \cup {o}
            /\ \A x \in DOMAIN override : override'[x].key = override[x].key
            /\ override'[o].key = clerk[c].row.key
            /\ Unique(clerk[c].row.key)
BY DEF InsertOverride

(* Rows whose keys stay are found as before. *)
LEMMA FoundStays ==
  ASSUME FoundKept, DOMAIN override \subseteq DOMAIN override',
         \A o \in DOMAIN override : override'[o].key = override[o].key,
         NEW c \in Clerk, Closed(c)
  PROVE  FoundKept'
BY DEF FoundKept, RowsOf, Closed

LEMMA CatalogueKeeps ==
  ASSUME OverrideInv, NEW c \in Clerk, Catalogue(c)
  PROVE  FoundKept' /\ OneOverridePerRoomNight'
<1>1. CASE Opened(c)
  <2>1. FoundKept'
    BY <1>1 DEF Opened, OverrideInv, FoundKept, RowsOf
  <2> QED
    BY <1>1, <2>1 DEF Opened, OverrideInv, OneOverridePerRoomNight
<1>2. CASE Closed(c) /\ UNCHANGED override
  BY <1>2, FoundStays DEF OverrideInv, OneOverridePerRoomNight
<1>3. CASE Closed(c) /\ UpdateOverride(c)
  <2>1. /\ DOMAIN override' = DOMAIN override
        /\ \A o \in DOMAIN override : override'[o].key = override[o].key
    BY <1>3, UpdateKeepsKeys DEF OverrideInv
  <2> QED
    BY <1>3, <2>1, FoundStays DEF OverrideInv, OneOverridePerRoomNight
<1>4. ASSUME NEW o \in Override, Closed(c), InsertOverride(c, o)
      PROVE  FoundKept' /\ OneOverridePerRoomNight'
  <2>1. CASE UNCHANGED override
    BY <1>4, <2>1, FoundStays DEF OverrideInv, OneOverridePerRoomNight
  <2>2. CASE /\ o \notin DOMAIN override /\ DOMAIN override' = DOMAIN override \cup {o}
             /\ \A x \in DOMAIN override : override'[x].key = override[x].key
             /\ override'[o].key = clerk[c].row.key
             /\ Unique(clerk[c].row.key)
    <3>1. FoundKept'
      BY <1>4, <2>2, FoundStays DEF OverrideInv
    <3>2. \A x \in DOMAIN override :
            override[x].key = clerk[c].row.key => clerk[c].row.key.room = NoRoom
      BY <2>2 DEF Unique
    <3>3. OneOverridePerRoomNight'
      BY <2>2, <3>2 DEF OverrideInv, OneOverridePerRoomNight
    <3> QED
      BY <3>1, <3>3
  <2> QED
    BY <1>4, <2>1, <2>2, InsertKeepsKeys DEF OverrideInv
<1> QED
  BY <1>1, <1>2, <1>3, <1>4, CatalogueSteps DEF OverrideInv

(* Reservations, blocks and new types leave overrides and clerks alone. *)
LEMMA OtherSteps ==
  ASSUME [Next]_vars, ~\E c \in Clerk : Catalogue(c)
  PROVE  UNCHANGED <<override, clerk>>
BY DEF Next, vars, CreateRoomType, CreateReservation, Transition, CreateBlock, DeleteBlock

LEMMA OverrideNext ==
  OverrideInv /\ TypeOK' /\ [Next]_vars => OverrideInv'
<1> SUFFICES ASSUME OverrideInv, TypeOK', [Next]_vars PROVE OverrideInv'
  OBVIOUS
<1>1. CASE \E c \in Clerk : Catalogue(c)
  BY <1>1, CatalogueKeeps DEF OverrideInv
<1>2. CASE UNCHANGED <<override, clerk>>
  BY <1>2 DEF OverrideInv, FoundKept, RowsOf, OneOverridePerRoomNight
<1> QED
  BY <1>1, <1>2, OtherSteps

(* However many upserts interleave, one row at most is kept for a room, a  *)
(* type and a night (upsertInventoryOverride and the unique index).        *)
THEOREM RoomOverridesUnique == Spec => []OneOverridePerRoomNight
<1>1. Init => FoundKept /\ OneOverridePerRoomNight
  BY DEF Init, FoundKept, OneOverridePerRoomNight, Idle
<1>2. Spec => []OverrideInv
  BY <1>1, SalesType, OverrideNext, PTL DEF Spec, OverrideInv
<1>3. OverrideInv => OneOverridePerRoomNight
  BY DEF OverrideInv
<1> QED
  BY <1>2, <1>3, PTL

(* What closes a request and adds no row leaves the missing rows missing. *)
LEMMA MissingStays ==
  ASSUME MissingKept, NEW c \in Clerk, Closed(c), DOMAIN override' = DOMAIN override,
         \A o \in DOMAIN override : override'[o].key = override[o].key
  PROVE  MissingKept'
BY DEF MissingKept, TypeWide, RowsOf, Closed

(* An insert fills the night of its own key only. *)
LEMMA InsertKeepsMissing ==
  ASSUME MissingKept, UpsertsApart, NEW c \in Clerk, NEW o, Closed(c),
         clerk[c].op = "upsert", DOMAIN override' = DOMAIN override \cup {o},
         \A x \in DOMAIN override : override'[x].key = override[x].key,
         override'[o].key = clerk[c].row.key
  PROVE  MissingKept'
<1> SUFFICES ASSUME NEW d \in Clerk, TypeWide(d)', clerk'[d].found = NoOverride
             PROVE  \A x \in DOMAIN override' : override'[x].key # clerk'[d].row.key
  BY DEF MissingKept, RowsOf
<1>1. d # c /\ clerk'[d] = clerk[d]
  BY DEF Closed, TypeWide
<1>2. \A x \in DOMAIN override : override[x].key # clerk[d].row.key
  BY <1>1 DEF MissingKept, TypeWide, RowsOf
<1>3. clerk[c].row.key # clerk[d].row.key
  <2>1. TypeWide(d)
    BY <1>1 DEF TypeWide
  <2>2. CASE TypeWide(c)
    BY <1>1, <2>1, <2>2 DEF UpsertsApart
  <2>3. CASE ~TypeWide(c)
    BY <2>1, <2>3 DEF TypeWide
  <2> QED
    BY <2>2, <2>3
<1> QED
  BY <1>1, <1>2, <1>3

(* The row an insert adds is the first of its key: the upsert knew that    *)
(* there was none, or the index covers the row.                            *)
LEMMA InsertKeepsOne ==
  ASSUME MissingKept, OneOverridePerNight, NEW c \in Clerk, NEW o,
         clerk[c].op = "upsert", clerk[c].found = NoOverride,
         o \notin DOMAIN override, DOMAIN override' = DOMAIN override \cup {o},
         \A x \in DOMAIN override : override'[x].key = override[x].key,
         override'[o].key = clerk[c].row.key, Unique(clerk[c].row.key)
  PROVE  OneOverridePerNight'
<1>1. \A x \in DOMAIN override : override[x].key # clerk[c].row.key
  <2>1. CASE TypeWide(c)
    BY <2>1 DEF MissingKept, RowsOf
  <2>2. CASE ~TypeWide(c)
    BY <2>2 DEF TypeWide, Unique
  <2> QED
    BY <2>1, <2>2
<1> QED
  BY <1>1 DEF OneOverridePerNight

LEMMA UpsertsApartKeep ==
  ASSUME UpsertsApart, TypeWideInv, NEW c \in Clerk, Catalogue(c)
  PROVE  MissingKept' /\ OneOverridePerNight'
<1> USE DEF TypeWideInv, OverrideInv
<1>1. CASE Opened(c)
  <2>1. MissingKept'
    BY <1>1 DEF Opened, MissingKept, TypeWide, RowsOf
  <2> QED
    BY <1>1, <2>1 DEF Opened, OneOverridePerNight
<1>2. CASE Closed(c) /\ UNCHANGED override
  BY <1>2, MissingStays DEF OneOverridePerNight
<1>3. CASE Closed(c) /\ UpdateOverride(c)
  <2>1. /\ DOMAIN override' = DOMAIN override
        /\ \A o \in DOMAIN override : override'[o].key = override[o].key
    BY <1>3, UpdateKeepsKeys
  <2> QED
    BY <1>3, <2>1, MissingStays DEF OneOverridePerNight
<1>4. ASSUME NEW o \in Override, Closed(c), InsertOverride(c, o)
      PROVE  MissingKept' /\ OneOverridePerNight'
  <2>1. /\ clerk[c].op = "upsert" /\ clerk[c].found = NoOverride
        /\ o \notin DOMAIN override
    BY <1>4 DEF InsertOverride
  <2>2. CASE UNCHANGED override
    BY <1>4, <2>2, MissingStays DEF OneOverridePerNight
  <2>3. CASE /\ DOMAIN override' = DOMAIN override \cup {o}
             /\ \A x \in DOMAIN override : override'[x].key = override[x].key
             /\ override'[o].key = clerk[c].row.key
             /\ Unique(clerk[c].row.key)
    BY <1>4, <2>1, <2>3, InsertKeepsMissing, InsertKeepsOne
  <2> QED
    BY <1>4, <2>2, <2>3, InsertKeepsKeys
<1> QED
  BY <1>1, <1>2, <1>3, <1>4, CatalogueSteps

(* With any number of clerks, a second row for a type and a night takes    *)
(* two overlapping upserts of that very row: upsertInventoryOverride never *)
(* repeats a row that is there when it looks.                              *)
THEOREM OnlyUpsertRacesRepeatRows ==
  Spec /\ []UpsertsApart => []OneOverridePerNight
<1>1. Init => FoundKept /\ OneOverridePerRoomNight /\ MissingKept /\ OneOverridePerNight
  BY DEF Init, FoundKept, OneOverridePerRoomNight, MissingKept, TypeWide,
         OneOverridePerNight, Idle
<1>2. TypeWideInv /\ UpsertsApart /\ TypeOK' /\ [Next]_vars => TypeWideInv'
  <2> SUFFICES ASSUME TypeWideInv, UpsertsApart, TypeOK', [Next]_vars
               PROVE  TypeWideInv'
    OBVIOUS
  <2>1. OverrideInv'
    BY OverrideNext DEF TypeWideInv
  <2>2. ASSUME NEW c \in Clerk, Catalogue(c) PROVE MissingKept' /\ OneOverridePerNight'
    BY <2>2, UpsertsApartKeep
  <2>3. ASSUME UNCHANGED <<override, clerk>> PROVE MissingKept' /\ OneOverridePerNight'
    BY <2>3 DEF TypeWideInv, MissingKept, TypeWide, RowsOf, OneOverridePerNight
  <2> QED
    BY <2>1, <2>2, <2>3, OtherSteps DEF TypeWideInv
<1>3. TypeWideInv => OneOverridePerNight
  BY DEF TypeWideInv
<1> QED
  BY <1>1, <1>2, <1>3, SalesType, PTL DEF Spec, TypeWideInv, OverrideInv
=============================================================================
