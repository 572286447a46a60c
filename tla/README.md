# Verification of the hotel management platform

TLA+ models, TLC checks and TLAPS proofs for the API under `src/apps/api`
(NestJS services over PostgreSQL through Prisma) and for the pages of the web
client under `src/apps/web` that work on its data.

## 1. Inventory

Paths are under `src/apps/api/src/` unless they start with `web/`, which stands
for `src/apps/web/`.

| Part | State it keeps | Operations that change it | What is hard |
|---|---|---|---|
| Reservation creation (`reservations/reservations.service.ts:54-89, 1330-1536`) | `Reservation`, `ReservationRoom`, `ReservationIdempotencyRecord`, `InventoryOutboxEvent` | one Serializable transaction per creation, replay under an `Idempotency-Key`, retry after P2034 | concurrent creations of one room, repeated requests |
| Front desk operations (`reservations/reservations.service.ts:120-1161`) | the same rows, `Room` statuses, `Invoice`, `HousekeepingTask`, `MaintenanceIssue` | assign, change room, check-in, check-out, no-show, room status, task, issue | every operation decides on a context read before its transaction |
| Payments and invoices (`reservations/reservations.service.ts:556-718, 1198-1266, 1612-1642`) | `Payment`, `PaymentIdempotencyRecord`, `Reservation.paymentStatus`, `Invoice` | record payment or refund, generate invoice, balance and deposit checks of check-out and check-in | READ COMMITTED transactions, stale balances, repeated payments |
| Calendar (`calendar/calendar.service.ts`) | reservation dates and room, `CalendarBlock`, `Room.maintenanceStatus` | move or resize a reservation, create, update, delete a block | optimistic versions, blocks checked at READ COMMITTED, reservations with several rooms |
| Authentication and sessions (`auth/auth.service.ts`, `web/lib/client-api.ts`) | `User`, `AuthSession`, verification and reset tokens, login attempts; the tokens in each browser's storage | register, login, refresh, logout, revoke, change of password and address, reset, verification | rotation in two tabs, lost answers, revocation under a refresh, links used late |
| Billing and plan limits (`billing/billing.service.ts`, `common/subscription-guard.service.ts`) | `Subscription`, `SubscriptionInvoice`, `WebhookEvent`, `BillingEvent` | change plan, cancel, webhook; the guards count rows before a creation | no transactions at all: deaths between calls, count-then-create |
| Rooms, rates, availability (`rooms/rooms.service.ts`) | `RoomType`, `Room`, `RatePlan`, `RateRestriction`, `InventoryOverride`, promotions, policies | CRUD, upserts by date, bulk creation; `getAvailability` and `priceQuote` read | availability must agree with what creation accepts |
| WhatsApp (`whatsapp/`) | `WhatsAppMessage`, `WhatsAppWebhookEvent`, `WhatsAppConnection`, `UsageRecord`, a BullMQ queue in Redis | enqueue, deliver, retry, webhook status updates | duplicated and reordered webhooks, retries, crash between send and record |
| Front desk overview (`front-desk/front-desk.service.ts`) | none | ten queries side by side, without a transaction | a reservation that moves between the lists meanwhile |
| Web client (`web/components/*-workspace.tsx`) | filters, what is shown, one form, a flag, request versions | load, open, submit, patch | answers in any order or not at all, double clicks, forms older than the page behind them |
| Module records (`module-records/module-records.service.ts`) | `ModuleRecord` | create, update, remove | nothing on the server; the page patches its list |
| Inventory outbox (`common/inventory-outbox.service.ts`) | status, attempts and availability of each event | `dispatchPending`, called by nothing | crash between two updates, two dispatchers |
| Tenancy and permissions (`common/tenant-access.service.ts`, `common/permissions.guard.ts`) | none | per-request reads | - |
| Other CRUD (`guests`, `companies`, `properties`, `dashboard`, `health`) | their own rows | one statement each | nothing of their own |

### How the parts interact

- A reservation is created by `ReservationsService.create`; after the
  transaction it calls `WhatsAppService.enqueueReservationCreated`, also when
  the creation was answered from an idempotency record (`:87`). That is why a
  message may be requested several times under one key (module `Messaging`).
- The front desk and the calendar never call each other. They meet in the rows
  `Reservation`, `ReservationRoom`, `Room` and `CalendarBlock`, and each applies
  its own guards to them: this is the composition module `Pms`.
- Both write `InventoryOutboxEvent` rows in the transaction of the change. The
  dispatcher that would consume them is called by nothing at this commit.
- Payments and invoices touch the stay only through its status and
  `paymentStatus`; rooms and dates do not matter to them. Module `Ledger` holds
  the money, `Pms` everything else, and the status of the stay is the only
  state both have.
- Every call of the web client goes through `fetchWithRefresh`, which turns a
  401 into a refresh of the session and one repetition (module `Sessions`); the
  pages do not see it (module `Workspace`).
- After signing in, `resolvePostAuthRoute` reads the subscription; when a room
  or property is created, `SubscriptionGuard` reads the same row with a
  condition of its own (module `Plans`).
- The remaining checks of `TenantAccessService` and the permission guard refuse
  a request before anything happens.

### What makes each part correct

| Part | Must be true |
|---|---|
| Creation | no room is held twice for a night; one reservation per key |
| Front desk | statuses follow `allowedTransitions`; a check-out frees, dirties and invoices; every change of a stay reaches the outbox |
| Calendar | of those who loaded one version one moves the reservation; no stay under a block |
| Payments | one payment per key; refunds covered; the status shown is the one the payments give; invoice numbers without gaps; nobody leaves owing |
| Sessions | rotation signs nobody out who refreshes one at a time; a change of password ends what came before; an ended session stays ended; a verified address was proved |
| Plans and billing | limits are exceeded by requests under way only; a change that runs by itself leaves provider, subscription and invoice on one plan; a provider event is booked once; client and guard agree |
| WhatsApp | a message is sent and charged once unless a fault explains more; events applied once; jobs end |
| Availability | what is offered can be booked |
| Web client | a form has its effect once, and again only for a lost answer; the latest load tells the truth; what was removed comes back from old answers only; no move overwrites what was not on the screen |
| Outbox | every event is processed at least once |

## 2. Modules

| Module | Models | State |
|---|---|---|
| `ReservationRules` | the pure rules: statuses, `allowedTransitions`, `assertAssignableReservation`, what blocks a room, overlap | none |
| `Inventory` | the shared rows, the guards of both services, in-flight requests and the retry loop `retrySerializable` | `reservation room block outbox idem tasks invoices req` |
| `FrontDesk` (extends `Inventory`) | creation, replay, assign, change room, check-in, check-out, no-show, room status, task, issue | - |
| `Calendar` (extends `Inventory`) | timeline read, move, create, update and delete a block | - |
| `RoomDiary` | abstract: who holds which rooms for which nights | `entry` |
| `Pms` (extends `FrontDesk`, `Calendar`) | the composition, its properties and the refinement of `RoomDiary` | - |
| `Ledger` | payments, refunds, payment idempotency, invoices, money guards of check-in and check-out | `stay paid payments paymentStatus keys invoices policy req overlapped` |
| `Messaging` | outbound messages, BullMQ jobs and workers, usage records, webhooks | `row job connected sender worker sends usage faults dead event hook applied` |
| `Sales` | room types, rooms, inventory overrides, and the availability search beside stays and blocks | `type room override booking blocks clerk` |
| `SessionBook` | abstract: sessions that are live and sessions that have ended | `live ended` |
| `Sessions` | one account: the auth service beside browsers and their refresh wrapper; refines `SessionBook` | `account session store reset mail failures req` and three logs |
| `Plans` | one company: subscription, guards, billing webhooks | `subscription provider invoice alone made held noted booked duplicates forsaken req` |
| `Workspace` | one page beside its row: calendar, front desk with its overview, rooms and rates, module records | `page stay row filter view form submitting req own gone log lost` |
| `MC*` | instances for TLC | - |
| `PmsProofs`, `BookingProofs`, `SalesProofs`, `SessionsProofs`, `PlansProofs`, `LedgerProofs`, `MessagingProofs`, `WorkspaceProofs` | theorems | - |

Variables such as `overlapped`, `disturbed`, `proved`, `lost`, `alone`,
`forsaken`, `held`, `applied`, `own`, `gone` and `log` are history: no guard of the
code reads them, and the properties need them to say *unless*.

Definitions marked *mutant* in a comment are not used by any action. Each is a
plausible bug that replaces the definition it stands beside; the property it is
listed with in `PROJECT.json` must then fail. They show what each property
depends on.

### How code becomes actions

- **Read, then write.** Nearly every front desk operation calls
  `getReservationContext`, checks statuses and policies on that copy and then
  opens a transaction that uses it. So an operation is two actions: `ReadFor...`
  stores the context in `req[q]`, and the action named after the handler does
  the transaction. What the transaction reads again (`assertRoomAssignable`, the
  other reservations in `assertNoRoomOverlap`) is read from the present state;
  what it takes from the context (own dates, rooms, status) from `req[q]`.
- **Serializable transactions are one step.** PostgreSQL runs them as if one
  after the other. An attempt that loses fails with P2034 and changes nothing:
  `SerializationFailure`. `retrySerializable` runs the closure again with the
  *same* context, at most `MaxAttempts` (3 in the code) times, then answers
  with an error. Creation has no context, so its retries are invisible.
- **READ COMMITTED transactions are several steps**, one for the reading
  statements and one for the writing ones (`createBlock`, `updateBlock`,
  `deleteBlock`, and `recordPayment`, where the insert under a unique index
  waits for an uncommitted row with the same key). `noShow` also runs at READ
  COMMITTED; it reads nothing after its context, so its transaction is one step.
- **Catalogue requests are two steps.** Handlers of `RoomsService` check ids and
  counts, then update by id outside any transaction: `Begin...` and `Write...`,
  with the clerk holding the checked request in between. Reservations and blocks
  are one step in `Sales`, because `Pms` has their races.
- **Not in a transaction: one step per await.** `Messaging` and `Plans` have no
  transactions, so every query and provider call is an action, and a fault or a
  crash may come between any two. In `Sessions` the transactions of `changePassword`,
  `changeEmail`, `resetPassword` and `verifyEmail` are one step, and what they
  were decided on is a step before; so is the lookup of `refresh` before
  `rotateSession` updates the row by id.
- **The refresh wrapper** of `client-api.ts` is part of each call in `Sessions`:
  a call that is denied reads the token of the *shared* storage, refreshes, saves
  and repeats itself once; the answer of a refresh or of a login may be lost, and
  then the row has moved on and the storage has not. Whether an access token has
  lapsed is a choice of each call, since nothing looks it up.
- **A page** in `Workspace` is its controls, its rendered row and its form. A
  load is asked for, served and shown in three steps, never cancelled, and shows
  its answer whatever has been shown since. A submission takes what the form
  held when it was opened (`expectedUpdatedAt`), what the list holds now, or
  neither, as each page does. The server handles it in one step where its
  transaction is Serializable (`Transact`: creations and moves) and in two
  elsewhere: `Check` compares the version and the state of the row it reads,
  `Write` updates by id whatever the row is by then, so two updates of a block
  from one version both land here as in `Calendar`. A page that gives up a
  request (`Lose`) does not call it back: it may be checked and written later
  (`awaited` is then FALSE). The form of a new record opens and is sent also while
  the first list is on its way. A reservation on the
  overview is on the lists `ListsOf` sorts it to, and the queries may run on
  both sides of a change: `ReadSomeLists`. Of the records of a module one is
  followed; a list without it may hold others or be empty, and an empty one is
  filled with samples, the one followed among them if it has not been there.
- **A refused request** rolls back and changes no row. It is a step only where
  the request was open (`RefuseRoom`, `RefuseMove`, `Fail`) or where a page hears
  of it; a request refused on arrival is not a step.
- **Data.** Days are small numbers, `updatedAt` is a counter every update of
  the row bumps (`@updatedAt`), amounts are small numbers, hashes and payload
  hashes are what they hash, and tokens of a session are numbered in the order
  they are made. `rooms[0]` comes from a query without an order: `FirstRow`
  may be any room of the reservation. A PROCESSING idempotency record of a
  creation is never visible outside its transaction and is left out.
- **Left out of the handlers**: audit log rows, notes, `ReservationRoomChange`
  history, texts, and checks on ids and permissions that refuse a request on
  arrival. Rooms are taken to be open for sale (`isActive`, `saleStatus`);
  maintenance issues are never resolved because no endpoint resolves them;
  `StopSell` is a constant set of nights of the property.

## 3. Runs

All bounds are constants: `Horizon` days, `Concurrency` requests between their
read and their write, `MaxAttempts`, the number of requests (each used once in
`Pms` and `Ledger`, again and again in the others), `MaxFaults`, `MaxRetries`,
`MaxStalled`, `Recipients`, `MaxIssued`, `MaxChanges`, `MaxLost`, `MaxMade`,
`MaxDuplicates`, `FormId`, `MaxVersion`.

| Run | Question | Bounds | Why they are enough |
|---|---|---|---|
| `PmsBooking` | stays and moves, two at once, one room each, as a room diary | 2 reservations, 2 rooms, 2 nights, 5 requests, 2 at once, 1 key; `MovesApart` | a collision needs two reservations and two requests that overlap; five requests are two creations, a repetition and two more operations |
| `PmsStays` | every front desk operation and moves, two at once | 1 reservation with no room or two, 2 rooms, 5 requests, 2 at once; `StatusesApart`, `CheckOutsApart` | the longest life is create, check in, change, check out and one more; two rooms show that a check-out frees them all |
| `PmsCalendar` | creations, assignments, moves and blocks, two at once | 2 reservations, 1 block, 2 rooms, 2 nights, 5 requests, 2 at once; `MovesApart`, `StaysOffBlockRequests`, `BlindWritesOffBlocks` | moves onto a block and onto a stay, blocks onto stays, and each between the other's query and write |
| `PmsAnswers` | everything at once, with aborted attempts, under fairness | 1 reservation, 1 block, 3 requests, 3 attempts as in the code | two clients of one version and a creation |
| `Ledger` | money, two requests at a time | 2 reservations, 4 requests, 1 key, price 2, amounts 1 and 2, 3 policies | part payment, full payment, overpayment and refund all occur; two requests race for the key, for one balance and for an invoice number |
| `MessagingDelivery` | delivery under failures, liveness | 1 message, 2 senders, 2 workers, 2 attempts, 1 stall, 2 faults | duplicates are per message; two workers can hold one job after a stall; two faults lose both records of a sending |
| `MessagingWebhooks` | webhooks against delivery | 1 message, 1 incoming message, 2 webhook requests | a repeated event needs two requests between lookup and insert |
| `Sales` | offers against what can be booked, the catalogue under overrides, blocks and stays | 2 types, 2 rooms, 1 night, 1 stay, 1 block, 2 override rows, 2 requests at once; `UpsertsApart` | the search treats nights one by one; two rooms tell counts from sets; a duplicate row needs two and two requests |
| `Sessions` | rotation, revocation, links | 2 sessions, 1 browser with any number of tabs, 2 calls at once, 3 tokens per session, 2 addresses, 2 links, 1 reset, 1 change, 1 lost answer | a rotation races one other call; a reuse needs two rotations after the login; a stale link needs two addresses |
| `Plans` | limits, changes of plan, webhooks | 2 plans, 2 kinds, 2 requests at once, bulks of 2, 1 event, 3 initial subscriptions | an excess needs two counts before two inserts and a plan that gets smaller; columns that disagree need two changes, and a third that runs by itself settles them |
| `Workspace` | each page beside its row | 4 pages, 2 filters, 2 requests, 2 forms, 1 change elsewhere, 1 lost answer, 1 stay that is on several lists | one load and one submission, or two loads, in either order; a form opened while another is on its way, or sent again after its answer was lost |
| `PmsMoveRace` | a disagreement with what the repository says, see below | the smallest that shows it | - |

Deadlock is not checked: in `Pms` and `Ledger` requests are used once, so every
run ends in a state where all are answered; a queue without work stands still,
and so do a page, an account and a company at their bounds.

Nothing in the code keeps two requests for one reservation apart, and some
properties break when two of certain kinds are between their reads and their
writes at once. No run lets requests take turns for that: `BookingSpec`,
`StaysSpec`, `BlocksSpec` and, in `Sales`, `CatalogueSpec` are `Spec` without the
one overlap that breaks the properties of their run, and everything else
overlaps. The overlaps left out are real behaviours:

- a move between the read and the write of a room operation of the same
  reservation (`MovesApart`): a room is booked twice, which `PmsMoveRace` shows;
- a check-in and a no-show that both read CONFIRMED and both write
  (`StatusesApart`);
- a room given to a guest while his check-out holds the rooms it read
  (`CheckOutsApart`);
- a stay written between the conflict query of a block and its insert or update
  (`StaysOffBlockRequests`), and, without any overlap, a stay that `assignRoom`,
  `changeRoom`, `checkIn` or a move of several rooms puts under a block it does
  not look at (`BlindWritesOffBlocks`);
- two upserts of one override that names no room: the unique index ignores rows
  whose `roomId` is NULL (`UpsertsApart`).

`FairSpec` in `PmsAnswers`, and the runs of the other modules, leave out nothing.
In `Ledger` two requests overlap anywhere; `overlapped` remembers for which
reservations, and `RefundsCovered`, `PaymentStatusCurrent` and `StaysPaidFor` say
what is true of the others and how far the overlapped ones can be off.

### What the runs show to be true

- `DiaryKept`: with one-room reservations, every step rewrites at most one
  reservation's line of `RoomDiary`, into rooms and nights nobody else holds, as
  long as no move overlaps a room operation of the same reservation.
  `NoDoubleBooking` says the same of states.
- `OneReservationPerKey`, `OnePaymentPerKey`, `AnsweredPaymentsRecorded`:
  idempotency holds under repetition and interleaving.
- `StayEventsRecorded`: the keys of outbox events never swallow the event of a
  stay's creation, arrival, departure or no-show.
- `OneMovePerVersion`: the calendar's optimistic lock works, even across retries.
- `EveryRequestAnswered`: three attempts, then an answer.
- `LegalTransitions`, `OneCheckoutInvoice`, `CheckedOutRoomsReleased`,
  `NoStayUnderBlock`: true of everything that overlaps but the pairs named above.
- `InvoiceNumbersContiguous`: under any overlap of requests, an invoice being
  numbered and inserted in one Serializable transaction.
- `RefundsCovered`, `PaymentStatusCurrent`, `StaysPaidFor`: exact where nothing
  overlapped; refunds decided at once exceed what was paid by at most what the
  handlers but one give back.
- `SendsExplained`: a message goes to the provider once, plus once for every
  stall of its job and for every two faults. `UsageExplained`: it is never
  charged unsent, and an uncharged sending has a stall or a fault behind it.
- `EventsAppliedOnce`: at most once, and PROCESSED means applied.
  `DroppedStaysDropped`: an event whose request died between noting and applying
  it is lost for good, however often the provider repeats it. `EveryJobEnds`.
  `MonthlyExcessBounded` is proved but has no run: three messages under delivery
  exceed a run's time.
- `OfferBackedByRooms`: where no override sets the quantity, the search never
  offers more rooms than creation would accept, except through two rules only
  creation has (a checked-out stay keeps its dates; a stop-sell on one room
  closes its type). `OneOverridePerNight`: unless two upserts of one override
  without a room overlap.
- `ReuseMeansOverlap`: reuse detection never signs out a browser that refreshes
  one call at a time and gets its answers. `ChangesEndSessions`: not even a
  rotation that was checked before a password change leaves an old session live
  after it, since it touches neither `status` nor `revokedAt`; the same argument gives
  `SessionBookKept`. `VerifiedAddressProved`: however links and addresses are
  mixed up, the account is verified only for an address whose owner followed a
  link. `FailuresBounded`: parallel attempts exceed the limit by those under way.
- `LimitsHeld`: the excess over the best plan the company ever had is what one
  round of requests creates. `PlanSettled`: changes of plan that overlap or die
  leave the provider, the subscription and the newest invoice on different plans,
  and the next change that runs by itself brings them together. `EventBookedOnce`:
  every event is accounted for, the dead ones by name. `RouteAgreesWithGuard`: the
  client's and the server's reading of two redundant columns never differ.
- `OneEffectPerForm`: a form has its effect once, and once more for each answer
  that was lost, even if what was lost is done only later; a move, which carries
  a version into a Serializable transaction, has it once at most. An update of a
  block carries a version, too, and can land twice.
- `NothingOverwrittenUnseen`: a move replaces exactly the version its form was
  opened on. A change of a block is *decided* on that version and written by id
  later; of that write nothing of the kind is true.
- `RemovedStaysRemoved`: a removed record does come back, but only in an older
  state, and only with a list that was in flight when it was removed or with the
  late answer to its own creation; never with the answer to an update.
- `LatestLoadTells`, `FlagFollowsSubmission`: what a page shows when its latest
  load is the one shown last, and when its buttons are off. An older answer that
  comes after it, and an overview put together while a guest is moved from list
  to list, do show something else.

### Where the code disagrees with the repository's words

`PmsMoveRace` fails: a room change checks the dates of its context; a calendar
move commits in between; the room is booked twice, which the repository's own
documentation rules out (quoted in `PROJECT.json`).

Behaviours the modules contain that no property forbids, met while modelling.
Each is found by asserting its opposite in the run of its module.

*Reservations and calendar*

- a calendar move of a reservation with two rooms checks one and changes the
  dates of both, so a collision needs no concurrency;
- a check-out that read its rooms before a room change leaves the new room
  OCCUPIED;
- `assignRoom` accepts a checked-in guest and leaves the new room unoccupied,
  and does not look at calendar blocks;
- deleting one of two overlapping maintenance blocks reopens the room, and
  moving a block to another room does not change either room's state;
- two block updates from one version both land;
- assigning a room twice emits one event, because the key names the room only.

*Money*

- two refunds compared with one balance exceed what was paid (`paid[r] >= 0`).

*Catalogue*

- a room in maintenance is left out of the physical rooms and its block is
  subtracted from the rest: one block, two rooms less on offer (assert that the
  offer is at least the number of rooms that could be booked);
- a STOP_SELL restriction closes a night for the search and not for creation,
  and a stop-sell on one room the reverse;
- an update of a room type that checked it before its deletion reopens it.

*Messages*

- the first failed attempt sets FAILED; the retry sees that the row is not
  QUEUED, returns, and the job completes unsent (assert that a completed job
  means `sends > 0`);
- webhooks in any order overwrite a message's status, so READ can become SENT;
  with Twilio and Meta only the first report on a message is applied at all;
- an event whose request died after the insert is never applied.

*Sessions*

- two tabs that refresh at once, or one whose answer was lost, are signed out
  at the next refresh; a page that makes several calls with an expired token
  does this to itself;
- two requests for a reset at once leave two tokens that work;
- a verification link of an earlier address flips the account back to it;
- a login whose password was checked before a reset gets its session after it;
- an access token works until it lapses, also after its session has ended.

*Plans*

- a cancellation that read the subscription before a change of plan ends the
  plan put in place meanwhile;
- a bulk creation compares the whole list with one count, and requests at once
  all compare with the same one;
- a change that dies after the provider call is never invoiced, and a webhook
  that dies between its two rows is answered as a duplicate ever after.

*Web client*

- the answer to an older filter is shown when it comes after the newer one;
- a record created and removed while the first list is on its way comes back with
  that list, and so does one whose creation is answered after its removal;
- the front desk overview may show a guest on two lists with two statuses, or on
  none, while he is checked in;
- a payment submitted again after its answer was lost is recorded twice: its key
  is made from the time of the click;
- `createReservation` of the calendar posts the guest first, so a repeated form
  leaves a second guest;
- the answer of a submission closes whichever form is open by then;
- deleting a block carries no version, and the buttons of rooms and rates are
  never disabled;
- a page that finds no records creates the samples, also when somebody has just
  removed the last record;
- `ensureDemoSession` is called by no page.

### Fairness

`FairSpec` of `Pms`: weak fairness of `Proceed(q)` for every open request. Node
runs the continuation of every awaited query, and a query returns or throws;
the three attempts bound the retries; aborts are not fair. `FairSpec` of
`Messaging`: weak fairness of each worker's next await, of an idle worker taking
a waiting job (BullMQ's worker polls), and of the stalled check for jobs whose
lock nobody renews. Workers may still die at every step, dead letters be lost
and the connection come and go: none of that is fair, and `EveryJobEnds` does
not need it. `Sessions`, `Plans` and `Workspace` state no fairness: answers may
be lost and requests may die for good, so nothing must eventually happen there
that a user does not ask for again.

## 4. Proofs

The theorems are about `Spec` of each module and hold for every value of the
constants that satisfies the module's named assumptions: any number of
reservations, rooms, blocks, requests, messages, workers, sessions and browsers,
any horizon, any concurrency. Sets that are counted (rooms of `Sales`, workers,
requests, senders and messages) are finite; that is assumed where it is needed.

| Module | Theorems | Extra assumption |
|---|---|---|
| `PmsProofs` | `TypeCorrect`, and the kinds of steps that all proofs about `Pms` use | none |
| `BookingProofs` | `OneMovePerVersionHolds`, `StayEventsHold`, `OneReservationPerKeyHolds` | none |
| | `OnlyMovesDoubleBook`, and `OnlyMovesSpoilDiary`: `Pms` implements `RoomDiary` | `OneRoomLists`; `[]MovesApart` |
| | `OnlyStatusRacesInvoiceTwice`, `OnlyStatusRacesBreakTransitions` | `[]StatusesApart` |
| | `OnlyRoomRacesKeepRooms` | `[]CheckOutsApart` |
| | `OnlyBlindOrRacingWritesEndUnderBlocks` | `[][StaysOffBlockRequests]_vars`, `[][BlindWritesOffBlocks]_vars` |
| `SalesProofs` | `SalesType`, `OffersBacked`, `RoomOverridesUnique` | none |
| | `OnlyUpsertRacesRepeatRows` | `[]UpsertsApart` |
| `LedgerProofs` | `LedgerType`, `InvoiceNumbersHold`, `OnePaymentPerKeyHolds`, `AnsweredPaymentsHold`, `PaymentStatusHolds`, `StaysPaidForHolds`, `RefundsCoveredHolds` | none |
| `MessagingProofs` | `MessagingType`, `EventsAppliedOnceHolds`, `DroppedStaysDroppedHolds`, `SendsExplainedHolds`, `UsageExplainedHolds` | none |
| | `MonthlyExcessHolds` | finite `Sender` and `Message` |
| `SessionsProofs` | `SessionsType`, `FailuresBoundedHolds`, `ChangesEndSessionsHolds`, `VerifiedAddressProvedHolds`, `ReuseMeansOverlapHolds`, and `SessionBookKeptHolds`: `Sessions` implements `SessionBook` | none |
| `PlansProofs` | `PlansType`, `EventBookedOnceHolds`, `RouteAgreesHolds`, `PlanSettledHolds`, `LimitsHeldHolds` | none |
| `WorkspaceProofs` | `TypeCorrect`, `NothingOverwrittenUnseenHolds`, `FlagFollowsSubmissionHolds`, `RemovedStaysRemovedHolds`, `LatestLoadTellsHolds`, `OneEffectPerFormHolds` | none |

Several properties are false when requests of one reservation overlap (section 3).
For each of these, one theorem says which overlap breaks it, for any number of
requests open at once: kept apart, these requests keep the property, whatever else
runs between their reads and their writes. Nothing in the code keeps them apart;
the hypothesis names the race, and a repair of the code has to exclude that one and
no other.

- `MovesApart`: no calendar move and no room operation (`assignRoom`,
  `changeRoom`, `checkIn`) of the same reservation are open together. `PmsMoveRace`
  is the shortest run that breaks it, and a room is then booked twice.
  `OneRoomLists`: every reservation is created with one room, because the guards
  look at one of them; a move of two rooms collides without any overlap.
- `StatusesApart`: no two of check-in, check-out and no-show of one reservation
  are open together. Moves, assignments, room changes and blocks may be.
- `CheckOutsApart`: no check-out is open together with a room operation or a move
  of the same reservation.
- `StaysOffBlockRequests`: no step writes a reservation into the room of a block
  request that has made its conflict queries and not yet written.
  `BlindWritesOffBlocks`: `assignRoom`, `changeRoom` and `checkIn`, which look at
  no block, and a move of several rooms, which looks at one of them, happen not to
  write a stay under a live block. Every other write of a reservation may land
  anywhere the code lets it.
- `UpsertsApart`: no two upserts of one override for a whole type and a night are
  open together. `RoomOverridesUnique` is what the unique index keeps without
  that, for overrides that name a room.

**Reservations.** `TypeOK` alone is not inductive: a block request names a block
it read as live, and writing it back needs that the row is a block's. `TypeInv`
adds `BlockRequestsKnown`. `StepKinds` proves once that every step is one of
eight kinds (`Quiet`, `Opens`, `Retries`, `Creates`, `Rerooms`, `Arrives`,
`Leaves`, `Moves`), each saying only what happens to reservations, events and
the request; an invariant is then proved by eight cases instead of one per
action. `VersionInv`: the version in every move's event is smaller than the
row's present `updatedAt`. `BookingInv` adds to `NoDoubleBooking` what an open
room request relies on: its context has the dates the row has
(`ContextsCurrent`). Only a move changes dates, so `MovesApart` is what keeps it.
`KeysInv` of
creation: an answered request repeats the record of its key, and a record is
never rewritten, whatever interleaves.

**Overlaps.** Every open request decided on a context; an invariant says of which
part of it the row still says the same, and the requests that could change that
part are those kept apart. `StatusInv`: the status of the row still allows what an
open check-in, check-out or no-show read as allowed (`StatusesFresh`), and
`InvoicedOnce` bounds the check-out invoices of a stay by its status. `ReleaseInv`:
the rooms an open check-out read are the rooms of the row (`RoomsFresh`).
`BlocksInv` adds `NextClear`: what an open block request is about to write is free
of stays.
Transitions and the release of rooms are then properties of one step from such a
state.

**Refinements.** `OnlyMovesSpoilDiary` maps each of the eight kinds to `Enter` or a
stutter, with `NoDoubleBooking` in the next state giving `Fits`. `SessionBookKept`
maps a login to `Open`, everything that revokes to `Close`, and a rotation to a
stutter, because it leaves the status of its row alone.

**Offers.** `OfferBackedByRooms` follows from the types alone. `FreeIsBookable`: a
room that is physical and neither reserved nor blocked passes every guard of
creation, since the statuses the search counts and the ones creation refuses
differ only in CHECKED_OUT. `CountedOff`: subtracting the rooms in use from
the physical ones, whether or not they are among them, leaves no more than
are free. The subtraction therefore errs on one side only.

**Overrides.** `FoundKept`: a row that a request found is there when it updates
it; the index refuses a second insert for a room. `TypeWideInv` adds
`MissingKept`: a row for a whole type that an open request did not find is still
missing, because only an upsert of the same row could have inserted it.

**Money.** `Inv` joins the types, the books (finitely many invoices, numbered
without a gap) and what an open payment has read.
`KeysInv`: a payment under a key has its record, or its transaction is the one
inserter of that key. `AloneInv`: two open requests for a reservation are noted
in `overlapped`, so where nothing is noted the context of each open request is
the present state; status, stays and refunds follow. `MarginInv`: the
sum of a reservation with `n` refunds still open is at least `n - Concurrency`
times the largest amount, once one more refund is taken off it; a refund that
was decided on a sum that covered it is the one that comes free.

**Messages.** `Steps` sorts all steps into kinds (`Calm`, `Queues`, `Takes`,
`Turn`, `Ends`, `Stalls`, `Dies`). `SendsBound` counts, besides the sendings, the
workers that can still send (`Carriers`) and, in halves, what is pending: a job
that waits with its row QUEUED is one more sending, a holder about to mark the
row FAILED is half of one, since one fault there leaves the row QUEUED. Two
faults make a sending, hence `faults \div 2`. `UsageBound` counts workers that
have sent and not charged, and workers that lost their lock before sending; one
sending is owed by an active job. `Change` states what a step may do to these
counts, and each kind of step is one or a few of its instances. `EventsInv`: an
event has one claimant, the request that inserted its row, so once that request
is gone nobody applies the event. `QuotaInv`: no message is queued, delivered or
reported before its row exists (`RowsFirst`), so only a request that passed the
check adds rows; rows and what such requests still have to create are together
below `Limit + Recipients * Cardinality(Sender)`. `BatchesBounded` bounds the
second part by numbering the messages of each batch, an injection into
`Sender \X 1 .. Recipients`, because a sum over the senders would need induction.

**Sessions.** `Inv` counts, besides tokens made, changes and failures, the calls
that may still add one. `ReuseInv` follows a token from the row through the
answer under way to the storage: if a session was not disturbed, the newest token
of its row is in the storage of its browser or in the one answer on its way to
it. `LinksInv`: a link in a call's hands was followed by the owner of its
address.

**Plans.** `LimitInv`: for each kind, what is made plus what requests that have
passed their check will make is within the bound, counting those requests.
`SettledInv`: while the last change runs by itself it is the only one under way
(`Last`), orders what the provider was last asked for and, once it has written the
subscription, has put it on that plan; when it is over all three agree.

**Pages.** `StepKinds` sorts the steps of `Workspace` into those that open or
close a form, those of somebody else, and those of one request; `Turns` says once
what such a step may do to the other requests: outdate their loads. Then there is
one invariant for each promise.

- `SeenInv`: until it is checked a request carries the version its form was opened
  with, so the server compares with what was on the screen.
- `FlagInv`: `FlagFollowsSubmission` is inductive beside it.
- `VersionsInv`: no version is known before the row has it. `OpsInv`: a page has
  only forms and buttons of its own, and a move is never between its check and its
  write.
- `ListInv`: the list of records is asked for once, and while it counts as the
  latest nothing on show can be changed or removed.
- `FollowedInv`: one record is followed and created once; what could bring it back
  - a load that read it, the answer to its creation (`Brings`) - is older than its
  removal, whether that has been heard of or is on its way (`Removed`).
- `TellsInv`: each load under way already has what `LatestLoadTells` asks of the
  one on show, as long as it is the latest.
- `EffectsInv`: effects done and requests that may still act, waited for or not
  (`Still`), are together at most one more than the answers lost, and no more than
  those while the form is free to be sent (`Free`); the flag makes it one
  submission at a time. The version of a move that was accepted is past (`Spent`),
  so the server refuses it from then on. The requests are counted, so `Request` is
  finite.

**Only model-checked.** Liveness (`EveryRequestAnswered`, `EveryJobEnds`), which
the provers do not reason about. Every other property of a run is stated by a
theorem.

## 5. Plan

Done: the reservation core with its diary, `Ledger`, `Messaging`, `Sales`,
`Sessions`, `Plans`, `Workspace`, and the proofs above.

Next:

1. `Sales`: restrictions as rows, daily rates, and `priceQuote` over the nights
   of a stay, compared with the search and with creation.
2. `OutboxDispatch`: `dispatchPending` with two dispatchers and crashes, once
   something calls it.

## 6. Not modelled

- The outbox dispatcher: no controller, timer or service calls it.
- CRUD of guests, companies and properties, the dashboard and health checks:
  single statements or reads.
- Tenancy and permissions: they refuse before anything happens.
- Rates, policies, taxes, fees, promotions and price quotes: arithmetic over
  rows that only the quote reads.
- WhatsApp templates, the connection's credentials and its health.
- Migrations, and seed data except for the subscriptions it creates.
- Layout, styling and texts of the web client, which rows a filter lets through,
  and pages that only show what they load.
