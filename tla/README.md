# tiqX: a TLA+ verification of the booking engine

tiqX sells numbered seats of events. A customer puts a temporary hold on
seats, confirms the hold into a booking, may cancel either, and shows tickets
at the door. Everything that matters is decided by PostgreSQL under row locks;
Redis, e-mail and the live seat map are fed from outbox tables. This directory
models that core, model-checks it with TLC and proves its main properties with
TLAPS.

`PROJECT.json` lists the runs, the mutants, the definition-to-source map, the
hazards and the theorems. Source paths below are relative to the repository.

## 1. Inventory

| component | state | operations | interacts with |
|---|---|---|---|
| seat inventory and holds (`src/modules/reservations`) | `show_seats.status`, `reservation_holds`, `reservation_hold_seats` | `createHoldInTransaction` (locks seats by id, reclaims lapsed holds, inserts a hold) | shares seats and holds with every other writer; writes `hold_expiration_outbox` |
| bookings (`src/modules/bookings`) | `bookings`, `booking_seats` | `confirmHoldInTransaction`, `cancelBookingInTransaction` | seats, holds, tickets; e-mail outbox; waitlist signals |
| hold expiry (`src/modules/expiration`, hold-expiration worker) | the same tables | `sweepExpiredHolds`, `expireHoldInTransaction`, `cancelHoldInTransaction` | seats, holds, waitlist offers |
| expiry signal (the same files) | `hold_expiration_outbox`, Redis keys with a TTL | `publishPendingOutbox`, key removal, `reconcileExpiryKeys` | PostgreSQL and Redis, which fail separately |
| tickets (`src/modules/tickets`) | `tickets` | `ensureTicketsForBooking`, `verifyTicketInTransaction` | the booking row's lock |
| transactions (`src/db/pool.ts`) | row locks, `now()` | `withTransaction` | everyone |
| waitlist (`src/modules/waitlist`, allocation worker) | `waitlist_entries`, `waitlist_offers`, allocation outbox | join, leave, `runAllocationPass`, `acceptWaitlistOffer`, `allocateLoop`, reconcile | an offer is backed by a hold |
| idempotency (`src/modules/idempotency`) | `idempotency_keys` | `runIdempotently` | wraps createHold and confirmHold |
| notifications (`src/modules/notifications`) | `ticket_email_outbox` | claim, send, mark | an e-mail provider |
| real-time seat status (`src/modules/realtime`, `src/realtime`, its worker) | `show_seats.version`, `seat_status_outbox`, Redis channels, the subscription registry, the browser's seat map | trigger, publish loop, subscribe, unsubscribe, heartbeat, `useSeatMap` | every seat update |
| authentication (`src/modules/auth`, `api/client.ts`, `store/auth.ts`) | `refresh_tokens`, the browser's tabs and localStorage | login, `refresh`, logout, single-flight refresh | - |
| users and roles (`src/modules/users`, `src/middleware`) | `users.role`, the claims of tokens | register, login, `requireAuth`, `setUserRole` | every admin route |
| rate limiting (`src/modules/rate-limit`, `src/middleware/rate-limit.ts`) | one Redis counter per policy and caller | `consumeRateLimit`, `enforceRateLimit` | the routes |
| events (`src/modules/events`) | `events`, `show_seats` | create with inventory, update, publish, delete, public pages | venues, holds |
| venues (`src/modules/venues`) | `venues`, `venue_seats` | add, recategorise, remove seats | the inventories of events |
| checkout (`EventDetailPage`, `CheckoutPage`, `useBookingFlow`) | the store's hold, the page's flags, its key | reserve, confirm, release, countdown | the API over a network that loses answers |
| process lifecycle (`src/server.ts`, `src/workers`) | listening server, sockets, loops, Redis, pool | start, shutdown, forced exit | everything that runs in the process |
| config, error handler, health, logging, seed script, other pages | none shared | plumbing and presentation | - |

What is hard here, and hard to test:

* **Interleaving.** Six handlers and a sweep worker move the same seats and
  holds from separate connections. Each checks first and writes later; what
  keeps the check true is only the set of row locks it took and their order.
* **Time.** A hold is dead from `expires_at` on, but somebody has to notice.
  `now()` is the transaction's start, so every verdict on expiry is made on a
  timestamp that may be old when the locks are granted.
* **Partial failure.** Connections drop before COMMIT, a sweep stops in the
  middle of its batch, workers die between an effect and its record.
* **Delivery.** Outboxes are at-least-once; Redis may forget; a browser loses
  its socket, its answers, and its pages.
* **Awaits.** Node handlers and React handlers read something, wait, and act on
  what they read.

The properties that make each component correct: no seat claimed twice and
seat status agreeing with claims (inventory, bookings); no refund after entry
and one entry per ticket (tickets); expiry never early and always eventually
(expiry); a live hold's key never missing for longer than Redis lost it
(expiry signal); no deadlock (transactions); an offer never outliving its hold
and no lost allocation signal (waitlist); the work of a key done at most once
and the same answer for every retry (idempotency); at least one e-mail per
booking, and a second only for a crash (notifications); nothing published
lost, the browser never going back in version order, the registry agreeing
with itself and with Redis (real time); at most one successor per refresh
token and nobody stranded without one (authentication); a demotion that binds
(roles); a bounded burst and no refusal without cause (rate limiting); no
reservation rescheduled or deleted under its customer (events); a repeated
click that is answered with the first one's result (checkout); nothing closed
under its users, and an end (lifecycle).

## 2. Modules

| module | what it is |
|---|---|
| `SeatInventory` | seats, holds, bookings, tickets, row locks, transactions, the sweep and the clock; safety, liveness and the inductive invariant |
| `MCSeatInventory` | the same for TLC, with symmetry over connections and the refinement beside it |
| `SeatLedger` | the abstract specification: who owns a seat, how far a claim has come |
| `SeatRefinement` | the refinement mapping and `ImplementsLedger` |
| `SeatInventoryProofs` | TLAPS: the invariance proof and its corollaries, `Spec => ImplementsLedger`, no deadlock |
| `Idempotency` | `runIdempotently`: claims, duplicates, replay, failures |
| `Waitlist` | the queue of one category, offers backed by holds, allocation signals, the passes of the workers and the reconcile loop |
| `MCWaitlist`, `WaitlistProofs` | the same for TLC, with symmetry; TLAPS: offers, entries and holds agree, and the queue is served in order |
| `AllocationBatch` | `allocateLoop` over several categories at the level of row locks, customers beside it, PostgreSQL's deadlock detection |
| `ExpirySignal` | the expiry outbox, the Redis keys, publishers, reconcilers, a Redis that forgets |
| `TicketDelivery`, `TicketDeliveryProofs` | issuance, doors, cancellation, the e-mail outbox and its provider; TLAPS: all its safety properties |
| `SeatFeed` | a seat's status from the trigger to the screen |
| `SubscriptionRegistry` | the registry of one API process, its awaits, heartbeat and Redis connection |
| `Sessions`, `SessionsProofs` | refresh tokens of one user, server handlers and browser tabs; TLAPS: a token is exchanged once, and a page presents it once |
| `UserRoles` | roles, tokens that claim them and who may change them |
| `RateLimit` | fixed windows in Redis and the middleware around them |
| `EventLifecycle`, `EventLifecycleProofs` | events, venue layout, inventories and holds as locking transactions; TLAPS: all safety properties of its run |
| `EventFeed` | keyset pages over events that change, and the page that asks for them |
| `Checkout` | one tab from the seat map to the booking |
| `ProcessLifecycle` | start and shutdown of the API and of a worker |

Components that share no variable are checked together, several to a module:

| module | parts | proofs |
|---|---|---|
| `MCRequests` | `Idempotency`, `Sessions`, `RateLimit`, `SubscriptionRegistry`, `ProcessLifecycle` | `RequestsProofs` |
| `MCWorkers` | `ExpirySignal`, `TicketDelivery`, `SeatFeed`, `AllocationBatch` | `WorkersProofs` |
| `MCCatalogue` | `UserRoles`, `EventLifecycle`, `EventFeed`, `Checkout` | `CatalogueProofs` |
| `MCLiveness` | the parts of `MCWorkers`, and four of `MCRequests` | |
| `MCBookingLiveness` | `SeatInventory`, `Waitlist` | |

Each instantiates its components with `INSTANCE ... WITH`, states the
assumptions of their constants, and chooses one `part` in the initial state. A
behaviour moves that part and leaves the others where they began, so TLC
visits the union of the parts' state spaces and not their product. A property
`P` of a suite is its component's `P` for the behaviours of that part. What
distinguishes the members of a set is a constant too, and the configuration
gives it a definition of the MC module: the categories and the demand of a
batch (`Alternating`, `OneEach`), the policies of the limiter, what each counts
by, its callers and which of them Redis takes for one (`Routes`, `LimitedBy`,
`Visitors`, `Spelling`). The theorems are about any values of them.

`SeatInventory` is the ground the others stand on. `Waitlist`, `Checkout`,
`TicketDelivery` and `EventLifecycle` take a handler that `SeatInventory`
models statement by statement as one step, which `SeatRefinement` justifies:
every commit of it is one step of the ledger. `AllocationBatch` is the same
worker as in `Waitlist` seen from the row locks, with the queue reduced to a
number; `UserRoles` takes a session as given, which `Sessions` models.

### SeatInventory and the code

A slot of `Tx` is a pooled connection. `tx[t]` says which handler runs on it,
where in it (`pc`), the `now()` fixed at BEGIN, whether the caller has the
right to act (`mine`: owner, right event, organiser of the event), the hold or
booking it is about and the seats it wants. A booking is named by its hold
(`bookings.hold_id` is unique) and a ticket by its booking and its seat.

* Locks are taken one row at a time, seats lowest id first (`LockSeat`,
  `NextSeat`: `ORDER BY id FOR UPDATE`), and kept until `End`. A step that
  needs a lock somebody else has is simply not enabled.
* Reads and verdicts under the locks are the `Accept...` and `Reject...`
  actions; every early return of a handler is part of a `Reject...` guard.
* Writes become visible in one `Commit...` action, which carries the guards of
  the code's own UPDATEs, unique indexes and row-count checks (`HoldGuard`,
  `ConfirmGuard`, `EndHoldGuard`, `CancelBookingGuard`).
* `RollbackClient` and `RollbackWorker` may end a transaction at any point: a
  failing statement, a lost connection, a killed process. For a worker this
  also drops the rest of the batch, as an exception out of
  `sweepExpiredHolds` does.
* `SweepScan` reads candidates with no lock, LIMITed and oldest first;
  `BeginExpire` runs one transaction for each.
* `Tick` is the database's clock, independent of everything.

Abstracted: users, prices, references, names and logging. Left to other
components: rows written only for a worker to find later (the outboxes) and
the waitlist offer a hold may back. They neither lock seats nor change the
tables above.

### Idempotency and the code

A request is one delivery of an HTTP call; a retry or a duplicate is another
request with the same key. `pending[k]` is the row `claimIdempotencyKey`
inserted and has not committed: while it is there no other insert of the key
returns (`ClaimKey` and `KeyTaken` are not enabled). `RunOperation` stands for
the wrapped handler, whose effect is committed together with the stored
response (`Commit`, `ran`). `Rollback` may happen at any point before that;
`LoseReply` after it. A body is named by the request whose work produced it
and a digest is only equal to another or not, since each `hash...Request`
puts the operation's name and its identifying fields in a canonical form. The
two "in flight" refusals of `replayExisting` are in the guard of `Refuse`;
`RefusedOnlyForReuse` says they never happen.

### Waitlist and the code

A customer's request and the expiry of one hold are single steps here: that
each commits as one step in any interleaving is what `SeatRefinement` shows.
They still wait for rows a pass has locked (`SeatFree`, `EntryFree`,
`SignalFree`). The allocation pass is modelled statement by statement, because
its hazards lie between the statements:

* `ClaimSignal` locks the one unprocessed outbox row of the category;
  `LockEntry` locks the first waiting entry; `ReadSeat` reads the lowest
  available seat without a lock; `Pair` is the savepoint with the hold and the
  offer; `RacedAway` the `ConflictError` and its retry; `PairFails` any other
  error; `EndLoop` and `MarkProcessed` end the loop; `CommitPass` publishes the
  pairings and the row; `Crash` publishes nothing.
* Until then the pairings are in `staged[w]`, visible to `w` alone.
* `signal` is 'none', 'pending' or 'backoff'. `Enqueue` is dropped unless it is
  'none', as `ON CONFLICT DO NOTHING` on the partial unique index does, even
  when the row is claimed by a pass that has already looked. Once a pass has
  updated the row, an insert of the same key waits for it.
* `CreateHold` reclaims lapsed holds, of offers too, and does no more: the
  code neither touches their offers nor raises a signal.
* The id of a hold behind an offer is in no response, so requests by hold id
  concern only holds that back no offer (`Direct`).
* `ahead[e]` is a history variable: the entries waiting when `e` joined that
  come before it in the order of the queue. `joined_at` is fixed at BEGIN, so
  an entry may appear later than one that follows it.

One category: `AllocationBatch` has the batch of several signals in one
transaction. `waitlist_notification_outbox` has no reader and is left out.

### AllocationBatch and the code

`allocateLoop` opens one transaction for all the rows it claims. `todo[w]` is
what is left of the batch in the order it was claimed in, `made[w]` the seats
paired so far, whose rows stay locked, and `wrote[w]` the outcome of each row,
visible at COMMIT. `Pair` and `RacedAway` are the two ends of the savepoint,
`recordAllocationFailure` its error path. Customers lock their seats by id
(`LockSeat`, `NextSeat`). A release ends with the INSERT of its signals:
`ReleaseSeats` fixes their order, which `SELECT DISTINCT` leaves open (`keys`),
`enqueueWaitlistAllocationForSeats` inserts one row, and waits for whoever has
written the unprocessed row of the same key and not committed (`Writers`): a
batch that has finished it, or another release that has inserted it (`added`).
`CommitRelease` publishes seats and signals. `Cycles` is the wait-for graph of
batches and customers over seats and outbox rows, and `BreakDeadlock` what
PostgreSQL does about a cycle.

### ExpirySignal and the code

A publish pass claims rows (`FOR UPDATE SKIP LOCKED`), writes each key with the
TTL computed from its own `now()`, marks or backs off each row and commits; a
crash at any point leaves what it wrote in Redis. `lost` is a history variable:
the keys Redis has forgotten. The reconcile loop reads the live holds that end
within its window and sets the keys that are missing.

### TicketDelivery and the code

A request is one transaction: an unlocked read, the booking's lock, a verdict,
a write, COMMIT. Bookings of `Legacy` were confirmed before tickets were
issued with them and get theirs on request. `inbox` counts what the provider
accepted; `wasted` is a history variable of acceptances whose record was lost.

### SeatFeed and SubscriptionRegistry and the code

The trigger numbers the changes of a seat and writes an outbox row for each.
Rows are claimed by the start time of the transaction that wrote them, which
says nothing about versions, so the outbox is a set and several workers
publish from it. The socket keeps order, drops a client whose buffer is full,
and reconnects. `versions` is the browser's memory, which `load` sets to zero,
`shown` a history variable: the version on screen. In the registry an action is what runs
between two awaits; `wire` holds the commands sent to Redis and not executed,
and a command sent while the connection is down is refused at once.

### Sessions and UserRoles and the code

A handler of `Sessions` is a request inside the server, one statement a step;
a tab is a page that reads localStorage when it loads. A request outlives the
page that sent it, answers are lost, and tokens lapse. `UserRoles` splits the
role change where the code does: the read of the caller (`requireAuth`), the
check of the role and the rule against changing oneself, the UPDATE.
`heldAdmin` and `crossed` are histories.

### EventLifecycle and EventFeed and the code

Update, publish and delete take the event's row lock, judge, write and commit.
A hold locks its seat first and the event's row through its foreign key; the
deletion's cascade takes the seats' locks. The status of a new event is
whatever the body says. `EventFeed` sends a search with what the page knew,
answers it from the table as it is when the server reads it, in any order. What
the page knows includes the form: `filter` is what is typed and chosen at the
time, submitted or not, and every search is sent with it, that of "Load more"
too (`runSearch`, `loadMore`). `Type` changes the text and asks for nothing;
`toggleCategory` and `setSort` ask at once. `Matching` gives the events that
pass a filter by the value of their sort column, so that an edit can change what
an event matches.

### Checkout, RateLimit, ProcessLifecycle and the code

A call of `Checkout` is a request with its key; the server executes it in one
step and network, handler and page go their own ways from there: a handler
goes on after its page was left, a reload ends handlers and not requests.
`RateLimit` counts or does not count a request and answers it or loses the
answer; histories are kept by caller and age, never by key.
`ProcessLifecycle` lists what `shutdown` waits for and releases, in the code's
order. What `server.close` waits for are connections (`awaited`, `sockets`), and
what runs are tasks: the loops, and the handlers that a request or a message of
a WebSocket began. A handler goes on when its connection is gone
(`ClientLeaves`, `SocketCloses`) and nothing in `shutdown` waits for it, except
`pool.end` for the client it has checked out. Every task alternates between
holding a pool client (`withTransaction`, `Release`) and not; requests, handlers,
passes and sockets may hang for ever.

## 3. Runs

| run | result | asks about |
|---|---|---|
| `seat_inventory` | passes | `ExclusiveClaims`, `SeatAgreement`, `GuardsNeverFail`, `NoRefundAfterEntry`, `NoDeadlock`, `ExpiryNeverEarly`, `ImplementsLedger` |
| `waitlist` | passes | `OfferFollowsHold`, `ActiveOfferIsLive`, `OfferedOnce`, `StagedIsSound`, `NobodySkipped` |
| `booking_liveness` | passes | `LapsedHoldsEnd`, `TransactionsEnd`, `FreeSeatIsOffered` |
| `requests` | passes | `OncePerKey`, `AnswersAgree`, `RefusedOnlyForReuse`, `RotationSound`, `PresentedOnce`, `LimitsKept`, `RegistrySound`, `ShutdownSound` |
| `workers` | passes | `SignalSound`, `TicketSound`, `FeedSound`, `ForwardSinceLoad`, `BatchSound`, `RequestsInOrder` |
| `catalogue` | passes | `OnlyByCrossing`, `NoLateChange`, `ReservationsKept`, `ListingSound`, `RetryReplays` |
| `liveness` | passes | `RequestsEnd`, `RefreshSettles`, `KeysRestored`, `OutboxesDrain`, `BatchesEnd`, `NothingHangs` |
| `seat_stuck` | violation | `NoSeatStuck` |
| `waitlist_blocked` | violation | `SeatReachesQueue` |
| `allocation_deadlock` | violation | `NoDeadlock` of `AllocationBatch` |
| `enqueue_waits` | violation | `EnqueueTakesNoLock` of `AllocationBatch` |
| `seat_feed_stale` | violation | `StaleNeverWins` |

A name ending in `Sound`, `Kept` is the conjunction of the type invariant and
the safety invariants of one component, which are named below; each conjunct
has a mutant of its own where the code can break it alone.

**Seats** (`seat_inventory`). `ExclusiveClaims`: no two claims share a seat.
`SeatAgreement`: an active hold's seats read 'held', and exactly the seats of
confirmed bookings read 'booked'. `GuardsNeverFail`: what a handler checked
under its locks is still true when it writes, so the throws its comments call
unreachable are. `NoRefundAfterEntry`: cancellation and the scan at the door
exclude each other. `NoDeadlock`: the wait-for graph has no cycle.
`ExpiryNeverEarly`: an active hold becomes expired only after its time.
`ImplementsLedger`: every commit is one step of `SeatLedger`.

**Waitlist** (`waitlist`). `OfferedOnce`: an entry reads 'offered' exactly when
one live offer names it (`EntryFollowsOffer`), no seat is in two live offers
(`OffersApart`), and as long as the offer's hold has not expired its seat is held
by that hold and claimed by nobody else (`OfferKeepsSeat`). Of an offer whose hold
was reclaimed it says nothing more: its entry goes on reading 'offered' for a
seat somebody else may have by then, which is `OfferBacked` and the run
`waitlist_blocked` below. `ActiveOfferIsLive`: while the hold is active, offer
and entry are both 'offered', so the throws after a confirmation or an expiry
cannot stop the sweep. `OfferFollowsHold`: accepted exactly when booked.
`StagedIsSound`: what a pass has paired and not committed is still its own.
`NobodySkipped`: nobody is offered a seat while somebody ahead of him, visible
when he joined, is left waiting.

**Requests** (`requests`). Idempotency: the work of a key is committed once,
every answer is that work's, a refusal means another request used the key.
`RotationSound`: `OneSuccessor`, `OneLivePerRotation`, `NobodyStranded` (a row
is revoked only with its replacement, by a logout or by reuse detection).
`PresentedOnce`: a page never makes its own retry look like reuse. `LimitsKept`:
at most twice the limit in any stretch as long as a window (`BurstBound`), a 429
only to somebody who was over the limit (`RefusedForReason`). `RegistrySound`:
the two maps agree and hold no closed socket (`TwoWay`), and Redis listens to
exactly what somebody here watches (`ChannelsMatch`). `ShutdownSound`: the
API closes neither Redis nor the pool under a request somebody still waits for or
a pass of a loop (`NothingPulledAway`), and a process that reports success left no
client unanswered and no transaction open, those of handlers without a connection
and of a worker's passes included (`CleanExit`). Outside a transaction such a
handler is cut off, see `NobodyPulledAway` below.

**Workers** (`workers`). `SignalSound`: a key never lapses before its hold,
although its TTL may be old when it is used (`KeyNeverEarly`), and a live hold
without a key still has its row, or Redis lost the key (`NoSignalForgotten`).
`TicketSound`: one entry per ticket, none on a cancelled booking, the unique key
behind issuance never needed (`BackstopUnreached`), what is mailed exists, and
each further copy of a mail goes with a crash or a lost answer
(`CopiesAccountedFor`). `FeedSound`: every version is published or in the outbox
(`NothingLost`), and a page that missed nothing ends at what the table says
(`Converges`). `ForwardSinceLoad`: between loads the screen never goes back.
`BatchSound`: a pairing not yet committed keeps its seat through the rest of the
batch, and no row is in two batches. `RequestsInOrder`: customers never deadlock over
seats; a cycle of waits has a batch in it, or it consists of releases that have
all their seats, each of several categories, and wait for one another's outbox
rows.

**Catalogue** (`catalogue`). `OnlyByCrossing`: admins run out only if two of
them change each other at once. `NoLateChange`: a demoted admin's next request
changes nothing, whatever its token says. `ReservationsKept`: no reservation
loses its event (`HistoryKept`) or its showtime (`ShowtimeKept`), no seat of an
inventory leaves the venue (`SeatMapIntact`), what a reader was shown stays
readable (`StillVisible`). Before its DELETE a
deletion has `FOR UPDATE` on the event, for which the foreign key of a new hold
waits, so the race the code's comment still expects there does not exist
(`HoldsLockNoEvent` below). `ListingSound`: in a list whose searches did not
overlap and whose pages were asked for with one filter (`OneList`), unedited
events are shown once and none that matches is skipped while organisers publish
and edit others; and no page is left loading. Without the second condition it
would be false, see `TextWaitsForSubmit` below. `RetryReplays`: while the page stays mounted, a repeated confirmation
is answered with the booking it made.

**Bounds.** Two seats are the fewest with a lock order and with a hold that
can be reclaimed in part; two holds the fewest that can conflict; two clients
and a worker give every pair of handlers and a third party to close a cycle.
The clock has to pass one expiry, so `TTL = 1` with `MaxClock = 1`; that hold
ids run out is what ends a behaviour, and `Tick` and the rollbacks keep the
system from stopping before. In `booking_liveness` the seats trade the second client for
refusals (a foreign seat, callers without rights). The proofs below have no
bounds.

`waitlist` has two entries for an order, two seats and `MaxPairings` 2 for a
pass that makes two pairings or loses a race on the second, two workers to
contend for the signal, and three holds: an offer, its reclamation or renewal,
and a competitor. In `booking_liveness` the queue has one seat and one worker,
which is where a swallowed signal and a crash hurt most. `waitlist_blocked` needs a
fourth hold, so that running out of hold ids is not what stops the pass.

`requests`: three deliveries, an attempt that fails or succeeds, a duplicate in
flight with it and a retry with another meaning, and two keys that could be
confused; three tokens, a chain of two rotations, in two tabs with two requests
at once; a limit of one in windows of two ticks, and callers that share an
address or spell an account differently; two sockets on two events with two
commands on the wire; two loops, two handlers at once (`Calls`), an interval and
a timeout that pass each other.

`workers`: two workers on two holds and a TTL of two ticks, so that a pass can
begin before and end after a tick; two bookings of two seats, one confirmed
before tickets were issued with bookings, two doors; one seat with two versions
and two publishers, the fewest in which a message is overtaken and repeated;
four seats whose categories alternate, the fewest in which two customers can each
release seats of both categories at once, so that their signals meet in either
order; two workers for the rows and two customers for the locks, two pairings
per pass so that a race can be lost between them. `Baskets` bounds what one
customer reserves to two neighbouring seats (`Neighbours`), which are of two
categories; the theorem is about any baskets. Redis forgets keys in `liveness` only
(`MaxLosses`), where `KeysRestored` asks what comes of it.

`catalogue`: an admin and a newcomer, so that two admins arise by promotion; one
event, two seats, two requests; pages of one in a list of two events whose keys
may be equal, with two searches, one write beside them and a list of at most
three rows; a form that is empty, has a text that finds one event, or a category
that finds what has the second key (`FormStates`, `ByTextAndKey`); one hold, two calls in flight and
three keys.

Where ids, attempts or deliveries run out the system stops, so only
`seat_inventory` and `seat_stuck` check deadlock: there `Tick` and the rollbacks always remain.

**Fairness** (`booking_liveness`). For the seats: strong fairness on each transaction's own
steps: PostgreSQL queues the waiters of a row lock, so one whose lock keeps
coming free gets it. Weak fairness on the sweep loop, which
`hold-expiration.worker.ts` runs until shutdown. A worker's rollbacks
eventually stop: with a database that fails every expiry for ever nothing can
be promised. Requests may be rolled back for ever, and need never begin.
For the queue: weak fairness of a worker's loops and of the steps of its pass, that back-offs elapse, and that a worker does not crash for
ever; customers need do nothing. A property assumes the fairness of its own part
only.

In `liveness` each property assumes the `Fairness` its component defines, and
nothing about other parts or about users. `Idempotency`: a request that has
arrived is worked on. `Sessions` and `AllocationBatch`: a statement that can
proceed does, PostgreSQL serves the waiters of a row in turn, those of an outbox
row as those of a seat, and breaks cycles.
`ExpirySignal`, `TicketDelivery` and `SeatFeed`: the loops run, back-off
elapses, and neither the provider nor Redis refuses, nor the worker dies, every
single time (strong fairness of the successful step). `SubscriptionRegistry`:
the heartbeat interval fires. `ProcessLifecycle`: time passes and timers fire;
requests, passes and sockets may hang.

**Disagreements with the documentation.** Five have a run:

* `seat_stuck`. `createHoldInTransaction` expires every lapsed hold that
  covers any requested seat but releases only the requested seats. The other
  seats of that hold stay 'held' behind an expired hold; the sweep looks at
  active holds only. The README says "a half-finished purchase can't leave a
  seat stuck".
* `waitlist_blocked`. An offer's hold lapses and, before the sweep, a customer's
  `createHoldInTransaction` reclaims the seat: the hold is 'expired', the offer
  stays 'offered' and nothing ends it. When that seat is free again, every pass
  picks it, fails on `waitlist_offers_active_seat_key`, which is no
  `ConflictError`, and backs off; the unprocessed row keeps the "self-healing"
  reconcile loop (`docs/ARCHITECTURE.md:225`) from seeing the category.
* `allocation_deadlock`. The batch locks the seats of one category before those
  of the next, against "seats ascending by id ... so none of these paths can
  deadlock" (`docs/SYSTEM_DESIGN.md:32`).
* `enqueue_waits`. `ON CONFLICT DO NOTHING` waits for every uncommitted writer of
  the row, with the seats of the release locked: for a batch that has finished
  that row and goes on to one of those seats, they wait for each other. Two
  releases of seats of two categories can do the same to one another without a
  batch, if `SELECT DISTINCT`, which promises no order, yields their categories
  in different orders. The comment says that the enqueue "takes no lock of its
  own ... so it adds nothing to this ordering" (`booking.service.ts:307`).
* `seat_feed_stale`. A load forgets the versions, so an older message wins over
  the snapshot, against "only a strictly newer version is ever applied"
  (`useSeatMap.ts:16`).

The modules state other claims of the code's comments and documents that their
models refute. They stand beside the properties of their module, and no run
is kept for them:

| definition | what the model does instead |
|---|---|
| `SeatInventory!ExpirySeenAtLock` | `now()` is the start of the transaction, so a hold that lapsed while its confirmation waited for locks is confirmed; never a double sale (`booking.repository.ts:277`) |
| `Waitlist!OfferBacked` | the stale offer behind `waitlist_blocked` (`expiration.service.ts:264`) |
| `AllocationBatch!OthersSurvive` | the batch is one transaction, so a dropped connection takes the other rows' work with it (`waitlist-allocation.worker.ts:89`) |
| `Sessions!LogoutEndsChain` | a logout that comes after, or during, a rotation of its token leaves the successor live (`auth.service.ts:227`) |
| `UserRoles!AdminRemains` | two admins demote each other and nobody can promote any more (`user.service.ts:44`) |
| `EventLifecycle!NeverWithoutInventory` | the venue's seats are removed between the statement that lists them and the one that copies them (`event.service.ts:65`) |
| `EventLifecycle!NoLockCycle` | a hold's foreign key locks the event after its seat, a deletion the event before its seats (`event.service.ts:223`) |
| `EventLifecycle!HoldsLockNoEvent` | reservation creation does lock the event's row, by the foreign key of the hold, and waits for the deletion's `FOR UPDATE`; the comment keeps open a race that this closes (`event.service.ts:428`) |
| `EventFeed!TextWaitsForSubmit` | "Load more" sends the cursor of the list on screen with the text typed by then, submitted or not: events of the list are skipped and others put behind it (`EventsPage.tsx:59`) |
| `EventFeed!StableUnderWrites` | an edit moves an event across the cursor and it is shown twice (`event.service.ts:572`) |
| `SubscriptionRegistry!SubscriptionLimit` | the limit is compared before the awaits after which a subscription is counted (`websocket-server.ts:82`) |
| `SubscriptionRegistry!FailuresAnswered` | a subscription Redis refuses is an unhandled rejection (`websocket-server.ts:118`) |
| `SeatFeed!ReconnectRepairs` | after a reconnect nothing is fetched again (`seatSocket.ts:17`) |
| `Checkout!ExpiredMeansReleased`, `ExpiredIsOver` | the countdown ends under a confirmation that succeeded; the flag outlives its hold (`CheckoutPage.tsx:155`) |
| `Checkout!StableKey`, `RetryNotRefused` | the key is as old as the mounted page and not as the hold; a repeated reservation carries a new key and meets the customer's own hold (`CheckoutPage.tsx:21`) |
| `ProcessLifecycle!NobodyPulledAway` | a handler whose client has left, or whose WebSocket closed while it awaited, is waited for by nobody and finds Redis or the pool closed (`server.ts:39`) |
| `ProcessLifecycle!ForcedOnlyIfStuck` | the exit is forced by a loop that is only asleep and by an open WebSocket (`server.ts:21`) |

Each property of a passing run has a mutant: a definition changed the way a
plausible bug would change the code (a missing `FOR UPDATE`, a missing
`ORDER BY`, a forgotten `markHoldConverted`), under which TLC finds the
property violated. The mutant operators stand before the definitions they
change.

## 4. Proofs

`SeatInventoryProofs` proves, for every set of seats, holds, clients and
workers and every TTL and batch size, `TypeOK`, `ExclusiveClaims`,
`SeatAgreement`, `NoRefundAfterEntry`, `GuardsNeverFail` and
`ExpiryNeverEarly`. Assumptions: seat and hold ids are naturals (they are
ordered), foreign seats are not the event's, clients and workers are
different connections, the null values are not members.

None of the safety properties is inductive: that two holds never share a seat
depends on what a transaction that is about to write has seen. `IInv` adds, for
each transaction,

* `AsksFor`: the rows it was asked about exist and have not moved;
* `HasLocks`: which locks it has at each `pc`, and that it has no others;
* `Decided`: the verdict it reached is still true;

and `FreshInv` (no two inserts with one id) and `RowInv` (a hold is converted
exactly when it has a booking). The heart is the lemma `OthersUndisturbed`: a
commit changes only rows it has locked, and what another transaction relies on
is under that transaction's own locks, so its `AsksFor`, `HasLocks` and
`Decided` survive. Steps that write no table are handled by `MoveKeeps`. Each
commit then has one lemma for `ExclusiveClaims`, `SeatAgreement` and
`RowInv`.

`Refinement` shows `Spec => ImplementsLedger`: under `IInv` the owner of a seat
is unique (`OwnerDefined`), creation maps to `Reserve`, confirmation to `Sell`,
expiry and both cancellations to `Close`, and everything else leaves the ledger
alone.

`NobodyDeadlocks` shows `NoDeadlock`: no set of transactions has every member
waiting for another. It needs one more invariant, `OrderInv`: a transaction
that has seats locked has the lowest of those it is after, one that creates a
hold locks lapsed holds after all its seats and from the lowest id up, and a
booking is locked before anything else. `WaitsUpward` draws from it what a
transaction that waits tells of a waiting one it waits for: that one is past its
booking; it has all its seats if the first has; and the seat, or the hold, it
wants has a higher id. Take a stuck set with no stuck set inside it
(`LeastStuck`, which exists since a pool has finitely many connections: the
assumption on `Tx`). Those past their booking are stuck among themselves, so
that is everybody; in the same way all have their seats or none has; and those
that want something above what a given member wants are again a stuck set,
without that member.

`WaitlistProofs` proves `TypeOK`, `OfferedOnce`, `ActiveOfferIsLive`,
`OfferFollowsHold`, `StagedIsSound` and `NobodySkipped` for any seats, holds,
customers, workers and `MaxPairings`, assuming that seats and entries are
numbered. The invariant adds to them

* `SolePass`: at most one pass is under way, because there is one signal row
  and it is locked; `SKIP LOCKED` on entries would otherwise break the order;
* `PassInv`: what a pass has locked is still waiting, and its candidate and
  its pairings are among what it has locked;
* `QueueInv`: everybody ahead of a candidate is no longer waiting, or is
  paired in the same pass: the candidate was the lowest, and no other pass
  had locked anybody;
* `StagedInv`: an uncommitted hold has no row, and the holds it replaces
  can only have been active or expired;
* `OfferRows`: an offer has an entry and a hold.

That is `IInv`. What `OfferedOnce` says of seats is a second invariant, `SeatInv`,
inductive relative to the first: the seats of active holds and confirmed bookings
are disjoint and marked so (`ClaimsInv`), and no two live offers, nor an offer and
an uncommitted pairing, have a seat in common (`OffersInv`). `SeatsKeep` goes
through the steps once more for it.

Steps outside a pass are handled by `EntriesMove` and `FreeHoldMoves` (they
touch only rows no pass has locked), steps inside a pass by `PassOnlyKeeps`,
and the commit by `CommitRows` and `CommitPassKeeps`.

`SessionsProofs` proves `RotationSound` and `PresentedOnce` for any tokens,
tabs and handlers, assuming that tokens are numbered and the null values are
not members. `IInv` adds to `OneSuccessor` and `NobodyStranded`

* `Owns`: a rotation has its token's lock, and the token stays live, from the
  locking read to the commit; the token it has minted is no row until then;
* `Apart`: two rotations never mint one token;
* `Replaced`: a token that has been exchanged is revoked, from which
  `OneLivePerRotation` follows;
* `Known`: pages, requests and locks only name rows that exist.

`RefreshCommitKeeps` is where they meet: what is exchanged was live, so nothing
has replaced it. `PInv` adds for the browser that a page without a refresh
under way holds a token it has not sent (`Once`), and that nobody has seen a
granted token before its answer arrives (`Secret`).

`TicketDeliveryProofs` proves `TicketSound` for any bookings, seats, doors,
mailers and bounds. The doors' half of `IInv` says that a ticket has let
somebody in exactly if it is used (`Counted`), and that a request that was
allowed has the booking's lock and its verdict still holds (`Decided`);
`FinishKeeps` shows that a commit under one lock leaves the verdicts under the
others alone. The mailers' half says that a row is in the hands of one mailer
and pending (`Exclusive`), so that the copies still owed are one or none
(`Owed`), and `OwedIsCounted` turns that into the cardinality in
`CopiesAccountedFor`.

`EventLifecycleProofs` proves `ReservationsKept` for any events, venue seats,
schedules and requests, assuming that the null values are not members. `IInv`
adds who holds which lock and that FOR UPDATE on an event excludes the KEY
SHARE of a hold's foreign key (`LockInv`), what was decided under them
(`Decided`), that no two requests insert one event (`Apart`), and that an event
that is no row has no seats (`Unborn`). `deleteEventRowKeeps` and
`CommitHoldKeeps` are the two sides of one race: a deletion that passed its
check has a lock no hold gets past, and a hold that got past has one the
deletion waits for.

The MC modules instantiate these three proof modules, so that their theorems
hold for the components as composed: `RotationInRequests`,
`PresentationInRequests`, `TicketsInWorkers` and `ReservationsInCatalogue` only
have to show that a suite's `PartsSpec` implies the component's `Spec`, that is
that a step of another part is a stutter of this one. The modules below prove
the rest in that composition, one component after the other.

### RequestsProofs

*Idempotency*: `OncePerKey`, `AnswersAgree` and `RefusedOnlyForReuse`, for any
deliveries, keys and digests. The invariant says who owns an uncommitted row
(`ClaimInv`), that a committed row is finished and belongs to the request that
did the work, one to one (`RecordInv`), and that a body on its way to a client
is the right one (`ReplyInv`). The only assumption is that the null values are
not requests or rows.

*Lifecycle*: `ShutdownSound`, for any loops, handlers and time limits. That
nothing is closed under a request that is awaited, or under a pass, follows from
the order of teardown. `ApiInv` and `WorkerInv` say how far a shutdown can be
while there are still connections or loops: the first resource is released only
when connections are closed, the second when the loops are over, Redis is the
fourth and the pool the last. `PoolInv` is about the handlers nobody waits for:
they may be anywhere once the pool has ended, but in no transaction, since
`pool.end` waits for the clients checked out and hands out no more.

*Subscriptions*: `RegistrySound`, for any sockets, any finite set of events and
any limits. The two maps and Redis are updated at different points of one
handler, and what Redis will have open is decided by the commands still on the
wire (`Settled`): the last one for an event counts (`LaterDecides`), so that a
command sent decides for its events and no others, and delivering the first one
changes nothing. `StoppedInv` adds that a stopped process has no connection and
nothing on the wire, without which a restart could not begin empty.

*Rate limits*: `LimitsKept`, for any policies, any finite set of callers, any
limit and window. `served` and `counted` hold how many requests of each age
were let through and counted; the property adds them up over a window with a
fold, which the prover cannot unfold. The first part of the section proves that
a sum over a finite set exists and equals the fold of `FiniteSetsExt`, then how
it splits over disjoint sets and changes with one term. The invariant
(`LimiterInv`) divides the ages at a key in two: those of the key's current
window, which began when the key did (age plus remaining time at most
`Window`), and older ones. What was let through in the current window is at
most the key's count and at most `Limit`; what was let through in the older
ones is at most `Limit`, as they all belong to the window before. That gives
twice the limit. In the other direction the key's count is at most what was
counted in the current window, so a refusal has more than `Limit` requests
behind it. A tick moves every age by one and the division with it; a key that
lapses makes the current window the older one.

### WorkersProofs

*Expiry signals*: `SignalSound`, for any holds, workers, reconcilers and time
limits. `KeyNeverEarly` needs that no transaction's `now()` is in the future
(`ClocksInv`): a publisher computes the key's remaining time from a clock that
may be behind and errs late only. That a live hold without a key has a row
needs `PublishedInv`: that row is in the hands of nobody who believes to have
published it.

*Feed*: `FeedSound` and `ForwardSinceLoad`, for any seats, publishers and
buffers. `RowsInv` says that a row is in one transaction and that what is about
to be retired has been published, hence `NothingLost`. `HonestInv` and
`SnapshotInv` say that rows, messages, snapshots and the screen tell what the
table said at their version. `CalmInv` is the strengthening that matters: for a
page that loaded in a calm moment and has lost nothing, every version it does
not show yet is certain to arrive, and whatever may still arrive and would be
applied is newer than what it shows. When nothing is on its way there is no
such version.

*Batches*: `BatchSound` and `RequestsInOrder`, for any finite set of numbered
seats, any categories, clients and workers. `PairingsStand` and `RowsApart`
need `MadeInv`: what a batch has paired belongs to rows it has claimed, and
within the demand of the row it is at. For `RequestsInOrder`, `OrderInv` says
that a client has the lowest of the seats it needs, and that one which inserts
signals has all its seats and inserts one row for each of their categories, in an
order of its own. A client that waits for a seat waits for one that has it and,
if it waits for a seat too, wants a higher one (`WaitsForSeat`, `WaitsRise`). A
cycle of clients that wait for seats would contain a smaller one, of those that
want something above what a given member wants, and a cycle, by its definition,
contains none (`SeatsMakeNoCycle`). So some member waits for an outbox row; who
has inserted that row has all its seats and can only wait for a row itself, one
of another of its categories (`WaitsForRow`), and so on round the cycle.
That batches do close such cycles is what the run `AllocationDeadlock` shows.

### CatalogueProofs

*Roles*: `TypeOK`, `OnlyByCrossing` and `NoLateChange`, for any set of users
and any non-empty set of seeded admins. `OnlyByCrossing` is not inductive: a
request that was let in says nothing about its sender by itself. `IInv` adds
`Sound`: a request in flight names an account and a role; while its sender is
still the admin it was when sent, `heldAdmin` says so; and a request that was
let in has a sender who was an admin all along. The one step that can take the
last admin away is then a change by somebody demoted meanwhile, which is
`crossed`, or a change to oneself, which the code refuses.

*Checkout*: `RetryReplays`, for any holds, seats and numbers of calls.
`CheckoutInv` adds that a page waits for one call at a time (`CallInv`); that a
hold has been tried with the keys of the mounts of the page it was confirmed
from and is converted with one of them (`KeyInv`); that a refusal is final
(`RefusalInv`); and for which reasons the page may say that the hold is gone
(`ExpiredInv`).

*Public list*: `ListingSound`, for any finite set of numbered events, any
filters, sort keys, page size and number of searches. A page is the first `Limit` rows of the
events past a cursor in the order of `(key, id)`. That this order gives a
sequence at all (`Enumerates`) is shown without induction: the place of an
element is the number of elements up to it, which is one to one for a strict
total order. `PageSound` then says that an answer shows, of the events nobody
edits, exactly those between its cursor and the next one, each once;
`ListSound` that the screen shows exactly those up to its cursor; and
`SearchSound` that, as long as searches do not overlap and filters do not mix, the
one in flight continues the list on screen. `ReceiveKeeps` appends the one to the other. The
null cursor must not be a cursor.

### What the proofs leave to TLC

Every invariant and every action property of the passing runs is stated by a
theorem. The liveness properties are model-checked only, since fairness and
ENABLED are beyond the prover, and so are the five runs that expect a
violation, which are about single behaviours.

## 5. Not modelled, and the plan

Modelled and checked: all components of the inventory whose operations change
shared state. Left: abstract specifications, with a refinement proof, for
components other than the seat inventory (the queue of the waitlist, the
delivery of signals and e-mails), which so far state their promises as
invariants.

Out of reach or out of scope: prices and totals (computed by PostgreSQL),
password and token cryptography, PDF, QR and mail rendering, HTTP parsing,
environment parsing, logging and health probes; read-only lists and reports;
the organiser's and admin's forms, which send one request per click and keep
nothing when left; the browser's copy of its own role (`lib/session.ts`), which
decides what is shown and nothing on the server; the seed script. PostgreSQL and Redis are external: they
are modelled by how the code uses them (row locks, `now()`, unique indexes and
foreign keys; a key that may vanish, a command that may be refused or whose
answer may be lost).
