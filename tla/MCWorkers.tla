------------------------------- MODULE MCWorkers -------------------------------
(***************************************************************************)
(* The loops behind the outbox tables, on small instances: the expiry      *)
(* signals, the ticket e-mails with the door they admit to, the seat       *)
(* status feed up to the page it is for, and the batches of the waitlist.  *)
(* The parts share no variable, so a behaviour moves the part it was begun *)
(* for and leaves the others in their initial state: every state of each   *)
(* is reached, and no product of them.                                     *)
(***************************************************************************)
EXTENDS Integers, TLC

CONSTANTS Parts,         \* the parts the run is about
          Workers,       \* worker processes, each with every loop
          Holds, Reconcilers, HoldTtl, Window, RetryBase, RetryMax, MaxTime, MaxAttempts,
          MaxLosses,
          Bookings, Legacy, TicketSeats, Doors, NoRequest, MaxScans, MaxTries,
          FeedSeats, MaxVersion, MaxBuffered, MaxLoads,
          Seats, Category, Demand, Clients, MaxPairings, NoSeat, NoOne,
          BatchSize, Baskets

VARIABLES part,
          now, hold, expiresAt, row, availableAt, attempts, keyUntil, losses, lost, batch,
          began, sent, failed, looking, lookedAt, absent, cleanup,
          booking, ticket, lock, doorPc, op, on, at, entered, scans, mail, resting,
          mailClaimed, mailSent, mailFailed, inbox, wasted,
          feedStatus, version, outbox, feedClaimed, feedSent, feedFailed, published, link, pipe,
          loads, seats, versions, shown, calm,
          seat, demand, signal, owner, pc, todo, wrote, pick, tries, made, need, keys, added

Signals == INSTANCE ExpirySignal WITH Publishers <- Workers

Tickets == INSTANCE TicketDeliveryProofs
           WITH Seats <- TicketSeats, Requests <- Doors, Mailers <- Workers,
                pc <- doorPc, claimed <- mailClaimed, sent <- mailSent, failed <- mailFailed

Feed == INSTANCE SeatFeed
        WITH Seats <- FeedSeats, status <- feedStatus,
             claimed <- feedClaimed, sent <- feedSent, failed <- feedFailed

\* Seats of the two categories alternate in id order, as they do in a hall whose
\* rows are numbered across sections, and each has one entry waiting.
Alternating == [s \in Seats |-> IF s % 2 = 1 THEN "stalls" ELSE "balcony"]
Neighbours  == {S \in SUBSET Seats : \E s \in S : S = {s, s + 1}}
OneEach     == [c \in {Alternating[s] : s \in Seats} |-> 1]

Batches == INSTANCE AllocationBatch

ASSUME WorkersAssumption ==
    /\ Signals!SignalAssumption /\ Tickets!DeliveryAssumption
    /\ Feed!FeedAssumption /\ Batches!AllocationAssumption

\* Worker processes are interchangeable, and so are clients.
WorkersSymmetry == Permutations(Workers) \cup Permutations(Clients)

signalVars == <<now, hold, expiresAt, row, availableAt, attempts, keyUntil, losses, lost,
                batch, began, sent, failed, looking, lookedAt, absent, cleanup>>
ticketVars == <<booking, ticket, lock, doorPc, op, on, at, entered, scans, mail, resting,
                mailClaimed, mailSent, mailFailed, inbox, wasted>>
feedVars   == <<feedStatus, version, outbox, feedClaimed, feedSent, feedFailed, published,
                link, pipe, loads, seats, versions, shown, calm>>
batchVars  == <<seat, demand, signal, owner, pc, todo, wrote, pick, tries, made, need,
                keys, added>>

PartsInit ==
    /\ part \in Parts
    /\ Signals!Init /\ Tickets!Init /\ Feed!Init /\ Batches!Init
    \* one initial state of a part that is not to move
    /\ part # "tickets" => /\ \A d \in Doors : on[d] = (CHOOSE b \in Bookings : TRUE)
                           /\ \A d \in Doors : at[d] = (CHOOSE s \in TicketSeats : TRUE)

PartsNext ==
    \/ part = "signals" /\ Signals!Next /\ UNCHANGED <<part, ticketVars, feedVars, batchVars>>
    \/ part = "tickets" /\ Tickets!Next /\ UNCHANGED <<part, signalVars, feedVars, batchVars>>
    \/ part = "feed" /\ Feed!Next /\ UNCHANGED <<part, signalVars, ticketVars, batchVars>>
    \/ part = "batches" /\ Batches!Next /\ UNCHANGED <<part, signalVars, ticketVars, feedVars>>

PartsSpec ==
    PartsInit /\ [][PartsNext]_<<part, signalVars, ticketVars, feedVars, batchVars>>

-----------------------------------------------------------------------------
(* Properties of the parts                                                 *)

\* expiration.service.ts: no expiry key lapses before its hold, and a live hold has a key
\* or a row that will be published, unless Redis lost the key.
SignalSound == part = "signals" => Signals!SignalSound

\* ticket.service.ts and ticket-email.service.ts: one entry to a ticket, none on a cancelled
\* booking, and mails that hold all tickets, once but for a crash or a lost answer.
TicketSound == part = "tickets" => Tickets!TicketSound

\* realtime-seat-status.worker.ts and useSeatMap.ts: no change of a seat is lost, and a
\* page that missed nothing shows what the table says.
FeedSound == part = "feed" => Feed!FeedSound

\* useSeatMap.ts: between two loads a seat on screen never goes back.
ForwardSinceLoad == Feed!ForwardSinceLoad

\* useSeatMap.ts, its comment: a message older than what a seat shows is never applied.
StaleNeverWins == Feed!StaleNeverWins

\* waitlist-allocation.worker.ts: what a batch has paired and not committed stands, and
\* no row is served by two batches.
BatchSound == part = "batches" => Batches!BatchSound

\* Customers never deadlock one another: every cycle of waiting transactions has a
\* batch of the worker in it.
RequestsInOrder == part = "batches" => Batches!RequestsInOrder

\* What cancelBookingInTransaction's comment says: the enqueue inserts a row nothing else
\* has touched, so it adds nothing to the order of the locks.
EnqueueTakesNoLock == part = "batches" => Batches!EnqueueTakesNoLock

\* What SYSTEM_DESIGN.md says: seats ascending by id, so none of these paths can
\* deadlock.
NoDeadlock == part = "batches" => Batches!NoDeadlock
=============================================================================
