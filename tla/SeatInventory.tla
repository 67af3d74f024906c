---------------------------- MODULE SeatInventory ----------------------------
(***************************************************************************)
(* The seat inventory of one event: show_seats, reservation_holds,         *)
(* bookings and tickets, and the five handlers that move them              *)
(* (createHold, confirmHold, cancelHold, cancelBooking, verifyTicket)      *)
(* together with the expiry sweep.                                         *)
(*                                                                         *)
(* Every handler is one PostgreSQL transaction.  A transaction slot t of   *)
(* Tx takes row locks one at a time, reads under them, and makes its       *)
(* writes visible in a single commit step; a transaction that throws, or   *)
(* loses its connection, leaves nothing behind.  now() is the time the     *)
(* transaction STARTED: that is PostgreSQL's now(), and it is the clock    *)
(* every expires_at comparison of the code uses.                           *)
(*                                                                         *)
(* A booking is identified by the hold it was made from (bookings.hold_id  *)
(* is unique), a ticket by its booking and its seat.  The rows a handler   *)
(* writes only for another component to pick up later (the outboxes and    *)
(* the waitlist's offers) are those components' state and not of this      *)
(* module.                                                                 *)
(***************************************************************************)
EXTENDS Integers, FiniteSets

CONSTANTS Seats,         \* show_seats rows of the event, ordered by id
          ForeignSeats,  \* seat ids a request may name that are not of the event
          Callers,       \* {TRUE} or BOOLEAN: may a caller lack the right to act
          Holds,         \* bound: the hold ids that can ever be generated
          Clients,       \* connections serving HTTP requests
          Workers,       \* connections of hold-expiration workers
          NoTx, NoHold,  \* null
          TTL,           \* hold lifetime
          MaxClock,      \* bound on the clock
          SweepBatch     \* LIMIT of one sweep

Tx == Clients \cup Workers

ASSUME SeatsAssumption == Seats \subseteq Nat /\ ForeignSeats \cap Seats = {}
ASSUME CallersAssumption == Callers \subseteq BOOLEAN
ASSUME HoldsAssumption == Holds \subseteq Nat /\ NoHold \notin Holds
\* Every process has DATABASE_POOL_MAX connections.
ASSUME TxAssumption == Clients \cap Workers = {} /\ NoTx \notin Tx /\ IsFiniteSet(Tx)
ASSUME BoundsAssumption ==
    /\ TTL \in Nat \ {0}
    /\ MaxClock \in Nat
    /\ SweepBatch \in Nat \ {0}

VARIABLES seat,          \* show_seats.status
          holdStatus,    \* reservation_holds.status, "none" before the row exists
          holdSeats,     \* reservation_hold_seats: the seats of a hold
          expiresAt,     \* reservation_holds.expires_at
          booking,       \* bookings.status, "none" before the row exists
          usedTickets,   \* the seats of a booking whose ticket has been used
          seatLock,      \* the transaction holding FOR UPDATE on a seat row
          holdLock,      \* ... on a hold row
          bookingLock,   \* ... on a booking row
          tx,            \* what each transaction is doing
          sweep,         \* candidates a worker read and has not handled yet
          clock          \* the database's wall clock

tables == <<seat, holdStatus, holdSeats, expiresAt, booking, usedTickets>>
locks  == <<seatLock, holdLock, bookingLock>>
vars   == <<tables, locks, tx, sweep, clock>>

SeatStatus    == {"available", "held", "booked"}
HoldStatus    == {"none", "active", "expired", "cancelled", "converted"}
BookingStatus == {"none", "confirmed", "cancelled"}
Ops == {"none", "createHold", "confirmHold", "cancelHold", "expireHold",
        "cancelBooking", "verifyTicket"}

\* pc: "booking" before the booking lock, "seats" while locks are taken and
\* checks are made under them, "write" once every check has passed.
Transaction ==
    [op : Ops, pc : {"idle", "booking", "seats", "write"}, now : Nat,
     mine : BOOLEAN, hold : Holds \cup {NoHold},
     want : SUBSET (Seats \cup ForeignSeats)]

Idle == [op |-> "none", pc |-> "idle", now |-> 0, mine |-> FALSE,
         hold |-> NoHold, want |-> {}]

TypeOK ==
    /\ seat \in [Seats -> SeatStatus]
    /\ holdStatus \in [Holds -> HoldStatus]
    /\ holdSeats \in [Holds -> SUBSET Seats]
    /\ expiresAt \in [Holds -> Nat]
    /\ booking \in [Holds -> BookingStatus]
    /\ usedTickets \in [Holds -> SUBSET Seats]
    /\ seatLock \in [Seats -> Tx \cup {NoTx}]
    /\ holdLock \in [Holds -> Tx \cup {NoTx}]
    /\ bookingLock \in [Holds -> Tx \cup {NoTx}]
    /\ tx \in [Tx -> Transaction]
    /\ sweep \in [Workers -> SUBSET Holds]
    /\ clock \in Nat

Init ==
    /\ seat = [s \in Seats |-> "available"]
    /\ holdStatus = [h \in Holds |-> "none"]
    /\ holdSeats = [h \in Holds |-> {}]
    /\ expiresAt = [h \in Holds |-> 0]
    /\ booking = [h \in Holds |-> "none"]
    /\ usedTickets = [h \in Holds |-> {}]
    /\ seatLock = [s \in Seats |-> NoTx]
    /\ holdLock = [h \in Holds |-> NoTx]
    /\ bookingLock = [h \in Holds |-> NoTx]
    /\ tx = [t \in Tx |-> Idle]
    /\ sweep = [w \in Workers |-> {}]
    /\ clock = 0

-----------------------------------------------------------------------------
(* Transactions and row locks                                              *)

In(t, op, pc) == tx[t].op = op /\ tx[t].pc = pc

\* BEGIN: the transaction's now() is fixed here.
Begin(t, op, pc, mine, h, want) ==
    /\ tx[t] = Idle
    /\ tx' = [tx EXCEPT ![t] = [op |-> op, pc |-> pc, now |-> clock,
                                mine |-> mine, hold |-> h, want |-> want]]

Proceed(t, pc) == tx' = [tx EXCEPT ![t].pc = pc]

\* Mutant of End: the locks outlive the transaction.
EndKeepingLocks(t) ==
    /\ tx' = [tx EXCEPT ![t] = Idle]
    /\ UNCHANGED locks

\* COMMIT or ROLLBACK: every row lock of t is given up.
End(t) ==
    /\ tx' = [tx EXCEPT ![t] = Idle]
    /\ seatLock' = [s \in Seats |-> IF seatLock[s] = t THEN NoTx ELSE seatLock[s]]
    /\ holdLock' = [h \in Holds |-> IF holdLock[h] = t THEN NoTx ELSE holdLock[h]]
    /\ bookingLock' = [h \in Holds |-> IF bookingLock[h] = t THEN NoTx ELSE bookingLock[h]]

Abort(t) == End(t) /\ UNCHANGED <<tables, clock>>

\* The rows SELECT ... ORDER BY id FOR UPDATE still has to lock, lowest first.
Targets(t) == tx[t].want \cap Seats
SeatsLocked(t) == \A s \in Targets(t) : seatLock[s] = t

\* Mutant of NextSeat: no ORDER BY, the rows are locked in any order.
AnySeat(t, s) == s \in Targets(t) /\ seatLock[s] # t

NextSeat(t, s) ==
    /\ s \in Targets(t)
    /\ seatLock[s] # t
    /\ \A r \in Targets(t) : seatLock[r] # t => s <= r

\* Mutant of LockSeat: a plain SELECT, which does not wait for the row lock.
ReadSeat(t) ==
    /\ tx[t].pc = "seats"
    /\ \E s \in Seats :
        /\ NextSeat(t, s)
        /\ seatLock' = [seatLock EXCEPT ![s] = t]
    /\ UNCHANGED <<tables, holdLock, bookingLock, tx, sweep, clock>>

LockSeat(t) ==
    /\ tx[t].pc = "seats"
    /\ \E s \in Seats :
        /\ NextSeat(t, s)
        /\ seatLock[s] = NoTx
        /\ seatLock' = [seatLock EXCEPT ![s] = t]
    /\ UNCHANGED <<tables, holdLock, bookingLock, tx, sweep, clock>>

\* FOR UPDATE on the one hold or booking row the transaction was asked about.
LockHoldRow(t) ==
    /\ holdLock[tx[t].hold] = NoTx
    /\ holdLock' = [holdLock EXCEPT ![tx[t].hold] = t]

\* Mutant of LockBookingRow: the booking is read without FOR UPDATE.
ReadBookingRow(t) == bookingLock' = [bookingLock EXCEPT ![tx[t].hold] = t]

LockBookingRow(t) ==
    /\ bookingLock[tx[t].hold] = NoTx
    /\ bookingLock' = [bookingLock EXCEPT ![tx[t].hold] = t]

\* Any statement may fail and any connection may drop before COMMIT.
RollbackClient(c) ==
    /\ tx[c] # Idle
    /\ Abort(c)
    /\ UNCHANGED sweep

\* expireHold throwing ends the sweep: the rest of the batch is dropped.
RollbackWorker(w) ==
    /\ tx[w] # Idle
    /\ Abort(w)
    /\ sweep' = [sweep EXCEPT ![w] = {}]

-----------------------------------------------------------------------------
(* Holds                                                                   *)

\* Mutant of Lapsed: off by one.
LapsedSoon(h, now) == expiresAt[h] <= now + 1

Lapsed(h, now) == expiresAt[h] <= now

\* EXISTS (... h.status = 'active' AND h.expires_at > now()), as seen by a
\* transaction that has itself taken the holds in gone out of 'active'.
LiveHold(s, now, gone) ==
    \E h \in Holds \ gone :
        holdStatus[h] = "active" /\ s \in holdSeats[h] /\ ~Lapsed(h, now)

\* The seats releaseSeatsWithoutLiveHold returns to sale.
Releasable(S, now, gone) == {s \in S : seat[s] = "held" /\ ~LiveHold(s, now, gone)}

\* Mutant of LapsedHolds: seats are reclaimed, their lapsed holds are not expired.
NoLapsedHolds(t) == {}

\* expireLapsedHoldsForSeats: every lapsed hold covering one of the seats.
LapsedHolds(t) ==
    {h \in Holds : /\ holdStatus[h] = "active"
                   /\ holdSeats[h] \cap tx[t].want # {}
                   /\ Lapsed(h, tx[t].now)}

\* gen_random_uuid(): an id no row and no other insert in flight has.
Fresh(h) ==
    /\ holdStatus[h] = "none"
    /\ \A u \in Tx : tx[u].op = "createHold" => tx[u].hold # h

BeginCreateHold(c) ==
    /\ \E h \in Holds, want \in (SUBSET (Seats \cup ForeignSeats)) \ {{}} :
        /\ Fresh(h)
        /\ Begin(c, "createHold", "seats", TRUE, h, want)
    /\ UNCHANGED <<tables, locks, sweep, clock>>

LockLapsedHold(t) ==
    /\ In(t, "createHold", "seats")
    /\ SeatsLocked(t)
    /\ tx[t].want \subseteq Seats
    /\ \E h \in LapsedHolds(t) :
        /\ holdLock[h] = NoTx
        /\ \A g \in LapsedHolds(t) : holdLock[g] # t => h <= g
        /\ holdLock' = [holdLock EXCEPT ![h] = t]
    /\ UNCHANGED <<tables, seatLock, bookingLock, tx, sweep, clock>>

LapsedLocked(t) == \A h \in LapsedHolds(t) : holdLock[h] = t

\* readSeatAvailability after reclamation: free, and no live hold on it.
Available(t) ==
    \A s \in tx[t].want :
        /\ seat[s] = "available" \/ s \in Releasable(tx[t].want, tx[t].now, {})
        /\ ~LiveHold(s, tx[t].now, {})

AcceptCreateHold(t) ==
    /\ In(t, "createHold", "seats")
    /\ SeatsLocked(t)
    /\ tx[t].want \subseteq Seats
    /\ LapsedLocked(t)
    /\ Available(t)
    /\ Proceed(t, "write")
    /\ UNCHANGED <<tables, locks, sweep, clock>>

\* 400/404 for seats that are not of the event, 409 for a taken seat.
RejectCreateHold(t) ==
    /\ In(t, "createHold", "seats")
    /\ SeatsLocked(t)
    /\ tx[t].want \subseteq Seats => LapsedLocked(t) /\ ~Available(t)
    /\ Abort(t)
    /\ UNCHANGED sweep

\* markSeatsHeld updates only 'available' rows; a shortfall throws.
HoldGuard(t) ==
    \A s \in tx[t].want :
        seat[s] = "available" \/ s \in Releasable(tx[t].want, tx[t].now, {})

CommitCreateHold(t) ==
    LET h == tx[t].hold IN
    /\ In(t, "createHold", "write")
    /\ HoldGuard(t)
    /\ holdStatus' = [g \in Holds |-> IF g = h THEN "active"
                                      ELSE IF holdLock[g] = t THEN "expired"
                                      ELSE holdStatus[g]]
    /\ holdSeats' = [holdSeats EXCEPT ![h] = tx[t].want]
    /\ expiresAt' = [expiresAt EXCEPT ![h] = tx[t].now + TTL]
    /\ seat' = [s \in Seats |-> IF s \in tx[t].want THEN "held" ELSE seat[s]]
    /\ End(t)
    /\ UNCHANGED <<booking, usedTickets, sweep, clock>>

\* Confirmation, cancellation and expiry start from a hold row that exists; its
\* seats are read from the join table, which never changes.
BeginHoldRequest(c) ==
    /\ \E op \in {"confirmHold", "cancelHold"}, mine \in Callers, h \in Holds :
        /\ holdStatus[h] # "none"
        /\ Begin(c, op, "seats", mine, h, holdSeats[h])
    /\ UNCHANGED <<tables, locks, sweep, clock>>

\* The verdicts, read under the hold's lock.
CanConfirm(t) ==
    LET h == tx[t].hold IN
    /\ tx[t].mine
    /\ holdStatus[h] = "active"
    /\ ~Lapsed(h, tx[t].now)
    /\ tx[t].want # {}
    /\ \A s \in tx[t].want : seat[s] = "held"

CanCancel(t) == tx[t].mine /\ holdStatus[tx[t].hold] = "active"

\* Mutant of CanExpire: the comparison the wrong way round.
CanExpireEarly(t) ==
    /\ holdStatus[tx[t].hold] = "active"
    /\ ~Lapsed(tx[t].hold, tx[t].now)

CanExpire(t) ==
    /\ holdStatus[tx[t].hold] = "active"
    /\ Lapsed(tx[t].hold, tx[t].now)

\* Lock the hold after its seats, and go on to write if the verdict is good.
AcceptHold(t, op, verdict) ==
    /\ In(t, op, "seats")
    /\ SeatsLocked(t)
    /\ LockHoldRow(t)
    /\ verdict
    /\ Proceed(t, "write")
    /\ UNCHANGED <<tables, seatLock, bookingLock, sweep, clock>>

\* The same lock, and a 404, a 409 or a no-op: nothing is written.
RejectHold(t, op, verdict) ==
    /\ In(t, op, "seats")
    /\ SeatsLocked(t)
    /\ holdLock[tx[t].hold] = NoTx
    /\ ~verdict
    /\ Abort(t)
    /\ UNCHANGED sweep

AcceptConfirm(c) == AcceptHold(c, "confirmHold", CanConfirm(c))
RejectConfirm(c) == RejectHold(c, "confirmHold", CanConfirm(c))
AcceptCancel(c)  == AcceptHold(c, "cancelHold", CanCancel(c))
RejectCancel(c)  == RejectHold(c, "cancelHold", CanCancel(c))
AcceptExpire(w)  == AcceptHold(w, "expireHold", CanExpire(w))
SkipExpire(w)    == RejectHold(w, "expireHold", CanExpire(w))

\* bookings_hold_id_key, booking_seats_live_show_seat_key, markSeatsBooked and
\* markHoldConverted each refuse by throwing.
ConfirmGuard(t) ==
    LET h == tx[t].hold IN
    /\ booking[h] = "none"
    /\ \A g \in Holds : booking[g] = "confirmed" => holdSeats[g] \cap tx[t].want = {}
    /\ \A s \in tx[t].want : seat[s] = "held"
    /\ holdStatus[h] = "active"

\* Mutant of CommitConfirm: markHoldConverted is forgotten.
CommitConfirmOnly(c) ==
    LET h == tx[c].hold IN
    /\ In(c, "confirmHold", "write")
    /\ ConfirmGuard(c)
    /\ booking' = [booking EXCEPT ![h] = "confirmed"]
    /\ seat' = [s \in Seats |-> IF s \in tx[c].want THEN "booked" ELSE seat[s]]
    /\ End(c)
    /\ UNCHANGED <<holdStatus, holdSeats, expiresAt, usedTickets, sweep, clock>>

\* The booking, its seats, its tickets and the converted hold appear together.
CommitConfirm(c) ==
    LET h == tx[c].hold IN
    /\ In(c, "confirmHold", "write")
    /\ ConfirmGuard(c)
    /\ booking' = [booking EXCEPT ![h] = "confirmed"]
    /\ seat' = [s \in Seats |-> IF s \in tx[c].want THEN "booked" ELSE seat[s]]
    /\ holdStatus' = [holdStatus EXCEPT ![h] = "converted"]
    /\ End(c)
    /\ UNCHANGED <<holdSeats, expiresAt, usedTickets, sweep, clock>>

\* markHoldExpired / markHoldCancelled match only an active row.
EndHoldGuard(t) == holdStatus[tx[t].hold] = "active"

\* The hold leaves 'active' and releaseSeatsWithoutLiveHold runs over its seats.
EndHold(t, status) ==
    LET h == tx[t].hold
        released == Releasable(tx[t].want, tx[t].now, {h})
    IN
    /\ EndHoldGuard(t)
    /\ holdStatus' = [holdStatus EXCEPT ![h] = status]
    /\ seat' = [s \in Seats |-> IF s \in released THEN "available" ELSE seat[s]]
    /\ End(t)
    /\ UNCHANGED <<holdSeats, expiresAt, booking, usedTickets, sweep, clock>>

CommitCancel(c) == In(c, "cancelHold", "write") /\ EndHold(c, "cancelled")

CommitExpire(w) == In(w, "expireHold", "write") /\ EndHold(w, "expired")

-----------------------------------------------------------------------------
(* The expiry sweep: an unlocked candidate list, then one transaction each *)

Due == {h \in Holds : holdStatus[h] = "active" /\ Lapsed(h, clock)}

SweepScan(w) ==
    /\ tx[w] = Idle
    /\ sweep[w] = {}
    /\ \E batch \in (SUBSET Due) \ {{}} :
        /\ \/ Cardinality(batch) = SweepBatch
           \/ Cardinality(batch) < SweepBatch /\ batch = Due
        /\ \A h \in batch, g \in Due \ batch : expiresAt[h] <= expiresAt[g]
        /\ sweep' = [sweep EXCEPT ![w] = batch]
    /\ UNCHANGED <<tables, locks, tx, clock>>

BeginExpire(w) ==
    /\ \E h \in sweep[w] :
        /\ \A g \in sweep[w] : expiresAt[h] <= expiresAt[g]
        /\ Begin(w, "expireHold", "seats", TRUE, h, holdSeats[h])
        /\ sweep' = [sweep EXCEPT ![w] = @ \ {h}]
    /\ UNCHANGED <<tables, locks, clock>>

-----------------------------------------------------------------------------
(* Bookings and tickets, serialised on the bookings row                    *)

BeginCancelBooking(c) ==
    /\ \E h \in Holds, mine \in Callers :
        /\ booking[h] # "none"
        /\ Begin(c, "cancelBooking", "booking", mine, h, holdSeats[h])
    /\ UNCHANGED <<tables, locks, sweep, clock>>

CanCancelBooking(t) ==
    LET h == tx[t].hold IN
    tx[t].mine /\ booking[h] = "confirmed" /\ usedTickets[h] = {}

LockBookingForCancellation(c) ==
    /\ In(c, "cancelBooking", "booking")
    /\ LockBookingRow(c)
    /\ CanCancelBooking(c)
    /\ Proceed(c, "seats")
    /\ UNCHANGED <<tables, seatLock, holdLock, sweep, clock>>

RejectCancelBooking(c) ==
    /\ In(c, "cancelBooking", "booking")
    /\ bookingLock[tx[c].hold] = NoTx
    /\ ~CanCancelBooking(c)
    /\ Abort(c)
    /\ UNCHANGED sweep

\* A seat that is not booked is refused with CANCELLATION_CONFLICT, an abort that
\* RollbackClient covers: CancelBookingGuard, proved under GuardsNeverFail, and
\* SeatAgreement say it is never needed.
SeatsAreBooked(t) == tx[t].want # {} /\ \A s \in tx[t].want : seat[s] = "booked"

AcceptCancelBooking(c) ==
    /\ In(c, "cancelBooking", "seats")
    /\ SeatsLocked(c)
    /\ SeatsAreBooked(c)
    /\ Proceed(c, "write")
    /\ UNCHANGED <<tables, locks, sweep, clock>>

\* markBookingCancelled and releaseBookedSeats refuse by throwing.
CancelBookingGuard(t) ==
    /\ booking[tx[t].hold] = "confirmed"
    /\ \A s \in tx[t].want : seat[s] = "booked"

\* Mutant of CommitCancelBooking: releaseBookedSeats is forgotten.
CommitCancelBookingOnly(c) ==
    /\ In(c, "cancelBooking", "write")
    /\ CancelBookingGuard(c)
    /\ booking' = [booking EXCEPT ![tx[c].hold] = "cancelled"]
    /\ End(c)
    /\ UNCHANGED <<seat, holdStatus, holdSeats, expiresAt, usedTickets, sweep, clock>>

\* The hold stays converted; only the booking and its seats move.
CommitCancelBooking(c) ==
    /\ In(c, "cancelBooking", "write")
    /\ CancelBookingGuard(c)
    /\ booking' = [booking EXCEPT ![tx[c].hold] = "cancelled"]
    /\ seat' = [s \in Seats |-> IF s \in tx[c].want THEN "available" ELSE seat[s]]
    /\ End(c)
    /\ UNCHANGED <<holdStatus, holdSeats, expiresAt, usedTickets, sweep, clock>>

\* findTicketBookingId: the ticket of one seat of a booking, read unlocked.
BeginVerifyTicket(c) ==
    /\ \E h \in Holds, mine \in Callers :
        /\ booking[h] # "none"
        /\ \E s \in holdSeats[h] : Begin(c, "verifyTicket", "booking", mine, h, {s})
    /\ UNCHANGED <<tables, locks, sweep, clock>>

CanVerify(t) == tx[t].mine /\ booking[tx[t].hold] = "confirmed"

LockBookingForTickets(c) ==
    /\ In(c, "verifyTicket", "booking")
    /\ LockBookingRow(c)
    /\ CanVerify(c)
    /\ Proceed(c, "write")
    /\ UNCHANGED <<tables, seatLock, holdLock, sweep, clock>>

RejectVerify(c) ==
    /\ In(c, "verifyTicket", "booking")
    /\ bookingLock[tx[c].hold] = NoTx
    /\ ~CanVerify(c)
    /\ Abort(c)
    /\ UNCHANGED sweep

\* markTicketUsed matches only an issued ticket; zero rows is a 409.
TicketUsed(t) == tx[t].want \subseteq usedTickets[tx[t].hold]

RejectUsedTicket(c) ==
    /\ In(c, "verifyTicket", "write")
    /\ TicketUsed(c)
    /\ Abort(c)
    /\ UNCHANGED sweep

CommitVerify(c) ==
    LET h == tx[c].hold IN
    /\ In(c, "verifyTicket", "write")
    /\ ~TicketUsed(c)
    /\ usedTickets' = [usedTickets EXCEPT ![h] = @ \cup tx[c].want]
    /\ End(c)
    /\ UNCHANGED <<seat, holdStatus, holdSeats, expiresAt, booking, sweep, clock>>

-----------------------------------------------------------------------------

Tick == clock < MaxClock /\ clock' = clock + 1 /\ UNCHANGED <<tables, locks, tx, sweep>>

ClientStep(c) ==
    \/ BeginCreateHold(c) \/ LockLapsedHold(c)
    \/ AcceptCreateHold(c) \/ RejectCreateHold(c) \/ CommitCreateHold(c)
    \/ BeginHoldRequest(c)
    \/ AcceptConfirm(c) \/ RejectConfirm(c) \/ CommitConfirm(c)
    \/ AcceptCancel(c) \/ RejectCancel(c) \/ CommitCancel(c)
    \/ BeginCancelBooking(c) \/ LockBookingForCancellation(c)
    \/ RejectCancelBooking(c) \/ AcceptCancelBooking(c) \/ CommitCancelBooking(c)
    \/ BeginVerifyTicket(c) \/ LockBookingForTickets(c)
    \/ RejectVerify(c) \/ RejectUsedTicket(c) \/ CommitVerify(c)
    \/ LockSeat(c) \/ RollbackClient(c)

WorkerStep(w) ==
    \/ SweepScan(w) \/ BeginExpire(w)
    \/ AcceptExpire(w) \/ SkipExpire(w) \/ CommitExpire(w)
    \/ LockSeat(w) \/ RollbackWorker(w)

Next ==
    \/ Tick
    \/ \E c \in Clients : ClientStep(c)
    \/ \E w \in Workers : WorkerStep(w)

Spec == Init /\ [][Next]_vars

-----------------------------------------------------------------------------
(* Safety                                                                  *)

Claims(h) == holdStatus[h] = "active" \/ booking[h] = "confirmed"

\* No seat is claimed twice: two active holds, two confirmed bookings, or a hold
\* and a booking never share a seat (lockEventSeats, "a double-sold seat").
ExclusiveClaims ==
    \A g, h \in Holds :
        g # h /\ Claims(g) /\ Claims(h) => holdSeats[g] \cap holdSeats[h] = {}

\* show_seats.status agrees with the claims: every seat of an active hold reads
\* 'held', and exactly the seats of confirmed bookings read 'booked'.
SeatAgreement ==
    /\ \A h \in Holds : holdStatus[h] = "active" => \A s \in holdSeats[h] : seat[s] = "held"
    /\ \A s \in Seats :
        seat[s] = "booked" <=> \E h \in Holds : booking[h] = "confirmed" /\ s \in holdSeats[h]

\* What a transaction checked under its locks still holds when it writes: none of
\* the count checks and constraints the handlers call unreachable ever throws.
GuardsNeverFail ==
    \A t \in Tx : tx[t].pc = "write" =>
        CASE tx[t].op = "createHold"    -> HoldGuard(t)
          [] tx[t].op = "confirmHold"   -> ConfirmGuard(t)
          [] tx[t].op = "cancelBooking" -> CancelBookingGuard(t)
          [] tx[t].op \in {"cancelHold", "expireHold"} -> EndHoldGuard(t)
          [] tx[t].op = "verifyTicket"  -> booking[tx[t].hold] = "confirmed"

\* A booking someone was admitted on is never cancelled (hasUsedTickets under the
\* bookings lock that verifyTicketInTransaction takes first).
NoRefundAfterEntry ==
    \A h \in Holds : booking[h] = "cancelled" => usedTickets[h] = {}

\* t is queued behind a row lock of u.
WaitsFor(t, u) ==
    /\ t # u
    /\ \/ /\ tx[t].pc = "booking"
          /\ bookingLock[tx[t].hold] = u
       \/ /\ tx[t].pc = "seats"
          /\ \E s \in Seats : NextSeat(t, s) /\ seatLock[s] = u
       \/ /\ tx[t].pc = "seats" /\ SeatsLocked(t)
          /\ tx[t].op \in {"confirmHold", "cancelHold", "expireHold"}
          /\ holdLock[tx[t].hold] = u
       \/ /\ In(t, "createHold", "seats") /\ SeatsLocked(t)
          /\ \E h \in LapsedHolds(t) :
               /\ holdLock[h] = u
               /\ \A g \in LapsedHolds(t) : holdLock[g] # t => h <= g

\* No set of transactions wait for each other in a circle: bookings, then seats by
\* id, then holds by id is an order every handler keeps.
NoDeadlock ==
    \A S \in (SUBSET Tx) \ {{}} : \E t \in S : \A u \in S : ~WaitsFor(t, u)

\* A hold is taken from its owner only after its time is really up, although the
\* decision is made on a transaction-start timestamp.
ExpiryNeverEarly ==
    [][\A h \in Holds : holdStatus[h] = "active" /\ holdStatus'[h] = "expired"
                            => expiresAt[h] <= clock]_vars

-----------------------------------------------------------------------------
(* The inductive invariant behind the safety properties                    *)

HoldOps == {"confirmHold", "cancelHold", "expireHold"}

\* What a transaction was asked to do refers to rows that exist and do not move.
AsksFor(t) ==
    /\ tx[t].op = "none" => tx[t].pc = "idle"
    /\ tx[t].now <= clock
    /\ tx[t].op = "createHold" =>
        /\ tx[t].pc \in {"seats", "write"}
        /\ tx[t].hold \in Holds /\ holdStatus[tx[t].hold] = "none"
        /\ tx[t].want # {}
    /\ tx[t].op \in HoldOps =>
        /\ tx[t].pc \in {"seats", "write"}
        /\ tx[t].hold \in Holds /\ holdStatus[tx[t].hold] # "none"
        /\ tx[t].want = holdSeats[tx[t].hold]
    /\ tx[t].op = "cancelBooking" =>
        /\ tx[t].pc # "idle"
        /\ tx[t].hold \in Holds /\ booking[tx[t].hold] # "none"
        /\ tx[t].want = holdSeats[tx[t].hold]
    /\ tx[t].op = "verifyTicket" =>
        /\ tx[t].pc \in {"booking", "write"}
        /\ tx[t].hold \in Holds /\ booking[tx[t].hold] # "none"
        /\ tx[t].want \subseteq holdSeats[tx[t].hold]

\* Which locks a transaction is known to have.
HasLocks(t) ==
    /\ tx[t].pc = "write" /\ tx[t].op # "verifyTicket" =>
        tx[t].want \subseteq Seats /\ SeatsLocked(t)
    /\ tx[t].pc = "write" /\ tx[t].op \in HoldOps => holdLock[tx[t].hold] = t
    /\ \A h \in Holds : holdLock[h] = t =>
        \/ tx[t].op = "createHold" /\ h \in LapsedHolds(t)
        \/ tx[t].op \in HoldOps /\ tx[t].pc = "write" /\ h = tx[t].hold
    /\ \/ tx[t].op = "cancelBooking" /\ tx[t].pc # "booking"
       \/ In(t, "verifyTicket", "write")
       => bookingLock[tx[t].hold] = t

\* What was decided under the locks is still so.
Decided(t) ==
    /\ In(t, "createHold", "write") =>
        /\ LapsedLocked(t)
        /\ \A s \in tx[t].want : seat[s] # "booked" /\ ~LiveHold(s, tx[t].now, {})
    /\ tx[t].pc = "write" /\ tx[t].op \in HoldOps => holdStatus[tx[t].hold] = "active"
    /\ In(t, "expireHold", "write") => Lapsed(tx[t].hold, tx[t].now)
    /\ tx[t].op = "cancelBooking" /\ tx[t].pc # "booking" =>
        booking[tx[t].hold] = "confirmed" /\ usedTickets[tx[t].hold] = {}
    /\ In(t, "verifyTicket", "write") => booking[tx[t].hold] = "confirmed"

TxInv == \A t \in Tx : AsksFor(t) /\ HasLocks(t) /\ Decided(t)

\* Two inserts in flight never share a hold id.
FreshInv ==
    \A t, u \in Tx :
        tx[t].op = "createHold" /\ tx[u].op = "createHold" /\ t # u => tx[t].hold # tx[u].hold

\* A hold is converted exactly when a booking was made from it, and a hold that
\* exists has seats.
RowInv ==
    \A h \in Holds :
        /\ booking[h] # "none" <=> holdStatus[h] = "converted"
        /\ holdStatus[h] # "none" => holdSeats[h] # {}

IInv ==
    /\ TypeOK
    /\ TxInv
    /\ FreshInv
    /\ RowInv
    /\ ExclusiveClaims
    /\ SeatAgreement
    /\ NoRefundAfterEntry

\* A candidate of the sweep is a row that exists: holds are never deleted.
SweepInv == \A w \in Workers : \A h \in sweep[w] : holdStatus[h] # "none"

-----------------------------------------------------------------------------
(* Liveness                                                                *)

\* The steps of a transaction already begun, other than being rolled back.
ClientAdvance(c) ==
    \/ LockSeat(c) \/ LockLapsedHold(c)
    \/ AcceptCreateHold(c) \/ RejectCreateHold(c) \/ CommitCreateHold(c)
    \/ AcceptConfirm(c) \/ RejectConfirm(c) \/ CommitConfirm(c)
    \/ AcceptCancel(c) \/ RejectCancel(c) \/ CommitCancel(c)
    \/ LockBookingForCancellation(c) \/ RejectCancelBooking(c)
    \/ AcceptCancelBooking(c) \/ CommitCancelBooking(c)
    \/ LockBookingForTickets(c) \/ RejectVerify(c)
    \/ RejectUsedTicket(c) \/ CommitVerify(c)

WorkerAdvance(w) == LockSeat(w) \/ AcceptExpire(w) \/ SkipExpire(w) \/ CommitExpire(w)

\* A rollback that is not the no-op answer SkipExpire.
WorkerFails(w) == RollbackWorker(w) /\ ~SkipExpire(w)

\* PostgreSQL serves the queue of a row lock in order, so a transaction whose lock
\* keeps coming free gets it (strong fairness); the sweep loop runs forever (weak
\* fairness); a worker's own database failures are not endless.
Fairness ==
    /\ \A c \in Clients : SF_vars(ClientAdvance(c))
    /\ \A w \in Workers : /\ SF_vars(WorkerAdvance(w))
                          /\ WF_vars(SweepScan(w) \/ BeginExpire(w))
                          /\ <>[][~WorkerFails(w)]_vars

FairSpec == Spec /\ Fairness

\* A hold whose time is up leaves 'active' even if nobody asks for its seats again
\* (sweepExpiredHolds, in batches of LIMIT n, against competing requests).
LapsedHoldsEnd ==
    \A h \in Holds :
        holdStatus[h] = "active" /\ expiresAt[h] <= clock ~> holdStatus[h] # "active"

\* No transaction waits for ever on the locks of others.
TransactionsEnd == \A t \in Tx : tx[t] # Idle ~> tx[t] = Idle

-----------------------------------------------------------------------------
(* Claims of the repository's documentation that the code does not meet    *)

\* "a half-finished purchase can't leave a seat stuck": a seat that reads 'held'
\* with no active hold behind it is eventually sold on or released.
NoSeatStuck ==
    \A s \in Seats :
        seat[s] = "held" /\ (\A h \in Holds : holdStatus[h] = "active" => s \notin holdSeats[h])
            ~> \/ seat[s] # "held"
               \/ \E h \in Holds : holdStatus[h] = "active" /\ s \in holdSeats[h]

\* "read at the moment the lock is granted, so a hold that expired ... while the
\* caller waited is seen in its true state": confirmation goes ahead only if the
\* hold has not lapsed by the time its lock is granted.
ExpirySeenAtLock ==
    [][\A c \in Clients : AcceptConfirm(c) => clock < expiresAt[tx[c].hold]]_vars
=============================================================================
