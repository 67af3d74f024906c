-------------------------- MODULE MCBookingLiveness --------------------------
(***************************************************************************)
(* What must happen in the end to the seats and to the queue for them, on  *)
(* small instances.  The two parts share no variable, so a behaviour moves *)
(* the one it was begun for; a property assumes the fairness of its own    *)
(* part only.                                                              *)
(***************************************************************************)
EXTENDS Integers

CONSTANTS Seats, ForeignSeats, Callers, Holds, Clients, Workers, NoTx, NoHold, TTL, MaxClock,
          SweepBatch,
          QueueSeats, QueueHolds, Entries, Users, NoEntry, NoSeat, NoUser, MaxPairings

VARIABLES part,
          seat, holdStatus, holdSeats, expiresAt, booking, usedTickets,
          seatLock, holdLock, bookingLock, tx, sweep, clock,
          queueSeat, queueHold, queueHoldSeats, lapsed, queueBooking,
          offer, offerEntry, entry, user, ahead, signal, gap,
          pc, tries, candidate, pick, locked, staged

Inventory == INSTANCE SeatInventory

Queue == INSTANCE Waitlist
         WITH Seats <- QueueSeats, Holds <- QueueHolds, seat <- queueSeat,
              holdStatus <- queueHold, holdSeats <- queueHoldSeats, booking <- queueBooking

ASSUME BookingAssumption ==
    /\ Inventory!SeatsAssumption /\ Inventory!CallersAssumption
    /\ Inventory!HoldsAssumption /\ Inventory!TxAssumption /\ Inventory!BoundsAssumption
    /\ Queue!WaitlistAssumption

seatVars  == <<seat, holdStatus, holdSeats, expiresAt, booking, usedTickets,
               seatLock, holdLock, bookingLock, tx, sweep, clock>>
queueVars == <<queueSeat, queueHold, queueHoldSeats, lapsed, queueBooking,
               offer, offerEntry, entry, user, ahead, signal, gap,
               pc, tries, candidate, pick, locked, staged>>

BookingInit == part \in {"seats", "queue"} /\ Inventory!Init /\ Queue!Init

BookingNext ==
    \/ part = "seats" /\ Inventory!Next /\ UNCHANGED <<part, queueVars>>
    \/ part = "queue" /\ Queue!Next /\ UNCHANGED <<part, seatVars>>

BookingSpec == BookingInit /\ [][BookingNext]_<<part, seatVars, queueVars>>

-----------------------------------------------------------------------------
(* Properties                                                              *)

\* sweepExpiredHolds: a hold whose time is up leaves 'active' although nobody asks for its
\* seats again.
LapsedHoldsEnd == part = "seats" /\ Inventory!Fairness => Inventory!LapsedHoldsEnd

\* withTransaction and the order of the row locks: nobody waits for ever for the locks of
\* others.
TransactionsEnd == part = "seats" /\ Inventory!Fairness => Inventory!TransactionsEnd

\* allocateLoop and reconcileLoop: a free seat and a waiting customer do not stay apart,
\* though a signal may be swallowed and a pass may crash.
FreeSeatIsOffered == part = "queue" /\ Queue!Fairness => Queue!FreeSeatIsOffered
=============================================================================
