------------------------- MODULE SeatInventoryProofs -------------------------
(***************************************************************************)
(* Safety of SeatInventory for any sets of seats, holds, connections and   *)
(* workers, any TTL and any clock bound.                                   *)
(***************************************************************************)
EXTENDS SeatRefinement, FiniteSetTheorems, WellFoundedInduction, TLAPS

-----------------------------------------------------------------------------
(* Types                                                                   *)

LEMMA IdleType == Idle \in Transaction
  BY DEF Idle, Transaction, Ops

\* A transaction that ends is idle and has given its locks up.
LEMMA EndType ==
    ASSUME TypeOK, NEW t \in Tx, End(t)
    PROVE  /\ tx' \in [Tx -> Transaction]
           /\ seatLock' \in [Seats -> Tx \cup {NoTx}]
           /\ holdLock' \in [Holds -> Tx \cup {NoTx}]
           /\ bookingLock' \in [Holds -> Tx \cup {NoTx}]
  BY IdleType DEF End, TypeOK

LEMMA AbortType ==
    ASSUME TypeOK, NEW t \in Tx, Abort(t), sweep' \in [Workers -> SUBSET Holds]
    PROVE  TypeOK'
  BY EndType DEF Abort, TypeOK, tables

LEMMA ProceedType ==
    ASSUME TypeOK, NEW t \in Tx, NEW pc \in {"idle", "booking", "seats", "write"},
           Proceed(t, pc)
    PROVE  tx' \in [Tx -> Transaction]
  BY ZenonT(60) DEF Proceed, TypeOK, Transaction

LEMMA LockSeatType ==
    ASSUME TypeOK, NEW t \in Tx, LockSeat(t)
    PROVE  TypeOK'
  BY DEF LockSeat, TypeOK, tables

\* Every client step keeps the types.
LEMMA ClientType ==
    ASSUME TypeOK, TxInv, NEW c \in Clients, ClientStep(c)
    PROVE  TypeOK'
  <1>. c \in Tx
    BY DEF Tx
  <1>. USE BoundsAssumption, CallersAssumption DEF TypeOK, tables, locks
  <1>1. CASE BeginCreateHold(c)
    BY <1>1 DEF BeginCreateHold, Begin, Transaction, Ops
  <1>2. CASE LockLapsedHold(c)
    BY <1>2 DEF LockLapsedHold, LapsedHolds
  <1>3. CASE AcceptCreateHold(c)
    BY <1>3, ProceedType DEF AcceptCreateHold
  <1>4. CASE RejectCreateHold(c)
    BY <1>4, AbortType DEF RejectCreateHold
  <1>5. CASE CommitCreateHold(c)
    <2>1. tx[c].want \subseteq Seats /\ tx[c].hold \in Holds /\ tx[c].now + TTL \in Nat
      BY <1>5 DEF CommitCreateHold, In, TxInv, AsksFor, HasLocks, Transaction
    <2>. QED
      BY <1>5, <2>1, EndType DEF CommitCreateHold, SeatStatus, HoldStatus
  <1>6. CASE BeginHoldRequest(c)
    BY <1>6 DEF BeginHoldRequest, Begin, Transaction, Ops
  <1>7. CASE AcceptConfirm(c) \/ AcceptCancel(c)
    BY <1>7, ProceedType DEF AcceptConfirm, AcceptCancel, AcceptHold, LockHoldRow
  <1>8. CASE RejectConfirm(c) \/ RejectCancel(c)
    BY <1>8, AbortType DEF RejectConfirm, RejectCancel, RejectHold
  <1>9. CASE CommitConfirm(c)
    BY <1>9, EndType DEF CommitConfirm, SeatStatus, HoldStatus, BookingStatus
  <1>10. CASE CommitCancel(c)
    BY <1>10, EndType DEF CommitCancel, EndHold, SeatStatus, HoldStatus
  <1>11. CASE BeginCancelBooking(c)
    BY <1>11 DEF BeginCancelBooking, Begin, Transaction, Ops
  <1>12. CASE LockBookingForCancellation(c)
    BY <1>12, ProceedType DEF LockBookingForCancellation, LockBookingRow
  <1>13. CASE RejectCancelBooking(c) \/ RejectVerify(c) \/ RejectUsedTicket(c)
    BY <1>13, AbortType DEF RejectCancelBooking, RejectVerify, RejectUsedTicket
  <1>14. CASE AcceptCancelBooking(c)
    BY <1>14, ProceedType DEF AcceptCancelBooking
  <1>15. CASE CommitCancelBooking(c)
    BY <1>15, EndType DEF CommitCancelBooking, SeatStatus, BookingStatus
  <1>16. CASE BeginVerifyTicket(c)
    BY <1>16 DEF BeginVerifyTicket, Begin, Transaction, Ops
  <1>17. CASE LockBookingForTickets(c)
    BY <1>17, ProceedType DEF LockBookingForTickets, LockBookingRow
  <1>18. CASE CommitVerify(c)
    <2>1. tx[c].want \subseteq Seats
      BY <1>18 DEF CommitVerify, In, TxInv, AsksFor
    <2>. QED
      BY <1>18, <2>1, EndType DEF CommitVerify
  <1>19. CASE LockSeat(c)
    BY <1>19, LockSeatType
  <1>20. CASE RollbackClient(c)
    BY <1>20, AbortType DEF RollbackClient
  <1>. QED
    BY <1>1, <1>2, <1>3, <1>4, <1>5, <1>6, <1>7, <1>8, <1>9, <1>10, <1>11, <1>12,
       <1>13, <1>14, <1>15, <1>16, <1>17, <1>18, <1>19, <1>20 DEF ClientStep

\* Every worker step keeps the types.
LEMMA WorkerType ==
    ASSUME TypeOK, NEW w \in Workers, WorkerStep(w)
    PROVE  TypeOK'
  <1>. w \in Tx
    BY DEF Tx
  <1>. USE DEF TypeOK, tables, locks
  <1>1. CASE SweepScan(w)
    BY <1>1 DEF SweepScan, Due
  <1>2. CASE BeginExpire(w)
    BY <1>2 DEF BeginExpire, Begin, Transaction, Ops
  <1>3. CASE AcceptExpire(w)
    BY <1>3, ProceedType DEF AcceptExpire, AcceptHold, LockHoldRow
  <1>4. CASE SkipExpire(w)
    BY <1>4, AbortType DEF SkipExpire, RejectHold
  <1>5. CASE CommitExpire(w)
    BY <1>5, EndType DEF CommitExpire, EndHold, SeatStatus, HoldStatus
  <1>6. CASE LockSeat(w)
    BY <1>6, LockSeatType
  <1>7. CASE RollbackWorker(w)
    BY <1>7, AbortType DEF RollbackWorker
  <1>. QED
    BY <1>1, <1>2, <1>3, <1>4, <1>5, <1>6, <1>7 DEF WorkerStep

-----------------------------------------------------------------------------
(* Row locks                                                               *)

\* What End leaves: t is idle and lockless, everyone else keeps what they had.
LEMMA EndFacts ==
    ASSUME TypeOK, NEW t \in Tx, End(t)
    PROVE  /\ tx'[t] = Idle
           /\ \A u \in Tx \ {t} : tx'[u] = tx[u]
           /\ \A s \in Seats : seatLock'[s] # t
           /\ \A h \in Holds : holdLock'[h] # t /\ bookingLock'[h] # t
           /\ \A u \in Tx \ {t} :
                /\ \A s \in Seats : seatLock'[s] = u <=> seatLock[s] = u
                /\ \A h \in Holds : holdLock'[h] = u <=> holdLock[h] = u
                /\ \A h \in Holds : bookingLock'[h] = u <=> bookingLock[h] = u
  BY TxAssumption DEF End, TypeOK, Idle

\* A step of t changes only rows t has locked, or the hold t itself inserts.
WritesUnderLock(t) ==
    /\ \A h \in Holds : holdStatus'[h] # holdStatus[h] =>
        \/ holdLock[h] = t /\ holdStatus'[h] \notin {"none", "active"}
        \/ tx[t].op = "createHold" /\ h = tx[t].hold
    /\ \A h \in Holds : holdSeats'[h] # holdSeats[h] \/ expiresAt'[h] # expiresAt[h] =>
        tx[t].op = "createHold" /\ h = tx[t].hold
    /\ tx[t].op = "createHold" /\ holdStatus'[tx[t].hold] # "none" =>
        \A s \in holdSeats'[tx[t].hold] : seatLock[s] = t
    /\ \A s \in Seats : seat'[s] # seat[s] => seatLock[s] = t
    /\ \A h \in Holds : booking'[h] # booking[h] =>
        booking'[h] # "none" /\ (booking[h] = "none" \/ bookingLock[h] = t)
    /\ \A h \in Holds : usedTickets'[h] # usedTickets[h] => bookingLock[h] = t
    /\ clock' = clock

\* Two-phase locking at work: when t ends after writing only under its locks,
\* what every other transaction asked for, locked and decided still stands.
LEMMA OthersUndisturbed ==
    ASSUME IInv, NEW t \in Tx, End(t), WritesUnderLock(t), TypeOK'
    PROVE  TxInv' /\ FreshInv'
  <1>0. TypeOK /\ TxInv /\ FreshInv
    BY DEF IInv
  <1>1. AsksFor(t)' /\ HasLocks(t)' /\ Decided(t)'
    BY <1>0, EndFacts
       DEF AsksFor, HasLocks, Decided, In, Idle, HoldOps, TypeOK, WritesUnderLock
  <1>2. ASSUME NEW u \in Tx \ {t}
        PROVE  AsksFor(u)' /\ HasLocks(u)' /\ Decided(u)'
    <2>0. /\ AsksFor(u) /\ HasLocks(u) /\ Decided(u) /\ AsksFor(t) /\ HasLocks(t)
          /\ tx'[u] = tx[u] /\ tx[u] \in Transaction
          /\ \A s \in Seats : seatLock'[s] = u <=> seatLock[s] = u
          /\ \A h \in Holds : holdLock'[h] = u <=> holdLock[h] = u
          /\ \A h \in Holds : bookingLock'[h] = u <=> bookingLock[h] = u
      BY <1>0, EndFacts DEF TxInv, TypeOK
    \* An insert of t is not a row u refers to.
    <2>1. ASSUME tx[t].op = "createHold"
          PROVE  /\ tx[t].hold \in Holds /\ holdStatus[tx[t].hold] = "none"
                 /\ booking[tx[t].hold] = "none"
                 /\ tx[u].op # "none" => tx[u].hold # tx[t].hold
      BY <1>0, <2>0, <2>1 DEF AsksFor, FreshInv, RowInv, IInv, Transaction, Ops, HoldOps
    <2>1a. ASSUME NEW h \in Holds, holdLock[h] = t
           PROVE  holdStatus[h] # "none"
      BY <2>0, <2>1a DEF HasLocks, AsksFor, LapsedHolds
    <2>2. AsksFor(u)'
      <3>1. clock' = clock
        BY DEF WritesUnderLock
      <3>2. ASSUME tx[u].op # "none", tx[u].hold \in Holds
            PROVE  /\ holdSeats'[tx[u].hold] = holdSeats[tx[u].hold]
                   /\ holdStatus[tx[u].hold] = "none" <=> holdStatus'[tx[u].hold] = "none"
                   /\ booking[tx[u].hold] # "none" => booking'[tx[u].hold] # "none"
        BY <2>1, <2>1a, <3>2 DEF WritesUnderLock
      <3>. QED
        BY <2>0, <3>1, <3>2 DEF AsksFor, HoldOps
    <2>3. ASSUME NEW h \in Holds, h \in LapsedHolds(u), holdLock[h] = u
          PROVE  h \in LapsedHolds(u)'
      BY <2>0, <2>1, <2>3 DEF LapsedHolds, Lapsed, WritesUnderLock
    <2>4. HasLocks(u)'
      <3>1. tx[u].pc = "write" /\ tx[u].op # "verifyTicket" =>
              tx[u].want \subseteq Seats /\ \A s \in tx[u].want \cap Seats : seatLock'[s] = u
        BY <2>0 DEF HasLocks, SeatsLocked, Targets
      <3>2. tx[u].pc = "write" /\ tx[u].op \in HoldOps => holdLock'[tx[u].hold] = u
        BY <2>0 DEF HasLocks, AsksFor
      <3>3. ASSUME NEW h \in Holds, holdLock'[h] = u
            PROVE  \/ tx[u].op = "createHold" /\ h \in LapsedHolds(u)'
                   \/ tx[u].op \in HoldOps /\ tx[u].pc = "write" /\ h = tx[u].hold
        BY <2>0, <2>3, <3>3 DEF HasLocks
      <3>4. \/ tx[u].op = "cancelBooking" /\ tx[u].pc # "booking"
            \/ tx[u].op = "verifyTicket" /\ tx[u].pc = "write"
            => bookingLock'[tx[u].hold] = u
        BY <2>0 DEF HasLocks, AsksFor, In
      <3>. QED
        BY <2>0, <3>1, <3>2, <3>3, <3>4 DEF HasLocks, SeatsLocked, Targets, In
    <2>5. ASSUME In(u, "createHold", "write")
          PROVE  /\ LapsedLocked(u)'
                 /\ \A s \in tx[u].want : seat'[s] # "booked" /\ ~LiveHold(s, tx[u].now, {})'
      <3>1. tx[u].want \subseteq Seats /\ \A s \in tx[u].want : seatLock[s] = u
        BY <2>0, <2>5 DEF HasLocks, SeatsLocked, Targets, In
      <3>2. ASSUME NEW h \in Holds, NEW s \in tx[u].want,
                   holdStatus'[h] = "active", s \in holdSeats'[h]
            PROVE  /\ holdStatus[h] = "active" /\ s \in holdSeats[h]
                   /\ holdSeats'[h] = holdSeats[h] /\ expiresAt'[h] = expiresAt[h]
        BY <2>1, <3>1, <3>2, TxAssumption DEF WritesUnderLock
      <3>3. LapsedLocked(u)'
        BY <2>0, <2>5, <3>2 DEF Decided, LapsedLocked, LapsedHolds, Lapsed
      <3>4. ASSUME NEW s \in tx[u].want
            PROVE  seat'[s] # "booked" /\ ~LiveHold(s, tx[u].now, {})'
        BY <2>0, <2>5, <3>1, <3>2 DEF Decided, LiveHold, Lapsed, WritesUnderLock
      <3>. QED
        BY <3>3, <3>4
    <2>6. Decided(u)'
      <3>1. tx[u].pc = "write" /\ tx[u].op \in HoldOps => holdStatus'[tx[u].hold] = "active"
        BY <2>0, <2>1 DEF Decided, HasLocks, AsksFor, WritesUnderLock, HoldOps
      <3>2. tx[u].op = "cancelBooking" /\ tx[u].pc # "booking" =>
              booking'[tx[u].hold] = "confirmed" /\ usedTickets'[tx[u].hold] = {}
        BY <2>0 DEF Decided, HasLocks, AsksFor, WritesUnderLock
      <3>3. In(u, "verifyTicket", "write") => booking'[tx[u].hold] = "confirmed"
        BY <2>0 DEF Decided, HasLocks, AsksFor, WritesUnderLock, In
      <3>4. In(u, "expireHold", "write") => Lapsed(tx[u].hold, tx[u].now)'
        BY <2>0, <2>1 DEF Decided, AsksFor, HoldOps, WritesUnderLock, In, Lapsed
      <3>. QED
        BY <2>0, <2>5, <3>1, <3>2, <3>3, <3>4 DEF Decided, In
    <2>. QED
      BY <2>2, <2>4, <2>6
  <1>3. FreshInv'
    BY <1>0, EndFacts DEF FreshInv, Idle
  <1>. QED
    BY <1>1, <1>2, <1>3 DEF TxInv

-----------------------------------------------------------------------------
(* Steps that write no row                                                 *)

\* The parts of the invariant that speak of the tables only.
RowFacts == RowInv /\ ExclusiveClaims /\ SeatAgreement /\ NoRefundAfterEntry

LEMMA TablesStay ==
    ASSUME RowFacts, UNCHANGED tables
    PROVE  RowFacts'
  BY DEF RowFacts, RowInv, ExclusiveClaims, Claims, SeatAgreement, NoRefundAfterEntry, tables

\* A rollback, and every refusal, keeps the invariant.
LEMMA AbortKeeps ==
    ASSUME IInv, NEW t \in Tx, Abort(t), sweep' \in [Workers -> SUBSET Holds]
    PROVE  IInv'
  <1>1. TypeOK'
    BY AbortType DEF IInv
  <1>2. WritesUnderLock(t)
    <2>1. UNCHANGED <<tables, clock>>
      BY DEF Abort
    <2>2. tx[t].op = "createHold" => holdStatus[tx[t].hold] = "none"
      BY DEF IInv, TxInv, AsksFor
    <2>. QED
      BY <2>1, <2>2 DEF WritesUnderLock, tables
  <1>3. TxInv' /\ FreshInv'
    BY <1>1, <1>2, OthersUndisturbed DEF Abort
  <1>4. RowFacts'
    BY TablesStay DEF Abort, IInv, RowFacts
  <1>. QED
    BY <1>1, <1>3, <1>4 DEF IInv, RowFacts

\* t reads and locks; the tables, the clock and the other transactions rest.
MovesAlone(t) ==
    /\ UNCHANGED <<tables, clock>>
    /\ \A u \in Tx \ {t} :
        /\ tx'[u] = tx[u]
        /\ \A s \in Seats : seatLock'[s] = u <=> seatLock[s] = u
        /\ \A h \in Holds : holdLock'[h] = u <=> holdLock[h] = u
        /\ \A h \in Holds : bookingLock'[h] = u <=> bookingLock[h] = u
    /\ tx'[t].op = "createHold" =>
        \/ tx[t].op = "createHold" /\ tx'[t].hold = tx[t].hold
        \/ Fresh(tx'[t].hold)

\* A step that writes no row keeps the invariant if t's own part of it holds.
LEMMA MoveKeeps ==
    ASSUME IInv, TypeOK', NEW t \in Tx, MovesAlone(t),
           AsksFor(t)', HasLocks(t)', Decided(t)'
    PROVE  IInv'
  <1>0. TypeOK /\ TxInv /\ FreshInv /\ RowFacts /\ UNCHANGED <<tables, clock>>
    BY DEF IInv, RowFacts, MovesAlone
  <1>1. ASSUME NEW u \in Tx \ {t}
        PROVE  AsksFor(u)' /\ HasLocks(u)' /\ Decided(u)'
    <2>1. /\ AsksFor(u) /\ HasLocks(u) /\ Decided(u)
          /\ tx'[u] = tx[u]
          /\ \A s \in Seats : seatLock'[s] = u <=> seatLock[s] = u
          /\ \A h \in Holds : holdLock'[h] = u <=> holdLock[h] = u
          /\ \A h \in Holds : bookingLock'[h] = u <=> bookingLock[h] = u
      BY <1>0 DEF TxInv, MovesAlone
    <2>2. AsksFor(u)'
      BY <1>0, <2>1 DEF AsksFor, tables
    <2>3. LapsedHolds(u)' = LapsedHolds(u) /\ LapsedHolds(u) \subseteq Holds
      BY <1>0, <2>1 DEF LapsedHolds, Lapsed, tables
    <2>4. HasLocks(u)'
      <3>1. tx[u].pc = "write" /\ tx[u].op # "verifyTicket" =>
              tx[u].want \subseteq Seats /\ \A s \in tx[u].want \cap Seats : seatLock'[s] = u
        BY <2>1 DEF HasLocks, SeatsLocked, Targets
      <3>2. tx[u].pc = "write" /\ tx[u].op \in HoldOps => holdLock'[tx[u].hold] = u
        BY <2>1 DEF HasLocks, AsksFor
      <3>3. ASSUME NEW h \in Holds, holdLock'[h] = u
            PROVE  \/ tx[u].op = "createHold" /\ h \in LapsedHolds(u)'
                   \/ tx[u].op \in HoldOps /\ tx[u].pc = "write" /\ h = tx[u].hold
        BY <2>1, <2>3, <3>3 DEF HasLocks
      <3>4. \/ tx[u].op = "cancelBooking" /\ tx[u].pc # "booking"
            \/ tx[u].op = "verifyTicket" /\ tx[u].pc = "write"
            => bookingLock'[tx[u].hold] = u
        BY <2>1 DEF HasLocks, AsksFor, In
      <3>. QED
        BY <2>1, <3>1, <3>2, <3>3, <3>4 DEF HasLocks, SeatsLocked, Targets, In
    <2>5. Decided(u)'
      BY <1>0, <2>1, <2>3 DEF Decided, In, LapsedLocked, LiveHold, Lapsed, tables
    <2>. QED
      BY <2>2, <2>4, <2>5
  <1>2. FreshInv'
    BY <1>0 DEF FreshInv, MovesAlone, Fresh
  <1>3. RowFacts'
    BY <1>0, TablesStay
  <1>. QED
    BY <1>1, <1>2, <1>3 DEF IInv, RowFacts, TxInv

\* BEGIN: an idle transaction has no lock, and asks about rows that exist.
LEMMA BeginKeeps ==
    ASSUME IInv, TypeOK', NEW t \in Tx, NEW op, NEW pc, NEW mine, NEW h \in Holds, NEW want,
           Begin(t, op, pc, mine, h, want),
           UNCHANGED <<tables, locks, clock>>,
           \/ op = "createHold" /\ pc = "seats" /\ want # {} /\ Fresh(h)
           \/ /\ op \in HoldOps /\ pc = "seats"
              /\ holdStatus[h] # "none" /\ want = holdSeats[h]
           \/ /\ op = "cancelBooking" /\ pc = "booking"
              /\ booking[h] # "none" /\ want = holdSeats[h]
           \/ /\ op = "verifyTicket" /\ pc = "booking"
              /\ booking[h] # "none" /\ want \subseteq holdSeats[h]
    PROVE  IInv'
  <1>0. TypeOK /\ TxInv
    BY DEF IInv
  <1>1. /\ tx'[t] = [op |-> op, pc |-> pc, now |-> clock, mine |-> mine,
                     hold |-> h, want |-> want]
        /\ \A u \in Tx \ {t} : tx'[u] = tx[u]
    BY <1>0 DEF Begin, TypeOK
  <1>2. MovesAlone(t)
    BY <1>1 DEF MovesAlone, tables, locks, HoldOps
  <1>3. \A g \in Holds : holdLock[g] # t
    BY <1>0 DEF Begin, TxInv, HasLocks, Idle, HoldOps
  <1>4. AsksFor(t)'
    BY <1>0, <1>1 DEF AsksFor, HoldOps, tables, Fresh, TypeOK
  <1>5. HasLocks(t)'
    BY <1>1, <1>3 DEF HasLocks, In, HoldOps, locks
  <1>6. Decided(t)'
    BY <1>1 DEF Decided, In, HoldOps
  <1>. QED
    BY <1>2, <1>4, <1>5, <1>6, MoveKeeps

\* A seat lock is granted only when free, so nobody loses one.
LEMMA LockSeatKeeps ==
    ASSUME IInv, NEW t \in Tx, LockSeat(t)
    PROVE  IInv'
  <1>0. TypeOK /\ TxInv /\ TypeOK'
    BY LockSeatType DEF IInv
  <1>1. /\ UNCHANGED <<tables, holdLock, bookingLock, tx, clock>>
        /\ tx[t].pc = "seats"
        /\ \A s \in Seats : seatLock[s] = t => seatLock'[s] = t
    BY <1>0 DEF LockSeat, TypeOK
  <1>2. \A u \in Tx \ {t}, s \in Seats : seatLock'[s] = u <=> seatLock[s] = u
    BY <1>0, TxAssumption DEF LockSeat, TypeOK
  <1>3. MovesAlone(t)
    BY <1>1, <1>2 DEF MovesAlone
  <1>4. AsksFor(t)' /\ HasLocks(t)' /\ Decided(t)'
    BY <1>0, <1>1
       DEF TxInv, AsksFor, HasLocks, Decided, In, LapsedHolds, Lapsed, tables
  <1>. QED
    BY <1>0, <1>3, <1>4, MoveKeeps

\* createHold locks a hold only because it lapsed on a seat it asked for.
LEMMA LockLapsedHoldKeeps ==
    ASSUME IInv, TypeOK', NEW t \in Tx, LockLapsedHold(t)
    PROVE  IInv'
  <1>0. TypeOK /\ TxInv
    BY DEF IInv
  <1>1. /\ UNCHANGED <<tables, seatLock, bookingLock, tx, clock>>
        /\ tx[t].op = "createHold" /\ tx[t].pc = "seats"
    BY DEF LockLapsedHold, In
  <1>2. PICK h \in LapsedHolds(t) :
          holdLock[h] = NoTx /\ holdLock' = [holdLock EXCEPT ![h] = t]
    BY DEF LockLapsedHold
  <1>3. h \in Holds
    BY <1>2 DEF LapsedHolds
  <1>4. \A u \in Tx \ {t}, g \in Holds : holdLock'[g] = u <=> holdLock[g] = u
    BY <1>0, <1>2, <1>3, TxAssumption DEF TypeOK
  <1>5. MovesAlone(t)
    BY <1>1, <1>4 DEF MovesAlone
  <1>6. LapsedHolds(t)' = LapsedHolds(t)
    BY <1>1 DEF LapsedHolds, Lapsed, tables
  <1>7. AsksFor(t)' /\ Decided(t)'
    BY <1>0, <1>1 DEF TxInv, AsksFor, Decided, In, HoldOps, tables
  <1>8. HasLocks(t)'
    BY <1>0, <1>1, <1>2, <1>3, <1>6 DEF TypeOK, TxInv, HasLocks, In, HoldOps
  <1>. QED
    BY <1>5, <1>7, <1>8, MoveKeeps

\* createHold accepts: every seat is locked and free of bookings and live holds.
LEMMA AcceptCreateHoldKeeps ==
    ASSUME IInv, TypeOK', NEW t \in Tx, AcceptCreateHold(t)
    PROVE  IInv'
  <1>0. TypeOK /\ TxInv
    BY DEF IInv
  <1>1. /\ UNCHANGED <<tables, locks, clock>>
        /\ tx[t].op = "createHold"
        /\ tx'[t] = [tx[t] EXCEPT !.pc = "write"]
        /\ \A u \in Tx \ {t} : tx'[u] = tx[u]
    BY <1>0 DEF AcceptCreateHold, In, Proceed, TypeOK
  <1>2. tx'[t].op = tx[t].op /\ tx'[t].hold = tx[t].hold /\ tx'[t].want = tx[t].want
        /\ tx'[t].now = tx[t].now /\ tx'[t].pc = "write"
    BY <1>0, <1>1 DEF TypeOK, Transaction
  <1>3. MovesAlone(t)
    BY <1>1, <1>2 DEF MovesAlone, locks
  <1>4. LapsedHolds(t)' = LapsedHolds(t)
    BY <1>1, <1>2 DEF LapsedHolds, Lapsed, tables
  <1>5. AsksFor(t)'
    BY <1>0, <1>1, <1>2 DEF TxInv, AsksFor, HoldOps, tables
  <1>6. HasLocks(t)'
    BY <1>0, <1>1, <1>2, <1>4
       DEF AcceptCreateHold, TxInv, HasLocks, In, HoldOps, SeatsLocked, Targets, locks
  <1>7. Decided(t)'
    <2>1. \A s \in tx[t].want : seat[s] # "booked" /\ ~LiveHold(s, tx[t].now, {})
      BY DEF AcceptCreateHold, Available, Releasable
    <2>2. \A s \in tx[t].want : LiveHold(s, tx[t].now, {})' <=> LiveHold(s, tx[t].now, {})
      BY <1>1, <1>2 DEF LiveHold, Lapsed, tables
    <2>3. LapsedLocked(t)'
      BY <1>1, <1>4 DEF AcceptCreateHold, LapsedLocked, locks
    <2>4. \A s \in tx[t].want : seat'[s] # "booked" /\ ~LiveHold(s, tx[t].now, {})'
      BY <1>1, <2>1, <2>2 DEF tables
    <2>. QED
      BY <1>1, <1>2, <2>3, <2>4 DEF Decided, In, HoldOps
  <1>. QED
    BY <1>3, <1>5, <1>6, <1>7, MoveKeeps

\* The hold's lock is granted after the seats', and the verdict reads it active.
LEMMA AcceptHoldKeeps ==
    ASSUME IInv, TypeOK', NEW t \in Tx, NEW op \in HoldOps, NEW verdict,
           AcceptHold(t, op, verdict), verdict => holdStatus[tx[t].hold] = "active",
           verdict /\ op = "expireHold" => Lapsed(tx[t].hold, tx[t].now)
    PROVE  IInv'
  <1>0. TypeOK /\ TxInv
    BY DEF IInv
  <1>1. /\ UNCHANGED <<tables, seatLock, bookingLock, clock>>
        /\ tx[t].op = op /\ op \in HoldOps /\ tx[t].pc = "seats"
        /\ tx'[t] = [tx[t] EXCEPT !.pc = "write"]
        /\ \A u \in Tx \ {t} : tx'[u] = tx[u]
    BY <1>0 DEF AcceptHold, In, Proceed, TypeOK
  <1>2. /\ tx'[t].op = tx[t].op /\ tx'[t].hold = tx[t].hold /\ tx'[t].want = tx[t].want
        /\ tx'[t].now = tx[t].now /\ tx'[t].pc = "write"
    BY <1>0, <1>1 DEF TypeOK, Transaction
  <1>3. tx[t].hold \in Holds /\ tx[t].want = holdSeats[tx[t].hold]
    BY <1>0, <1>1 DEF TxInv, AsksFor
  <1>4. /\ holdLock[tx[t].hold] = NoTx
        /\ holdLock' = [holdLock EXCEPT ![tx[t].hold] = t]
    BY DEF AcceptHold, LockHoldRow
  <1>5. \A u \in Tx \ {t}, g \in Holds : holdLock'[g] = u <=> holdLock[g] = u
    BY <1>0, <1>3, <1>4, TxAssumption DEF TypeOK
  <1>6. MovesAlone(t)
    BY <1>1, <1>2, <1>5 DEF MovesAlone, HoldOps
  <1>7. AsksFor(t)'
    BY <1>0, <1>1, <1>2 DEF TxInv, AsksFor, HoldOps, tables
  <1>8. HasLocks(t)'
    <2>1. \A g \in Holds : holdLock[g] # t
      BY <1>0, <1>1 DEF TxInv, HasLocks, HoldOps
    <2>2. tx[t].want \subseteq Seats /\ SeatsLocked(t)
      BY <1>0, <1>3 DEF AcceptHold, TypeOK
    <2>3. \A g \in Holds : holdLock'[g] = t <=> g = tx[t].hold
      BY <1>0, <1>3, <1>4, <2>1 DEF TypeOK
    <2>. QED
      BY <1>1, <1>2, <1>3, <2>2, <2>3 DEF HasLocks, In, HoldOps, SeatsLocked, Targets
  <1>9. Decided(t)'
    BY <1>1, <1>2 DEF AcceptHold, Decided, In, HoldOps, Lapsed, tables
  <1>. QED
    BY <1>6, <1>7, <1>8, <1>9, MoveKeeps

\* The booking's lock is granted when free and the booking is read under it.
LEMMA LockBookingKeeps ==
    ASSUME IInv, TypeOK', NEW t \in Tx,
           LockBookingForCancellation(t) \/ LockBookingForTickets(t)
    PROVE  IInv'
  <1>0. TypeOK /\ TxInv
    BY DEF IInv
  <1>1. /\ UNCHANGED <<tables, seatLock, holdLock, clock>>
        /\ tx[t].op \in {"cancelBooking", "verifyTicket"} /\ tx[t].pc = "booking"
        /\ booking[tx[t].hold] = "confirmed"
        /\ bookingLock[tx[t].hold] = NoTx
        /\ bookingLock' = [bookingLock EXCEPT ![tx[t].hold] = t]
    BY DEF LockBookingForCancellation, LockBookingForTickets, In, LockBookingRow,
           CanCancelBooking, CanVerify
  <1>2. /\ \A u \in Tx \ {t} : tx'[u] = tx[u]
        /\ tx'[t].op = tx[t].op /\ tx'[t].hold = tx[t].hold /\ tx'[t].want = tx[t].want
        /\ tx'[t].now = tx[t].now
        /\ tx'[t].pc = IF tx[t].op = "cancelBooking" THEN "seats" ELSE "write"
        /\ tx[t].op = "cancelBooking" => usedTickets[tx[t].hold] = {}
    BY <1>0 DEF LockBookingForCancellation, LockBookingForTickets, In, Proceed, TypeOK,
                Transaction, CanCancelBooking
  <1>3. tx[t].hold \in Holds
    BY <1>0, <1>1 DEF TxInv, AsksFor
  <1>4. \A u \in Tx \ {t}, g \in Holds : bookingLock'[g] = u <=> bookingLock[g] = u
    BY <1>0, <1>1, <1>3, TxAssumption DEF TypeOK
  <1>5. MovesAlone(t)
    BY <1>1, <1>2, <1>4 DEF MovesAlone
  <1>6. AsksFor(t)'
    BY <1>0, <1>1, <1>2 DEF TxInv, AsksFor, HoldOps, tables
  <1>7. HasLocks(t)'
    <2>1. \A g \in Holds : holdLock'[g] # t
      BY <1>0, <1>1 DEF TxInv, HasLocks, HoldOps
    <2>2. bookingLock'[tx[t].hold] = t
      BY <1>0, <1>1, <1>3 DEF TypeOK
    <2>. QED
      BY <1>1, <1>2, <2>1, <2>2 DEF HasLocks, In, HoldOps
  <1>8. Decided(t)'
    BY <1>1, <1>2 DEF Decided, In, HoldOps, tables
  <1>. QED
    BY <1>5, <1>6, <1>7, <1>8, MoveKeeps

LEMMA AcceptCancelBookingKeeps ==
    ASSUME IInv, TypeOK', NEW t \in Tx, AcceptCancelBooking(t)
    PROVE  IInv'
  <1>0. TypeOK /\ TxInv
    BY DEF IInv
  <1>1. /\ UNCHANGED <<tables, locks, clock>>
        /\ tx[t].op = "cancelBooking" /\ tx[t].pc = "seats"
        /\ \A u \in Tx \ {t} : tx'[u] = tx[u]
        /\ tx'[t].op = tx[t].op /\ tx'[t].hold = tx[t].hold /\ tx'[t].want = tx[t].want
        /\ tx'[t].now = tx[t].now /\ tx'[t].pc = "write"
    BY <1>0 DEF AcceptCancelBooking, In, Proceed, TypeOK, Transaction
  <1>2. MovesAlone(t)
    BY <1>1 DEF MovesAlone, locks
  <1>3. AsksFor(t)'
    BY <1>0, <1>1 DEF TxInv, AsksFor, HoldOps, tables
  <1>4. tx[t].want \subseteq Seats
    BY <1>0, <1>1 DEF TxInv, AsksFor, TypeOK
  <1>5. HasLocks(t)'
    BY <1>0, <1>1, <1>4
       DEF AcceptCancelBooking, TxInv, HasLocks, In, HoldOps, SeatsLocked, Targets, locks
  <1>6. Decided(t)'
    BY <1>0, <1>1 DEF TxInv, Decided, In, HoldOps, tables
  <1>. QED
    BY <1>2, <1>3, <1>5, <1>6, MoveKeeps

\* Only the clock or a worker's candidate list moves.
LEMMA IdleStepKeeps ==
    ASSUME IInv, TypeOK', UNCHANGED <<tables, locks, tx>>, clock' = clock \/ clock' = clock + 1
    PROVE  IInv'
  <1>0. TypeOK /\ TxInv /\ FreshInv /\ RowFacts /\ clock \in Nat
    BY DEF IInv, RowFacts, TypeOK
  <1>1. ASSUME NEW t \in Tx
        PROVE  AsksFor(t)' /\ HasLocks(t)' /\ Decided(t)'
    <2>1. tx[t].now <= clock'
      BY <1>0 DEF TxInv, AsksFor, TypeOK, Transaction
    <2>2. AsksFor(t)'
      BY <1>0, <2>1 DEF TxInv, AsksFor, tables
    <2>3. HasLocks(t)'
      BY <1>0 DEF TxInv, HasLocks, SeatsLocked, Targets, In, LapsedHolds, Lapsed, tables, locks
    <2>4. Decided(t)'
      BY <1>0 DEF TxInv, Decided, In, LapsedLocked, LapsedHolds, LiveHold, Lapsed, tables, locks
    <2>. QED
      BY <2>2, <2>3, <2>4
  <1>2. FreshInv'
    BY <1>0 DEF FreshInv
  <1>3. RowFacts'
    BY <1>0, TablesStay
  <1>. QED
    BY <1>1, <1>2, <1>3 DEF IInv, RowFacts, TxInv

-----------------------------------------------------------------------------
(* Commits                                                                 *)

\* A new hold shares no seat with a surviving claim: an active hold on one of its
\* seats had lapsed, so its row was locked and is expired by the same commit, and
\* a booked seat was refused when the seats were read.
LEMMA CreateHoldFacts ==
    ASSUME IInv, NEW t \in Tx, CommitCreateHold(t),
           NEW h, h = tx[t].hold, NEW S, S = tx[t].want
    PROVE  /\ h \in Holds /\ holdStatus[h] = "none" /\ booking[h] = "none"
           /\ S \subseteq Seats /\ S # {} /\ \A s \in S : seatLock[s] = t
           /\ \A s \in S : seat[s] # "booked"
           /\ \A g \in Holds : holdLock[g] = t =>
                holdStatus[g] = "active" /\ booking[g] = "none" /\ g # h
           /\ \A g \in Holds : holdStatus'[g] = IF g = h THEN "active"
                                               ELSE IF holdLock[g] = t THEN "expired"
                                               ELSE holdStatus[g]
           /\ \A g \in Holds : holdSeats'[g] = IF g = h THEN S ELSE holdSeats[g]
           /\ \A g \in Holds : g # h => expiresAt'[g] = expiresAt[g]
           /\ \A s \in Seats : seat'[s] = IF s \in S THEN "held" ELSE seat[s]
           /\ UNCHANGED <<booking, usedTickets, clock>>
           /\ \A g \in Holds : g # h /\ Claims(g)' => Claims(g) /\ holdSeats[g] \cap S = {}
  <1>0. TypeOK /\ TxInv /\ RowInv /\ SeatAgreement
    BY DEF IInv
  <1>1. /\ h \in Holds /\ holdStatus[h] = "none" /\ booking[h] = "none"
        /\ S \subseteq Seats /\ S # {} /\ \A s \in S : seatLock[s] = t
        /\ LapsedLocked(t)
        /\ \A s \in S : seat[s] # "booked" /\ ~LiveHold(s, tx[t].now, {})
        /\ \A g \in Holds : holdLock[g] = t => g \in LapsedHolds(t)
    BY <1>0 DEF CommitCreateHold, TxInv, AsksFor, HasLocks, Decided, In, RowInv,
                SeatsLocked, Targets, HoldOps
  <1>2. /\ \A g \in Holds : holdStatus'[g] = IF g = h THEN "active"
                                            ELSE IF holdLock[g] = t THEN "expired"
                                            ELSE holdStatus[g]
        /\ \A g \in Holds : holdSeats'[g] = IF g = h THEN S ELSE holdSeats[g]
        /\ \A g \in Holds : g # h => expiresAt'[g] = expiresAt[g]
        /\ \A s \in Seats : seat'[s] = IF s \in S THEN "held" ELSE seat[s]
        /\ UNCHANGED <<booking, usedTickets, clock>>
    BY <1>0, <1>1 DEF CommitCreateHold, TypeOK
  <1>3. ASSUME NEW g \in Holds, holdLock[g] = t
        PROVE  holdStatus[g] = "active" /\ booking[g] = "none" /\ g # h
    BY <1>0, <1>1, <1>3 DEF LapsedHolds, RowInv, TypeOK, BookingStatus
  <1>4. ASSUME NEW g \in Holds, g # h, Claims(g)'
        PROVE  Claims(g) /\ holdSeats[g] \cap S = {}
    <2>1. ASSUME holdStatus'[g] = "active", NEW s \in S, s \in holdSeats[g]
          PROVE  FALSE
      <3>1. holdStatus[g] = "active" /\ holdLock[g] # t
        BY <1>2, <1>4, <2>1
      <3>2. ~Lapsed(g, tx[t].now)
        BY <1>1, <2>1, <3>1 DEF LapsedLocked, LapsedHolds
      <3>. QED
        BY <1>1, <2>1, <3>1, <3>2 DEF LiveHold
    <2>2. ASSUME booking[g] = "confirmed", NEW s \in S, s \in holdSeats[g]
          PROVE  FALSE
      BY <1>0, <1>1, <2>2 DEF SeatAgreement
    <2>. QED
      BY <1>2, <1>4, <2>1, <2>2 DEF Claims
  <1>5. \A g \in Holds : holdLock[g] = t =>
          holdStatus[g] = "active" /\ booking[g] = "none" /\ g # h
    BY <1>3
  <1>6. \A g \in Holds : g # h /\ Claims(g)' => Claims(g) /\ holdSeats[g] \cap S = {}
    BY <1>4, Zenon
  <1>. QED
    BY <1>1, <1>2, <1>5, <1>6, Zenon

LEMMA CommitCreateHoldKeeps ==
    ASSUME IInv, TypeOK', NEW t \in Tx, CommitCreateHold(t)
    PROVE  IInv'
  <1> DEFINE h == tx[t].hold
             S == tx[t].want
  <1>0. TypeOK /\ RowInv /\ ExclusiveClaims /\ SeatAgreement /\ NoRefundAfterEntry
    BY DEF IInv
  <1>1. /\ h \in Holds /\ holdStatus[h] = "none" /\ booking[h] = "none"
        /\ S \subseteq Seats /\ S # {} /\ \A s \in S : seatLock[s] = t
        /\ \A s \in S : seat[s] # "booked"
    BY CreateHoldFacts
  <1>1a. tx[t].op = "createHold"
    BY DEF CommitCreateHold, In
  <1>2. /\ \A g \in Holds : holdStatus'[g] = IF g = h THEN "active"
                                            ELSE IF holdLock[g] = t THEN "expired"
                                            ELSE holdStatus[g]
        /\ \A g \in Holds : holdSeats'[g] = IF g = h THEN S ELSE holdSeats[g]
        /\ \A g \in Holds : g # h => expiresAt'[g] = expiresAt[g]
        /\ \A s \in Seats : seat'[s] = IF s \in S THEN "held" ELSE seat[s]
        /\ UNCHANGED <<booking, usedTickets, clock>>
    BY CreateHoldFacts
  <1>3. /\ \A g \in Holds : holdLock[g] = t =>
              holdStatus[g] = "active" /\ booking[g] = "none" /\ g # h
        /\ \A g \in Holds : g # h /\ Claims(g)' => Claims(g) /\ holdSeats[g] \cap S = {}
    BY CreateHoldFacts
  <1>4. WritesUnderLock(t)
    BY <1>1, <1>1a, <1>2 DEF WritesUnderLock
  <1>5. TxInv' /\ FreshInv'
    BY <1>4, OthersUndisturbed DEF CommitCreateHold
  <1>6. RowInv'
    BY <1>0, <1>1, <1>2, <1>3 DEF RowInv
  <1>7. ExclusiveClaims'
    BY <1>0, <1>2, <1>3 DEF ExclusiveClaims
  <1>8. SeatAgreement'
    <2>1. ASSUME NEW g \in Holds, holdStatus'[g] = "active", NEW s \in holdSeats'[g]
          PROVE  seat'[s] = "held"
      <3>1. CASE g = h
        BY <1>1, <1>2, <2>1, <3>1
      <3>2. CASE g # h
        BY <1>0, <1>2, <1>3, <2>1, <3>2 DEF Claims, SeatAgreement, TypeOK
      <3>. QED
        BY <3>1, <3>2
    <2>2. ASSUME NEW s \in Seats
          PROVE  seat'[s] = "booked" <=>
                   \E g \in Holds : booking'[g] = "confirmed" /\ s \in holdSeats'[g]
      BY <1>0, <1>1, <1>2, <1>3 DEF SeatAgreement, Claims
    <2>. QED
      BY <2>1, <2>2 DEF SeatAgreement
  <1>9. NoRefundAfterEntry'
    BY <1>0, <1>2 DEF NoRefundAfterEntry
  <1>. QED
    BY <1>5, <1>6, <1>7, <1>8, <1>9 DEF IInv

\* The claim passes from the hold to its booking; no other claim is near.
LEMMA CommitConfirmKeeps ==
    ASSUME IInv, TypeOK', NEW t \in Tx, CommitConfirm(t)
    PROVE  IInv'
  <1> DEFINE h == tx[t].hold
             S == tx[t].want
  <1>0. TypeOK /\ TxInv /\ RowInv /\ ExclusiveClaims /\ SeatAgreement /\ NoRefundAfterEntry
    BY DEF IInv
  <1>1. /\ tx[t].op = "confirmHold" /\ tx[t].pc = "write"
        /\ h \in Holds /\ holdStatus[h] = "active" /\ booking[h] = "none"
        /\ S \subseteq Seats /\ S = holdSeats[h] /\ \A s \in S : seatLock[s] = t
        /\ holdLock[h] = t
    BY <1>0 DEF CommitConfirm, ConfirmGuard, TxInv, AsksFor, HasLocks, Decided, In,
                SeatsLocked, Targets, HoldOps
  <1>2. /\ \A g \in Holds : holdStatus'[g] = IF g = h THEN "converted" ELSE holdStatus[g]
        /\ \A g \in Holds : booking'[g] = IF g = h THEN "confirmed" ELSE booking[g]
        /\ \A s \in Seats : seat'[s] = IF s \in S THEN "booked" ELSE seat[s]
        /\ UNCHANGED <<holdSeats, expiresAt, usedTickets, clock>>
    BY <1>0, <1>1 DEF CommitConfirm, TypeOK
  <1>3. WritesUnderLock(t)
    BY <1>1, <1>2 DEF WritesUnderLock
  <1>4. TxInv' /\ FreshInv'
    BY <1>3, OthersUndisturbed DEF CommitConfirm
  <1>5. RowInv'
    BY <1>0, <1>1, <1>2 DEF RowInv
  <1>6. \A g \in Holds : Claims(g)' => Claims(g)
    BY <1>1, <1>2 DEF Claims
  <1>7. ExclusiveClaims'
    BY <1>0, <1>2, <1>6 DEF ExclusiveClaims
  <1>8. \A g \in Holds : g # h /\ Claims(g) => holdSeats[g] \cap S = {}
    BY <1>0, <1>1 DEF ExclusiveClaims, Claims
  <1>9. SeatAgreement'
    <2>1. ASSUME NEW g \in Holds, holdStatus'[g] = "active", NEW s \in holdSeats'[g]
          PROVE  seat'[s] = "held"
      BY <1>0, <1>2, <1>8, <2>1 DEF Claims, SeatAgreement, TypeOK
    <2>2. ASSUME NEW s \in Seats
          PROVE  seat'[s] = "booked" <=>
                   \E g \in Holds : booking'[g] = "confirmed" /\ s \in holdSeats'[g]
      BY <1>0, <1>1, <1>2 DEF SeatAgreement
    <2>. QED
      BY <2>1, <2>2 DEF SeatAgreement
  <1>10. NoRefundAfterEntry'
    BY <1>0, <1>2 DEF NoRefundAfterEntry
  <1>. QED
    BY <1>4, <1>5, <1>7, <1>9, <1>10 DEF IInv

\* Cancellation and expiry give up one claim and release only its own held seats.
LEMMA EndHoldKeeps ==
    ASSUME IInv, TypeOK', NEW t \in Tx, NEW status \in {"expired", "cancelled"},
           tx[t].op \in HoldOps, tx[t].pc = "write", EndHold(t, status)
    PROVE  IInv'
  <1> DEFINE h == tx[t].hold
             S == tx[t].want
  <1>0. TypeOK /\ TxInv /\ RowInv /\ ExclusiveClaims /\ SeatAgreement /\ NoRefundAfterEntry
    BY DEF IInv
  <1>1. /\ h \in Holds /\ holdStatus[h] = "active" /\ holdLock[h] = t
        /\ S \subseteq Seats /\ S = holdSeats[h] /\ \A s \in S : seatLock[s] = t
        /\ tx[t].op # "createHold"
    BY <1>0 DEF TxInv, AsksFor, HasLocks, Decided, SeatsLocked, Targets, HoldOps
  <1>2. /\ \A g \in Holds : holdStatus'[g] = IF g = h THEN status ELSE holdStatus[g]
        /\ \A s \in Seats : seat'[s] # seat[s] =>
              s \in S /\ seat[s] = "held" /\ seat'[s] = "available"
        /\ UNCHANGED <<booking, holdSeats, expiresAt, usedTickets, clock>>
    BY <1>0, <1>1 DEF EndHold, Releasable, TypeOK
  <1>3. WritesUnderLock(t)
    BY <1>1, <1>2 DEF WritesUnderLock
  <1>4. TxInv' /\ FreshInv'
    BY <1>3, OthersUndisturbed DEF EndHold
  <1>5. RowInv'
    BY <1>0, <1>1, <1>2 DEF RowInv
  <1>6. \A g \in Holds : Claims(g)' => Claims(g)
    BY <1>1, <1>2 DEF Claims
  <1>7. ExclusiveClaims'
    BY <1>0, <1>2, <1>6 DEF ExclusiveClaims
  <1>8. SeatAgreement'
    <2>1. ASSUME NEW g \in Holds, holdStatus'[g] = "active", NEW s \in holdSeats'[g]
          PROVE  seat'[s] = "held"
      <3>1. g # h /\ holdStatus[g] = "active" /\ s \in holdSeats[g] /\ s \in Seats
        BY <1>0, <1>2, <2>1 DEF TypeOK
      <3>2. s \notin S
        BY <1>0, <1>1, <3>1 DEF ExclusiveClaims, Claims
      <3>. QED
        BY <1>0, <1>2, <3>1, <3>2 DEF SeatAgreement
    <2>2. ASSUME NEW s \in Seats
          PROVE  seat'[s] = "booked" <=>
                   \E g \in Holds : booking'[g] = "confirmed" /\ s \in holdSeats'[g]
      BY <1>0, <1>2 DEF SeatAgreement
    <2>. QED
      BY <2>1, <2>2 DEF SeatAgreement
  <1>9. NoRefundAfterEntry'
    BY <1>0, <1>2 DEF NoRefundAfterEntry
  <1>. QED
    BY <1>4, <1>5, <1>7, <1>8, <1>9 DEF IInv

\* The booking lock has kept every scanner out since the used tickets were counted.
LEMMA CommitCancelBookingKeeps ==
    ASSUME IInv, TypeOK', NEW t \in Tx, CommitCancelBooking(t)
    PROVE  IInv'
  <1> DEFINE h == tx[t].hold
             S == tx[t].want
  <1>0. TypeOK /\ TxInv /\ RowInv /\ ExclusiveClaims /\ SeatAgreement /\ NoRefundAfterEntry
    BY DEF IInv
  <1>1. /\ tx[t].op = "cancelBooking" /\ tx[t].pc = "write"
        /\ h \in Holds /\ booking[h] = "confirmed" /\ usedTickets[h] = {}
        /\ holdStatus[h] = "converted" /\ bookingLock[h] = t
        /\ S \subseteq Seats /\ S = holdSeats[h] /\ \A s \in S : seatLock[s] = t
    BY <1>0 DEF CommitCancelBooking, TxInv, AsksFor, HasLocks, Decided, In, RowInv,
                SeatsLocked, Targets
  <1>2. /\ \A g \in Holds : booking'[g] = IF g = h THEN "cancelled" ELSE booking[g]
        /\ \A s \in Seats : seat'[s] = IF s \in S THEN "available" ELSE seat[s]
        /\ UNCHANGED <<holdStatus, holdSeats, expiresAt, usedTickets, clock>>
    BY <1>0, <1>1 DEF CommitCancelBooking, TypeOK
  <1>3. WritesUnderLock(t)
    BY <1>1, <1>2 DEF WritesUnderLock
  <1>4. TxInv' /\ FreshInv'
    BY <1>3, OthersUndisturbed DEF CommitCancelBooking
  <1>5. RowInv'
    BY <1>0, <1>1, <1>2 DEF RowInv
  <1>6. \A g \in Holds : Claims(g)' => Claims(g) /\ g # h
    BY <1>1, <1>2 DEF Claims
  <1>7. ExclusiveClaims'
    BY <1>0, <1>2, <1>6 DEF ExclusiveClaims
  <1>8. \A g \in Holds : g # h /\ Claims(g) => holdSeats[g] \cap S = {}
    BY <1>0, <1>1 DEF ExclusiveClaims, Claims
  <1>9. SeatAgreement'
    <2>1. ASSUME NEW g \in Holds, holdStatus'[g] = "active", NEW s \in holdSeats'[g]
          PROVE  seat'[s] = "held"
      BY <1>0, <1>1, <1>2, <1>8, <2>1 DEF Claims, SeatAgreement, TypeOK
    <2>2. ASSUME NEW s \in Seats
          PROVE  seat'[s] = "booked" <=>
                   \E g \in Holds : booking'[g] = "confirmed" /\ s \in holdSeats'[g]
      BY <1>0, <1>1, <1>2, <1>8 DEF SeatAgreement, Claims
    <2>. QED
      BY <2>1, <2>2 DEF SeatAgreement
  <1>10. NoRefundAfterEntry'
    BY <1>0, <1>1, <1>2 DEF NoRefundAfterEntry
  <1>. QED
    BY <1>4, <1>5, <1>7, <1>9, <1>10 DEF IInv

LEMMA CommitVerifyKeeps ==
    ASSUME IInv, TypeOK', NEW t \in Tx, CommitVerify(t)
    PROVE  IInv'
  <1> DEFINE h == tx[t].hold
  <1>0. TypeOK /\ TxInv /\ RowInv /\ ExclusiveClaims /\ SeatAgreement /\ NoRefundAfterEntry
    BY DEF IInv
  <1>1. /\ tx[t].op = "verifyTicket"
        /\ h \in Holds /\ booking[h] = "confirmed" /\ bookingLock[h] = t
    BY <1>0 DEF CommitVerify, TxInv, AsksFor, HasLocks, Decided, In
  <1>2. /\ \A g \in Holds : g # h => usedTickets'[g] = usedTickets[g]
        /\ UNCHANGED <<seat, holdStatus, holdSeats, expiresAt, booking, clock>>
    BY <1>0, <1>1 DEF CommitVerify, TypeOK
  <1>3. WritesUnderLock(t)
    BY <1>1, <1>2 DEF WritesUnderLock
  <1>4. TxInv' /\ FreshInv'
    BY <1>3, OthersUndisturbed DEF CommitVerify
  <1>5. RowInv' /\ ExclusiveClaims' /\ SeatAgreement'
    BY <1>0, <1>2 DEF RowInv, ExclusiveClaims, Claims, SeatAgreement
  <1>6. NoRefundAfterEntry'
    BY <1>0, <1>1, <1>2 DEF NoRefundAfterEntry
  <1>. QED
    BY <1>4, <1>5, <1>6 DEF IInv

-----------------------------------------------------------------------------
(* The theorems                                                            *)

LEMMA InitIInv == Init => IInv
  <1> SUFFICES ASSUME Init PROVE IInv
    OBVIOUS
  <1>1. TypeOK
    BY IdleType DEF Init, TypeOK, SeatStatus, HoldStatus, BookingStatus
  <1>2. TxInv
    BY TxAssumption DEF Init, TxInv, AsksFor, HasLocks, Decided, In, Idle, HoldOps
  <1>. QED
    BY <1>1, <1>2 DEF Init, IInv, FreshInv, RowInv, ExclusiveClaims, Claims, SeatAgreement,
       NoRefundAfterEntry, Idle

\* Every client step keeps the invariant.
LEMMA ClientKeeps ==
    ASSUME IInv, NEW c \in Clients, ClientStep(c)
    PROVE  IInv'
  <1>0. /\ c \in Tx /\ TypeOK' /\ sweep' \in [Workers -> SUBSET Holds]
        /\ TypeOK /\ TxInv
    BY ClientType DEF Tx, IInv, TypeOK
  <1>1. CASE BeginCreateHold(c)
    BY <1>0, <1>1, BeginKeeps DEF BeginCreateHold
  <1>2. CASE LockLapsedHold(c)
    BY <1>0, <1>2, LockLapsedHoldKeeps
  <1>3. CASE AcceptCreateHold(c)
    BY <1>0, <1>3, AcceptCreateHoldKeeps
  <1>4. CASE RejectCreateHold(c) \/ RejectConfirm(c) \/ RejectCancel(c)
    BY <1>0, <1>4, AbortKeeps DEF RejectCreateHold, RejectConfirm, RejectCancel, RejectHold
  <1>5. CASE CommitCreateHold(c)
    BY <1>0, <1>5, CommitCreateHoldKeeps
  <1>6. CASE BeginHoldRequest(c)
    BY <1>0, <1>6, BeginKeeps DEF BeginHoldRequest, HoldOps
  <1>7. CASE AcceptConfirm(c)
    BY <1>0, <1>7, AcceptHoldKeeps DEF AcceptConfirm, CanConfirm, HoldOps
  <1>8. CASE AcceptCancel(c)
    BY <1>0, <1>8, AcceptHoldKeeps DEF AcceptCancel, CanCancel, HoldOps
  <1>9. CASE CommitConfirm(c)
    BY <1>0, <1>9, CommitConfirmKeeps
  <1>10. CASE CommitCancel(c)
    BY <1>0, <1>10, EndHoldKeeps DEF CommitCancel, In, HoldOps
  <1>11. CASE BeginCancelBooking(c)
    BY <1>0, <1>11, BeginKeeps DEF BeginCancelBooking
  <1>12. CASE LockBookingForCancellation(c) \/ LockBookingForTickets(c)
    BY <1>0, <1>12, LockBookingKeeps
  <1>13. CASE RejectCancelBooking(c) \/ RejectVerify(c) \/ RejectUsedTicket(c)
    BY <1>0, <1>13, AbortKeeps DEF RejectCancelBooking, RejectVerify, RejectUsedTicket
  <1>14. CASE AcceptCancelBooking(c)
    BY <1>0, <1>14, AcceptCancelBookingKeeps
  <1>15. CASE CommitCancelBooking(c)
    BY <1>0, <1>15, CommitCancelBookingKeeps
  <1>16. CASE BeginVerifyTicket(c)
    BY <1>0, <1>16, BeginKeeps DEF BeginVerifyTicket
  <1>17. CASE CommitVerify(c)
    BY <1>0, <1>17, CommitVerifyKeeps
  <1>18. CASE LockSeat(c)
    BY <1>0, <1>18, LockSeatKeeps
  <1>19. CASE RollbackClient(c)
    BY <1>0, <1>19, AbortKeeps DEF RollbackClient
  <1>. QED
    BY <1>1, <1>2, <1>3, <1>4, <1>5, <1>6, <1>7, <1>8, <1>9, <1>10, <1>11, <1>12,
       <1>13, <1>14, <1>15, <1>16, <1>17, <1>18, <1>19 DEF ClientStep

\* Every worker step keeps the invariant.
LEMMA WorkerKeeps ==
    ASSUME IInv, SweepInv, NEW w \in Workers, WorkerStep(w)
    PROVE  IInv'
  <1>0. /\ w \in Tx /\ TypeOK' /\ sweep' \in [Workers -> SUBSET Holds]
        /\ TypeOK /\ TxInv
    BY WorkerType DEF Tx, IInv, TypeOK
  <1>1. CASE SweepScan(w)
    BY <1>0, <1>1, IdleStepKeeps DEF SweepScan
  <1>2. CASE BeginExpire(w)
    <2>1. PICK h \in sweep[w] : Begin(w, "expireHold", "seats", TRUE, h, holdSeats[h])
      BY <1>2 DEF BeginExpire
    <2>2. h \in Holds /\ UNCHANGED <<tables, locks, clock>>
      BY <1>0, <1>2, <2>1 DEF BeginExpire, TypeOK
    <2>3. holdStatus[h] # "none"
      BY <2>1 DEF SweepInv
    <2>. QED
      BY <1>0, <2>1, <2>2, <2>3, BeginKeeps DEF HoldOps
  <1>3. CASE AcceptExpire(w)
    BY <1>0, <1>3, AcceptHoldKeeps DEF AcceptExpire, CanExpire, HoldOps
  <1>4. CASE SkipExpire(w)
    BY <1>0, <1>4, AbortKeeps DEF SkipExpire, RejectHold
  <1>5. CASE CommitExpire(w)
    BY <1>0, <1>5, EndHoldKeeps DEF CommitExpire, In, HoldOps
  <1>6. CASE LockSeat(w)
    BY <1>0, <1>6, LockSeatKeeps
  <1>7. CASE RollbackWorker(w)
    BY <1>0, <1>7, AbortKeeps DEF RollbackWorker
  <1>. QED
    BY <1>1, <1>2, <1>3, <1>4, <1>5, <1>6, <1>7 DEF WorkerStep

\* A hold row, once inserted, stays.
LEMMA HoldsStay ==
    ASSUME IInv, Next
    PROVE  \A h \in Holds : holdStatus[h] # "none" => holdStatus'[h] # "none"
  <1>0. TypeOK
    BY DEF IInv
  <1>1. ASSUME NEW t \in Tx, NEW status \in {"expired", "cancelled"}, EndHold(t, status)
        PROVE  \A h \in Holds : holdStatus[h] # "none" => holdStatus'[h] # "none"
    BY <1>0, <1>1 DEF EndHold, TypeOK
  <1>2. ASSUME NEW c \in Clients, ClientStep(c)
        PROVE  \A h \in Holds : holdStatus[h] # "none" => holdStatus'[h] # "none"
    <2>1. CASE CommitCreateHold(c)
      BY <2>1 DEF CommitCreateHold
    <2>2. CASE CommitConfirm(c)
      BY <1>0, <2>2 DEF CommitConfirm, TypeOK
    <2>3. CASE CommitCancel(c)
      BY <1>1, <2>3 DEF CommitCancel, Tx
    <2>4. CASE CommitCancelBooking(c) \/ CommitVerify(c)
      BY <2>4 DEF CommitCancelBooking, CommitVerify
    <2>. QED
      BY <1>2, <2>1, <2>2, <2>3, <2>4
         DEF ClientStep, BeginCreateHold, LockLapsedHold, AcceptCreateHold, RejectCreateHold,
             BeginHoldRequest, AcceptConfirm, RejectConfirm, AcceptCancel, RejectCancel,
             AcceptHold, RejectHold, BeginCancelBooking, LockBookingForCancellation,
             RejectCancelBooking, AcceptCancelBooking, BeginVerifyTicket,
             LockBookingForTickets, RejectVerify, RejectUsedTicket, LockSeat,
             RollbackClient, Abort, tables
  <1>3. ASSUME NEW w \in Workers, WorkerStep(w)
        PROVE  \A h \in Holds : holdStatus[h] # "none" => holdStatus'[h] # "none"
    <2>1. CASE CommitExpire(w)
      BY <1>1, <2>1 DEF CommitExpire, Tx
    <2>. QED
      BY <1>3, <2>1 DEF WorkerStep, SweepScan, BeginExpire, AcceptExpire, SkipExpire,
         AcceptHold, RejectHold, LockSeat, RollbackWorker, Abort, tables
  <1>. QED
    BY <1>2, <1>3 DEF Next, Tick, tables

\* A sweep takes up only holds it has just read as active.
LEMMA SweepShrinks ==
    ASSUME TypeOK, Next
    PROVE  \A w \in Workers : sweep'[w] \subseteq sweep[w] \cup Due
  <1>1. ASSUME NEW c \in Clients, ClientStep(c)
        PROVE  sweep' = sweep
    BY <1>1 DEF ClientStep, BeginCreateHold, LockLapsedHold, AcceptCreateHold, RejectCreateHold,
       CommitCreateHold, BeginHoldRequest, AcceptConfirm, RejectConfirm, CommitConfirm,
       AcceptCancel, RejectCancel, CommitCancel, EndHold, AcceptHold, RejectHold,
       BeginCancelBooking, LockBookingForCancellation, RejectCancelBooking,
       AcceptCancelBooking, CommitCancelBooking, BeginVerifyTicket, LockBookingForTickets,
       RejectVerify, RejectUsedTicket, CommitVerify, LockSeat, RollbackClient
  <1>2. ASSUME NEW w \in Workers, WorkerStep(w)
        PROVE  \A v \in Workers : sweep'[v] \subseteq sweep[v] \cup Due
    <2>1. CASE SweepScan(w)
      BY <2>1 DEF SweepScan, TypeOK
    <2>2. CASE BeginExpire(w)
      BY <2>2 DEF BeginExpire, TypeOK
    <2>3. CASE RollbackWorker(w)
      BY <2>3 DEF RollbackWorker, TypeOK
    <2>. QED
      BY <1>2, <2>1, <2>2, <2>3
         DEF WorkerStep, AcceptExpire, SkipExpire, CommitExpire, EndHold, AcceptHold,
             RejectHold, LockSeat
  <1>. QED
    BY <1>1, <1>2 DEF Next, Tick

LEMMA NextKeeps ==
    ASSUME IInv, SweepInv, [Next]_vars
    PROVE  IInv' /\ SweepInv'
  <1>0. TypeOK /\ clock \in Nat
    BY DEF IInv, TypeOK
  <1>1. CASE Next
    <2>1. SweepInv'
      BY <1>0, <1>1, HoldsStay, SweepShrinks DEF SweepInv, Due, TypeOK
    <2>2. CASE Tick
      <3>1. TypeOK' /\ UNCHANGED <<tables, locks, tx>> /\ clock' = clock + 1
        BY <1>0, <2>2 DEF Tick, TypeOK, tables, locks
      <3>. QED
        BY <2>1, <3>1, IdleStepKeeps
    <2>. QED
      BY <1>1, <2>1, <2>2, ClientKeeps, WorkerKeeps DEF Next
  <1>2. CASE UNCHANGED vars
    <2>1. TypeOK' /\ SweepInv' /\ UNCHANGED <<tables, locks, tx, clock>>
      BY <1>0, <1>2 DEF vars, tables, locks, TypeOK, SweepInv
    <2>. QED
      BY <2>1, IdleStepKeeps
  <1>. QED
    BY <1>1, <1>2

\* The inductive invariant holds in every reachable state of every instance.
THEOREM Invariance == Spec => [](IInv /\ SweepInv)
  <1>1. Init => IInv /\ SweepInv
    BY InitIInv DEF Init, SweepInv
  <1>2. IInv /\ SweepInv /\ [Next]_vars => (IInv /\ SweepInv)'
    BY NextKeeps
  <1>. QED
    BY <1>1, <1>2, PTL DEF Spec

\* Every reachable state has its types, whatever seats a request names.
THEOREM TypeCorrect == Spec => []TypeOK
  <1>1. IInv => TypeOK
    BY DEF IInv
  <1>. QED
    BY <1>1, Invariance, PTL

\* No seat is ever claimed twice, for any number of seats, holds and connections:
\* what lockEventSeats and the lapsed-hold reclamation of createHold are for.
THEOREM NoDoubleSale == Spec => []ExclusiveClaims
  <1>1. IInv => ExclusiveClaims
    BY DEF IInv
  <1>. QED
    BY <1>1, Invariance, PTL

\* show_seats.status never disagrees with the holds and bookings behind it.
THEOREM StatusAgrees == Spec => []SeatAgreement
  <1>1. IInv => SeatAgreement
    BY DEF IInv
  <1>. QED
    BY <1>1, Invariance, PTL

\* A booking with an admitted ticket is never cancelled.
THEOREM EntryIsFinal == Spec => []NoRefundAfterEntry
  <1>1. IInv => NoRefundAfterEntry
    BY DEF IInv
  <1>. QED
    BY <1>1, Invariance, PTL

\* What was checked under the locks still stands at the write.
LEMMA DecisionsStand ==
    ASSUME IInv, NEW t \in Tx, tx[t].pc = "write"
    PROVE  /\ tx[t].op = "createHold" => HoldGuard(t)
           /\ tx[t].op = "confirmHold" => ConfirmGuard(t)
           /\ tx[t].op = "cancelBooking" => CancelBookingGuard(t)
           /\ tx[t].op \in {"cancelHold", "expireHold"} => EndHoldGuard(t)
           /\ tx[t].op = "verifyTicket" => booking[tx[t].hold] = "confirmed"
           /\ tx[t].op \in Ops \ {"none"}
  <1>0. /\ TypeOK /\ RowInv /\ ExclusiveClaims /\ SeatAgreement
        /\ AsksFor(t) /\ HasLocks(t) /\ Decided(t)
    BY DEF IInv, TxInv
  <1>1. ASSUME tx[t].op = "createHold"
        PROVE  HoldGuard(t)
    <2>1. tx[t].want \subseteq Seats
          /\ \A s \in tx[t].want : seat[s] # "booked" /\ ~LiveHold(s, tx[t].now, {})
      BY <1>0, <1>1 DEF HasLocks, Decided, In
    <2>2. \A s \in tx[t].want : seat[s] \in {"available", "held"}
      BY <1>0, <2>1 DEF TypeOK, SeatStatus
    <2>. QED
      BY <2>1, <2>2 DEF HoldGuard, Releasable
  <1>2. ASSUME tx[t].op = "confirmHold"
        PROVE  ConfirmGuard(t)
    <2>1. /\ tx[t].hold \in Holds /\ tx[t].want = holdSeats[tx[t].hold]
          /\ holdStatus[tx[t].hold] = "active"
      BY <1>0, <1>2 DEF AsksFor, Decided, HoldOps
    <2>2. booking[tx[t].hold] = "none"
      BY <1>0, <2>1 DEF RowInv
    <2>3. \A s \in tx[t].want : seat[s] = "held"
      BY <1>0, <2>1 DEF SeatAgreement
    <2>4. \A g \in Holds : booking[g] = "confirmed" => holdSeats[g] \cap tx[t].want = {}
      BY <1>0, <2>1, <2>2 DEF ExclusiveClaims, Claims
    <2>. QED
      BY <2>1, <2>2, <2>3, <2>4 DEF ConfirmGuard
  <1>3. ASSUME tx[t].op = "cancelBooking"
        PROVE  CancelBookingGuard(t)
    <2>1. /\ tx[t].hold \in Holds /\ tx[t].want = holdSeats[tx[t].hold]
          /\ booking[tx[t].hold] = "confirmed" /\ tx[t].want \subseteq Seats
      BY <1>0, <1>3 DEF AsksFor, Decided, HasLocks
    <2>. QED
      BY <1>0, <2>1 DEF SeatAgreement, CancelBookingGuard
  <1>4. tx[t].op \in {"cancelHold", "expireHold"} => EndHoldGuard(t)
    BY <1>0 DEF Decided, HoldOps, EndHoldGuard
  <1>5. tx[t].op = "verifyTicket" => booking[tx[t].hold] = "confirmed"
    BY <1>0 DEF Decided, In
  <1>6. tx[t].op \in Ops \ {"none"}
    BY <1>0 DEF AsksFor, TypeOK, Transaction
  <1>. QED
    BY <1>1, <1>2, <1>3, <1>4, <1>5, <1>6

\* None of the count checks and constraints the handlers guard their writes with
\* ever fires: what was read under the locks is still so at the write.
THEOREM ChecksSuffice == Spec => []GuardsNeverFail
  <1>1. IInv => GuardsNeverFail
    BY DecisionsStand DEF GuardsNeverFail, Ops
  <1>. QED
    BY <1>1, Invariance, PTL

\* The clock a transaction decides on never runs ahead of the wall clock.
LEMMA ExpiresOnlyLapsed ==
    ASSUME IInv, Next, NEW h \in Holds, holdStatus[h] = "active", holdStatus'[h] = "expired"
    PROVE  Lapsed(h, clock)
  <1>0. TypeOK /\ TxInv /\ clock \in Nat /\ expiresAt[h] \in Nat
    BY DEF IInv, TypeOK
  <1>1. ASSUME NEW t \in Tx, Lapsed(h, tx[t].now)
        PROVE  Lapsed(h, clock)
    <2>1. tx[t].now <= clock /\ tx[t].now \in Nat
      BY <1>0 DEF TxInv, AsksFor, TypeOK, Transaction
    <2>. QED
      BY <1>0, <1>1, <2>1 DEF Lapsed
  <1>2. ASSUME NEW c \in Clients, ClientStep(c)
        PROVE  Lapsed(h, clock)
    <2>0. c \in Tx
      BY DEF Tx
    <2>1. CASE CommitCreateHold(c)
      <3>1. holdLock[h] = c /\ tx[c].op = "createHold"
        BY <2>1 DEF CommitCreateHold, In
      <3>2. h \in LapsedHolds(c)
        BY <1>0, <2>0, <3>1 DEF TxInv, HasLocks, HoldOps
      <3>. QED
        BY <1>1, <2>0, <3>2 DEF LapsedHolds
    <2>2. CASE CommitConfirm(c) \/ CommitCancel(c)
      BY <1>0, <2>2 DEF CommitConfirm, CommitCancel, EndHold, TypeOK
    <2>3. CASE CommitCancelBooking(c) \/ CommitVerify(c)
      BY <2>3 DEF CommitCancelBooking, CommitVerify
    <2>. QED
      BY <1>2, <2>1, <2>2, <2>3
         DEF ClientStep, BeginCreateHold, LockLapsedHold, AcceptCreateHold, RejectCreateHold,
             BeginHoldRequest, AcceptConfirm, RejectConfirm, AcceptCancel, RejectCancel,
             AcceptHold, RejectHold, BeginCancelBooking, LockBookingForCancellation,
             RejectCancelBooking, AcceptCancelBooking, BeginVerifyTicket,
             LockBookingForTickets, RejectVerify, RejectUsedTicket, LockSeat,
             RollbackClient, Abort, tables
  <1>3. ASSUME NEW w \in Workers, WorkerStep(w)
        PROVE  Lapsed(h, clock)
    <2>0. w \in Tx
      BY DEF Tx
    <2>1. CASE CommitExpire(w)
      <3>1. h = tx[w].hold
        BY <1>0, <2>1 DEF CommitExpire, EndHold, TypeOK
      <3>2. Lapsed(h, tx[w].now)
        BY <1>0, <2>0, <2>1, <3>1 DEF CommitExpire, TxInv, Decided
      <3>. QED
        BY <1>1, <2>0, <3>2
    <2>. QED
      BY <1>3, <2>1 DEF WorkerStep, SweepScan, BeginExpire, AcceptExpire, SkipExpire,
         AcceptHold, RejectHold, LockSeat, RollbackWorker, Abort, tables
  <1>. QED
    BY <1>2, <1>3 DEF Next, Tick, tables

\* No hold is expired before its time, however long the transaction waited.
THEOREM NeverEarly == Spec => ExpiryNeverEarly
  <1>1. IInv /\ [Next]_vars =>
          [\A h \in Holds : holdStatus[h] = "active" /\ holdStatus'[h] = "expired"
                               => expiresAt[h] <= clock]_vars
    BY ExpiresOnlyLapsed DEF Lapsed
  <1>. QED
    BY <1>1, Invariance, PTL DEF Spec, ExpiryNeverEarly

-----------------------------------------------------------------------------
(* Every commit is one step of SeatLedger and every other step is invisible *)
(* there.                                                                  *)

Owns(h, s) == Claims(h) /\ s \in holdSeats[h]

\* The owner of a seat is well defined because claims are exclusive.
LEMMA OwnerDefined ==
    ASSUME ExclusiveClaims, NEW s
    PROVE  /\ \A h \in Holds : Owns(h, s) <=> OwnerOf(s) = h
           /\ (\A h \in Holds : ~Owns(h, s)) <=> OwnerOf(s) = NoHold
  <1>1. \A g, h \in Holds : Owns(g, s) /\ Owns(h, s) => g = h
    BY DEF ExclusiveClaims, Owns
  <1>2. CASE \E h \in Holds : Owns(h, s)
    <2>1. OwnerOf(s) \in Holds /\ Owns(OwnerOf(s), s)
      BY <1>2 DEF OwnerOf, Owns
    <2>. QED
      BY <1>1, <2>1, HoldsAssumption
  <1>3. CASE \A h \in Holds : ~Owns(h, s)
    BY <1>3, HoldsAssumption DEF OwnerOf, Owns
  <1>. QED
    BY <1>2, <1>3

LEMMA OwnerDefinedNext ==
    ASSUME ExclusiveClaims', NEW s
    PROVE  /\ \A h \in Holds : Owns(h, s)' <=> OwnerOf(s)' = h
           /\ (\A h \in Holds : ~Owns(h, s)') <=> OwnerOf(s)' = NoHold
  <1>1. \A g, h \in Holds : Owns(g, s)' /\ Owns(h, s)' => g = h
    BY DEF ExclusiveClaims, Owns
  <1>2. CASE \E h \in Holds : Owns(h, s)'
    <2>1. (OwnerOf(s) \in Holds /\ Owns(OwnerOf(s), s))'
      BY <1>2 DEF OwnerOf, Owns
    <2>. QED
      BY <1>1, <2>1, HoldsAssumption
  <1>3. CASE \A h \in Holds : ~Owns(h, s)'
    BY <1>3, HoldsAssumption DEF OwnerOf, Owns
  <1>. QED
    BY <1>2, <1>3

\* createHold reserves its seats and closes the lapsed holds it took over.
LEMMA ReserveStep ==
    ASSUME IInv, IInv', NEW t \in Tx, CommitCreateHold(t)
    PROVE  Ledger!LedgerNext
  <1> DEFINE h == tx[t].hold
             S == tx[t].want
             lapsed == {g \in Holds : holdLock[g] = t}
  <1>0. ExclusiveClaims /\ ExclusiveClaims'
    BY DEF IInv
  <1>1. /\ h \in Holds /\ holdStatus[h] = "none" /\ booking[h] = "none"
        /\ S \subseteq Seats /\ S # {} /\ \A s \in S : seat[s] # "booked"
        /\ \A g \in lapsed : holdStatus[g] = "active" /\ booking[g] = "none" /\ g # h
    BY CreateHoldFacts
  <1>2. /\ \A g \in Holds : holdStatus'[g] = IF g = h THEN "active"
                                            ELSE IF g \in lapsed THEN "expired"
                                            ELSE holdStatus[g]
        /\ \A g \in Holds : holdSeats'[g] = IF g = h THEN S ELSE holdSeats[g]
        /\ booking' = booking
        /\ \A g \in Holds : g # h /\ Claims(g)' => Claims(g) /\ holdSeats[g] \cap S = {}
    BY CreateHoldFacts
  <1>3. /\ StageOf(h) = "fresh"
        /\ \A g \in lapsed : StageOf(g) = "reserved"
        /\ \A g \in Holds : StageOf(g)' = IF g = h THEN "reserved"
                                         ELSE IF g \in lapsed THEN "closed"
                                         ELSE StageOf(g)
    BY <1>1, <1>2 DEF StageOf
  <1>4. ASSUME NEW g \in Holds, NEW s
        PROVE  Owns(g, s)' <=> \/ g = h /\ s \in S
                               \/ g # h /\ g \notin lapsed /\ Owns(g, s)
    BY <1>1, <1>2 DEF Owns, Claims
  <1>5. ASSUME NEW s \in S, NEW g \in Holds, Owns(g, s)
        PROVE  g \in lapsed
    BY <1>1, <1>2, <1>5 DEF Owns, Claims
  <1>6. \A s \in S : OwnerOf(s) = NoHold \/ OwnerOf(s) \in lapsed
    BY <1>0, <1>5, OwnerDefined
  <1>7. ASSUME NEW s \in Seats
        PROVE  OwnerOf(s)' = IF s \in S THEN h
                             ELSE IF OwnerOf(s) \in lapsed THEN NoHold
                             ELSE OwnerOf(s)
    <2>1. CASE s \in S
      BY <1>0, <1>1, <1>4, <2>1, OwnerDefinedNext
    <2>2. CASE s \notin S /\ OwnerOf(s) \in lapsed
      <3>1. \A g \in Holds : ~Owns(g, s)'
        BY <1>0, <1>4, <2>2, OwnerDefined
      <3>. QED
        BY <1>0, <2>2, <3>1, OwnerDefinedNext
    <2>3. CASE s \notin S /\ OwnerOf(s) \notin lapsed
      <3>1. ~Owns(h, s)
        BY <1>1 DEF Owns, Claims
      <3>2. \A g \in Holds : Owns(g, s)' <=> Owns(g, s)
        BY <1>0, <1>4, <2>3, <3>1, OwnerDefined
      <3>. QED
        BY <1>0, <2>3, <3>2, OwnerDefined, OwnerDefinedNext
    <2>. QED
      BY <2>1, <2>2, <2>3
  <1>8. Ledger!Reserve(h, S, lapsed)
    BY <1>1, <1>3, <1>6, <1>7 DEF Ledger!Reserve
  <1>. QED
    BY <1>1, <1>8 DEF Ledger!LedgerNext

\* confirmHold sells what was reserved.
LEMMA SellStep ==
    ASSUME IInv, IInv', NEW t \in Tx, CommitConfirm(t)
    PROVE  Ledger!LedgerNext
  <1> DEFINE h == tx[t].hold
  <1>0. TypeOK /\ ExclusiveClaims /\ ExclusiveClaims'
    BY DEF IInv
  <1>1. h \in Holds /\ holdStatus[h] = "active" /\ booking[h] = "none"
    BY DEF IInv, TxInv, AsksFor, CommitConfirm, ConfirmGuard, In, HoldOps
  <1>2. /\ \A g \in Holds : holdStatus'[g] = IF g = h THEN "converted" ELSE holdStatus[g]
        /\ \A g \in Holds : booking'[g] = IF g = h THEN "confirmed" ELSE booking[g]
        /\ holdSeats' = holdSeats
    BY <1>0, <1>1 DEF CommitConfirm, TypeOK
  <1>3. /\ StageOf(h) = "reserved"
        /\ \A g \in Holds : StageOf(g)' = IF g = h THEN "sold" ELSE StageOf(g)
    BY <1>1, <1>2 DEF StageOf
  <1>4. ASSUME NEW s \in Seats
        PROVE  OwnerOf(s)' = OwnerOf(s)
    <2>1. \A g \in Holds : Owns(g, s)' <=> Owns(g, s)
      BY <1>1, <1>2 DEF Owns, Claims
    <2>. QED
      BY <1>0, <2>1, OwnerDefined, OwnerDefinedNext
  <1>5. Ledger!Sell(h)
    BY <1>1, <1>3, <1>4 DEF Ledger!Sell
  <1>. QED
    BY <1>1, <1>5 DEF Ledger!LedgerNext

\* Cancellation and expiry of a hold, and cancellation of a booking, close a claim.
LEMMA CloseStep ==
    ASSUME IInv, IInv', NEW h \in Holds, Claims(h), ~Claims(h)', holdStatus'[h] # "none",
           \A g \in Holds \ {h} : holdStatus'[g] = holdStatus[g] /\ booking'[g] = booking[g],
           holdSeats' = holdSeats
    PROVE  Ledger!LedgerNext
  <1>0. ExclusiveClaims /\ ExclusiveClaims'
    BY DEF IInv
  <1>1. /\ StageOf(h) \in {"reserved", "sold"}
        /\ \A g \in Holds : StageOf(g)' = IF g = h THEN "closed" ELSE StageOf(g)
    BY DEF StageOf, Claims
  <1>2. ASSUME NEW s \in Seats
        PROVE  OwnerOf(s)' = IF OwnerOf(s) = h THEN NoHold ELSE OwnerOf(s)
    <2>1. \A g \in Holds : Owns(g, s)' <=> g # h /\ Owns(g, s)
      BY DEF Owns, Claims
    <2>2. CASE OwnerOf(s) = h
      <3>1. \A g \in Holds : ~Owns(g, s)'
        BY <1>0, <2>1, <2>2, OwnerDefined
      <3>. QED
        BY <1>0, <2>2, <3>1, OwnerDefinedNext
    <2>3. CASE OwnerOf(s) # h
      <3>1. \A g \in Holds : Owns(g, s)' <=> Owns(g, s)
        BY <1>0, <2>1, <2>3, OwnerDefined
      <3>. QED
        BY <1>0, <2>3, <3>1, OwnerDefined, OwnerDefinedNext
    <2>. QED
      BY <2>2, <2>3
  <1>3. Ledger!Close(h)
    BY <1>1, <1>2 DEF Ledger!Close
  <1>. QED
    BY <1>3 DEF Ledger!LedgerNext

\* A step that moves no hold or booking is invisible in the ledger.
LEMMA InvisibleStep ==
    ASSUME UNCHANGED <<holdStatus, holdSeats, booking>>
    PROVE  UNCHANGED Ledger!ledger
  BY DEF Ledger!ledger, OwnerOf, StageOf, Claims

\* Every step of a client is a ledger step or invisible.
LEMMA ClientSimulates ==
    ASSUME IInv, IInv', NEW c \in Clients, ClientStep(c)
    PROVE  [Ledger!LedgerNext]_(Ledger!ledger)
  <1>0. TypeOK /\ TxInv /\ RowInv /\ c \in Tx
    BY DEF IInv, Tx
  <1>1. CASE CommitCreateHold(c)
    BY <1>0, <1>1, ReserveStep
  <1>2. CASE CommitConfirm(c)
    BY <1>0, <1>2, SellStep
  <1>3. CASE CommitCancel(c)
    <2>0. PICK h \in Holds : h = tx[c].hold
      BY <1>0, <1>3 DEF CommitCancel, In, TxInv, AsksFor, HoldOps
    <2>1. holdStatus[h] = "active" /\ booking[h] = "none"
      BY <1>0, <1>3, <2>0 DEF CommitCancel, In, TxInv, AsksFor, Decided, HoldOps, RowInv
    <2>2. /\ holdStatus'[h] = "cancelled" /\ booking' = booking /\ holdSeats' = holdSeats
          /\ \A g \in Holds \ {h} : holdStatus'[g] = holdStatus[g]
      BY <1>0, <1>3, <2>0, <2>1 DEF CommitCancel, EndHold, TypeOK
    <2>3. Claims(h) /\ ~Claims(h)' /\ holdStatus'[h] # "none"
      BY <2>1, <2>2 DEF Claims
    <2>. QED
      BY <2>1, <2>2, <2>3, CloseStep
  <1>4. CASE CommitCancelBooking(c)
    <2>0. PICK h \in Holds : h = tx[c].hold
      BY <1>0, <1>4 DEF CommitCancelBooking, In, TxInv, AsksFor, HoldOps
    <2>1. booking[h] = "confirmed" /\ holdStatus[h] = "converted"
      BY <1>0, <1>4, <2>0 DEF CommitCancelBooking, In, TxInv, AsksFor, Decided, RowInv
    <2>2. /\ booking'[h] = "cancelled" /\ holdStatus' = holdStatus /\ holdSeats' = holdSeats
          /\ \A g \in Holds \ {h} : booking'[g] = booking[g]
      BY <1>0, <1>4, <2>0, <2>1 DEF CommitCancelBooking, TypeOK
    <2>3. Claims(h) /\ ~Claims(h)' /\ holdStatus'[h] # "none"
      BY <2>1, <2>2 DEF Claims
    <2>. QED
      BY <2>1, <2>2, <2>3, CloseStep
  <1>5. CASE UNCHANGED <<holdStatus, holdSeats, booking>>
    BY <1>5, InvisibleStep
  <1>. QED
    BY <1>1, <1>2, <1>3, <1>4, <1>5
       DEF ClientStep, BeginCreateHold, LockLapsedHold, AcceptCreateHold, RejectCreateHold,
           BeginHoldRequest, AcceptConfirm, RejectConfirm, AcceptCancel, RejectCancel,
           AcceptHold, RejectHold, BeginCancelBooking, LockBookingForCancellation,
           RejectCancelBooking, AcceptCancelBooking, BeginVerifyTicket,
           LockBookingForTickets, RejectVerify, RejectUsedTicket, CommitVerify, LockSeat,
           RollbackClient, Abort, tables

\* So is every step of a worker.
LEMMA WorkerSimulates ==
    ASSUME IInv, IInv', NEW w \in Workers, WorkerStep(w)
    PROVE  [Ledger!LedgerNext]_(Ledger!ledger)
  <1>0. TypeOK /\ TxInv /\ RowInv /\ w \in Tx
    BY DEF IInv, Tx
  <1>1. CASE CommitExpire(w)
    <2>0. PICK h \in Holds : h = tx[w].hold
      BY <1>0, <1>1 DEF CommitExpire, In, TxInv, AsksFor, HoldOps
    <2>1. holdStatus[h] = "active" /\ booking[h] = "none"
      BY <1>0, <1>1, <2>0 DEF CommitExpire, In, TxInv, AsksFor, Decided, HoldOps, RowInv
    <2>2. /\ holdStatus'[h] = "expired" /\ booking' = booking /\ holdSeats' = holdSeats
          /\ \A g \in Holds \ {h} : holdStatus'[g] = holdStatus[g]
      BY <1>0, <1>1, <2>0, <2>1 DEF CommitExpire, EndHold, TypeOK
    <2>3. Claims(h) /\ ~Claims(h)' /\ holdStatus'[h] # "none"
      BY <2>1, <2>2 DEF Claims
    <2>. QED
      BY <2>1, <2>2, <2>3, CloseStep
  <1>2. CASE UNCHANGED <<holdStatus, holdSeats, booking>>
    BY <1>2, InvisibleStep
  <1>. QED
    BY <1>1, <1>2 DEF WorkerStep, SweepScan, BeginExpire, AcceptExpire, SkipExpire,
       AcceptHold, RejectHold, LockSeat, RollbackWorker, Abort, tables

\* The booking engine keeps the ledger's promise for any number of seats, holds,
\* connections and workers: whatever is interleaved, swept, refused or rolled back,
\* every commit is one whole ledger step.
THEOREM Refinement == Spec => ImplementsLedger
  <1>1. Init => Ledger!LedgerInit
    BY DEF Init, Ledger!LedgerInit, OwnerOf, StageOf, Claims
  <1>2. IInv /\ IInv' /\ [Next]_vars => [Ledger!LedgerNext]_(Ledger!ledger)
    <2>1. ASSUME IInv, IInv', Next
          PROVE  [Ledger!LedgerNext]_(Ledger!ledger)
      BY <2>1, ClientSimulates, WorkerSimulates, InvisibleStep DEF Next, Tick, tables
    <2>2. ASSUME UNCHANGED vars
          PROVE  [Ledger!LedgerNext]_(Ledger!ledger)
      BY <2>2, InvisibleStep DEF vars, tables
    <2>. QED
      BY <2>1, <2>2
  <1>. QED
    BY <1>1, <1>2, Invariance, PTL DEF Spec, ImplementsLedger, Ledger!LedgerSpec

-----------------------------------------------------------------------------
(* Lock order                                                              *)

\* A transaction locks seats from the lowest id up, lapsed holds from the lowest id up
\* once it has all its seats, and a booking before anything else.
LockOrder(t) ==
    /\ \A s \in Seats : seatLock[s] = t =>
        /\ tx[t].pc \in {"seats", "write"} /\ s \in Targets(t)
        /\ \A r \in Targets(t) : seatLock[r] # t => s < r
    /\ \A h \in Holds : holdLock[h] = t /\ tx[t].op = "createHold" =>
        /\ SeatsLocked(t) /\ tx[t].want \subseteq Seats
        /\ \A g \in LapsedHolds(t) : holdLock[g] # t => h < g
    /\ \A h \in Holds : bookingLock[h] = t => tx[t].pc \in {"seats", "write"}

OrderInv == \A t \in Tx : LockOrder(t)

\* What t does leaves u as it is, and u's locks with it.
Alone(t) ==
    \A u \in Tx \ {t} :
        /\ tx'[u] = tx[u]
        /\ \A s \in Seats : seatLock'[s] = u <=> seatLock[s] = u
        /\ \A h \in Holds : holdLock'[h] = u <=> holdLock[h] = u
        /\ \A h \in Holds : bookingLock'[h] = u <=> bookingLock[h] = u

\* A hold becomes active only over seats its transaction has locked.
NewHoldsLocked(t) ==
    \A h \in Holds : holdStatus'[h] = "active" =>
        \/ /\ holdStatus[h] = "active" /\ holdSeats'[h] = holdSeats[h]
           /\ expiresAt'[h] = expiresAt[h]
        \/ \A s \in holdSeats'[h] : s \in Seats /\ seatLock[s] = t

\* While u has its seats, no hold on them lapses anew: only t, which has not, could make one.
LEMMA OthersKeepOrder ==
    ASSUME IInv, OrderInv, NEW t \in Tx, Alone(t), NewHoldsLocked(t), NEW u \in Tx \ {t}
    PROVE  LockOrder(u)'
  <1>1. /\ LockOrder(u) /\ tx'[u] = tx[u] /\ Targets(u)' = Targets(u)
        /\ \A s \in Seats : seatLock'[s] = u <=> seatLock[s] = u
        /\ \A h \in Holds : holdLock'[h] = u <=> holdLock[h] = u
        /\ \A h \in Holds : bookingLock'[h] = u <=> bookingLock[h] = u
    BY DEF OrderInv, Alone, Targets
  <1>2. /\ Targets(u) \subseteq Seats /\ LapsedHolds(u) \subseteq Holds
        /\ LapsedHolds(u)' \subseteq Holds
    BY DEF Targets, LapsedHolds
  <1>3. SeatsLocked(u)' <=> SeatsLocked(u)
    BY <1>1, <1>2 DEF SeatsLocked
  <1>4. ASSUME SeatsLocked(u), tx[u].want \subseteq Seats
        PROVE  LapsedHolds(u)' \subseteq LapsedHolds(u)
    <2> SUFFICES ASSUME NEW h \in LapsedHolds(u)' PROVE h \in LapsedHolds(u)
      OBVIOUS
    <2>1. /\ h \in Holds /\ holdStatus'[h] = "active" /\ expiresAt'[h] <= tx[u].now
          /\ holdSeats'[h] \cap tx[u].want # {}
      BY <1>1 DEF LapsedHolds, Lapsed
    <2>2. ~ \A s \in holdSeats'[h] : s \in Seats /\ seatLock[s] = t
      BY <1>4, <2>1 DEF SeatsLocked, Targets
    <2>3. holdStatus[h] = "active" /\ holdSeats'[h] = holdSeats[h] /\ expiresAt'[h] = expiresAt[h]
      BY <2>1, <2>2 DEF NewHoldsLocked
    <2> QED BY <2>1, <2>3 DEF LapsedHolds, Lapsed
  <1> QED BY <1>1, <1>2, <1>3, <1>4 DEF LockOrder

\* Only a commit makes a hold active, and createHold has the seats of its own locked.
LEMMA NewHolds ==
    ASSUME IInv, NEW t \in Tx,
           \/ t \in Clients /\ ClientStep(t)
           \/ t \in Workers /\ WorkerStep(t)
    PROVE  NewHoldsLocked(t)
  <1>0. TypeOK
    BY DEF IInv
  <1>1. CASE CommitCreateHold(t)
    <2>1. \A g \in Holds : /\ holdStatus'[g] = IF g = tx[t].hold THEN "active"
                                              ELSE IF holdLock[g] = t THEN "expired"
                                              ELSE holdStatus[g]
                           /\ holdSeats'[g] = IF g = tx[t].hold THEN tx[t].want ELSE holdSeats[g]
                           /\ g # tx[t].hold => expiresAt'[g] = expiresAt[g]
      BY <1>1, CreateHoldFacts
    <2>2. tx[t].want \subseteq Seats /\ \A s \in tx[t].want : seatLock[s] = t
      BY <1>1, CreateHoldFacts
    <2> QED BY <2>1, <2>2 DEF NewHoldsLocked
  <1>2. CASE CommitConfirm(t)
    BY <1>0, <1>2 DEF CommitConfirm, TypeOK, NewHoldsLocked
  <1>3. ASSUME NEW status \in {"expired", "cancelled"}, EndHold(t, status)
        PROVE  NewHoldsLocked(t)
    BY <1>0, <1>3 DEF EndHold, TypeOK, NewHoldsLocked
  <1>4. CASE UNCHANGED <<holdStatus, holdSeats, expiresAt>>
    BY <1>4 DEF NewHoldsLocked
  <1>5. CASE t \in Clients /\ ClientStep(t)
    BY <1>1, <1>2, <1>3, <1>4, <1>5
    DEF ClientStep, BeginCreateHold, LockLapsedHold, AcceptCreateHold, RejectCreateHold,
        BeginHoldRequest, AcceptConfirm, RejectConfirm, AcceptCancel, RejectCancel, AcceptHold,
        RejectHold, CommitCancel, BeginCancelBooking, LockBookingForCancellation,
        RejectCancelBooking, AcceptCancelBooking, CommitCancelBooking, BeginVerifyTicket,
        LockBookingForTickets, RejectVerify, RejectUsedTicket, CommitVerify, LockSeat,
        RollbackClient, Abort, tables
  <1>6. CASE t \in Workers /\ WorkerStep(t)
    BY <1>1, <1>2, <1>3, <1>4, <1>6
    DEF WorkerStep, SweepScan, BeginExpire, AcceptExpire, SkipExpire, CommitExpire, AcceptHold,
        RejectHold, LockSeat, RollbackWorker, Abort, tables
  <1> QED BY <1>5, <1>6

\* Every step of t leaves the others their locks, and t's in order.
LEMMA EndKeepsOrder ==
    ASSUME IInv, NEW t \in Tx, End(t)
    PROVE  Alone(t) /\ LockOrder(t)'
  <1>1. TypeOK
    BY DEF IInv
  <1>2. Alone(t)
    BY <1>1, EndFacts DEF Alone
  <1>3. LockOrder(t)'
    BY <1>1, EndFacts DEF LockOrder
  <1> QED BY <1>2, <1>3

LEMMA BeginKeepsOrder ==
    ASSUME IInv, OrderInv, NEW t \in Tx, NEW op, NEW pc, NEW mine, NEW h, NEW want,
           Begin(t, op, pc, mine, h, want), UNCHANGED locks
    PROVE  Alone(t) /\ LockOrder(t)'
  <1>1. TypeOK /\ HasLocks(t) /\ LockOrder(t)
    BY DEF IInv, TxInv, OrderInv
  <1>2. tx[t].op = "none" /\ tx[t].pc = "idle"
    BY DEF Begin, Idle
  <1>3. /\ seatLock' = seatLock /\ holdLock' = holdLock /\ bookingLock' = bookingLock
        /\ \A u \in Tx \ {t} : tx'[u] = tx[u]
    BY <1>1 DEF locks, Begin, TypeOK
  <1>4. /\ \A s \in Seats : seatLock[s] # t
        /\ \A g \in Holds : holdLock[g] # t /\ bookingLock[g] # t
    BY <1>1, <1>2 DEF LockOrder, HasLocks, HoldOps
  <1>5. LockOrder(t)'
    BY <1>3, <1>4 DEF LockOrder
  <1> QED BY <1>3, <1>5 DEF Alone

LEMMA LockSeatKeepsOrder ==
    ASSUME IInv, OrderInv, NEW t \in Tx, LockSeat(t)
    PROVE  Alone(t) /\ LockOrder(t)'
  <1>1. TypeOK /\ LockOrder(t)
    BY DEF IInv, OrderInv
  <1>2. PICK s \in Seats : /\ NextSeat(t, s) /\ seatLock[s] = NoTx
                           /\ seatLock' = [seatLock EXCEPT ![s] = t]
    BY DEF LockSeat
  <1>3. tx[t].pc = "seats" /\ UNCHANGED <<tables, holdLock, bookingLock, tx>>
    BY DEF LockSeat
  <1>4. seatLock'[s] = t /\ \A r \in Seats \ {s} : seatLock'[r] = seatLock[r]
    BY <1>1, <1>2 DEF TypeOK
  <1>5. Alone(t)
    BY <1>1, <1>2, <1>3, <1>4, TxAssumption DEF Alone
  <1>6. s \in Targets(t) /\ ~SeatsLocked(t) /\ Targets(t)' = Targets(t) /\ Targets(t) \subseteq Seats
    BY <1>2, <1>3 DEF NextSeat, SeatsLocked, Targets
  <1>7. ASSUME NEW r \in Seats, seatLock'[r] = t, NEW q \in Targets(t), seatLock'[q] # t
        PROVE  r \in Targets(t) /\ r < q
    <2>1. q # s /\ seatLock[q] # t /\ q \in Seats /\ q \in Nat /\ s \in Nat
      BY <1>4, <1>6, <1>7, SeatsAssumption
    <2>2. CASE r = s
      <3>1. s <= q
        BY <1>2, <2>1 DEF NextSeat
      <3> QED BY <1>6, <2>1, <2>2, <3>1
    <2>3. CASE r # s
      BY <1>1, <1>4, <1>7, <2>1, <2>3 DEF LockOrder
    <2> QED BY <2>2, <2>3
  <1>8. ASSUME NEW r \in Seats, seatLock'[r] = t PROVE r \in Targets(t)
    BY <1>1, <1>4, <1>6, <1>8 DEF LockOrder
  <1>9. \A g \in Holds : holdLock[g] = t => tx[t].op # "createHold"
    BY <1>1, <1>6 DEF LockOrder
  <1> QED BY <1>1, <1>3, <1>5, <1>6, <1>7, <1>8, <1>9 DEF LockOrder

LEMMA LockLapsedKeepsOrder ==
    ASSUME IInv, OrderInv, NEW t \in Tx, LockLapsedHold(t)
    PROVE  Alone(t) /\ LockOrder(t)'
  <1>1. TypeOK /\ LockOrder(t)
    BY DEF IInv, OrderInv
  <1>2. PICK h \in LapsedHolds(t) : /\ holdLock[h] = NoTx
                                    /\ \A g \in LapsedHolds(t) : holdLock[g] # t => h <= g
                                    /\ holdLock' = [holdLock EXCEPT ![h] = t]
    BY DEF LockLapsedHold
  <1>3. /\ tx[t].pc = "seats" /\ SeatsLocked(t) /\ tx[t].want \subseteq Seats
        /\ UNCHANGED <<tables, seatLock, bookingLock, tx>>
    BY DEF LockLapsedHold, In
  <1>4. h \in Holds /\ LapsedHolds(t) \subseteq Holds
    BY <1>2 DEF LapsedHolds
  <1>5. holdLock'[h] = t /\ \A g \in Holds \ {h} : holdLock'[g] = holdLock[g]
    BY <1>1, <1>2, <1>4 DEF TypeOK
  <1>6. Alone(t)
    BY <1>2, <1>3, <1>4, <1>5, TxAssumption DEF Alone
  <1>7. LapsedHolds(t)' = LapsedHolds(t) /\ Targets(t)' = Targets(t) /\ SeatsLocked(t)'
    BY <1>3 DEF LapsedHolds, Lapsed, Targets, SeatsLocked, tables
  <1>8. ASSUME NEW g \in Holds, holdLock'[g] = t, NEW f \in LapsedHolds(t), holdLock'[f] # t,
               tx[t].op = "createHold"
        PROVE  g < f
    <2>1. f # h /\ holdLock[f] # t /\ f \in Nat /\ h \in Nat
      BY <1>4, <1>5, <1>8, HoldsAssumption
    <2>2. CASE g = h
      BY <1>2, <2>1, <2>2
    <2>3. CASE g # h
      BY <1>1, <1>5, <1>8, <2>1, <2>3 DEF LockOrder
    <2> QED BY <2>2, <2>3
  <1> QED BY <1>1, <1>3, <1>6, <1>7, <1>8 DEF LockOrder

\* A transaction that goes on, and at most locks the one row it was asked about.
LEMMA ProceedKeepsOrder ==
    ASSUME IInv, OrderInv, NEW t \in Tx, NEW pc \in {"seats", "write"}, Proceed(t, pc),
           UNCHANGED <<tables, seatLock>>,
           \/ UNCHANGED <<holdLock, bookingLock>>
           \/ UNCHANGED bookingLock /\ LockHoldRow(t) /\ tx[t].op \in HoldOps
           \/ UNCHANGED holdLock /\ LockBookingRow(t) /\ tx[t].op \in {"cancelBooking", "verifyTicket"}
    PROVE  Alone(t) /\ LockOrder(t)'
  <1>1. TypeOK /\ LockOrder(t) /\ AsksFor(t)
    BY DEF IInv, OrderInv, TxInv
  <1>2. /\ tx'[t] = [tx[t] EXCEPT !.pc = pc] /\ \A u \in Tx \ {t} : tx'[u] = tx[u]
    BY <1>1 DEF Proceed, TypeOK
  <1>3. tx'[t].pc = pc /\ tx'[t].op = tx[t].op /\ tx'[t].want = tx[t].want /\ tx'[t].now = tx[t].now
    BY <1>1, <1>2 DEF TypeOK, Transaction
  <1>4. /\ \A u \in Tx \ {t} : \A h \in Holds : holdLock'[h] = u <=> holdLock[h] = u
        /\ \A u \in Tx \ {t} : \A h \in Holds : bookingLock'[h] = u <=> bookingLock[h] = u
    <2>1. CASE UNCHANGED <<holdLock, bookingLock>>
      BY <2>1
    <2>2. CASE UNCHANGED bookingLock /\ LockHoldRow(t) /\ tx[t].op \in HoldOps
      <3>1. tx[t].hold \in Holds
        BY <1>1, <2>2 DEF AsksFor
      <3> QED BY <1>1, <2>2, <3>1, TxAssumption DEF LockHoldRow, TypeOK
    <2>3. CASE /\ UNCHANGED holdLock /\ LockBookingRow(t)
               /\ tx[t].op \in {"cancelBooking", "verifyTicket"}
      <3>1. tx[t].hold \in Holds
        BY <1>1, <2>3 DEF AsksFor
      <3> QED BY <1>1, <2>3, <3>1, TxAssumption DEF LockBookingRow, TypeOK
    <2> QED BY <2>1, <2>2, <2>3
  <1>5. Alone(t)
    BY <1>2, <1>4 DEF Alone
  <1>6. LapsedHolds(t)' = LapsedHolds(t) /\ Targets(t)' = Targets(t) /\ seatLock' = seatLock
    BY <1>3 DEF LapsedHolds, Lapsed, Targets, tables
  <1>7. tx[t].op = "createHold" => holdLock' = holdLock
    BY DEF HoldOps
  <1> QED BY <1>1, <1>3, <1>5, <1>6, <1>7 DEF LockOrder, SeatsLocked

\* Nobody's locks move, and no row.
LEMMA RestKeepsOrder ==
    ASSUME OrderInv, UNCHANGED <<tables, locks, tx>>
    PROVE  OrderInv'
  <1>1. /\ \A t \in Tx : LapsedHolds(t)' = LapsedHolds(t) /\ Targets(t)' = Targets(t)
        /\ UNCHANGED <<seatLock, holdLock, bookingLock, tx>>
    BY DEF LapsedHolds, Lapsed, Targets, tables, locks
  <1> QED BY <1>1 DEF OrderInv, LockOrder, SeatsLocked

LEMMA ClientKeepsOrder ==
    ASSUME IInv, OrderInv, NEW c \in Clients, ClientStep(c)
    PROVE  Alone(c) /\ LockOrder(c)'
  <1>. c \in Tx
    BY DEF Tx
  <1>1. CASE BeginCreateHold(c) \/ BeginHoldRequest(c) \/ BeginCancelBooking(c)
             \/ BeginVerifyTicket(c)
    BY <1>1, BeginKeepsOrder
    DEF BeginCreateHold, BeginHoldRequest, BeginCancelBooking, BeginVerifyTicket
  <1>2. CASE LockLapsedHold(c)
    BY <1>2, LockLapsedKeepsOrder
  <1>3. CASE AcceptCreateHold(c) \/ AcceptCancelBooking(c)
    BY <1>3, ProceedKeepsOrder DEF AcceptCreateHold, AcceptCancelBooking, locks
  <1>4. CASE AcceptConfirm(c) \/ AcceptCancel(c)
    BY <1>4, ProceedKeepsOrder DEF AcceptConfirm, AcceptCancel, AcceptHold, In, HoldOps
  <1>5. CASE LockBookingForCancellation(c) \/ LockBookingForTickets(c)
    BY <1>5, ProceedKeepsOrder DEF LockBookingForCancellation, LockBookingForTickets, In
  <1>6. CASE LockSeat(c)
    BY <1>6, LockSeatKeepsOrder
  <1>7. CASE End(c)
    BY <1>7, EndKeepsOrder
  <1>. QED
    BY <1>1, <1>2, <1>3, <1>4, <1>5, <1>6, <1>7
    DEF ClientStep, RejectCreateHold, CommitCreateHold, RejectConfirm, CommitConfirm, RejectCancel,
        CommitCancel, EndHold, RejectHold, RejectCancelBooking, CommitCancelBooking, RejectVerify,
        RejectUsedTicket, CommitVerify, RollbackClient, Abort

LEMMA WorkerKeepsOrder ==
    ASSUME IInv, OrderInv, NEW w \in Workers, WorkerStep(w), ~SweepScan(w)
    PROVE  Alone(w) /\ LockOrder(w)'
  <1>. w \in Tx
    BY DEF Tx
  <1>1. CASE BeginExpire(w)
    BY <1>1, BeginKeepsOrder DEF BeginExpire
  <1>2. CASE AcceptExpire(w)
    BY <1>2, ProceedKeepsOrder DEF AcceptExpire, AcceptHold, In, HoldOps
  <1>3. CASE LockSeat(w)
    BY <1>3, LockSeatKeepsOrder
  <1>4. CASE End(w)
    BY <1>4, EndKeepsOrder
  <1>. QED
    BY <1>1, <1>2, <1>3, <1>4
    DEF WorkerStep, SkipExpire, RejectHold, CommitExpire, EndHold, RollbackWorker, Abort

LEMMA OrderKeeps ==
    ASSUME IInv, OrderInv, [Next]_vars
    PROVE  OrderInv'
  <1>1. ASSUME NEW t \in Tx, Alone(t), NewHoldsLocked(t), LockOrder(t)'
        PROVE  OrderInv'
    BY <1>1, OthersKeepOrder DEF OrderInv
  <1>2. ASSUME NEW c \in Clients, ClientStep(c) PROVE OrderInv'
    BY <1>1, <1>2, ClientKeepsOrder, NewHolds DEF Tx
  <1>3. ASSUME NEW w \in Workers, WorkerStep(w) PROVE OrderInv'
    <2>1. CASE SweepScan(w)
      BY <2>1, RestKeepsOrder DEF SweepScan
    <2>2. CASE ~SweepScan(w)
      BY <1>1, <1>3, <2>2, WorkerKeepsOrder, NewHolds DEF Tx
    <2> QED BY <2>1, <2>2
  <1>4. CASE Tick \/ UNCHANGED vars
    BY <1>4, RestKeepsOrder DEF Tick, vars
  <1> QED BY <1>2, <1>3, <1>4 DEF Next

LEMMA InitOrder == Init => OrderInv
  BY TxAssumption DEF Init, OrderInv, LockOrder

\* The transactions of C wait for one another.
Stuck(C) == C # {} /\ \A t \in C : \E u \in C : WaitsFor(t, u)

\* Of the finite sets that are stuck one is the least.
LEMMA LeastStuck ==
    ASSUME NEW S \in SUBSET Tx, Stuck(S)
    PROVE  \E C \in SUBSET Tx : Stuck(C) /\ \A E \in SUBSET C : Stuck(E) => E = C
  <1> DEFINE R == StrictSubsetOrdering(Tx)
             T == {C \in SUBSET Tx : Stuck(C)}
  <1>1. IsWellFoundedOn(R, FiniteSubsetsOf(Tx))
    BY FS_StrictSubsetOrderingWellFounded
  <1>2. FiniteSubsetsOf(Tx) = SUBSET Tx
    BY TxAssumption, FS_FiniteSubsetsOfFinite
  <1>3. T \subseteq FiniteSubsetsOf(Tx) /\ T # {}
    BY <1>2
  <1> HIDE DEF T
  <1>4. PICK C \in T : \A E \in T : ~ (<<E, C>> \in R)
    BY <1>1, <1>3, WFMin
  <1>5. ASSUME NEW E \in SUBSET C, Stuck(E) PROVE E = C
    <2>1. E \in T /\ C \in SUBSET Tx /\ E \in SUBSET Tx
      BY <1>5 DEF T
    <2>2. <<E, C>> \notin R
      BY <1>4, <2>1
    <2> QED BY <2>1, <2>2 DEF StrictSubsetOrdering
  <1> QED BY <1>4, <1>5 DEF T

\* The lapsed hold, or the hold it was asked about, that a transaction locks next.
NextHold(t, h) ==
    \/ tx[t].op \in HoldOps /\ h = tx[t].hold
    \/ /\ tx[t].op = "createHold" /\ h \in LapsedHolds(t) /\ holdLock[h] # t
       /\ \A g \in LapsedHolds(t) : holdLock[g] # t => h <= g

\* What a transaction that waits for a waiting one tells of both.
LEMMA WaitsUpward ==
    ASSUME IInv, OrderInv, NEW t \in Tx, NEW u \in Tx, WaitsFor(t, u),
           NEW v \in Tx, WaitsFor(u, v)
    PROVE  /\ tx[u].pc = "seats"
           /\ SeatsLocked(t) /\ tx[t].pc = "seats" => SeatsLocked(u)
           /\ ~SeatsLocked(t) /\ tx[t].pc = "seats" =>
                \E s \in Seats : /\ NextSeat(t, s)
                                 /\ \A r \in Seats : NextSeat(u, r) => s < r
           /\ SeatsLocked(t) /\ tx[t].pc = "seats" =>
                \E h \in Holds : /\ NextHold(t, h)
                                 /\ \A g \in Holds : NextHold(u, g) => h < g
  <1>1. TypeOK /\ AsksFor(t) /\ AsksFor(u) /\ HasLocks(u) /\ LockOrder(u) /\ t # u
    BY DEF IInv, TxInv, OrderInv, WaitsFor
  <1>2. tx[u].pc \in {"booking", "seats"}
    BY DEF WaitsFor, In
  <1>3. CASE tx[t].pc = "booking" /\ bookingLock[tx[t].hold] = u
    <2>1. tx[t].hold \in Holds
      BY <1>1, <1>3 DEF AsksFor, TypeOK, Transaction, Ops, HoldOps
    <2> QED BY <1>1, <1>2, <1>3, <2>1 DEF LockOrder
  <1>4. ASSUME NEW s \in Seats, NextSeat(t, s), seatLock[s] = u, tx[t].pc = "seats"
        PROVE  /\ tx[u].pc = "seats" /\ ~SeatsLocked(t)
               /\ \A r \in Seats : NextSeat(u, r) => s < r
    BY <1>1, <1>2, <1>4 DEF LockOrder, NextSeat, SeatsLocked
  <1>5. ASSUME NEW h \in Holds, NextHold(t, h), holdLock[h] = u
        PROVE  /\ tx[u].pc = "seats" /\ SeatsLocked(u)
               /\ \A g \in Holds : NextHold(u, g) => h < g
    <2>1. tx[u].op = "createHold" /\ SeatsLocked(u)
      BY <1>1, <1>2, <1>5 DEF HasLocks, LockOrder
    <2>2. tx[u].pc = "seats"
      BY <1>1, <1>2, <2>1 DEF AsksFor
    <2> QED BY <1>1, <1>5, <2>1, <2>2 DEF NextHold, LockOrder, HoldOps
  <1>6. CASE /\ tx[t].pc = "seats" /\ SeatsLocked(t) /\ tx[t].op \in HoldOps
             /\ holdLock[tx[t].hold] = u
    <2>1. tx[t].hold \in Holds /\ NextHold(t, tx[t].hold)
      BY <1>1, <1>6 DEF AsksFor, NextHold
    <2> QED BY <1>5, <1>6, <2>1
  <1>7. CASE /\ In(t, "createHold", "seats") /\ SeatsLocked(t)
             /\ \E h \in LapsedHolds(t) :
                  /\ holdLock[h] = u
                  /\ \A g \in LapsedHolds(t) : holdLock[g] # t => h <= g
    <2>1. PICK h \in Holds : NextHold(t, h) /\ holdLock[h] = u
      BY <1>1, <1>7 DEF LapsedHolds, NextHold, In
    <2> QED BY <1>5, <1>7, <2>1 DEF In
  <1> QED BY <1>3, <1>4, <1>6, <1>7 DEF WaitsFor, HoldOps

\* hold.repository.ts, booking.repository.ts, waitlist.repository.ts: every handler locks the
\* booking, then seats by id, then holds by id, so whatever set of them is taken, one is
\* not waiting for another of the set.
THEOREM NobodyDeadlocks == Spec => []NoDeadlock
  <1>1. ASSUME IInv, OrderInv, NEW C \in SUBSET Tx, Stuck(C),
               \A E \in SUBSET C : Stuck(E) => E = C
        PROVE  FALSE
    <2>1. \A t \in C : \E u \in C : WaitsFor(t, u)
      BY <1>1 DEF Stuck
    \* those past their booking are stuck among themselves
    <2>2. \A t \in C : tx[t].pc = "seats"
      <3> DEFINE E == {t \in C : tx[t].pc = "seats"}
      <3>1. ASSUME NEW t \in C PROVE \E u \in E : WaitsFor(t, u)
        BY <1>1, <2>1, WaitsUpward
      <3>2. Stuck(E)
        BY <1>1, <3>1 DEF Stuck
      <3> QED BY <1>1, <3>2
    \* those that have all their seats are stuck among themselves
    <2>3. (\A t \in C : SeatsLocked(t)) \/ (\A t \in C : ~SeatsLocked(t))
      <3> DEFINE E == {t \in C : SeatsLocked(t)}
      <3>1. ASSUME NEW t \in E PROVE \E u \in E : WaitsFor(t, u)
        BY <1>1, <2>1, <2>2, WaitsUpward
      <3>2. E = {} \/ Stuck(E)
        BY <3>1 DEF Stuck
      <3> QED BY <1>1, <3>2
    <2>4. PICK p \in C : TRUE
      BY <1>1 DEF Stuck
    \* those that wait above the seat p waits for are fewer, and stuck
    <2>5. CASE \A t \in C : ~SeatsLocked(t)
      <3>1. \A t, u \in C : WaitsFor(t, u) =>
              \E s \in Seats : NextSeat(t, s) /\ \A r \in Seats : NextSeat(u, r) => s < r
        BY <1>1, <2>1, <2>2, <2>5, WaitsUpward
      <3>2. PICK s \in Seats : NextSeat(p, s)
        BY <2>1, <3>1
      <3> DEFINE E == {t \in C : \A r \in Seats : NextSeat(t, r) => s < r}
      <3>3. p \notin E
        BY <3>2, SeatsAssumption
      <3>4. ASSUME NEW t \in C, NEW u \in C, WaitsFor(t, u), t = p \/ t \in E
            PROVE  u \in E
        <4>1. PICK r \in Seats : NextSeat(t, r) /\ \A q \in Seats : NextSeat(u, q) => r < q
          BY <3>1, <3>4
        <4>2. r >= s
          <5>1. CASE t = p
            BY <3>2, <4>1, <5>1, SeatsAssumption DEF NextSeat
          <5>2. CASE t \in E
            BY <4>1, <5>2, SeatsAssumption
          <5> QED BY <3>4, <5>1, <5>2
        <4>3. \A q \in Seats : NextSeat(u, q) => s < q
          BY <4>1, <4>2, SeatsAssumption
        <4> QED BY <4>3
      <3>5. Stuck(E)
        BY <2>1, <2>4, <3>4 DEF Stuck
      <3> QED BY <1>1, <2>4, <3>3, <3>5
    \* and so are those that wait above the hold p waits for
    <2>6. CASE \A t \in C : SeatsLocked(t)
      <3>1. \A t, u \in C : WaitsFor(t, u) =>
              \E h \in Holds : NextHold(t, h) /\ \A g \in Holds : NextHold(u, g) => h < g
        BY <1>1, <2>1, <2>2, <2>6, WaitsUpward
      <3>2. PICK h \in Holds : NextHold(p, h)
        BY <2>1, <3>1
      <3> DEFINE E == {t \in C : \A g \in Holds : NextHold(t, g) => h < g}
      <3>3. p \notin E
        BY <3>2, HoldsAssumption
      <3>4. ASSUME NEW t \in C, NEW u \in C, WaitsFor(t, u), t = p \/ t \in E
            PROVE  u \in E
        <4>1. PICK g \in Holds : NextHold(t, g) /\ \A f \in Holds : NextHold(u, f) => g < f
          BY <3>1, <3>4
        <4>2. g >= h
          <5>1. CASE t = p
            BY <3>2, <4>1, <5>1, HoldsAssumption DEF NextHold, HoldOps
          <5>2. CASE t \in E
            BY <4>1, <5>2, HoldsAssumption
          <5> QED BY <3>4, <5>1, <5>2
        <4>3. \A f \in Holds : NextHold(u, f) => h < f
          BY <4>1, <4>2, HoldsAssumption
        <4> QED BY <4>3
      <3>5. Stuck(E)
        BY <2>1, <2>4, <3>4 DEF Stuck
      <3> QED BY <1>1, <2>4, <3>3, <3>5
    <2> QED BY <2>3, <2>5, <2>6
  <1>2. IInv /\ OrderInv => NoDeadlock
    <2> SUFFICES ASSUME IInv, OrderInv, NEW S \in (SUBSET Tx) \ {{}},
                        \A t \in S : \E u \in S : WaitsFor(t, u)
                 PROVE  FALSE
      BY DEF NoDeadlock
    <2>1. Stuck(S)
      BY DEF Stuck
    <2> QED BY <1>1, <2>1, LeastStuck
  <1>3. Init => OrderInv
    BY InitOrder
  <1>4. IInv /\ OrderInv /\ [Next]_vars => OrderInv'
    BY OrderKeeps
  <1>. QED
    BY <1>2, <1>3, <1>4, Invariance, PTL DEF Spec
=============================================================================
