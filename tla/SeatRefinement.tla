---------------------------- MODULE SeatRefinement ----------------------------
(* SeatInventory implements SeatLedger.                                    *)
EXTENDS SeatInventory

\* The claim a seat belongs to, whatever show_seats.status says.
OwnerOf(s) ==
    IF \E h \in Holds : Claims(h) /\ s \in holdSeats[h]
    THEN CHOOSE h \in Holds : Claims(h) /\ s \in holdSeats[h]
    ELSE NoHold

StageOf(h) ==
    IF booking[h] = "confirmed" THEN "sold"
    ELSE IF holdStatus[h] = "active" THEN "reserved"
    ELSE IF holdStatus[h] = "none" THEN "fresh"
    ELSE "closed"

Ledger == INSTANCE SeatLedger
          WITH Nobody <- NoHold,
               owner <- [s \in Seats |-> OwnerOf(s)],
               stage <- [h \in Holds |-> StageOf(h)]

\* Seen from outside, seats and claims move only as the ledger says: whatever the
\* interleaving of requests, sweeps and failures, every commit is one ledger step.
ImplementsLedger == Ledger!LedgerSpec
=============================================================================
