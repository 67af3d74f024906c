------------------------------ MODULE SeatLedger ------------------------------
(***************************************************************************)
(* What the booking engine promises about seats, with no transactions,     *)
(* locks or clock: each seat has at most one claimant, a claim is taken    *)
(* and given up as a whole, and a claim id is spent once.                  *)
(***************************************************************************)
CONSTANTS Seats, Holds,
          Nobody       \* not a claim: the owner of a free seat

VARIABLES owner,   \* who a seat belongs to
          stage    \* how far each claim has come

ledger == <<owner, stage>>

LedgerInit ==
    /\ owner = [s \in Seats |-> Nobody]
    /\ stage = [h \in Holds |-> "fresh"]

\* A fresh claim takes a whole selection of seats that are free, or whose
\* reservations in lapsed are given up by the same step.
Reserve(h, S, lapsed) ==
    /\ stage[h] = "fresh"
    /\ \A g \in lapsed : stage[g] = "reserved"
    /\ \A s \in S : owner[s] = Nobody \/ owner[s] \in lapsed
    /\ owner' = [s \in Seats |-> IF s \in S THEN h
                                 ELSE IF owner[s] \in lapsed THEN Nobody
                                 ELSE owner[s]]
    /\ stage' = [g \in Holds |-> IF g = h THEN "reserved"
                                 ELSE IF g \in lapsed THEN "closed"
                                 ELSE stage[g]]

\* A reservation becomes a sale with the seats it has.
Sell(h) ==
    /\ stage[h] = "reserved"
    /\ stage' = [stage EXCEPT ![h] = "sold"]
    /\ owner' = owner

\* A reservation or a sale ends; all its seats are free again.
Close(h) ==
    /\ stage[h] \in {"reserved", "sold"}
    /\ stage' = [stage EXCEPT ![h] = "closed"]
    /\ owner' = [s \in Seats |-> IF owner[s] = h THEN Nobody ELSE owner[s]]

LedgerNext ==
    \E h \in Holds :
        \/ \E S \in (SUBSET Seats) \ {{}}, lapsed \in SUBSET Holds : Reserve(h, S, lapsed)
        \/ Sell(h)
        \/ Close(h)

LedgerSpec == LedgerInit /\ [][LedgerNext]_ledger
=============================================================================
