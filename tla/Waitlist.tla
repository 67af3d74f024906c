------------------------------- MODULE Waitlist -------------------------------
(***************************************************************************)
(* The waitlist of one event and seat category: waitlist_entries,          *)
(* waitlist_offers and waitlist_allocation_outbox on top of the seat and   *)
(* hold tables, and the workers that turn a freed seat into an offer.      *)
(*                                                                         *)
(* A customer request and the expiry of one hold are atomic here:          *)
(* SeatRefinement shows that each commits as one step, in any              *)
(* interleaving.  The allocation pass is not: it is one transaction of     *)
(* many statements, with a lock on the signal, locks on entries, an        *)
(* unlocked read of a seat, and pairings nobody else sees before COMMIT.   *)
(*                                                                         *)
(* An offer is identified by the hold behind it (hold_id is unique), and   *)
(* its seat is that hold's only seat.  Entries are numbered by             *)
(* (joined_at, id), the order of the queue.  joined_at is fixed at BEGIN,  *)
(* so an entry may become visible after a later one.                       *)
(***************************************************************************)
EXTENDS Integers, FiniteSets

CONSTANTS Seats,         \* show_seats of the category, ordered by id
          Holds,         \* bound: the hold ids that can ever be generated
          Entries,       \* bound: the waitlist_entries that can ever be made
          Users,
          Workers,       \* waitlist-allocation workers
          NoEntry, NoSeat, NoUser,
          MaxPairings    \* MAX_PAIRINGS_PER_PASS

ASSUME WaitlistAssumption ==
    /\ Seats \subseteq Nat /\ Entries \subseteq Nat
    /\ NoSeat \notin Seats /\ NoEntry \notin Entries /\ NoUser \notin Users
    /\ MaxPairings \in Nat \ {0}

VARIABLES seat,          \* show_seats.status
          holdStatus,    \* reservation_holds.status, "none" before the row exists
          holdSeats,     \* reservation_hold_seats
          lapsed,        \* the active holds whose expires_at has passed
          booking,       \* bookings.status of the booking made from a hold
          offer,         \* waitlist_offers.status of the offer a hold backs
          offerEntry,    \* ... and its waitlist_entry_id
          entry,         \* waitlist_entries.status
          user,          \* waitlist_entries.user_id
          ahead,         \* history: the entries already waiting when this one joined
          signal,        \* the unprocessed waitlist_allocation_outbox row
          gap,           \* workers that saw a gap and have not enqueued yet
          pc,            \* where each worker's pass is
          tries,         \* the iterations it has made
          candidate,     \* the entry it is serving
          pick,          \* the seat it has read
          locked,        \* the entries it has locked
          staged         \* the pairings it has made and not committed

inventory == <<seat, holdStatus, holdSeats, lapsed, booking>>
queue     == <<offer, offerEntry, entry, user, ahead>>
pass      == <<pc, tries, candidate, pick, locked, staged>>
vars      == <<inventory, queue, signal, gap, pass>>

SeatStatus    == {"available", "held", "booked"}
HoldStatus    == {"none", "active", "expired", "cancelled", "converted"}
BookingStatus == {"none", "confirmed", "cancelled"}
OfferStatus   == {"none", "offered", "accepted", "expired"}
EntryStatus   == {"none", "waiting", "offered", "accepted", "expired", "cancelled"}

\* One released savepoint: the candidate, the seat, the hold made for it and the
\* lapsed holds createHoldInTransaction expired on the way.
Pairing == [entry : Entries, seat : Seats, hold : Holds, gone : SUBSET Holds]

\* "next" before a candidate is locked, "seat" before a seat is read, "pair" before
\* the savepoint, "done" after the loop, "processed" or "failed" once the outbox
\* row has been written.
PC == {"idle", "next", "seat", "pair", "done", "processed", "failed"}

TypeOK ==
    /\ seat \in [Seats -> SeatStatus]
    /\ holdStatus \in [Holds -> HoldStatus]
    /\ holdSeats \in [Holds -> SUBSET Seats]
    /\ lapsed \subseteq Holds
    /\ booking \in [Holds -> BookingStatus]
    /\ offer \in [Holds -> OfferStatus]
    /\ offerEntry \in [Holds -> Entries \cup {NoEntry}]
    /\ entry \in [Entries -> EntryStatus]
    /\ user \in [Entries -> Users \cup {NoUser}]
    /\ ahead \in [Entries -> SUBSET Entries]
    /\ signal \in {"none", "pending", "backoff"}
    /\ gap \subseteq Workers
    /\ pc \in [Workers -> PC]
    /\ tries \in [Workers -> 0 .. MaxPairings]
    /\ candidate \in [Workers -> Entries \cup {NoEntry}]
    /\ pick \in [Workers -> Seats \cup {NoSeat}]
    /\ locked \in [Workers -> SUBSET Entries]
    /\ staged \in [Workers -> SUBSET Pairing]

Init ==
    /\ seat = [s \in Seats |-> "available"]
    /\ holdStatus = [h \in Holds |-> "none"]
    /\ holdSeats = [h \in Holds |-> {}]
    /\ lapsed = {}
    /\ booking = [h \in Holds |-> "none"]
    /\ offer = [h \in Holds |-> "none"]
    /\ offerEntry = [h \in Holds |-> NoEntry]
    /\ entry = [e \in Entries |-> "none"]
    /\ user = [e \in Entries |-> NoUser]
    /\ ahead = [e \in Entries |-> {}]
    /\ signal = "none"
    /\ gap = {}
    /\ pc = [w \in Workers |-> "idle"]
    /\ tries = [w \in Workers |-> 0]
    /\ candidate = [w \in Workers |-> NoEntry]
    /\ pick = [w \in Workers |-> NoSeat]
    /\ locked = [w \in Workers |-> {}]
    /\ staged = [w \in Workers |-> {}]

-----------------------------------------------------------------------------
(* Rows the passes have locked or written and not committed                *)

Staged == UNION {staged[w] : w \in Workers}

SeatFree(s)  == \A p \in Staged : p.seat # s
EntryFree(e) == \A w \in Workers : e \notin locked[w]
HoldsGone    == UNION {p.gone : p \in Staged}

\* gen_random_uuid(): an id neither a row nor an uncommitted one has.
Fresh(h) == holdStatus[h] = "none" /\ \A p \in Staged : p.hold # h

\* The outbox row a pass has updated makes another INSERT of its key wait.
SignalFree == \A w \in Workers : pc[w] \notin {"processed", "failed"}

\* INSERT ... ON CONFLICT DO NOTHING against the one unprocessed row: a row that
\* is claimed, or backing off, swallows the new signal.
Enqueue == signal' = IF signal = "none" THEN "pending" ELSE signal

\* enqueueWaitlistAllocationForSeats
EnqueueFor(released) ==
    /\ released # {} => SignalFree
    /\ IF released = {} THEN UNCHANGED signal ELSE Enqueue

-----------------------------------------------------------------------------
(* Holds and bookings, with what they do to the waitlist                   *)

Covering(S) == {h \in Holds : holdStatus[h] = "active" /\ holdSeats[h] \cap S # {}}

\* createHoldInTransaction: free seats, or seats whose holds are all lapsed.  It
\* expires those holds itself and neither touches their offers nor signals.
CreateHold(h, S) ==
    /\ Fresh(h)
    /\ \A s \in S : SeatFree(s) /\ seat[s] # "booked"
    /\ Covering(S) \subseteq lapsed \ HoldsGone
    /\ holdStatus' = [g \in Holds |-> IF g = h THEN "active"
                                      ELSE IF g \in Covering(S) THEN "expired"
                                      ELSE holdStatus[g]]
    /\ holdSeats' = [holdSeats EXCEPT ![h] = S]
    /\ seat' = [s \in Seats |-> IF s \in S THEN "held" ELSE seat[s]]
    /\ lapsed' = lapsed \ Covering(S)
    /\ UNCHANGED <<booking, queue, signal, gap, pass>>

\* expires_at passes.
Lapse(h) ==
    /\ holdStatus[h] = "active"
    /\ h \notin lapsed
    /\ lapsed' = lapsed \cup {h}
    /\ UNCHANGED <<seat, holdStatus, holdSeats, booking, queue, signal, gap, pass>>

\* The id of a hold behind an offer never leaves the server, so only the holds
\* customers made themselves are confirmed or released by id.
Direct(h) == offer[h] = "none"

SeatsFree(h) == \A s \in holdSeats[h] : SeatFree(s)

\* Mutant of Convert: markHoldConverted is forgotten.
ConvertSeatsOnly(h) ==
    /\ holdStatus[h] = "active"
    /\ SeatsFree(h)
    /\ booking' = [booking EXCEPT ![h] = "confirmed"]
    /\ seat' = [s \in Seats |-> IF s \in holdSeats[h] THEN "booked" ELSE seat[s]]
    /\ UNCHANGED <<holdStatus, holdSeats, lapsed>>

\* confirmHoldInTransaction.  It compares expires_at with the time it began, so a
\* hold that has lapsed since then is still confirmed.
Convert(h) ==
    /\ holdStatus[h] = "active"
    /\ SeatsFree(h)
    /\ holdStatus' = [holdStatus EXCEPT ![h] = "converted"]
    /\ booking' = [booking EXCEPT ![h] = "confirmed"]
    /\ seat' = [s \in Seats |-> IF s \in holdSeats[h] THEN "booked" ELSE seat[s]]
    /\ lapsed' = lapsed \ {h}
    /\ UNCHANGED holdSeats

ConfirmHold(h) ==
    /\ Direct(h)
    /\ Convert(h)
    /\ UNCHANGED <<queue, signal, gap, pass>>

\* Mutant of ExpireOffer: markEntryExpired is forgotten.
ExpireOfferOnly(h) ==
    /\ offer' = [offer EXCEPT ![h] = IF @ = "offered" THEN "expired" ELSE @]
    /\ UNCHANGED entry

\* markOfferExpiredByHoldId, then markEntryExpired, which throws on no row.
ExpireOffer(h) ==
    IF offer[h] = "offered"
    THEN /\ entry[offerEntry[h]] = "offered"
         /\ offer' = [offer EXCEPT ![h] = "expired"]
         /\ entry' = [entry EXCEPT ![offerEntry[h]] = "expired"]
    ELSE UNCHANGED <<offer, entry>>

\* The hold leaves 'active', its seats return to sale, a signal is enqueued and
\* the offer it may back ends with it.  No other active hold covers its seats
\* (ExclusiveClaims in SeatInventory), so all that are 'held' are released.
EndHold(h, status) ==
    /\ holdStatus[h] = "active"
    /\ SeatsFree(h)
    /\ holdStatus' = [holdStatus EXCEPT ![h] = status]
    /\ seat' = [s \in Seats |-> IF s \in holdSeats[h] /\ seat[s] = "held"
                                THEN "available" ELSE seat[s]]
    /\ lapsed' = lapsed \ {h}
    /\ EnqueueFor({s \in holdSeats[h] : seat[s] = "held"})
    /\ ExpireOffer(h)
    /\ UNCHANGED <<holdSeats, booking, offerEntry, user, ahead, gap, pass>>

CancelHold(h) == Direct(h) /\ EndHold(h, "cancelled")
ExpireHold(h) == h \in lapsed /\ EndHold(h, "expired")

CancelBooking(h) ==
    /\ booking[h] = "confirmed"
    /\ SeatsFree(h)
    /\ booking' = [booking EXCEPT ![h] = "cancelled"]
    /\ seat' = [s \in Seats |-> IF s \in holdSeats[h] THEN "available" ELSE seat[s]]
    /\ EnqueueFor(holdSeats[h])
    /\ UNCHANGED <<holdStatus, holdSeats, lapsed, queue, gap, pass>>

-----------------------------------------------------------------------------
(* The queue                                                               *)

Member(u) == \E e \in Entries : user[e] = u /\ entry[e] \in {"waiting", "offered"}

\* waitlist_entries_active_membership_key admits one active entry per user.
Join(e, u) ==
    /\ entry[e] = "none"
    /\ ~Member(u)
    /\ entry' = [entry EXCEPT ![e] = "waiting"]
    /\ user' = [user EXCEPT ![e] = u]
    /\ ahead' = [ahead EXCEPT ![e] = {f \in Entries : f < e /\ entry[f] = "waiting"}]
    /\ UNCHANGED <<inventory, offer, offerEntry, signal, gap, pass>>

\* Mutant of Leave: markEntryCancelled without AND status = 'waiting'.
LeaveAny(e) ==
    /\ entry[e] \in {"waiting", "offered"}
    /\ EntryFree(e)
    /\ entry' = [entry EXCEPT ![e] = "cancelled"]
    /\ UNCHANGED <<inventory, offer, offerEntry, user, ahead, signal, gap, pass>>

Leave(e) ==
    /\ entry[e] = "waiting"
    /\ EntryFree(e)
    /\ entry' = [entry EXCEPT ![e] = "cancelled"]
    /\ UNCHANGED <<inventory, offer, offerEntry, user, ahead, signal, gap, pass>>

\* markOfferAccepted and markEntryAccepted throw when they match no row.
StillOffered(h) == offer[h] = "offered" /\ entry[offerEntry[h]] = "offered"

AcceptOffer(h) ==
    /\ offer[h] # "none"
    /\ Convert(h)
    /\ StillOffered(h)
    /\ offer' = [offer EXCEPT ![h] = "accepted"]
    /\ entry' = [entry EXCEPT ![offerEntry[h]] = "accepted"]
    /\ UNCHANGED <<offerEntry, user, ahead, signal, gap, pass>>

-----------------------------------------------------------------------------
(* The allocation pass of a worker                                         *)

PassOnly == UNCHANGED <<inventory, queue, signal, gap>>

Goto(w, l) == pc' = [pc EXCEPT ![w] = l]

\* Mutant of ClaimSignal: no FOR UPDATE, so two workers run the same signal.
ReadSignal(w) ==
    /\ pc[w] = "idle"
    /\ signal = "pending"
    /\ Goto(w, "next")
    /\ UNCHANGED <<tries, candidate, pick, locked, staged>>
    /\ PassOnly

\* FOR UPDATE SKIP LOCKED on the one pending row.
ClaimSignal(w) ==
    /\ pc[w] = "idle"
    /\ signal = "pending"
    /\ \A v \in Workers : pc[v] = "idle"
    /\ Goto(w, "next")
    /\ UNCHANGED <<tries, candidate, pick, locked, staged>>
    /\ PassOnly

\* What w sees: its own pairings have been written, those of others have not.
Offered(w) == {p.entry : p \in staged[w]}
Taken(w)   == {p.seat : p \in staged[w]}

Candidates(w) ==
    {e \in Entries : /\ entry[e] = "waiting"
                     /\ e \notin Offered(w)
                     /\ \A v \in Workers \ {w} : e \notin locked[v]}

Lowest(S, x) == x \in S /\ \A y \in S : x <= y

LockEntry(w) ==
    /\ pc[w] = "next"
    /\ tries[w] < MaxPairings
    /\ \E e \in Entries :
        /\ Lowest(Candidates(w), e)
        /\ candidate' = [candidate EXCEPT ![w] = e]
        /\ locked' = [locked EXCEPT ![w] = @ \cup {e}]
    /\ tries' = [tries EXCEPT ![w] = @ + 1]
    /\ Goto(w, "seat")
    /\ UNCHANGED <<pick, staged>>
    /\ PassOnly

OpenSeats(w) == {s \in Seats : seat[s] = "available"} \ Taken(w)

ReadSeat(w) ==
    /\ pc[w] = "seat"
    /\ \E s \in Seats :
        /\ Lowest(OpenSeats(w), s)
        /\ pick' = [pick EXCEPT ![w] = s]
    /\ Goto(w, "pair")
    /\ UNCHANGED <<tries, candidate, locked, staged>>
    /\ PassOnly

\* Out of candidates, out of seats, or out of attempts.
EndLoop(w) ==
    /\ \/ pc[w] = "next" /\ (Candidates(w) = {} \/ tries[w] = MaxPairings)
       \/ pc[w] = "seat" /\ OpenSeats(w) = {}
    /\ Goto(w, "done")
    /\ UNCHANGED <<tries, candidate, pick, locked, staged>>
    /\ PassOnly

\* waitlist_offers_active_seat_key and waitlist_offers_active_entry_key.
DuplicateOffer(e, s) ==
    \E h \in Holds : offer[h] = "offered" /\ (s \in holdSeats[h] \/ offerEntry[h] = e)

\* Mutant of CanHold: the unlocked read is trusted.
CanHoldUnchecked(s) == SeatFree(s)

\* createHoldInTransaction inside the savepoint, which waits for the seat.
CanHold(s) == SeatFree(s) /\ seat[s] # "booked" /\ Covering({s}) \subseteq lapsed

Pair(w) ==
    LET e == candidate[w]  s == pick[w] IN
    /\ pc[w] = "pair"
    /\ CanHold(s)
    /\ ~DuplicateOffer(e, s)
    /\ \E h \in Holds :
        /\ Fresh(h)
        /\ staged' = [staged EXCEPT ![w] = @ \cup {[entry |-> e, seat |-> s, hold |-> h,
                                                     gone |-> Covering({s})]}]
    /\ Goto(w, "next")
    /\ UNCHANGED <<tries, candidate, pick, locked>>
    /\ PassOnly

\* ConflictError: back to the savepoint, and the same candidate is tried again.
\* now() is the pass's own start, so a hold lapsed since then still counts.
RacedAway(w) ==
    /\ pc[w] = "pair"
    /\ seat[pick[w]] = "booked" \/ Covering({pick[w]}) # {}
    /\ SeatFree(pick[w])
    /\ Goto(w, "next")
    /\ UNCHANGED <<tries, candidate, pick, locked, staged>>
    /\ PassOnly

\* Any other error leaves the loop: the pairings made so far stay, and the signal
\* is backed off.
PairFails(w) ==
    /\ pc[w] = "pair"
    /\ CanHold(pick[w])
    /\ DuplicateOffer(candidate[w], pick[w])
    /\ Goto(w, "failed")
    /\ UNCHANGED <<tries, candidate, pick, locked, staged>>
    /\ PassOnly

MarkProcessed(w) ==
    /\ pc[w] = "done"
    /\ Goto(w, "processed")
    /\ UNCHANGED <<tries, candidate, pick, locked, staged>>
    /\ PassOnly

\* The transaction is over.
Reset(w) ==
    /\ pc' = [pc EXCEPT ![w] = "idle"]
    /\ tries' = [tries EXCEPT ![w] = 0]
    /\ candidate' = [candidate EXCEPT ![w] = NoEntry]
    /\ pick' = [pick EXCEPT ![w] = NoSeat]
    /\ locked' = [locked EXCEPT ![w] = {}]
    /\ staged' = [staged EXCEPT ![w] = {}]

CommitPass(w) ==
    LET new == staged[w] IN
    /\ pc[w] \in {"processed", "failed"}
    /\ seat' = [s \in Seats |-> IF \E p \in new : p.seat = s THEN "held" ELSE seat[s]]
    /\ holdStatus' = [h \in Holds |-> IF \E p \in new : p.hold = h THEN "active"
                                      ELSE IF \E p \in new : h \in p.gone THEN "expired"
                                      ELSE holdStatus[h]]
    /\ holdSeats' = [h \in Holds |-> IF \E p \in new : p.hold = h
                                     THEN {p.seat : p \in {q \in new : q.hold = h}}
                                     ELSE holdSeats[h]]
    /\ lapsed' = lapsed \ UNION {p.gone : p \in new}
    /\ offer' = [h \in Holds |-> IF \E p \in new : p.hold = h THEN "offered" ELSE offer[h]]
    /\ offerEntry' = [h \in Holds |-> IF \E p \in new : p.hold = h
                                      THEN (CHOOSE p \in new : p.hold = h).entry
                                      ELSE offerEntry[h]]
    /\ entry' = [e \in Entries |-> IF \E p \in new : p.entry = e THEN "offered" ELSE entry[e]]
    /\ signal' = IF pc[w] = "failed" THEN "backoff" ELSE "none"
    /\ Reset(w)
    /\ UNCHANGED <<booking, user, ahead, gap>>

\* The worker or its connection dies: nothing of the pass remains.
Crash(w) ==
    /\ pc[w] # "idle"
    /\ Reset(w)
    /\ PassOnly

\* available_at is reached.
BackoffElapses ==
    /\ signal = "backoff"
    /\ signal' = "pending"
    /\ UNCHANGED <<inventory, queue, gap, pass>>

-----------------------------------------------------------------------------
(* The reconcile loop                                                      *)

Opportunity ==
    (\E e \in Entries : entry[e] = "waiting") /\ (\E s \in Seats : seat[s] = "available")

\* Mutant of ReconcileScan: the wrong entry status in the query.
ReconcileScanOffered(w) ==
    /\ w \notin gap
    /\ \E e \in Entries : entry[e] = "offered"
    /\ \E s \in Seats : seat[s] = "available"
    /\ signal = "none"
    /\ gap' = gap \cup {w}
    /\ UNCHANGED <<inventory, queue, signal, pass>>

\* findCategoriesNeedingAllocation
ReconcileScan(w) ==
    /\ w \notin gap
    /\ Opportunity
    /\ signal = "none"
    /\ gap' = gap \cup {w}
    /\ UNCHANGED <<inventory, queue, signal, pass>>

\* enqueueWaitlistAllocation, in a transaction of its own
ReconcileEnqueue(w) ==
    /\ w \in gap
    /\ SignalFree
    /\ Enqueue
    /\ gap' = gap \ {w}
    /\ UNCHANGED <<inventory, queue, pass>>

-----------------------------------------------------------------------------

CustomerStep ==
    \/ \E h \in Holds, S \in (SUBSET Seats) \ {{}} : CreateHold(h, S)
    \/ \E h \in Holds : ConfirmHold(h) \/ CancelHold(h) \/ CancelBooking(h) \/ AcceptOffer(h)
    \/ \E e \in Entries, u \in Users : Join(e, u)
    \/ \E e \in Entries : Leave(e)

PassAdvance(w) ==
    \/ LockEntry(w) \/ ReadSeat(w) \/ EndLoop(w)
    \/ Pair(w) \/ RacedAway(w) \/ PairFails(w)
    \/ MarkProcessed(w) \/ CommitPass(w)

WorkerStep(w) ==
    \/ ClaimSignal(w) \/ PassAdvance(w) \/ Crash(w)
    \/ ReconcileScan(w) \/ ReconcileEnqueue(w)

Next ==
    \/ CustomerStep
    \/ \E h \in Holds : Lapse(h) \/ ExpireHold(h)
    \/ BackoffElapses
    \/ \E w \in Workers : WorkerStep(w)

Spec == Init /\ [][Next]_vars

-----------------------------------------------------------------------------
(* Safety                                                                  *)

LiveOffers(e) == {h \in Holds : offer[h] = "offered" /\ offerEntry[h] = e}

\* An entry reads 'offered' exactly when one live offer names it.
EntryFollowsOffer ==
    \A e \in Entries : /\ entry[e] = "offered" <=> LiveOffers(e) # {}
                       /\ \A g, h \in LiveOffers(e) : g = h

\* Two live offers are never of the same seat.
OffersApart ==
    \A g, h \in Holds :
        offer[g] = "offered" /\ offer[h] = "offered" /\ g # h => holdSeats[g] \cap holdSeats[h] = {}

\* The seat of a live offer is kept for it, by its hold and no other, unless that hold
\* has expired.
OfferKeepsSeat ==
    \A h \in Holds : offer[h] = "offered" =>
        \/ holdStatus[h] = "expired"
        \/ /\ holdStatus[h] = "active"
           /\ \A s \in holdSeats[h] : seat[s] = "held" /\ Covering({s}) = {h}

\* An entry that reads 'offered' has one live offer, of a seat no other live offer is of,
\* and until the offer's hold expires the seat is kept for it (runAllocationPass,
\* acceptWaitlistOffer, expireHold).  createHold may expire the hold and leave the offer
\* as it is: then the seat can be somebody else's, see OfferBacked.
OfferedOnce == EntryFollowsOffer /\ OffersApart /\ OfferKeepsSeat

\* While the hold behind an offer is active, offer and entry are both 'offered':
\* the throws after confirmHoldInTransaction and after markOfferExpiredByHoldId
\* ("unreachable in the ordinary flow") are unreachable, so no due hold is stuck.
ActiveOfferIsLive ==
    \A h \in Holds : holdStatus[h] = "active" /\ offer[h] # "none" => StillOffered(h)

\* An offer is 'accepted' exactly when its hold became a booking, and an offer
\* whose hold was not lost to time is never 'expired'.
OfferFollowsHold ==
    \A h \in Holds : offer[h] # "none" =>
        /\ offer[h] = "accepted" <=> holdStatus[h] = "converted"
        /\ offer[h] = "expired" => holdStatus[h] = "expired"

\* First come, first served: nobody is offered a seat while somebody who is ahead
\* in the queue, and was already visible there when he joined, still waits.
NobodySkipped ==
    [][\A e \in Entries : entry[e] = "waiting" /\ entry'[e] = "offered" =>
           \A f \in ahead[e] : entry'[f] # "waiting"]_vars

\* No pass gives a seat to two entries, or a seat somebody else has got meanwhile.
StagedIsSound ==
    /\ \A p, q \in Staged : p # q => /\ p.seat # q.seat
                                     /\ p.entry # q.entry
                                     /\ p.hold # q.hold
    /\ \A p \in Staged : /\ entry[p.entry] = "waiting"
                         /\ Covering({p.seat}) \subseteq p.gone
                         /\ seat[p.seat] # "booked"

-----------------------------------------------------------------------------
(* The inductive invariant behind the safety properties                    *)

\* The row lock on the signal keeps passes apart.
SolePass ==
    \A v, w \in Workers : v # w => pc[v] = "idle" \/ pc[w] = "idle"

Choosing(w) == pc[w] \in {"seat", "pair"}

\* What a pass has locked is still waiting, and what it has decided is about rows
\* it has locked.
PassInv ==
    \A w \in Workers :
        /\ pc[w] = "idle" => locked[w] = {} /\ staged[w] = {}
        /\ \A e \in locked[w] : entry[e] = "waiting"
        /\ Offered(w) \subseteq locked[w]
        /\ Choosing(w) => candidate[w] \in locked[w] \ Offered(w)
        /\ pc[w] = "pair" => pick[w] \in Seats

\* Everybody ahead of a chosen candidate has been dealt with.
Served(w, e) == \A f \in ahead[e] : entry[f] # "waiting" \/ f \in Offered(w)

QueueInv ==
    /\ \A e \in Entries : \A f \in ahead[e] : f < e /\ entry[f] # "none"
    /\ \A w \in Workers : /\ \A e \in Offered(w) : Served(w, e)
                          /\ Choosing(w) => Served(w, candidate[w])

\* An uncommitted hold has no row yet; the holds it replaces cannot move.
StagedInv ==
    \A p \in Staged :
        /\ holdStatus[p.hold] = "none"
        /\ \A g \in p.gone : /\ holdStatus[g] \in {"active", "expired"}
                             /\ p.seat \in holdSeats[g]

\* An offer has an entry and a hold.
OfferRows ==
    \A h \in Holds : offer[h] # "none" => offerEntry[h] \in Entries /\ holdStatus[h] # "none"

IInv ==
    /\ TypeOK
    /\ SolePass
    /\ PassInv
    /\ QueueInv
    /\ StagedInv
    /\ OfferRows
    /\ EntryFollowsOffer
    /\ ActiveOfferIsLive
    /\ OfferFollowsHold
    /\ StagedIsSound

\* A seat that an active hold or a confirmed booking covers is 'held' or 'booked', and
\* covered by that one alone.
ClaimsInv ==
    \A h \in Holds :
        /\ booking[h] # "none" => holdStatus[h] = "converted"
        /\ holdStatus[h] = "active" =>
             \A s \in holdSeats[h] :
                 /\ seat[s] = "held"
                 /\ \A g \in Holds \ {h} : holdStatus[g] = "active" => s \notin holdSeats[g]
        /\ booking[h] = "confirmed" =>
             \A s \in holdSeats[h] :
                 /\ seat[s] = "booked"
                 /\ \A g \in Holds \ {h} : booking[g] = "confirmed" => s \notin holdSeats[g]

\* A live offer's hold is neither cancelled nor converted, and its seat is neither in
\* another live offer nor in a pairing that is not committed.
OffersInv ==
    /\ OffersApart
    /\ \A h \in Holds : offer[h] = "offered" =>
         /\ holdStatus[h] \in {"active", "expired"}
         /\ \A p \in Staged : p.seat \notin holdSeats[h]

\* Inductive relative to IInv.
SeatInv == ClaimsInv /\ OffersInv

-----------------------------------------------------------------------------
(* Liveness                                                                *)

\* The loops of a worker keep running and its passes end; back-offs elapse; the
\* crashes of a worker are not endless.
Fairness ==
    /\ WF_vars(BackoffElapses)
    /\ \A w \in Workers : /\ WF_vars(ClaimSignal(w))
                          /\ WF_vars(PassAdvance(w))
                          /\ WF_vars(ReconcileScan(w))
                          /\ WF_vars(ReconcileEnqueue(w))
                          /\ <>[][~Crash(w)]_vars

FairSpec == Spec /\ Fairness

\* An offer that is live although its hold has ended.
StaleOffer == \E h \in Holds : offer[h] = "offered" /\ holdStatus[h] # "active"

HoldsLeft == \E h \in Holds : Fresh(h)

\* A free seat and a waiting customer do not stay apart for ever, although a
\* signal raised during a pass is swallowed and a pass may crash.  (Not when a
\* stale offer blocks the seat, see SeatReachesQueue; HoldsLeft is the bound.)
FreeSeatIsOffered == []<>(~Opportunity \/ StaleOffer \/ ~HoldsLeft)

-----------------------------------------------------------------------------
(* Claims of the repository's documentation that the code does not meet    *)

\* "an offer never outlives its backing hold".
OfferBacked == \A h \in Holds : offer[h] = "offered" => holdStatus[h] = "active"

\* The reconcile loop is "self-healing": a category with a waiting candidate and
\* an available seat is always allocated in the end.
SeatReachesQueue == []<>(~Opportunity \/ ~HoldsLeft)
=============================================================================
