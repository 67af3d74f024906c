---------------------------- MODULE EventLifecycle ----------------------------
(***************************************************************************)
(* Events and the venue layout they are sold from: creation with the seat  *)
(* inventory, editing, publishing, deletion, the venue's seats, and the    *)
(* holds and public reads that run beside them.                            *)
(*                                                                         *)
(* A request is one PostgreSQL transaction, statement by statement, under  *)
(* READ COMMITTED.  FOR UPDATE on an events row excludes the KEY SHARE     *)
(* lock that the foreign key of reservation_holds.event_id takes on it     *)
(* when a hold is inserted; ON DELETE CASCADE takes the seats' row locks.  *)
(* Reservations appear by what they do to the event: a hold of one seat,   *)
(* its release and its booking (SeatInventory models them in full).        *)
(***************************************************************************)
EXTENDS Integers, FiniteSets

CONSTANTS Events,          \* bound: the event ids that can be generated
          VenueSeats,      \* bound: the seat ids of the venue
          Schedules,       \* values of (starts_at, ends_at)
          Requests,
          NoRequest, NoEvent, NoSeat, Keep

EventsAssumption ==
    /\ NoRequest \notin Requests /\ NoEvent \notin Events /\ NoSeat \notin VenueSeats
    /\ Keep \notin Schedules

VARIABLES status,          \* events.status; "none" before and "deleted" after the row
          schedule,        \* events.starts_at, ends_at
          layout,          \* venue_seats: "absent", "present" or "removed"
          category,        \* venue_seats.category
          seat,            \* show_seats.status by event and venue seat, "none" without a row
          price,           \* show_seats.price: the category it was priced as
          sold,            \* history: the schedules under which an event was reserved
          eventLock,       \* FOR UPDATE on the events row
          keyShare,        \* KEY SHARE on the events row
          seatLock,        \* FOR UPDATE on a show_seats row
          req,             \* what each request is doing
          reading          \* the event an anonymous reader has been shown

venue   == <<layout, category>>
tables  == <<status, schedule, venue, seat, price, sold>>
locks   == <<eventLock, keyShare, seatLock>>
vars    == <<tables, locks, req, reading>>

EventStatus  == {"draft", "published", "cancelled", "completed"}
SeatCategory == {"standard", "premium"}
Exists(e)    == status[e] \in EventStatus
Inventory(e) == {s \in VenueSeats : seat[e][s] # "none"}

Ops == {"create", "update", "publish", "delete", "hold", "removeSeat"}
Request ==
    [op : Ops \cup {"none"}, pc : {"idle", "lock", "check", "write", "commit"}, mine : BOOLEAN,
     e : Events \cup {NoEvent}, s : VenueSeats \cup {NoSeat}, as : EventStatus \cup {"none"},
     to : Schedules \cup {Keep}, seats : SUBSET VenueSeats]

Idle == [op |-> "none", pc |-> "idle", mine |-> FALSE, e |-> NoEvent, s |-> NoSeat,
         as |-> "none", to |-> Keep, seats |-> {}]

TypeOK ==
    /\ status \in [Events -> EventStatus \cup {"none", "deleted"}]
    /\ schedule \in [Events -> Schedules]
    /\ layout \in [VenueSeats -> {"absent", "present", "removed"}]
    /\ category \in [VenueSeats -> SeatCategory]
    /\ seat \in [Events -> [VenueSeats -> {"none", "available", "held", "booked"}]]
    /\ price \in [Events -> [VenueSeats -> SeatCategory \cup {"none"}]]
    /\ sold \in [Events -> SUBSET Schedules]
    /\ eventLock \in [Events -> Requests \cup {NoRequest}]
    /\ keyShare \in [Events -> SUBSET Requests]
    /\ seatLock \in [Events -> [VenueSeats -> Requests \cup {NoRequest}]]
    /\ req \in [Requests -> Request]
    /\ reading \in Events \cup {NoEvent}

Init ==
    /\ status = [e \in Events |-> "none"]
    /\ schedule \in {[e \in Events |-> x] : x \in Schedules}
    /\ layout = [s \in VenueSeats |-> "absent"]
    /\ category = [s \in VenueSeats |-> "standard"]
    /\ seat = [e \in Events |-> [s \in VenueSeats |-> "none"]]
    /\ price = [e \in Events |-> [s \in VenueSeats |-> "none"]]
    /\ sold = [e \in Events |-> {}]
    /\ eventLock = [e \in Events |-> NoRequest]
    /\ keyShare = [e \in Events |-> {}]
    /\ seatLock = [e \in Events |-> [s \in VenueSeats |-> NoRequest]]
    /\ req = [r \in Requests |-> Idle]
    /\ reading = NoEvent

-----------------------------------------------------------------------------
(* Transactions *)

At(r, op, pc) == req[r].op = op /\ req[r].pc = pc
Begin(r, rec) == req[r] = Idle /\ req' = [req EXCEPT ![r] = rec]
Go(r, pc)     == req' = [req EXCEPT ![r].pc = pc]

\* COMMIT or ROLLBACK.
End(r) ==
    /\ req' = [req EXCEPT ![r] = Idle]
    /\ eventLock' = [e \in Events |-> IF eventLock[e] = r THEN NoRequest ELSE eventLock[e]]
    /\ keyShare' = [e \in Events |-> keyShare[e] \ {r}]
    /\ seatLock' = [e \in Events |-> [s \in VenueSeats |->
                       IF seatLock[e][s] = r THEN NoRequest ELSE seatLock[e][s]]]

\* A refusal, a constraint violation, or a failure of PostgreSQL.
Rollback(r) ==
    /\ req[r] # Idle
    /\ End(r)
    /\ UNCHANGED <<tables, reading>>

\* Who waits for whom.
Waits(r, q) ==
    /\ r # q
    /\ \/ /\ req[r].op \in {"update", "publish", "delete"} /\ req[r].pc = "lock"
          /\ q \in keyShare[req[r].e] \cup {eventLock[req[r].e]}
       \/ At(r, "hold", "lock") /\ q = seatLock[req[r].e][req[r].s]
       \/ At(r, "hold", "write") /\ q = eventLock[req[r].e]
       \/ At(r, "delete", "write") /\ q \in {seatLock[req[r].e][s] : s \in VenueSeats}

-----------------------------------------------------------------------------
(* The venue's layout *)

\* INSERT ... ON CONFLICT DO NOTHING: a seat that exists keeps its category.
insertVenueSeats(s, c) ==
    /\ layout[s] = "absent"
    /\ layout' = [layout EXCEPT ![s] = "present"]
    /\ category' = [category EXCEPT ![s] = c]
    /\ UNCHANGED <<status, schedule, seat, price, sold, locks, req, reading>>

updateVenueSeatCategory(s, c) ==
    /\ layout[s] = "present" /\ category[s] # c
    /\ category' = [category EXCEPT ![s] = c]
    /\ UNCHANGED <<status, schedule, layout, seat, price, sold, locks, req, reading>>

InUse(s) == \E e \in Events : seat[e][s] # "none"

\* countShowSeatsForVenueSeat: a seat in use is refused.
removeVenueSeat(r, s) ==
    /\ layout[s] = "present"
    /\ ~InUse(s)
    /\ Begin(r, [Idle EXCEPT !.op = "removeSeat", !.pc = "write", !.s = s])
    /\ UNCHANGED <<tables, locks, reading>>

\* For the mutants: the count made before is the only protection.
deleteVenueSeatUnchecked(r) ==
    /\ At(r, "removeSeat", "write")
    /\ layout' = [layout EXCEPT ![req[r].s] = "removed"]
    /\ End(r)
    /\ UNCHANGED <<status, schedule, category, seat, price, sold, reading>>

\* DELETE, a statement of its own: ON DELETE RESTRICT decides.
deleteVenueSeat(r) ==
    /\ At(r, "removeSeat", "write")
    /\ layout' = IF InUse(req[r].s) THEN layout
                 ELSE [layout EXCEPT ![req[r].s] = "removed"]
    /\ End(r)
    /\ UNCHANGED <<status, schedule, category, seat, price, sold, reading>>

-----------------------------------------------------------------------------
(* Creating an event *)

listVenueSeatIds == {s \in VenueSeats : layout[s] = "present"}

\* insertEvent, invisible until COMMIT, with any status the body names ('draft' without
\* one), and the seats of the venue; none is a refusal.
createEvent(r, e, as, at) ==
    /\ status[e] = "none" /\ \A q \in Requests : req[q].e # e
    /\ listVenueSeatIds # {}
    /\ Begin(r, [Idle EXCEPT !.op = "create", !.pc = "write", !.e = e, !.as = as, !.to = at,
                             !.seats = listVenueSeatIds])
    /\ UNCHANGED <<tables, locks, reading>>

\* INSERT ... SELECT FROM venue_seats WHERE id = ANY(the ids read), and COMMIT: what is
\* gone from the layout by now is not inserted, and nobody compares the counts.
createShowSeatsForEvent(r) ==
    /\ At(r, "create", "write")
    /\ LET e == req[r].e
           S == req[r].seats \cap listVenueSeatIds
       IN  /\ status' = [status EXCEPT ![e] = req[r].as]
           /\ schedule' = [schedule EXCEPT ![e] = req[r].to]
           /\ seat' = [seat EXCEPT ![e] = [s \in VenueSeats |-> IF s \in S THEN "available" ELSE "none"]]
           /\ price' = [price EXCEPT ![e] = [s \in VenueSeats |-> IF s \in S THEN category[s] ELSE "none"]]
    /\ End(r)
    /\ UNCHANGED <<venue, sold, reading>>

-----------------------------------------------------------------------------
(* Editing, publishing and deleting *)

BeginOn(r, op, e, mine, to) ==
    /\ Begin(r, [Idle EXCEPT !.op = op, !.pc = "lock", !.e = e, !.mine = mine, !.to = to])
    /\ UNCHANGED <<tables, locks, reading>>

updateEvent(r, e, mine, to) == Exists(e) /\ BeginOn(r, "update", e, mine, to)
publishEvent(r, e, mine)    == Exists(e) /\ BeginOn(r, "publish", e, mine, Keep)
deleteEvent(r, e, mine)     == Exists(e) /\ BeginOn(r, "delete", e, mine, Keep)

\* For the mutants: a deletion reads the row, and its DELETE would lock it.
lockEventUnlessDeleting(r) ==
    /\ req[r].op \in {"update", "publish", "delete"} /\ req[r].pc = "lock"
    /\ \A q \in Requests : ~Waits(r, q)
    /\ eventLock' = IF req[r].op = "delete" THEN eventLock
                    ELSE [eventLock EXCEPT ![req[r].e] = r]
    /\ Go(r, "check")
    /\ UNCHANGED <<tables, keyShare, seatLock, reading>>

\* SELECT ... FOR UPDATE.
lockEventForOwnership(r) ==
    /\ req[r].op \in {"update", "publish", "delete"} /\ req[r].pc = "lock"
    /\ \A q \in Requests : ~Waits(r, q)
    /\ eventLock' = [eventLock EXCEPT ![req[r].e] = r]
    /\ Go(r, "check")
    /\ UNCHANGED <<tables, keyShare, seatLock, reading>>

\* A booking is made from a hold, and hold rows are never deleted by themselves.
hasEventHistory(e) == sold[e] # {}

countAvailableSeats(e) == Cardinality({s \in VenueSeats : seat[e][s] = "available"})

\* For the mutants: rescheduling looks at seats that are booked, not at holds.
MayUpdateUnlessBooked(r) ==
    LET e == req[r].e IN
    /\ status[e] \in {"draft", "published"}
    /\ req[r].to # Keep => \A s \in VenueSeats : seat[e][s] # "booked"

MayUpdate(r) ==
    /\ status[req[r].e] \in {"draft", "published"}
    /\ req[r].to # Keep => ~hasEventHistory(req[r].e)

MayPublish(r) ==
    /\ status[req[r].e] = "draft"
    /\ countAvailableSeats(req[r].e) > 0

MayDelete(r) ==
    /\ status[req[r].e] = "draft"
    /\ ~hasEventHistory(req[r].e)

\* isOwnerOrAdmin, and the checks by operation.
Allowed(r) ==
    /\ req[r].mine
    /\ \/ req[r].op = "update" /\ MayUpdate(r)
       \/ req[r].op = "publish" /\ MayPublish(r)
       \/ req[r].op = "delete" /\ MayDelete(r)

\* The verdict under the lock; a refusal is a Rollback.
Judge(r) ==
    /\ req[r].pc = "check" /\ Allowed(r)
    /\ Go(r, "write")
    /\ UNCHANGED <<tables, locks, reading>>

\* COALESCE(new, existing), and COMMIT.
updateEventFields(r) ==
    /\ At(r, "update", "write")
    /\ schedule' = IF req[r].to = Keep THEN schedule
                   ELSE [schedule EXCEPT ![req[r].e] = req[r].to]
    /\ End(r)
    /\ UNCHANGED <<status, venue, seat, price, sold, reading>>

\* UPDATE ... WHERE status = 'draft', and COMMIT; no row is an error.
markEventPublished(r) ==
    /\ At(r, "publish", "write")
    /\ status[req[r].e] = "draft"
    /\ status' = [status EXCEPT ![req[r].e] = "published"]
    /\ End(r)
    /\ UNCHANGED <<schedule, venue, seat, price, sold, reading>>

\* DELETE, its cascade over show_seats and reservation_holds, and COMMIT.
deleteEventRow(r) ==
    /\ At(r, "delete", "write")
    /\ \A q \in Requests : ~Waits(r, q)
    /\ status' = [status EXCEPT ![req[r].e] = "deleted"]
    /\ seat' = [seat EXCEPT ![req[r].e] = [s \in VenueSeats |-> "none"]]
    /\ price' = [price EXCEPT ![req[r].e] = [s \in VenueSeats |-> "none"]]
    /\ End(r)
    /\ UNCHANGED <<schedule, venue, sold, reading>>

-----------------------------------------------------------------------------
(* Reservations of the event's seats *)

\* eventExists, an unlocked read; the event's status is not looked at.
createHold(r, e, s) ==
    /\ Exists(e) /\ seat[e][s] # "none"
    /\ Begin(r, [Idle EXCEPT !.op = "hold", !.pc = "lock", !.e = e, !.s = s])
    /\ UNCHANGED <<tables, locks, reading>>

\* lockEventSeats, and the check made under the lock; a seat that is gone or taken is a
\* Rollback.
lockEventSeats(r) ==
    /\ At(r, "hold", "lock")
    /\ \A q \in Requests : ~Waits(r, q)
    /\ seat[req[r].e][req[r].s] = "available"
    /\ seatLock' = [seatLock EXCEPT ![req[r].e][req[r].s] = r]
    /\ Go(r, "write")
    /\ UNCHANGED <<tables, eventLock, keyShare, reading>>

\* INSERT INTO reservation_holds: its foreign key locks the event's row; an event that is
\* gone is a Rollback.
insertHold(r) ==
    /\ At(r, "hold", "write")
    /\ \A q \in Requests : ~Waits(r, q)
    /\ Exists(req[r].e)
    /\ keyShare' = [keyShare EXCEPT ![req[r].e] = @ \cup {r}]
    /\ Go(r, "commit")
    /\ UNCHANGED <<tables, eventLock, seatLock, reading>>

\* markSeatsHeld, and COMMIT.
CommitHold(r) ==
    /\ At(r, "hold", "commit")
    /\ LET e == req[r].e IN
         /\ seat' = [seat EXCEPT ![e][req[r].s] = "held"]
         /\ sold' = [sold EXCEPT ![e] = @ \cup {schedule[e]}]
    /\ End(r)
    /\ UNCHANGED <<status, schedule, venue, price, reading>>

\* A hold is confirmed; its booking's foreign key needs the event's row too.
confirmHold(e, s) ==
    /\ seat[e][s] = "held" /\ seatLock[e][s] = NoRequest /\ eventLock[e] = NoRequest
    /\ seat' = [seat EXCEPT ![e][s] = "booked"]
    /\ UNCHANGED <<status, schedule, venue, price, sold, locks, req, reading>>

\* A hold lapses or is given up, or a booking is cancelled.
ReleaseSeat(e, s) ==
    /\ seat[e][s] \in {"held", "booked"} /\ seatLock[e][s] = NoRequest
    /\ seat' = [seat EXCEPT ![e][s] = "available"]
    /\ UNCHANGED <<status, schedule, venue, price, sold, locks, req, reading>>

-----------------------------------------------------------------------------
(* Public reads *)

\* For the mutants: any event that exists may be seen.
VisibleAtAll(e) == Exists(e)

\* Only a draft is hidden from an anonymous reader.
Visible(e) == Exists(e) /\ status[e] # "draft"

\* getPublicSeatMap: the visibility rule first, in a statement of its own ...
getEventById(e) ==
    /\ reading = NoEvent
    /\ Visible(e)
    /\ reading' = e
    /\ UNCHANGED <<tables, locks, req>>

\* ... and the seats in the next.
findPublicSeatMap ==
    /\ reading # NoEvent
    /\ reading' = NoEvent
    /\ UNCHANGED <<tables, locks, req>>

-----------------------------------------------------------------------------

RequestStep(r) ==
    \/ deleteVenueSeat(r) \/ createShowSeatsForEvent(r)
    \/ lockEventForOwnership(r) \/ Judge(r)
    \/ updateEventFields(r) \/ markEventPublished(r) \/ deleteEventRow(r)
    \/ lockEventSeats(r) \/ insertHold(r) \/ CommitHold(r)

Next ==
    \/ \E r \in Requests :
         \/ RequestStep(r) \/ Rollback(r)
         \/ \E s \in VenueSeats : removeVenueSeat(r, s)
         \/ \E e \in Events :
              \/ \E as \in EventStatus, at \in Schedules : createEvent(r, e, as, at)
              \/ \E mine \in BOOLEAN :
                   \/ publishEvent(r, e, mine) \/ deleteEvent(r, e, mine)
                   \/ \E to \in Schedules \cup {Keep} : updateEvent(r, e, mine, to)
              \/ \E s \in VenueSeats : createHold(r, e, s)
    \/ \E s \in VenueSeats, c \in SeatCategory :
         insertVenueSeats(s, c) \/ updateVenueSeatCategory(s, c)
    \/ \E e \in Events :
         \/ getEventById(e)
         \/ \E s \in VenueSeats : confirmHold(e, s) \/ ReleaseSeat(e, s)
    \/ findPublicSeatMap

Spec == Init /\ [][Next]_vars

-----------------------------------------------------------------------------
(* Properties *)

\* deleteEventInTransaction: "An event with any booking or hold is a record other people's
\* activity depends on": a deletion never takes a reservation with it.  Its comment leaves
\* open a "narrow race where a hold is created concurrently between that check and the
\* DELETE"; there is none, because the foreign key of reservation_holds waits for the
\* deletion's FOR UPDATE (see HoldsLockNoEvent).
HistoryKept == \A e \in Events : status[e] = "deleted" => sold[e] = {}

\* updateEventInTransaction: "a booking is a customer's commitment to a specific
\* showtime": nobody's reservation is rescheduled under them.
ShowtimeKept == \A e \in Events : sold[e] \subseteq {schedule[e]}

\* show-seats migration: "A physical seat may not be removed while any event's inventory
\* still refers to it", though the count and the DELETE are separate statements.
SeatMapIntact == \A e \in Events : Inventory(e) \subseteq listVenueSeatIds

\* getPublicSeatMap: the verdict on visibility still holds when the seats are read in a
\* second statement: what was public is neither hidden again nor deleted.
StillVisible == reading # NoEvent => status[reading] \in EventStatus \ {"draft"}

\* What is done to an event, its venue or its status never reaches the customers who
\* have a reservation or are looking at it.
ReservationsKept == TypeOK /\ HistoryKept /\ ShowtimeKept /\ SeatMapIntact /\ StillVisible

\* deleteEventInTransaction on that race: "closing it completely would mean reservation
\* creation also locking `events`".  It does lock the row, by its foreign key.
HoldsLockNoEvent == \A e \in Events : keyShare[e] = {}

\* createEvent: "an event is never persisted without the seat inventory that belongs to
\* it".
NeverWithoutInventory == \A e \in Events : Exists(e) => Inventory(e) # {}

\* updateEventInTransaction on the lock that update, publish and delete take: "no other
\* transaction anywhere in this system takes a row lock on `events`, so this cannot join
\* the existing ... lock order in a cycle".
NoLockCycle == \A r, q \in Requests : ~(Waits(r, q) /\ Waits(q, r))
=============================================================================
