---------------------------- MODULE AllocationBatch ----------------------------
(***************************************************************************)
(* allocateLoop of the waitlist workers, at the level of row locks.  One   *)
(* transaction claims a batch of signals, one per event and category, and  *)
(* runs a pass for each in turn: the seats paired for the first category   *)
(* stay locked while the later ones are served, and customers lock seats   *)
(* of several categories in id order meanwhile.  A release of seats ends   *)
(* with one outbox row for each of their categories, inserted one after    *)
(* the other and not seen by others before it commits.                     *)
(*                                                                         *)
(* The entries of a category are a number here: Waitlist.tla has the queue *)
(* itself, for one category.  PostgreSQL breaks a cycle of waiting         *)
(* transactions by failing the statement of one of them.                   *)
(***************************************************************************)
EXTENDS Integers, FiniteSets, SequencesExt

CONSTANTS Seats,         \* show_seats, numbered by id
          Category,      \* the seat category of each
          Demand,        \* how many entries are waiting for each category
          Workers,
          Clients,       \* API requests and the expiry sweep
          BatchSize,     \* WAITLIST_ALLOCATION_BATCH_SIZE
          MaxPairings,   \* MAX_PAIRINGS_PER_PASS
          Baskets,       \* the selections of seats customers make (bound)
          NoSeat, NoOne

Categories == {Category[s] : s \in Seats}

AllocationAssumption ==
    /\ Seats \subseteq Nat /\ IsFiniteSet(Seats) /\ NoSeat \notin Seats
    /\ Demand \in [Categories -> Nat]
    /\ Baskets \subseteq SUBSET Seats
    /\ NoOne \notin Workers \cup Clients /\ Workers \cap Clients = {}
    /\ {"available", "offered"} \cap Clients = {}
    /\ BatchSize \in Nat \ {0} /\ MaxPairings \in Nat \ {0}

VARIABLES seat,          \* "available", "offered" to an entry, or the client holding it
          demand,        \* the entries still waiting, by category
          signal,        \* the unprocessed outbox row of the category
          owner,         \* the transaction that has the seat row locked
          pc,
          todo,          \* the claimed rows the worker has not finished, in order
          wrote,         \* the rows it has finished, and how
          pick,          \* the seat it has read for the next pairing
          tries,         \* the iterations of the pass it is in
          made,          \* the seats it has paired in this transaction
          need,          \* the seats a client's transaction locks
          keys,          \* the outbox keys its release has still to insert, in order
          added          \* the outbox rows it has inserted and not committed

tables  == <<seat, demand, signal>>
batch   == <<todo, wrote, pick, tries, made>>
request == <<need, keys, added>>
vars    == <<tables, owner, pc, batch, request>>

Rows(w) == ToSet(todo[w]) \cup {c \in Categories : wrote[w][c] # "no"}

TypeOK ==
    /\ seat \in [Seats -> {"available", "offered"} \cup Clients]
    /\ demand \in [Categories -> Nat]
    /\ signal \in [Categories -> {"none", "pending", "backoff"}]
    /\ owner \in [Seats -> Workers \cup Clients \cup {NoOne}]
    /\ pc \in [Workers \cup Clients -> {"idle", "pass", "pair", "hold", "release", "signal"}]
    /\ todo \in [Workers -> Seq(Categories)]
    /\ wrote \in [Workers -> [Categories -> {"no", "processed", "failed"}]]
    /\ pick \in [Workers -> Seats \cup {NoSeat}]
    /\ tries \in [Workers -> 0 .. MaxPairings]
    /\ made \in [Workers -> SUBSET Seats]
    /\ need \in [Clients -> SUBSET Seats]
    /\ keys \in [Clients -> Seq(Categories)]
    /\ added \in [Clients -> SUBSET Categories]

\* The event was sold out, entries joined, and bookings have been cancelled since.
Init ==
    /\ seat = [s \in Seats |-> "available"]
    /\ demand = Demand
    /\ signal = [c \in Categories |-> "pending"]
    /\ owner = [s \in Seats |-> NoOne]
    /\ pc = [p \in Workers \cup Clients |-> "idle"]
    /\ todo = [w \in Workers |-> <<>>]
    /\ wrote = [w \in Workers |-> [c \in Categories |-> "no"]]
    /\ pick = [w \in Workers |-> NoSeat]
    /\ tries = [w \in Workers |-> 0]
    /\ made = [w \in Workers |-> {}]
    /\ need = [k \in Clients |-> {}]
    /\ keys = [k \in Clients |-> <<>>]
    /\ added = [k \in Clients |-> {}]

Goto(p, l) == pc' = [pc EXCEPT ![p] = l]

-----------------------------------------------------------------------------
(* The batch                                                               *)

Claimable == {c \in Categories : signal[c] = "pending" /\ \A w \in Workers : c \notin Rows(w)}

\* FOR UPDATE SKIP LOCKED, ORDER BY available_at, created_at: in any order.
claimPendingAllocations(w) ==
    /\ pc[w] = "idle"
    /\ \E q \in SetToSeqs(Claimable) :
        /\ q # <<>>
        /\ todo' = [todo EXCEPT ![w] = SubSeq(q, 1, IF Len(q) < BatchSize THEN Len(q) ELSE BatchSize)]
    /\ Goto(w, "pass")
    /\ UNCHANGED <<tables, owner, wrote, pick, tries, made, request>>

\* What the statements of w's transaction see of category c.
Open(w, c)    == {s \in Seats \ made[w] : Category[s] = c /\ seat[s] = "available"}
Waiting(w, c) == demand[c] - Cardinality({s \in made[w] : Category[s] = c})

CanTry(w) ==
    LET c == Head(todo[w])
    IN  tries[w] < MaxPairings /\ Waiting(w, c) > 0 /\ Open(w, c) # {}

\* lockNextWaitingEntry, then findAvailableSeatIdsForCategory: the lowest id, not locked.
ReadSeat(w) ==
    /\ pc[w] = "pass" /\ todo[w] # <<>>
    /\ CanTry(w)
    /\ \E s \in Open(w, Head(todo[w])) :
        /\ \A t \in Open(w, Head(todo[w])) : s <= t
        /\ pick' = [pick EXCEPT ![w] = s]
    /\ Goto(w, "pair")
    /\ UNCHANGED <<tables, owner, todo, wrote, tries, made, request>>

EndPairing(w) ==
    /\ pick' = [pick EXCEPT ![w] = NoSeat]
    /\ Goto(w, "pass")

\* Mutant of Pair: the status is not read again under the lock.
PairBlind(w) ==
    /\ pc[w] = "pair" /\ owner[pick[w]] = NoOne
    /\ owner' = [owner EXCEPT ![pick[w]] = w]
    /\ made' = [made EXCEPT ![w] = @ \cup {pick[w]}]
    /\ tries' = [tries EXCEPT ![w] = @ + 1]
    /\ EndPairing(w)
    /\ UNCHANGED <<tables, todo, wrote, request>>

\* The savepoint: createHoldInTransaction locks the seat, finds it free, and the
\* offer is written.  The lock stays until the end of the transaction.
Pair(w) ==
    /\ pc[w] = "pair" /\ owner[pick[w]] = NoOne
    /\ seat[pick[w]] = "available"
    /\ owner' = [owner EXCEPT ![pick[w]] = w]
    /\ made' = [made EXCEPT ![w] = @ \cup {pick[w]}]
    /\ tries' = [tries EXCEPT ![w] = @ + 1]
    /\ EndPairing(w)
    /\ UNCHANGED <<tables, todo, wrote, request>>

\* Mutant of RacedAway: a lost race does not use up an iteration.
RacedAwayFree(w) ==
    /\ pc[w] = "pair" /\ owner[pick[w]] = NoOne
    /\ seat[pick[w]] # "available"
    /\ EndPairing(w)
    /\ UNCHANGED <<tables, owner, todo, wrote, tries, made, request>>

\* ConflictError: ROLLBACK TO SAVEPOINT gives the lock back, and the loop goes on.
RacedAway(w) ==
    /\ pc[w] = "pair" /\ owner[pick[w]] = NoOne
    /\ seat[pick[w]] # "available"
    /\ tries' = [tries EXCEPT ![w] = @ + 1]
    /\ EndPairing(w)
    /\ UNCHANGED <<tables, owner, todo, wrote, made, request>>

\* The row of the pass is written and the next one's turn comes.
EndRow(w, how) ==
    /\ wrote' = [wrote EXCEPT ![w][Head(todo[w])] = how]
    /\ todo' = [todo EXCEPT ![w] = Tail(@)]
    /\ tries' = [tries EXCEPT ![w] = 0]
    /\ EndPairing(w)

markAllocationProcessed(w) ==
    /\ pc[w] = "pass" /\ todo[w] # <<>>
    /\ ~CanTry(w)
    /\ EndRow(w, "processed")
    /\ UNCHANGED <<tables, owner, made, request>>

\* Another error inside the savepoint is thrown on after ROLLBACK TO SAVEPOINT, and
\* the batch goes on: the earlier pairings, those of this category too, stay.
recordAllocationFailure(w) ==
    /\ pc[w] = "pair"
    /\ EndRow(w, "failed")
    /\ UNCHANGED <<tables, owner, made, request>>

\* COMMIT and ROLLBACK release every row lock of the transaction.
Unlock(p) == owner' = [s \in Seats |-> IF owner[s] = p THEN NoOne ELSE owner[s]]

EndBatch(w) ==
    /\ todo' = [todo EXCEPT ![w] = <<>>]
    /\ wrote' = [wrote EXCEPT ![w] = [c \in Categories |-> "no"]]
    /\ tries' = [tries EXCEPT ![w] = 0]
    /\ made' = [made EXCEPT ![w] = {}]
    /\ pick' = [pick EXCEPT ![w] = NoSeat]
    /\ Unlock(w)
    /\ Goto(w, "idle")
    /\ UNCHANGED request

CommitBatch(w) ==
    /\ pc[w] = "pass" /\ todo[w] = <<>>
    /\ seat' = [s \in Seats |-> IF s \in made[w] THEN "offered" ELSE seat[s]]
    /\ demand' = [c \in Categories |-> Waiting(w, c)]
    /\ signal' = [c \in Categories |-> CASE wrote[w][c] = "processed" -> "none"
                                         [] wrote[w][c] = "failed" -> "backoff"
                                         [] OTHER -> signal[c]]
    /\ EndBatch(w)

\* The connection drops: recordAllocationFailure throws as well, and withTransaction
\* rolls back whatever the batch has done.
DropConnection(w) ==
    /\ pc[w] # "idle"
    /\ EndBatch(w)
    /\ UNCHANGED tables

\* available_at passes.
BackoffElapses(c) ==
    /\ signal[c] = "backoff"
    /\ \A w \in Workers : c \notin Rows(w)
    /\ signal' = [signal EXCEPT ![c] = "pending"]
    /\ UNCHANGED <<seat, demand, owner, pc, batch, request>>

\* reconcileLoop, its scan and its enqueue in one; beside a row that is not committed
\* the enqueue waits, and adds nothing once it is.
Reconcile(c) ==
    /\ signal[c] = "none"
    /\ \A k \in Clients : c \notin added[k]
    /\ demand[c] > 0
    /\ \E s \in Seats : Category[s] = c /\ seat[s] = "available"
    /\ signal' = [signal EXCEPT ![c] = "pending"]
    /\ UNCHANGED <<seat, demand, owner, pc, batch, request>>

-----------------------------------------------------------------------------
(* Customers: holds, and the paths that release seats                      *)

Claims(k) == {s \in Seats : seat[s] = k}

\* POST /holds.  One hold per client at a time (bound).
BeginHold(k, S) ==
    /\ pc[k] = "idle" /\ Claims(k) = {} /\ S # {}
    /\ need' = [need EXCEPT ![k] = S]
    /\ Goto(k, "hold")
    /\ UNCHANGED <<tables, owner, batch, keys, added>>

\* A cancellation or an expiry: the seats of one hold, those of an offer being one.
\* The lock on the hold row lets one transaction at a time release it.
BeginRelease(k, S) ==
    /\ pc[k] = "idle" /\ S # {}
    /\ \/ S = Claims(k)
       \/ \E s \in Seats : /\ S = {s} /\ seat[s] = "offered"
                           /\ \A j \in Clients : pc[j] \in {"release", "signal"} => s \notin need[j]
    /\ need' = [need EXCEPT ![k] = S]
    /\ Goto(k, "release")
    /\ UNCHANGED <<tables, owner, batch, keys, added>>

Unlocked(k) == {s \in need[k] : owner[s] # k}

\* SELECT ... ORDER BY id FOR UPDATE
NextSeat(k, s) == s \in Unlocked(k) /\ \A t \in Unlocked(k) : s <= t

\* Mutant of LockSeat: no ORDER BY, so the rows are locked in any order.
LockSeatAny(k) ==
    /\ pc[k] # "idle"
    /\ \E s \in Unlocked(k) :
        /\ owner[s] = NoOne
        /\ owner' = [owner EXCEPT ![s] = k]
    /\ UNCHANGED <<tables, pc, batch, request>>

LockSeat(k) ==
    /\ pc[k] # "idle"
    /\ \E s \in need[k] :
        /\ NextSeat(k, s)
        /\ owner[s] = NoOne
        /\ owner' = [owner EXCEPT ![s] = k]
    /\ UNCHANGED <<tables, pc, batch, request>>

EndRequest(k) ==
    /\ Unlock(k)
    /\ need' = [need EXCEPT ![k] = {}]
    /\ keys' = [keys EXCEPT ![k] = <<>>]
    /\ added' = [added EXCEPT ![k] = {}]
    /\ Goto(k, "idle")
    /\ UNCHANGED batch

CreateHold(k) ==
    /\ pc[k] = "hold" /\ Unlocked(k) = {}
    /\ \A s \in need[k] : seat[s] = "available"
    /\ seat' = [s \in Seats |-> IF s \in need[k] THEN k ELSE seat[s]]
    /\ EndRequest(k)
    /\ UNCHANGED <<demand, signal>>

\* 409, ROLLBACK.
HoldRefused(k) ==
    /\ pc[k] = "hold" /\ Unlocked(k) = {}
    /\ \E s \in need[k] : seat[s] # "available"
    /\ EndRequest(k)
    /\ UNCHANGED tables

\* The seats are set back to 'available', and the INSERT of their outbox rows begins:
\* one for each category, in whatever order SELECT DISTINCT has them.
ReleaseSeats(k) ==
    /\ pc[k] = "release" /\ Unlocked(k) = {}
    /\ \E q \in SetToSeqs({Category[s] : s \in need[k]}) : keys' = [keys EXCEPT ![k] = q]
    /\ Goto(k, "signal")
    /\ UNCHANGED <<tables, owner, batch, need, added>>

\* The transactions that have written the unprocessed row of k's next key and have not
\* committed: passes that have finished it, and other releases that have inserted it.
Writers(k) ==
    {w \in Workers : wrote[w][Head(keys[k])] # "no"}
        \cup {j \in Clients : Head(keys[k]) \in added[j]}

\* One row of the INSERT: ON CONFLICT waits for the writer of its key, whichever way
\* that ends, and does nothing where a row is pending.
enqueueWaitlistAllocationForSeats(k) ==
    /\ pc[k] = "signal" /\ keys[k] # <<>>
    /\ Writers(k) = {}
    /\ added' = [added EXCEPT ![k] = IF signal[Head(keys[k])] = "none"
                                     THEN @ \cup {Head(keys[k])} ELSE @]
    /\ keys' = [keys EXCEPT ![k] = Tail(@)]
    /\ UNCHANGED <<tables, owner, pc, batch, need>>

CommitRelease(k) ==
    /\ pc[k] = "signal" /\ keys[k] = <<>>
    /\ seat' = [s \in Seats |-> IF s \in need[k] THEN "available" ELSE seat[s]]
    /\ signal' = [c \in Categories |-> IF c \in added[k] THEN "pending" ELSE signal[c]]
    /\ EndRequest(k)
    /\ UNCHANGED demand

-----------------------------------------------------------------------------
(* Waiting transactions                                                    *)

\* The transactions p waits for.
BlockedBy(p) ==
    IF p \in Workers
    THEN IF pc[p] = "pair" THEN {owner[pick[p]]} \ {NoOne} ELSE {}
    ELSE IF Unlocked(p) # {}
         THEN {owner[s] : s \in {t \in Seats : NextSeat(p, t)}} \ {NoOne}
         ELSE IF keys[p] # <<>> THEN Writers(p) ELSE {}

\* The cycles of transactions that wait for one another.
Cycles ==
    LET waits     == [p \in Workers \cup Clients |-> BlockedBy(p)]
        Closed(D) == D # {} /\ \A p \in D : waits[p] \cap D # {}
    IN  {D \in SUBSET {p \in Workers \cup Clients : waits[p] # {}} :
            Closed(D) /\ \A E \in SUBSET D : Closed(E) => E = D}

\* deadlock_timeout: the statement of one transaction of the cycle fails.  A worker
\* goes on with its batch, a request is rolled back and answered with a 500.
BreakDeadlock(p) ==
    /\ \E D \in Cycles : p \in D
    /\ \/ p \in Workers /\ recordAllocationFailure(p)
       \/ p \in Clients /\ EndRequest(p) /\ UNCHANGED tables

WorkerStep(w) ==
    \/ claimPendingAllocations(w) \/ ReadSeat(w) \/ Pair(w) \/ RacedAway(w)
    \/ markAllocationProcessed(w) \/ recordAllocationFailure(w)
    \/ CommitBatch(w) \/ DropConnection(w)

ClientStep(k) ==
    \/ \E S \in Baskets : BeginHold(k, S)
    \/ \E S \in SUBSET Seats : BeginRelease(k, S)
    \/ LockSeat(k) \/ CreateHold(k) \/ HoldRefused(k)
    \/ ReleaseSeats(k) \/ enqueueWaitlistAllocationForSeats(k) \/ CommitRelease(k)

Next ==
    \/ \E w \in Workers : WorkerStep(w)
    \/ \E k \in Clients : ClientStep(k)
    \/ \E c \in Categories : BackoffElapses(c) \/ Reconcile(c)
    \/ \E p \in Workers \cup Clients : BreakDeadlock(p)

Spec == Init /\ [][Next]_vars

\* A transaction that can go on does, PostgreSQL queues the waiters of a row so that
\* none is passed over for ever, and it breaks a cycle sooner or later.  Nothing makes
\* customers come, errors happen, or a back-off end.
Fairness ==
    /\ \A w \in Workers :
        /\ WF_vars(ReadSeat(w) \/ markAllocationProcessed(w) \/ CommitBatch(w))
        /\ SF_vars(Pair(w) \/ RacedAway(w))
    /\ \A k \in Clients :
        /\ SF_vars(LockSeat(k))
        /\ WF_vars(CreateHold(k) \/ HoldRefused(k) \/ ReleaseSeats(k) \/ CommitRelease(k))
        /\ SF_vars(enqueueWaitlistAllocationForSeats(k))
    /\ \A p \in Workers \cup Clients : SF_vars(BreakDeadlock(p))

-----------------------------------------------------------------------------
(* Properties                                                              *)

\* A pairing that has not been committed still owns its seat: the row is locked by
\* that worker and still on sale to everybody else, however many categories the
\* batch has gone through since.
PairingsStand ==
    \A w \in Workers : \A s \in made[w] : owner[s] = w /\ seat[s] = "available"

\* No two batches serve the same outbox row, and no pass promises more seats than its
\* category has entries waiting.
RowsApart ==
    /\ \A v, w \in Workers : v # w => Rows(v) \cap Rows(w) = {}
    /\ \A w \in Workers : \A c \in Categories : Waiting(w, c) >= 0

\* What a batch has done and not committed stands, whatever happens around it.
BatchSound == TypeOK /\ PairingsStand /\ RowsApart

\* Seats are locked in id order, so customers never deadlock over them: a cycle of
\* waiting transactions has a batch of the worker in it, or it consists of releases that
\* have all their seats, each of several categories, and each waits for the outbox row
\* another has inserted.
RequestsInOrder ==
    \A D \in Cycles :
        \/ D \cap Workers # {}
        \/ \A k \in D :
             /\ Unlocked(k) = {} /\ added[k] # {}
             /\ \E s, t \in need[k] : Category[s] # Category[t]

\* Every batch ends, in spite of lost races, cycles and customers that keep coming:
\* a pass makes at most MAX_PAIRINGS_PER_PASS iterations.
BatchesEnd == \A w \in Workers : pc[w] # "idle" ~> pc[w] = "idle"

\* Every request that locks seats is answered, whatever batch is in its way.
RequestsEnd == \A k \in Clients : pc[k] # "idle" ~> pc[k] = "idle"

\* What SYSTEM_DESIGN.md says: seats ascending by id, so none of these paths can
\* deadlock.
NoDeadlock == Cycles = {}

\* What cancelBookingInTransaction's comment says: the enqueue is an INSERT of a row that
\* nothing else has touched, so it adds nothing to the order of the locks.
EnqueueTakesNoLock == \A D \in Cycles : \A p \in D : pc[p] # "signal"

\* What allocateLoop's comment says: a failure in one row's pass, a dropped connection
\* too, does not stop the batch's other rows from being processed.
OthersSurvive == [][\A w \in Workers : pc'[w] = "idle" => Len(todo[w]) <= 1]_vars
================================================================================
