------------------------------ MODULE SeatFeed ------------------------------
(***************************************************************************)
(* A seat's status on its way from PostgreSQL to a browser: the trigger on *)
(* show_seats (migrations/1787518800000), the outbox workers of            *)
(* src/workers/realtime-seat-status.worker.ts (the same loop runs inside   *)
(* the API), the WebSocket, and the merge of snapshot and messages in      *)
(* customer-frontend/src/lib/useSeatMap.ts.                                *)
(*                                                                         *)
(* Outbox rows are claimed by available_at and created_at.  Both are the   *)
(* start time of the transaction that changed the seat, and of two         *)
(* transactions that wait for one seat the earlier one may write later, so *)
(* the order in which a seat's rows are published says nothing about their *)
(* versions: the outbox is a set.                                          *)
(***************************************************************************)
EXTENDS Naturals, Integers, FiniteSets, Sequences, SequencesExt

CONSTANTS Seats, Workers,
          MaxVersion,    \* bound: changes of one seat
          BatchSize,     \* config.realtime.outboxBatchSize
          MaxBuffered,   \* config.realtime.maxBufferedBytes, in messages
          MaxLoads       \* bound: snapshot requests under way

FeedAssumption == {MaxVersion, BatchSize, MaxBuffered, MaxLoads} \subseteq Nat \ {0}

VARIABLES status, version,          \* show_seats
          outbox,                   \* the rows with processed_at IS NULL
          claimed, sent, failed,    \* each worker's transaction
          published,                \* history: rows that have been published
          link, pipe,               \* the browser's socket, messages on their way to it
          loads,                    \* load() calls under way
          seats, versions,          \* useSeatMap: what is on screen, and versions.current
          shown,                    \* history: the version a seat on screen comes from
          calm                      \* history: the last load met nothing it could miss

table   == <<status, version>>
workers == <<claimed, sent, failed>>
page    == <<loads, seats, versions, shown>>
vars    == <<table, outbox, workers, published, link, pipe, page, calm>>

SeatStatus == {"available", "held", "booked"}
Row   == [seat : Seats, version : 1..MaxVersion, status : SeatStatus]
Load  == [state : {"sent", "answered"}, seats : [Seats -> SeatStatus], at : [Seats -> 0..MaxVersion]]
Unloaded == "unloaded"

TypeOK ==
    /\ status \in [Seats -> SeatStatus]
    /\ version \in [Seats -> 0..MaxVersion]
    /\ outbox \subseteq Row /\ published \subseteq Row
    /\ claimed \in [Workers -> SUBSET outbox]
    /\ sent \in [Workers -> SUBSET outbox]
    /\ failed \in [Workers -> SUBSET outbox]
    /\ link \in {"down", "open", "subscribed"}
    /\ pipe \in Seq(Row) /\ Len(pipe) <= MaxBuffered
    /\ loads \in Seq(Load) /\ Len(loads) <= MaxLoads
    /\ seats \in [Seats -> SeatStatus \cup {Unloaded}]
    /\ versions \in [Seats -> -1..MaxVersion]
    /\ shown \in [Seats -> 0..MaxVersion]
    /\ calm \in BOOLEAN

Init ==
    /\ status = [s \in Seats |-> "available"] /\ version = [s \in Seats |-> 0]
    /\ outbox = {} /\ published = {}
    /\ claimed = [w \in Workers |-> {}] /\ sent = claimed /\ failed = claimed
    /\ link = "down" /\ pipe = <<>>
    /\ loads = <<>>
    /\ seats = [s \in Seats |-> Unloaded] /\ versions = [s \in Seats |-> -1]
    /\ shown = [s \in Seats |-> 0]
    /\ calm = FALSE

-----------------------------------------------------------------------------
(* PostgreSQL *)

\* The trigger: the version and the row, in the transaction of the change.
emit_seat_status_event(s, to) ==
    /\ version' = [version EXCEPT ![s] = @ + 1]
    /\ outbox' = outbox \cup {[seat |-> s, version |-> version[s] + 1, status |-> to]}

\* markSeatsHeld, markSeatsBooked, releaseSeatsWithoutLiveHold, releaseBookedSeats.
ChangeSeat(s, to) ==
    /\ version[s] < MaxVersion
    /\ <<status[s], to>> \in {<<"available", "held">>, <<"held", "booked">>,
                              <<"held", "available">>, <<"booked", "available">>}
    /\ status' = [status EXCEPT ![s] = to]
    /\ emit_seat_status_event(s, to)
    /\ UNCHANGED <<workers, published, link, pipe, page, calm>>

-----------------------------------------------------------------------------
(* publishLoop *)

Held(w) == claimed[w] \cup sent[w] \cup failed[w]

\* FOR UPDATE SKIP LOCKED LIMIT batchSize.
claimPendingSeatStatusEvents(w) ==
    /\ Held(w) = {}
    /\ LET free == outbox \ UNION {Held(v) : v \in Workers}
       IN  \E B \in SUBSET free :
             /\ B # {} /\ Cardinality(B) <= BatchSize
             /\ Cardinality(B) = BatchSize \/ B = free
             /\ claimed' = [claimed EXCEPT ![w] = B]
    /\ UNCHANGED <<table, outbox, sent, failed, published, link, pipe, page, calm>>

\* forwardToLocalSubscribers and sendWithBackpressure: nobody is listening, the buffer is
\* full, or the message is on its way.
forwardToLocalSubscribers(r) ==
    /\ published' = published \cup {r}
    /\ IF link = "subscribed" /\ Len(pipe) < MaxBuffered
       THEN pipe' = Append(pipe, r) /\ UNCHANGED calm
       ELSE calm' = FALSE /\ UNCHANGED pipe

\* PUBLISH, and markSeatStatusEventProcessed.
Publish(w, r) ==
    /\ r \in claimed[w]
    /\ claimed' = [claimed EXCEPT ![w] = @ \ {r}]
    /\ sent' = [sent EXCEPT ![w] = @ \cup {r}]
    /\ forwardToLocalSubscribers(r)
    /\ UNCHANGED <<table, outbox, failed, link, page>>

\* PUBLISH fails, or its answer is lost: recordSeatStatusEventFailure.
PublishFails(w, r, arrived) ==
    /\ r \in claimed[w]
    /\ claimed' = [claimed EXCEPT ![w] = @ \ {r}]
    /\ failed' = [failed EXCEPT ![w] = @ \cup {r}]
    /\ IF arrived THEN forwardToLocalSubscribers(r) ELSE UNCHANGED <<published, pipe, calm>>
    /\ UNCHANGED <<table, outbox, sent, link, page>>

\* For the mutants: a row whose publication failed is retired too.
CommitAll(w) ==
    /\ claimed[w] = {} /\ Held(w) # {}
    /\ outbox' = outbox \ (sent[w] \cup failed[w])
    /\ sent' = [sent EXCEPT ![w] = {}] /\ failed' = [failed EXCEPT ![w] = {}]
    /\ UNCHANGED <<table, claimed, published, link, pipe, page, calm>>

\* COMMIT: what failed is claimed again after its back-off.
Commit(w) ==
    /\ claimed[w] = {} /\ Held(w) # {}
    /\ outbox' = outbox \ sent[w]
    /\ sent' = [sent EXCEPT ![w] = {}] /\ failed' = [failed EXCEPT ![w] = {}]
    /\ UNCHANGED <<table, claimed, published, link, pipe, page, calm>>

\* The worker dies: what it published is pending again.
Crash(w) ==
    /\ Held(w) # {}
    /\ claimed' = [claimed EXCEPT ![w] = {}]
    /\ sent' = [sent EXCEPT ![w] = {}] /\ failed' = [failed EXCEPT ![w] = {}]
    /\ UNCHANGED <<table, outbox, published, link, pipe, page, calm>>

-----------------------------------------------------------------------------
(* seatSocket *)

\* connect, after scheduleReconnect if the connection was lost.
onopen ==
    /\ link = "down"
    /\ link' = "open"
    /\ UNCHANGED <<table, outbox, workers, published, pipe, page, calm>>

\* The SUBSCRIBE_EVENT it sends has been handled by the server.
Subscribed ==
    /\ link = "open"
    /\ link' = "subscribed"
    /\ UNCHANGED <<table, outbox, workers, published, pipe, page, calm>>

\* The connection is lost, and what was on its way with it.
onclose ==
    /\ link # "down"
    /\ link' = "down" /\ pipe' = <<>> /\ calm' = FALSE
    /\ UNCHANGED <<table, outbox, workers, published, page>>

-----------------------------------------------------------------------------
(* useSeatMap *)

\* load up to its await: on mount, or a refetch.
load ==
    /\ Len(loads) < MaxLoads
    /\ loads' = Append(loads, [state |-> "sent", seats |-> status, at |-> version])
    /\ UNCHANGED <<table, outbox, workers, published, link, pipe, seats, versions, shown, calm>>

\* The server reads the seat map, in one statement.
findPublicSeatMap(i) ==
    /\ loads[i].state = "sent"
    /\ loads' = [loads EXCEPT ![i] = [state |-> "answered", seats |-> status, at |-> version]]
    /\ UNCHANGED <<table, outbox, workers, published, link, pipe, seats, versions, shown, calm>>

\* The versions of a seat among some rows.
VersionsIn(rows, s) == {r.version : r \in {x \in rows : x.seat = s}}

\* What the snapshot does not hold is certain to come, and nothing it holds can.
MissesNothing(l) ==
    LET certain  == (outbox \ UNION {sent[w] : w \in Workers}) \cup Range(pipe)
        possible == outbox \cup Range(pipe)
    IN  /\ link = "subscribed"
        /\ \A s \in Seats :
             /\ (l.at[s] + 1)..version[s] \subseteq VersionsIn(certain, s)
             /\ \A v \in VersionsIn(possible, s) : v > l.at[s]

\* The snapshot replaces what is on screen, and every known version.
Loaded(i) ==
    LET l == loads[i] IN
    /\ l.state = "answered"
    /\ loads' = RemoveAt(loads, i)
    /\ seats' = l.seats /\ shown' = l.at
    /\ versions' = [s \in Seats |-> 0]
    /\ calm' = MissesNothing(l)
    /\ UNCHANGED <<table, outbox, workers, published, link, pipe>>

\* load's catch: what is on screen stays.
LoadFails(i) ==
    /\ loads' = RemoveAt(loads, i)
    /\ UNCHANGED <<table, outbox, workers, published, link, pipe, seats, versions, shown, calm>>

\* For the mutants: every message is applied.
NewerAny(r) == TRUE

\* For the mutants: the snapshot's unversioned seats count as the first version.
NewerThanOne(r) == r.version > versions[r.seat] /\ r.version > 1

\* incomingVersion <= known is stale or a duplicate.
Newer(r) == r.version > versions[r.seat]

onMessage ==
    /\ pipe # <<>>
    /\ pipe' = Tail(pipe)
    /\ LET r == Head(pipe)
           s == r.seat
       IN  IF Newer(r)
           THEN /\ versions' = [versions EXCEPT ![s] = r.version]
                /\ IF seats[s] = Unloaded THEN UNCHANGED <<seats, shown>>
                   ELSE /\ seats' = [seats EXCEPT ![s] = r.status]
                        /\ shown' = [shown EXCEPT ![s] = r.version]
           ELSE UNCHANGED <<seats, versions, shown>>
    /\ UNCHANGED <<table, outbox, workers, published, link, loads, calm>>

-----------------------------------------------------------------------------

Next ==
    \/ \E s \in Seats, to \in SeatStatus : ChangeSeat(s, to)
    \/ \E w \in Workers :
         \/ claimPendingSeatStatusEvents(w) \/ Commit(w) \/ Crash(w)
         \/ \E r \in claimed[w] : Publish(w, r) \/ \E arrived \in BOOLEAN : PublishFails(w, r, arrived)
    \/ onopen \/ Subscribed \/ onclose \/ onMessage \/ load
    \/ \E i \in 1..Len(loads) : findPublicSeatMap(i) \/ Loaded(i) \/ LoadFails(i)

Spec == Init /\ [][Next]_vars

\* The loop runs again and again, and neither Redis refusing nor the worker dying cuts
\* off every pass: a first row, the last row and the commit are each reached in the end.
Fairness ==
    /\ \A w \in Workers :
         /\ SF_vars(claimPendingSeatStatusEvents(w))
         /\ SF_vars(\E r \in claimed[w] : Publish(w, r))
         /\ SF_vars(\E r \in claimed[w] : claimed[w] = {r} /\ Publish(w, r))
         /\ WF_vars(Commit(w)) /\ SF_vars(sent[w] # {} /\ Commit(w))

-----------------------------------------------------------------------------
(* Properties *)

\* The trigger and publishLoop: every change of a seat has been published or still is in
\* the outbox, whatever fails or crashes, and in whatever batches it is claimed.
NothingLost ==
    \A s \in Seats : \A v \in 1..version[s] :
        \E r \in outbox \cup published : r.seat = s /\ r.version = v

\* useSeatMap: once a message has been applied since the last load, no duplicate or
\* overtaken message takes a seat on screen back.
ForwardSinceLoad ==
    [][\A s \in Seats : versions[s] > 0 /\ shown'[s] < shown[s] => loads' # loads]_vars

\* The pipeline from the table to the screen: a page whose last load met nothing it could
\* miss, and which has kept its connection and lost no message since, shows what the
\* table says as soon as nothing is on its way.
Converges == calm /\ outbox = {} /\ pipe = <<>> => seats = status

\* From the table to the screen: no change is lost, and an undisturbed page ends up right.
FeedSound == TypeOK /\ NothingLost /\ Converges

\* publishLoop: every row is published and retired in the end.
RowsRetired == \A r \in Row : r \in outbox ~> r \notin outbox

\* useSeatMap: a message older than what a seat on screen shows is never applied.
StaleNeverWins ==
    [][\A s \in Seats : shown'[s] < shown[s] => loads' # loads]_vars

\* seatSocket: after a reconnect and the subscription it repeats, the seat map catches up
\* by itself.
ReconnectRepairs ==
    /\ link = "subscribed" /\ loads = <<>> /\ \A s \in Seats : seats[s] # Unloaded
    /\ outbox = {} /\ pipe = <<>>
    => seats = status
=============================================================================
