------------------------- MODULE EventLifecycleProofs -------------------------
(***************************************************************************)
(* Any number of events, seats, schedules and requests: nobody loses a     *)
(* reservation to a deletion, a rescheduling or a change of the venue, and *)
(* what an anonymous reader was shown stays public.                        *)
(***************************************************************************)
EXTENDS EventLifecycle, TLAPS

Editing == {"update", "publish", "delete"}

\* A transaction that has locked its event, and one that has locked its seat.
Owning(r)  == req[r].op \in Editing /\ req[r].pc \in {"check", "write"}
Holding(r) == req[r].op = "hold" /\ req[r].pc \in {"write", "commit"}

\* What each kind of request names, and the statements it goes through.
Shape(r) ==
    /\ req[r].op = "none" => req[r] = Idle
    /\ req[r].op \in Editing => req[r].e \in Events /\ req[r].pc \in {"lock", "check", "write"}
    /\ req[r].op = "hold" => /\ req[r].e \in Events /\ req[r].s \in VenueSeats
                             /\ req[r].pc \in {"lock", "write", "commit"}
    /\ req[r].op = "create" => /\ req[r].e \in Events /\ req[r].as \in EventStatus
                               /\ req[r].to \in Schedules /\ req[r].pc = "write"
    /\ req[r].op = "removeSeat" => req[r].s \in VenueSeats /\ req[r].pc = "write"

\* An event is edited or reserved after its creation has committed; a verdict reached
\* under a lock holds as long as the lock.
Decided(r) ==
    /\ req[r].op \in Editing \cup {"hold"} => status[req[r].e] # "none"
    /\ req[r].op = "create" => status[req[r].e] = "none"
    /\ Holding(r) => seat[req[r].e][req[r].s] = "available"
    /\ At(r, "hold", "commit") => Exists(req[r].e)
    /\ At(r, "delete", "write") => status[req[r].e] = "draft" /\ sold[req[r].e] = {}
    /\ At(r, "update", "write") /\ req[r].to # Keep => sold[req[r].e] = {}

\* Locks are held by the requests that took them, and FOR UPDATE excludes KEY SHARE.
LockInv ==
    /\ \A e \in Events, r \in Requests :
         /\ eventLock[e] = r <=> Owning(r) /\ req[r].e = e
         /\ r \in keyShare[e] <=> At(r, "hold", "commit") /\ req[r].e = e
         /\ \A s \in VenueSeats :
              seatLock[e][s] = r <=> Holding(r) /\ req[r].e = e /\ req[r].s = s
    /\ \A e \in Events : keyShare[e] # {} => eventLock[e] = NoRequest

\* No two requests insert one event.
Apart ==
    \A r, q \in Requests :
        r # q /\ req[r].op = "create" /\ req[q].op = "create" => req[r].e # req[q].e

\* An event that is no row yet has no seats and no reservations.
Unborn == \A e \in Events : status[e] = "none" => sold[e] = {} /\ Inventory(e) = {}

RequestsInv == \A r \in Requests : Shape(r) /\ Decided(r)
EventsInv   == Unborn /\ HistoryKept /\ ShowtimeKept /\ SeatMapIntact /\ StillVisible
IInv        == TypeOK /\ RequestsInv /\ LockInv /\ Apart /\ EventsInv

LEMMA InitInv == EventsAssumption /\ Init => IInv
  <1> SUFFICES ASSUME EventsAssumption, Init PROVE IInv
    OBVIOUS
  <1> USE DEF EventsAssumption, Init
  <1>1. TypeOK
    BY DEF TypeOK, Idle, Request, SeatCategory, EventStatus
  <1>2. RequestsInv
    BY DEF RequestsInv, Shape, Decided, Holding, At, Idle, Editing
  <1>3. LockInv
    BY DEF LockInv, Owning, Holding, At, Idle, Editing
  <1>4. Apart
    BY DEF Apart, Idle
  <1>5. EventsInv
    BY DEF EventsInv, Unborn, HistoryKept, ShowtimeKept, SeatMapIntact, StillVisible,
           Inventory
  <1> QED BY <1>1, <1>2, <1>3, <1>4, <1>5 DEF IInv

-----------------------------------------------------------------------------
(* Steps of a request *)

\* What a step that changes no table leaves of the invariant.
LEMMA TablesUntouched ==
    ASSUME EventsInv, UNCHANGED <<tables, reading>> PROVE EventsInv'
  BY DEF EventsInv, Unborn, HistoryKept, ShowtimeKept, SeatMapIntact, StillVisible, Inventory,
         listVenueSeatIds, tables, venue

\* Nothing is asked of a request whose row and whose event are as they were.
LEMMA DecidedStays ==
    ASSUME NEW q, Decided(q), req'[q] = req[q],
           \/ req[q].op \notin Editing \cup {"hold", "create"}
           \/ /\ status'[req[q].e] = status[req[q].e] /\ sold'[req[q].e] = sold[req[q].e]
              /\ Holding(q) => seat'[req[q].e][req[q].s] = seat[req[q].e][req[q].s]
    PROVE  Decided(q)'
  BY DEF Decided, Holding, At, Exists, Editing, EventStatus

\* A request begins: it has no lock and no verdict.
LEMMA BeginKeeps ==
    ASSUME EventsAssumption, IInv, NEW r \in Requests, NEW rec \in Request, Begin(r, rec),
           UNCHANGED <<tables, locks, reading>>,
           rec.op # "none", Shape(r)', Decided(r)', ~Owning(r)', ~Holding(r)', Apart'
    PROVE  IInv'
  <1> USE DEF IInv
  <1>1. req'[r] = rec /\ req[r] = Idle /\ \A q \in Requests \ {r} : req'[q] = req[q]
    BY DEF Begin, TypeOK
  <1>2. UNCHANGED <<status, sold, seat, eventLock, keyShare, seatLock>>
    BY DEF tables, locks
  <1>3. TypeOK'
    BY DEF Begin, TypeOK, tables, venue, locks
  <1>4. ASSUME NEW q \in Requests PROVE Shape(q)' /\ Decided(q)'
    BY <1>1, <1>2, DecidedStays DEF RequestsInv, Shape
  <1>5. LockInv'
    <2>1. ~Owning(r) /\ ~Holding(r)
      BY <1>1 DEF Owning, Holding, Idle, Editing
    <2>2. \A q \in Requests : /\ Owning(q)' <=> Owning(q)
                              /\ Holding(q)' <=> Holding(q)
                              /\ q # r => req'[q] = req[q]
      BY <1>1, <2>1 DEF Owning, Holding
    <2>3. \A q \in Requests : At(q, "hold", "commit") => Holding(q)
      BY DEF At, Holding
    <2>4. \A q \in Requests : At(q, "hold", "commit")' => Holding(q)'
      BY DEF At, Holding
    <2> QED BY <1>2, <2>1, <2>2, <2>3, <2>4 DEF LockInv, At
  <1>6. EventsInv'
    BY TablesUntouched
  <1> QED BY <1>3, <1>4, <1>5, <1>6 DEF RequestsInv

\* A transaction ends: its locks are gone, and the others keep theirs.
LEMMA EndKeeps ==
    ASSUME EventsAssumption, IInv, NEW r \in Requests, End(r)
    PROVE  /\ req'[r] = Idle /\ \A q \in Requests \ {r} : req'[q] = req[q]
           /\ req' \in [Requests -> Request]
           /\ eventLock' \in [Events -> Requests \cup {NoRequest}]
           /\ keyShare' \in [Events -> SUBSET Requests]
           /\ seatLock' \in [Events -> [VenueSeats -> Requests \cup {NoRequest}]]
           /\ LockInv' /\ Apart' /\ \A q \in Requests : Shape(q)'
           /\ Decided(r)'
  <1> USE DEF IInv
  <1>1. req'[r] = Idle /\ \A q \in Requests \ {r} : req'[q] = req[q]
    BY DEF End, TypeOK
  <1>2. Idle \in Request
    BY DEF Idle, Request
  <1>3. /\ req' \in [Requests -> Request]
        /\ eventLock' \in [Events -> Requests \cup {NoRequest}]
        /\ keyShare' \in [Events -> SUBSET Requests]
        /\ seatLock' \in [Events -> [VenueSeats -> Requests \cup {NoRequest}]]
    BY <1>2 DEF End, TypeOK
  <1>4. Idle.op = "none"
    BY DEF Idle
  <1>5. ~Owning(r)' /\ ~Holding(r)' /\ ~At(r, "hold", "commit")'
    BY <1>1, <1>4 DEF Owning, Holding, At, Editing
  <1>6. \A q \in Requests \ {r} : /\ Owning(q)' <=> Owning(q)
                                  /\ Holding(q)' <=> Holding(q)
                                  /\ At(q, "hold", "commit")' <=> At(q, "hold", "commit")
    BY <1>1 DEF Owning, Holding, At
  <1>7. LockInv'
    <2>1. \A e \in Events : eventLock'[e] = IF eventLock[e] = r THEN NoRequest ELSE eventLock[e]
      BY DEF End
    <2>2. \A e \in Events : keyShare'[e] = keyShare[e] \ {r}
      BY DEF End
    <2>3. \A e \in Events, s \in VenueSeats :
              seatLock'[e][s] = IF seatLock[e][s] = r THEN NoRequest ELSE seatLock[e][s]
      BY DEF End
    <2>4. r # NoRequest /\ NoRequest \notin Requests
      BY DEF EventsAssumption
    <2>5. ASSUME NEW e \in Events, NEW q \in Requests
          PROVE  /\ eventLock'[e] = q <=> Owning(q)' /\ req'[q].e = e
                 /\ q \in keyShare'[e] <=> At(q, "hold", "commit")' /\ req'[q].e = e
                 /\ \A s \in VenueSeats :
                      seatLock'[e][s] = q <=> Holding(q)' /\ req'[q].e = e /\ req'[q].s = s
      <3>1. CASE q = r
        BY <3>1, <1>5, <2>1, <2>2, <2>3, <2>4
      <3>2. CASE q # r
        BY <3>2, <1>1, <1>6, <2>1, <2>2, <2>3, <2>4 DEF LockInv
      <3> QED BY <3>1, <3>2
    <2>6. ASSUME NEW e \in Events, keyShare'[e] # {} PROVE eventLock'[e] = NoRequest
      BY <2>6, <2>1, <2>2 DEF LockInv
    <2> QED BY <2>5, <2>6 DEF LockInv
  <1>8. Apart'
    BY <1>1, <1>4 DEF Apart
  <1>9. ASSUME NEW q \in Requests PROVE Shape(q)'
    BY <1>1, <1>4 DEF RequestsInv, Shape, Editing
  <1>10. Decided(r)'
    BY <1>1, <1>4, <1>5 DEF Decided, At, Editing
  <1> QED BY <1>1, <1>3, <1>7, <1>8, <1>9, <1>10

\* A request goes on to its next statement, and remembers what it is doing.
LEMMA GoMoves ==
    ASSUME TypeOK, NEW r \in Requests, NEW pc \in {"check", "write", "commit"}, Go(r, pc)
    PROVE  /\ req' \in [Requests -> Request]
           /\ req'[r].op = req[r].op /\ req'[r].e = req[r].e /\ req'[r].s = req[r].s
           /\ req'[r].to = req[r].to /\ req'[r].pc = pc
           /\ \A q \in Requests \ {r} : req'[q] = req[q]
  <1> DEFINE rec == [req[r] EXCEPT !.pc = pc]
  <1>1. req[r] \in Request /\ req' = [req EXCEPT ![r] = rec]
    BY DEF Go, TypeOK
  <1>2. /\ rec \in Request /\ rec.op = req[r].op /\ rec.e = req[r].e /\ rec.s = req[r].s
        /\ rec.to = req[r].to /\ rec.pc = pc
    BY <1>1 DEF Request
  <1> HIDE DEF rec
  <1> QED BY <1>1, <1>2 DEF TypeOK

LEMMA RollbackKeeps ==
    ASSUME EventsAssumption, IInv, NEW r \in Requests, Rollback(r) PROVE IInv'
  <1> USE DEF IInv
  <1>1. End(r) /\ UNCHANGED <<tables, reading>>
    BY DEF Rollback
  <1>2. TypeOK'
    BY <1>1, EndKeeps DEF TypeOK, tables, venue
  <1>3. ASSUME NEW q \in Requests PROVE Decided(q)'
    BY <1>1, EndKeeps, DecidedStays DEF RequestsInv, tables
  <1> QED BY <1>1, <1>2, <1>3, EndKeeps, TablesUntouched DEF RequestsInv

-----------------------------------------------------------------------------
(* The venue *)

LEMMA insertVenueSeatsKeeps ==
    ASSUME IInv, NEW s \in VenueSeats, NEW c \in SeatCategory, insertVenueSeats(s, c)
    PROVE  IInv'
  <1> USE DEF IInv, insertVenueSeats
  <1>1. TypeOK'
    BY DEF TypeOK, locks
  <1>2. RequestsInv' /\ LockInv' /\ Apart'
    BY DEF RequestsInv, LockInv, Apart, Shape, Decided, Owning, Holding, At, Exists, locks
  <1>3. listVenueSeatIds \subseteq listVenueSeatIds'
    BY DEF listVenueSeatIds, TypeOK
  <1>4. EventsInv'
    BY <1>3 DEF EventsInv, Unborn, HistoryKept, ShowtimeKept, SeatMapIntact, StillVisible,
                Inventory
  <1> QED BY <1>1, <1>2, <1>4

LEMMA updateVenueSeatCategoryKeeps ==
    ASSUME IInv, NEW s \in VenueSeats, NEW c \in SeatCategory, updateVenueSeatCategory(s, c)
    PROVE  IInv'
  BY DEF IInv, updateVenueSeatCategory, TypeOK, locks, RequestsInv, LockInv, Apart, Shape,
         Decided, Owning, Holding, At, Exists, EventsInv, Unborn, HistoryKept, ShowtimeKept,
         SeatMapIntact, StillVisible, Inventory, listVenueSeatIds

\* ON DELETE RESTRICT: a seat that any event's inventory names stays.
LEMMA deleteVenueSeatKeeps ==
    ASSUME EventsAssumption, IInv, NEW r \in Requests, deleteVenueSeat(r) PROVE IInv'
  <1> USE DEF IInv
  <1>1. /\ End(r) /\ UNCHANGED <<status, schedule, category, seat, price, sold, reading>>
        /\ req[r].s \in VenueSeats
    BY DEF deleteVenueSeat, RequestsInv, Shape, At
  <1>2. TypeOK'
    BY <1>1, EndKeeps DEF deleteVenueSeat, TypeOK
  <1>3. ASSUME NEW q \in Requests PROVE Decided(q)'
    BY <1>1, EndKeeps, DecidedStays DEF RequestsInv
  <1>4. \A e \in Events, s \in VenueSeats : seat[e][s] # "none" => layout'[s] = layout[s]
    BY DEF deleteVenueSeat, InUse, TypeOK
  <1>5. EventsInv'
    BY <1>1, <1>4 DEF EventsInv, Unborn, HistoryKept, ShowtimeKept, SeatMapIntact,
                      StillVisible, Inventory, listVenueSeatIds
  <1> QED BY <1>1, <1>2, <1>3, <1>5, EndKeeps DEF RequestsInv

-----------------------------------------------------------------------------
(* Events *)

\* The event appears with seats that are still in the layout, and nobody has heard of it.
LEMMA createShowSeatsKeeps ==
    ASSUME EventsAssumption, IInv, NEW r \in Requests, createShowSeatsForEvent(r) PROVE IInv'
  <1> DEFINE e == req[r].e
             S == req[r].seats \cap listVenueSeatIds
  <1> USE DEF IInv
  <1>1. /\ End(r) /\ UNCHANGED <<venue, sold, reading>> /\ req[r].op = "create"
        /\ e \in Events /\ status[e] = "none" /\ req[r].as \in EventStatus
        /\ req[r].to \in Schedules
    BY DEF createShowSeatsForEvent, RequestsInv, Shape, Decided, At
  <1>2. TypeOK'
    BY <1>1, EndKeeps DEF createShowSeatsForEvent, TypeOK, venue
  <1>3. /\ status'[e] \in EventStatus
        /\ \A s \in VenueSeats : seat'[e][s] # "none" => s \in listVenueSeatIds
        /\ \A f \in Events \ {e} :
               status'[f] = status[f] /\ seat'[f] = seat[f] /\ schedule'[f] = schedule[f]
    BY <1>1 DEF createShowSeatsForEvent, TypeOK
  <1>4. ASSUME NEW q \in Requests PROVE Decided(q)'
    <2>1. CASE q = r
      BY <2>1, <1>1, EndKeeps
    <2>2. CASE q # r
      <3>1. req[q].op \in Editing \cup {"hold", "create"} => req[q].e \in Events \ {e}
        BY <2>2, <1>1 DEF RequestsInv, Shape, Decided, Apart, Editing
      <3> QED BY <2>2, <3>1, <1>1, <1>3, EndKeeps, DecidedStays DEF RequestsInv
    <2> QED BY <2>1, <2>2
  <1>5. EventsInv'
    <2>1. sold[e] = {} /\ status[e] # "deleted"
      BY <1>1 DEF EventsInv, Unborn
    <2>2. Unborn' /\ HistoryKept' /\ ShowtimeKept'
      BY <1>1, <1>3, <2>1 DEF EventsInv, Unborn, HistoryKept, ShowtimeKept, Inventory,
                              EventStatus
    <2>3. SeatMapIntact'
      BY <1>1, <1>3 DEF EventsInv, SeatMapIntact, Inventory, listVenueSeatIds, venue
    <2>4. reading # NoEvent => reading \in Events /\ reading # e
      BY <1>1 DEF EventsInv, StillVisible, TypeOK, EventStatus
    <2>5. StillVisible'
      BY <1>1, <1>3, <2>4 DEF EventsInv, StillVisible
    <2> QED BY <2>2, <2>3, <2>5 DEF EventsInv
  <1> QED BY <1>1, <1>2, <1>4, <1>5, EndKeeps DEF RequestsInv

\* FOR UPDATE is granted when nobody has the row, shared or exclusively.
LEMMA lockEventForOwnershipKeeps ==
    ASSUME EventsAssumption, IInv, NEW r \in Requests, lockEventForOwnership(r) PROVE IInv'
  <1> DEFINE e == req[r].e
  <1> USE DEF IInv
  <1>1. /\ req[r].op \in Editing /\ req[r].pc = "lock" /\ e \in Events
        /\ UNCHANGED <<tables, keyShare, seatLock, reading>>
        /\ eventLock' = [eventLock EXCEPT ![e] = r] /\ Go(r, "check")
    BY DEF lockEventForOwnership, RequestsInv, Shape, Editing
  <1>2. req' \in [Requests -> Request] /\ \A q \in Requests \ {r} : req'[q] = req[q]
    BY <1>1, GoMoves
  <1>3. /\ req'[r].op = req[r].op /\ req'[r].e = e /\ req'[r].s = req[r].s
        /\ req'[r].to = req[r].to /\ req'[r].pc = "check"
    BY <1>1, GoMoves
  <1>4. TypeOK'
    BY <1>1, <1>2 DEF TypeOK, tables, venue
  <1>5. \A q \in Requests \ {r} : q \notin keyShare[e] /\ q # eventLock[e]
    BY <1>1 DEF lockEventForOwnership, Waits, Editing
  <1>6. ~Owning(r) /\ ~Holding(r) /\ ~At(r, "hold", "commit")
    BY <1>1 DEF Owning, Holding, At, Editing
  <1>7. keyShare[e] = {} /\ eventLock[e] = NoRequest
    BY <1>1, <1>5, <1>6 DEF LockInv, TypeOK
  <1>8. Owning(r)' /\ ~Holding(r)' /\ ~At(r, "hold", "commit")'
    BY <1>1, <1>3 DEF Owning, Holding, At, Editing
  <1>9. \A q \in Requests \ {r} : /\ Owning(q)' <=> Owning(q)
                                  /\ Holding(q)' <=> Holding(q)
                                  /\ At(q, "hold", "commit")' <=> At(q, "hold", "commit")
    BY <1>2 DEF Owning, Holding, At
  <1>10. LockInv'
    <2>1. eventLock'[e] = r /\ \A f \in Events \ {e} : eventLock'[f] = eventLock[f]
      BY <1>1 DEF TypeOK
    <2>2. ASSUME NEW f \in Events, NEW q \in Requests
          PROVE  /\ eventLock'[f] = q <=> Owning(q)' /\ req'[q].e = f
                 /\ q \in keyShare'[f] <=> At(q, "hold", "commit")' /\ req'[q].e = f
                 /\ \A s \in VenueSeats :
                      seatLock'[f][s] = q <=> Holding(q)' /\ req'[q].e = f /\ req'[q].s = s
      <3>1. CASE q = r
        BY <3>1, <2>1, <1>1, <1>3, <1>6, <1>7, <1>8 DEF LockInv
      <3>2. CASE q # r
        <4>1. eventLock'[f] = q <=> eventLock[f] = q
          BY <3>2, <2>1, <1>7 DEF EventsAssumption
        <4> QED BY <3>2, <4>1, <1>1, <1>2, <1>9 DEF LockInv
      <3> QED BY <3>1, <3>2
    <2>3. ASSUME NEW f \in Events, keyShare'[f] # {} PROVE eventLock'[f] = NoRequest
      BY <2>1, <2>3, <1>1, <1>7 DEF LockInv
    <2> QED BY <2>2, <2>3 DEF LockInv
  <1>11. ASSUME NEW q \in Requests PROVE Shape(q)' /\ Decided(q)'
    <2>1. CASE q = r
      BY <2>1, <1>1, <1>3, <1>8 DEF RequestsInv, Shape, Decided, At, Editing, tables
    <2>2. CASE q # r
      BY <2>2, <1>1, <1>2, DecidedStays DEF RequestsInv, Shape, tables
    <2> QED BY <2>1, <2>2
  <1>12. Apart'
    BY <1>1, <1>2, <1>3 DEF Apart, Editing
  <1>13. EventsInv'
    BY <1>1, TablesUntouched
  <1> QED BY <1>4, <1>10, <1>11, <1>12, <1>13 DEF RequestsInv

\* The verdict of the checks, reached while the row is locked.
LEMMA JudgeKeeps ==
    ASSUME EventsAssumption, IInv, NEW r \in Requests, Judge(r) PROVE IInv'
  <1> USE DEF IInv
  <1>1. /\ req[r].op \in Editing /\ req[r].pc = "check"
        /\ UNCHANGED <<tables, locks, reading>> /\ Go(r, "write")
    BY DEF Judge, Allowed, Editing
  <1>2. req' \in [Requests -> Request] /\ \A q \in Requests \ {r} : req'[q] = req[q]
    BY <1>1, GoMoves
  <1>3. /\ req'[r].op = req[r].op /\ req'[r].e = req[r].e /\ req'[r].s = req[r].s
        /\ req'[r].to = req[r].to /\ req'[r].pc = "write"
    BY <1>1, GoMoves
  <1>4. TypeOK'
    BY <1>1, <1>2 DEF TypeOK, tables, venue, locks
  <1>5. \A q \in Requests : /\ Owning(q)' <=> Owning(q)
                            /\ Holding(q)' <=> Holding(q)
                            /\ At(q, "hold", "commit")' <=> At(q, "hold", "commit")
                            /\ req'[q].e = req[q].e /\ req'[q].s = req[q].s
                            /\ req'[q].op = req[q].op
    BY <1>1, <1>2, <1>3 DEF Owning, Holding, At, Editing
  <1>6. LockInv' /\ Apart'
    BY <1>1, <1>5 DEF LockInv, Apart, locks
  <1>7. Shape(r)' /\ Decided(r)'
    <2>1. status[req[r].e] # "none" /\ req[r].e \in Events
      BY <1>1 DEF RequestsInv, Shape, Decided
    <2>2. req[r].op = "delete" => status[req[r].e] = "draft" /\ sold[req[r].e] = {}
      BY DEF Judge, Allowed, MayDelete, hasEventHistory
    <2>3. req[r].op = "update" /\ req[r].to # Keep => sold[req[r].e] = {}
      BY DEF Judge, Allowed, MayUpdate, hasEventHistory
    <2> QED BY <2>1, <2>2, <2>3, <1>1, <1>3 DEF Shape, Decided, At, Holding, Editing, tables
  <1>8. ASSUME NEW q \in Requests \ {r} PROVE Shape(q)' /\ Decided(q)'
    BY <1>1, <1>2, DecidedStays DEF RequestsInv, Shape, tables
  <1>9. EventsInv'
    BY <1>1, TablesUntouched
  <1> QED BY <1>4, <1>6, <1>7, <1>8, <1>9 DEF RequestsInv

\* Two requests never have one event locked.
LEMMA OwnerAlone ==
    ASSUME EventsAssumption, IInv, NEW r \in Requests, NEW q \in Requests, q # r, Owning(r),
           req[q].e = req[r].e
    PROVE  /\ ~Owning(q) /\ ~At(q, "hold", "commit") /\ eventLock[req[r].e] = r
  BY DEF IInv, RequestsInv, Shape, LockInv, Owning, EventsAssumption

\* An event is rescheduled only while nobody has reserved anything of it.
LEMMA updateEventFieldsKeeps ==
    ASSUME EventsAssumption, IInv, NEW r \in Requests, updateEventFields(r) PROVE IInv'
  <1> USE DEF IInv
  <1>1. /\ End(r) /\ UNCHANGED <<status, venue, seat, price, sold, reading>>
        /\ At(r, "update", "write") /\ req[r].e \in Events
        /\ req[r].to \in Schedules \cup {Keep}
    BY DEF updateEventFields, RequestsInv, Shape, At, Editing, TypeOK, Request
  <1>2. TypeOK'
    BY <1>1, EndKeeps DEF updateEventFields, TypeOK, venue
  <1>3. ASSUME NEW q \in Requests PROVE Decided(q)'
    BY <1>1, EndKeeps, DecidedStays DEF RequestsInv
  <1>4. ShowtimeKept'
    <2>1. req[r].to # Keep => sold[req[r].e] = {}
      BY <1>1 DEF RequestsInv, Decided
    <2> QED BY <1>1, <2>1 DEF updateEventFields, EventsInv, ShowtimeKept, TypeOK
  <1>5. EventsInv'
    BY <1>1, <1>4 DEF EventsInv, Unborn, HistoryKept, SeatMapIntact, StillVisible, Inventory,
                      listVenueSeatIds, venue
  <1> QED BY <1>1, <1>2, <1>3, <1>5, EndKeeps DEF RequestsInv

LEMMA markEventPublishedKeeps ==
    ASSUME EventsAssumption, IInv, NEW r \in Requests, markEventPublished(r) PROVE IInv'
  <1> DEFINE e == req[r].e
  <1> USE DEF IInv
  <1>1. /\ End(r) /\ UNCHANGED <<schedule, venue, seat, price, sold, reading>>
        /\ At(r, "publish", "write") /\ e \in Events /\ status[e] = "draft" /\ Owning(r)
    BY DEF markEventPublished, RequestsInv, Shape, At, Editing, Owning
  <1>2. TypeOK'
    BY <1>1, EndKeeps DEF markEventPublished, TypeOK, venue, EventStatus
  <1>3. status'[e] = "published" /\ \A f \in Events \ {e} : status'[f] = status[f]
    BY <1>1 DEF markEventPublished, TypeOK
  <1>4. ASSUME NEW q \in Requests PROVE Decided(q)'
    <2>1. CASE q = r
      BY <2>1, <1>1, EndKeeps
    <2>2. CASE q # r /\ req[q].e = e
      <3>1. ~Owning(q) /\ ~At(q, "hold", "commit") /\ req'[q] = req[q] /\ Decided(q)
        BY <2>2, <1>1, OwnerAlone, EndKeeps DEF RequestsInv
      <3>2. req[q].op # "create"
        BY <2>2, <3>1, <1>1 DEF Decided
      <3> QED BY <2>2, <3>1, <3>2, <1>1, <1>3 DEF Decided, Owning, Holding, At, Editing
    <2>3. CASE q # r /\ req[q].e # e
      <3>1. req[q].op \in Editing \cup {"hold", "create"} => req[q].e \in Events \ {e}
        BY <2>3 DEF RequestsInv, Shape
      <3> QED BY <2>3, <3>1, <1>1, <1>3, EndKeeps, DecidedStays DEF RequestsInv
    <2> QED BY <2>1, <2>2, <2>3
  <1>5. EventsInv'
    <2>1. Unborn' /\ HistoryKept' /\ ShowtimeKept'
      BY <1>1, <1>3 DEF EventsInv, Unborn, HistoryKept, ShowtimeKept, Inventory
    <2>2. SeatMapIntact'
      BY <1>1 DEF EventsInv, SeatMapIntact, Inventory, listVenueSeatIds, venue
    <2>3. StillVisible'
      BY <1>1, <1>3 DEF EventsInv, StillVisible, TypeOK, EventStatus
    <2> QED BY <2>1, <2>2, <2>3 DEF EventsInv
  <1> QED BY <1>1, <1>2, <1>4, <1>5, EndKeeps DEF RequestsInv

\* The row that goes is a draft without reservations, none is on its way to it, and nobody
\* has been shown it.
LEMMA deleteEventRowKeeps ==
    ASSUME EventsAssumption, IInv, NEW r \in Requests, deleteEventRow(r) PROVE IInv'
  <1> DEFINE e == req[r].e
  <1> USE DEF IInv
  <1>1. /\ End(r) /\ UNCHANGED <<schedule, venue, sold, reading>>
        /\ At(r, "delete", "write") /\ e \in Events /\ Owning(r)
        /\ status[e] = "draft" /\ sold[e] = {}
    BY DEF deleteEventRow, RequestsInv, Shape, Decided, At, Editing, Owning
  <1>2. TypeOK'
    BY <1>1, EndKeeps DEF deleteEventRow, TypeOK, venue
  <1>3. /\ status'[e] = "deleted" /\ \A s \in VenueSeats : seat'[e][s] = "none"
        /\ \A f \in Events \ {e} : status'[f] = status[f] /\ seat'[f] = seat[f]
    BY <1>1 DEF deleteEventRow, TypeOK
  <1>4. ASSUME NEW q \in Requests PROVE Decided(q)'
    <2>1. CASE q = r
      BY <2>1, <1>1, EndKeeps
    <2>2. CASE q # r /\ req[q].e = e
      <3>1. ~Owning(q) /\ ~At(q, "hold", "commit") /\ req'[q] = req[q] /\ Decided(q)
        BY <2>2, <1>1, OwnerAlone, EndKeeps DEF RequestsInv
      <3>2. ~Holding(q)
        <4>1. \A s \in VenueSeats : q # seatLock[e][s]
          BY <2>2, <1>1 DEF deleteEventRow, Waits
        <4> QED BY <2>2, <4>1, <1>1 DEF LockInv, RequestsInv, Shape, Holding
      <3>3. req[q].op # "create"
        BY <2>2, <3>1, <1>1 DEF Decided
      <3> QED BY <2>2, <3>1, <3>2, <3>3, <1>1, <1>3 DEF Decided, Owning, Holding, At, Editing
    <2>3. CASE q # r /\ req[q].e # e
      <3>1. req[q].op \in Editing \cup {"hold", "create"} => req[q].e \in Events \ {e}
        BY <2>3 DEF RequestsInv, Shape
      <3> QED BY <2>3, <3>1, <1>1, <1>3, EndKeeps, DecidedStays DEF RequestsInv
    <2> QED BY <2>1, <2>2, <2>3
  <1>5. EventsInv'
    <2>1. Unborn' /\ HistoryKept' /\ ShowtimeKept'
      BY <1>1, <1>3 DEF EventsInv, Unborn, HistoryKept, ShowtimeKept, Inventory
    <2>2. SeatMapIntact'
      BY <1>1, <1>3 DEF EventsInv, SeatMapIntact, Inventory, listVenueSeatIds, venue
    <2>3. StillVisible'
      BY <1>1, <1>3 DEF EventsInv, StillVisible, TypeOK
    <2> QED BY <2>1, <2>2, <2>3 DEF EventsInv
  <1> QED BY <1>1, <1>2, <1>4, <1>5, EndKeeps DEF RequestsInv

-----------------------------------------------------------------------------
(* Reservations *)

LEMMA lockEventSeatsKeeps ==
    ASSUME EventsAssumption, IInv, NEW r \in Requests, lockEventSeats(r) PROVE IInv'
  <1> DEFINE e == req[r].e
             s == req[r].s
  <1> USE DEF IInv
  <1>1. /\ At(r, "hold", "lock") /\ e \in Events /\ s \in VenueSeats
        /\ seat[e][s] = "available"
        /\ UNCHANGED <<tables, eventLock, keyShare, reading>>
        /\ seatLock' = [seatLock EXCEPT ![e][s] = r] /\ Go(r, "write")
    BY DEF lockEventSeats, RequestsInv, Shape, At
  <1>2. req' \in [Requests -> Request] /\ \A q \in Requests \ {r} : req'[q] = req[q]
    BY <1>1, GoMoves
  <1>3. /\ req'[r].op = "hold" /\ req'[r].e = e /\ req'[r].s = s
        /\ req'[r].to = req[r].to /\ req'[r].pc = "write"
    BY <1>1, GoMoves DEF At
  <1>4. TypeOK'
    BY <1>1, <1>2 DEF TypeOK, tables, venue
  <1>5. \A q \in Requests : seatLock[e][s] # q
    <2>1. seatLock[e][s] # r
      BY <1>1 DEF LockInv, Holding, At
    <2> QED BY <1>1, <2>1 DEF lockEventSeats, Waits
  <1>6. /\ ~Owning(r)' /\ Holding(r)' /\ ~At(r, "hold", "commit")'
        /\ ~Owning(r) /\ ~Holding(r) /\ ~At(r, "hold", "commit")
    BY <1>1, <1>3 DEF Owning, Holding, At, Editing
  <1>7. \A q \in Requests \ {r} : /\ Owning(q)' <=> Owning(q)
                                  /\ Holding(q)' <=> Holding(q)
                                  /\ At(q, "hold", "commit")' <=> At(q, "hold", "commit")
    BY <1>2 DEF Owning, Holding, At
  <1>8. LockInv'
    <2>1. \A f \in Events, u \in VenueSeats :
              seatLock'[f][u] = IF f = e /\ u = s THEN r ELSE seatLock[f][u]
      BY <1>1 DEF TypeOK
    <2>2. ASSUME NEW f \in Events, NEW q \in Requests
          PROVE  /\ eventLock'[f] = q <=> Owning(q)' /\ req'[q].e = f
                 /\ q \in keyShare'[f] <=> At(q, "hold", "commit")' /\ req'[q].e = f
                 /\ \A u \in VenueSeats :
                      seatLock'[f][u] = q <=> Holding(q)' /\ req'[q].e = f /\ req'[q].s = u
      <3>1. CASE q = r
        BY <3>1, <2>1, <1>1, <1>3, <1>6 DEF LockInv
      <3>2. CASE q # r
        BY <3>2, <2>1, <1>1, <1>2, <1>5, <1>7 DEF LockInv
      <3> QED BY <3>1, <3>2
    <2> QED BY <2>2, <1>1 DEF LockInv
  <1>9. ASSUME NEW q \in Requests PROVE Shape(q)' /\ Decided(q)'
    <2>1. CASE q = r
      BY <2>1, <1>1, <1>3, <1>6 DEF RequestsInv, Shape, Decided, At, Editing, tables
    <2>2. CASE q # r
      BY <2>2, <1>1, <1>2, DecidedStays DEF RequestsInv, Shape, tables
    <2> QED BY <2>1, <2>2
  <1>10. Apart'
    BY <1>2, <1>3 DEF Apart
  <1>11. EventsInv'
    BY <1>1, TablesUntouched
  <1> QED BY <1>4, <1>8, <1>9, <1>10, <1>11 DEF RequestsInv

\* The foreign key waits for whoever edits the event, and finds the row or fails.
LEMMA insertHoldKeeps ==
    ASSUME EventsAssumption, IInv, NEW r \in Requests, insertHold(r) PROVE IInv'
  <1> DEFINE e == req[r].e
  <1> USE DEF IInv
  <1>1. /\ At(r, "hold", "write") /\ e \in Events /\ req[r].s \in VenueSeats /\ Exists(e)
        /\ UNCHANGED <<tables, eventLock, seatLock, reading>>
        /\ keyShare' = [keyShare EXCEPT ![e] = @ \cup {r}] /\ Go(r, "commit")
    BY DEF insertHold, RequestsInv, Shape, At
  <1>2. req' \in [Requests -> Request] /\ \A q \in Requests \ {r} : req'[q] = req[q]
    BY <1>1, GoMoves
  <1>3. /\ req'[r].op = "hold" /\ req'[r].e = e /\ req'[r].s = req[r].s
        /\ req'[r].to = req[r].to /\ req'[r].pc = "commit"
    BY <1>1, GoMoves DEF At
  <1>4. TypeOK'
    BY <1>1, <1>2 DEF TypeOK, tables, venue
  <1>5. /\ ~Owning(r)' /\ Holding(r)' /\ At(r, "hold", "commit")'
        /\ ~Owning(r) /\ Holding(r) /\ ~At(r, "hold", "commit")
    BY <1>1, <1>3 DEF Owning, Holding, At, Editing
  <1>6. eventLock[e] = NoRequest
    <2>1. eventLock[e] # r
      BY <1>1, <1>5 DEF LockInv
    <2>2. \A q \in Requests \ {r} : eventLock[e] # q
      BY <1>1 DEF insertHold, Waits
    <2> QED BY <2>1, <2>2, <1>1 DEF TypeOK
  <1>7. \A q \in Requests \ {r} : /\ Owning(q)' <=> Owning(q)
                                  /\ Holding(q)' <=> Holding(q)
                                  /\ At(q, "hold", "commit")' <=> At(q, "hold", "commit")
    BY <1>2 DEF Owning, Holding, At
  <1>8. LockInv'
    <2>1. \A f \in Events : keyShare'[f] = IF f = e THEN keyShare[f] \cup {r} ELSE keyShare[f]
      BY <1>1 DEF TypeOK
    <2>2. ASSUME NEW f \in Events, NEW q \in Requests
          PROVE  /\ eventLock'[f] = q <=> Owning(q)' /\ req'[q].e = f
                 /\ q \in keyShare'[f] <=> At(q, "hold", "commit")' /\ req'[q].e = f
                 /\ \A u \in VenueSeats :
                      seatLock'[f][u] = q <=> Holding(q)' /\ req'[q].e = f /\ req'[q].s = u
      <3>1. CASE q = r
        BY <3>1, <2>1, <1>1, <1>3, <1>5 DEF LockInv
      <3>2. CASE q # r
        BY <3>2, <2>1, <1>1, <1>2, <1>7 DEF LockInv
      <3> QED BY <3>1, <3>2
    <2>3. ASSUME NEW f \in Events, keyShare'[f] # {} PROVE eventLock'[f] = NoRequest
      BY <2>1, <2>3, <1>1, <1>6 DEF LockInv
    <2> QED BY <2>2, <2>3 DEF LockInv
  <1>9. ASSUME NEW q \in Requests PROVE Shape(q)' /\ Decided(q)'
    <2>1. CASE q = r
      <3>1. Shape(r) /\ Decided(r) /\ UNCHANGED <<status, seat, sold>>
        BY <1>1 DEF RequestsInv, tables
      <3>2. status'[e] \in EventStatus
        BY <1>1, <3>1 DEF Exists
      <3> QED BY <2>1, <3>1, <3>2, <1>1, <1>3, <1>5
              DEF Shape, Decided, At, Exists, Editing, EventStatus
    <2>2. CASE q # r
      BY <2>2, <1>1, <1>2, DecidedStays DEF RequestsInv, Shape, tables
    <2> QED BY <2>1, <2>2
  <1>10. Apart'
    BY <1>2, <1>3 DEF Apart
  <1>11. EventsInv'
    BY <1>1, TablesUntouched
  <1> QED BY <1>4, <1>8, <1>9, <1>10, <1>11 DEF RequestsInv

\* The hold is one of the schedule the event has, and of a seat that is there.
LEMMA CommitHoldKeeps ==
    ASSUME EventsAssumption, IInv, NEW r \in Requests, CommitHold(r) PROVE IInv'
  <1> DEFINE e == req[r].e
             s == req[r].s
  <1> USE DEF IInv
  <1>1. /\ End(r) /\ UNCHANGED <<status, schedule, venue, price, reading>>
        /\ At(r, "hold", "commit") /\ Holding(r) /\ e \in Events /\ s \in VenueSeats
        /\ Exists(e) /\ seat[e][s] = "available"
    BY DEF CommitHold, RequestsInv, Shape, Decided, At, Holding
  <1>2. TypeOK'
    BY <1>1, EndKeeps DEF CommitHold, TypeOK, venue
  <1>3. /\ \A f \in Events, u \in VenueSeats :
               seat'[f][u] = IF f = e /\ u = s THEN "held" ELSE seat[f][u]
        /\ sold'[e] = sold[e] \cup {schedule[e]}
        /\ \A f \in Events \ {e} : sold'[f] = sold[f]
    BY <1>1 DEF CommitHold, TypeOK
  <1>4. r \in keyShare[e] /\ eventLock[e] = NoRequest /\ seatLock[e][s] = r
    BY <1>1 DEF LockInv
  <1>5. ASSUME NEW q \in Requests PROVE Decided(q)'
    <2>1. CASE q = r
      BY <2>1, <1>1, EndKeeps
    <2>2. CASE q # r /\ req[q].e = e
      <3>1. ~Owning(q) /\ req'[q] = req[q] /\ Shape(q) /\ Decided(q)
        BY <2>2, <1>1, <1>4, EndKeeps DEF RequestsInv, LockInv, EventsAssumption
      <3>2. Holding(q) => req[q].s # s /\ req[q].s \in VenueSeats
        BY <2>2, <3>1, <1>1, <1>4 DEF LockInv, Shape, Holding
      <3> QED BY <2>2, <3>1, <3>2, <1>1, <1>3 DEF Decided, Owning, Holding, At, Exists, Editing
    <2>3. CASE q # r /\ req[q].e # e
      <3>1. req[q].op \in Editing \cup {"hold", "create"} => req[q].e \in Events \ {e}
        BY <2>3 DEF RequestsInv, Shape
      <3>2. Holding(q) => req[q].s \in VenueSeats /\ req[q].op = "hold"
        BY DEF RequestsInv, Shape, Holding
      <3>3. Decided(q) /\ req'[q] = req[q]
        BY <2>3, <1>1, EndKeeps DEF RequestsInv
      <3>4. \/ req[q].op \notin Editing \cup {"hold", "create"}
            \/ /\ status'[req[q].e] = status[req[q].e] /\ sold'[req[q].e] = sold[req[q].e]
               /\ Holding(q) => seat'[req[q].e][req[q].s] = seat[req[q].e][req[q].s]
        BY <2>3, <3>1, <3>2, <1>1, <1>3
      <3> QED BY <3>3, <3>4, DecidedStays
    <2> QED BY <2>1, <2>2, <2>3
  <1>6. EventsInv'
    <2>1. status[e] \notin {"none", "deleted"}
      BY <1>1 DEF Exists, EventStatus
    <2>2. Unborn' /\ HistoryKept' /\ ShowtimeKept'
      BY <1>1, <1>3, <2>1 DEF EventsInv, Unborn, HistoryKept, ShowtimeKept, Inventory
    <2>3. SeatMapIntact'
      BY <1>1, <1>3 DEF EventsInv, SeatMapIntact, Inventory, listVenueSeatIds, venue
    <2>4. StillVisible'
      BY <1>1 DEF EventsInv, StillVisible
    <2> QED BY <2>2, <2>3, <2>4 DEF EventsInv
  <1> QED BY <1>1, <1>2, <1>5, <1>6, EndKeeps DEF RequestsInv

\* A confirmation, a release or a lapse changes a seat nobody has locked.
LEMMA SeatMoves ==
    ASSUME EventsAssumption, IInv, NEW e \in Events, NEW s \in VenueSeats,
           confirmHold(e, s) \/ ReleaseSeat(e, s)
    PROVE  IInv'
  <1> USE DEF IInv
  <1>1. /\ UNCHANGED <<status, schedule, venue, price, sold, locks, req, reading>>
        /\ seatLock[e][s] = NoRequest /\ seat[e][s] \in {"held", "booked"}
    BY DEF confirmHold, ReleaseSeat
  <1>2. TypeOK'
    <2>1. \E to \in {"booked", "available"} : seat' = [seat EXCEPT ![e][s] = to]
      BY DEF confirmHold, ReleaseSeat
    <2> QED BY <1>1, <2>1 DEF TypeOK, venue, locks
  <1>3. /\ seat'[e][s] # "none"
        /\ \A f \in Events, u \in VenueSeats : f # e \/ u # s => seat'[f][u] = seat[f][u]
    BY DEF confirmHold, ReleaseSeat, TypeOK
  <1>4. ASSUME NEW q \in Requests PROVE Shape(q)' /\ Decided(q)'
    <2>1. Shape(q) /\ Decided(q)
      BY DEF RequestsInv
    <2>2. Holding(q) => /\ req[q].e \in Events /\ req[q].s \in VenueSeats
                        /\ req[q].e # e \/ req[q].s # s
      BY <2>1, <1>1 DEF LockInv, Shape, Holding, EventsAssumption
    <2>3. Holding(q) => seat'[req[q].e][req[q].s] = seat[req[q].e][req[q].s]
      BY <2>2, <1>3
    <2> QED BY <2>1, <2>3, <1>1, DecidedStays DEF Shape
  <1>5. LockInv' /\ Apart'
    BY <1>1 DEF LockInv, Apart, Owning, Holding, At, locks
  <1>6. EventsInv'
    <2>1. \A f \in Events, u \in VenueSeats : seat'[f][u] # "none" <=> seat[f][u] # "none"
      BY <1>1, <1>3
    <2>2. \A f \in Events : Inventory(f)' = Inventory(f)
      BY <2>1 DEF Inventory
    <2> QED BY <1>1, <2>2 DEF EventsInv, Unborn, HistoryKept, ShowtimeKept, SeatMapIntact,
                              StillVisible, listVenueSeatIds, venue
  <1> QED BY <1>2, <1>4, <1>5, <1>6 DEF RequestsInv

LEMMA ReadsKeep ==
    ASSUME IInv, (\E e \in Events : getEventById(e)) \/ findPublicSeatMap PROVE IInv'
  <1> USE DEF IInv
  <1>1. UNCHANGED <<tables, locks, req>>
    BY DEF getEventById, findPublicSeatMap
  <1>2. TypeOK'
    BY <1>1 DEF getEventById, findPublicSeatMap, TypeOK, tables, venue, locks
  <1>3. RequestsInv' /\ LockInv' /\ Apart'
    BY <1>1 DEF RequestsInv, LockInv, Apart, Shape, Decided, Owning, Holding, At, Exists,
                tables, locks
  <1>4. StillVisible'
    BY <1>1 DEF getEventById, findPublicSeatMap, Visible, Exists, StillVisible, tables
  <1>5. EventsInv'
    BY <1>1, <1>4 DEF EventsInv, Unborn, HistoryKept, ShowtimeKept, SeatMapIntact, Inventory,
                      listVenueSeatIds, tables, venue
  <1> QED BY <1>2, <1>3, <1>5

-----------------------------------------------------------------------------
(* Requests arrive *)

LEMMA BeginOnKeeps ==
    ASSUME EventsAssumption, IInv, NEW r \in Requests, NEW op \in Editing, NEW e \in Events,
           NEW mine \in BOOLEAN, NEW to \in Schedules \cup {Keep},
           Exists(e), BeginOn(r, op, e, mine, to)
    PROVE  IInv'
  <1> DEFINE rec == [Idle EXCEPT !.op = op, !.pc = "lock", !.e = e, !.mine = mine, !.to = to]
  <1>1. rec \in Request /\ rec.op = op /\ rec.pc = "lock" /\ rec.e = e
    BY DEF Idle, Request, Ops, Editing
  <1>2. Begin(r, rec) /\ UNCHANGED <<tables, locks, reading>>
    BY DEF BeginOn
  <1> HIDE DEF rec
  <1>3. req'[r] = rec /\ \A q \in Requests \ {r} : req'[q] = req[q]
    BY <1>2 DEF Begin, IInv, TypeOK
  <1>4. Shape(r)' /\ ~Owning(r)' /\ ~Holding(r)' /\ rec.op # "none"
    BY <1>1, <1>3 DEF Shape, Owning, Holding, Editing
  <1>5. Decided(r)'
    <2>1. status'[e] # "none"
      BY <1>2 DEF Exists, EventStatus, tables
    <2> QED BY <1>1, <1>3, <2>1 DEF Decided, Holding, At, Editing
  <1>6. Apart'
    BY <1>1, <1>3 DEF Apart, Editing, IInv
  <1> QED BY <1>1, <1>2, <1>4, <1>5, <1>6, BeginKeeps

LEMMA createHoldKeeps ==
    ASSUME EventsAssumption, IInv, NEW r \in Requests, NEW e \in Events, NEW s \in VenueSeats,
           createHold(r, e, s)
    PROVE  IInv'
  <1> DEFINE rec == [Idle EXCEPT !.op = "hold", !.pc = "lock", !.e = e, !.s = s]
  <1>1. rec \in Request /\ rec.op = "hold" /\ rec.pc = "lock" /\ rec.e = e /\ rec.s = s
    BY DEF Idle, Request, Ops
  <1>2. Begin(r, rec) /\ UNCHANGED <<tables, locks, reading>> /\ Exists(e)
    BY DEF createHold
  <1> HIDE DEF rec
  <1>3. req'[r] = rec /\ \A q \in Requests \ {r} : req'[q] = req[q]
    BY <1>2 DEF Begin, IInv, TypeOK
  <1>4. Shape(r)' /\ ~Owning(r)' /\ ~Holding(r)' /\ rec.op # "none"
    BY <1>1, <1>3 DEF Shape, Owning, Holding, Editing
  <1>5. Decided(r)'
    <2>1. status'[e] # "none"
      BY <1>2 DEF Exists, EventStatus, tables
    <2> QED BY <1>1, <1>3, <2>1 DEF Decided, Holding, At, Editing
  <1>6. Apart'
    BY <1>1, <1>3 DEF Apart, IInv
  <1> QED BY <1>1, <1>2, <1>4, <1>5, <1>6, BeginKeeps

LEMMA createEventKeeps ==
    ASSUME EventsAssumption, IInv, NEW r \in Requests, NEW e \in Events, NEW as \in EventStatus,
           NEW at \in Schedules, createEvent(r, e, as, at)
    PROVE  IInv'
  <1> DEFINE rec == [Idle EXCEPT !.op = "create", !.pc = "write", !.e = e, !.as = as, !.to = at,
                                 !.seats = listVenueSeatIds]
  <1>1. rec \in Request /\ rec.op = "create" /\ rec.pc = "write" /\ rec.e = e /\ rec.as = as
        /\ rec.to = at
    BY DEF Idle, Request, Ops, listVenueSeatIds
  <1>2. /\ Begin(r, rec) /\ UNCHANGED <<tables, locks, reading>>
        /\ status[e] = "none" /\ \A q \in Requests : req[q].e # e
    BY DEF createEvent
  <1> HIDE DEF rec
  <1>3. req'[r] = rec /\ \A q \in Requests \ {r} : req'[q] = req[q]
    BY <1>2 DEF Begin, IInv, TypeOK
  <1>4. Shape(r)' /\ ~Owning(r)' /\ ~Holding(r)' /\ rec.op # "none"
    BY <1>1, <1>3 DEF Shape, Owning, Holding, Editing
  <1>5. Decided(r)'
    BY <1>1, <1>2, <1>3 DEF Decided, Holding, At, Editing, tables
  <1>6. Apart'
    BY <1>1, <1>2, <1>3 DEF Apart, IInv
  <1> QED BY <1>1, <1>2, <1>4, <1>5, <1>6, BeginKeeps

LEMMA removeVenueSeatKeeps ==
    ASSUME EventsAssumption, IInv, NEW r \in Requests, NEW s \in VenueSeats,
           removeVenueSeat(r, s)
    PROVE  IInv'
  <1> DEFINE rec == [Idle EXCEPT !.op = "removeSeat", !.pc = "write", !.s = s]
  <1>1. rec \in Request /\ rec.op = "removeSeat" /\ rec.pc = "write" /\ rec.s = s
    BY DEF Idle, Request, Ops
  <1>2. Begin(r, rec) /\ UNCHANGED <<tables, locks, reading>>
    BY DEF removeVenueSeat
  <1> HIDE DEF rec
  <1>3. req'[r] = rec /\ \A q \in Requests \ {r} : req'[q] = req[q]
    BY <1>2 DEF Begin, IInv, TypeOK
  <1>4. Shape(r)' /\ ~Owning(r)' /\ ~Holding(r)' /\ rec.op # "none"
    BY <1>1, <1>3 DEF Shape, Owning, Holding, Editing
  <1>5. Decided(r)'
    BY <1>1, <1>3 DEF Decided, Holding, At, Editing
  <1>6. Apart'
    BY <1>1, <1>3 DEF Apart, IInv
  <1> QED BY <1>1, <1>2, <1>4, <1>5, <1>6, BeginKeeps

-----------------------------------------------------------------------------

LEMMA NextKeeps == EventsAssumption /\ IInv /\ [Next]_vars => IInv'
  <1> SUFFICES ASSUME EventsAssumption, IInv, [Next]_vars PROVE IInv'
    OBVIOUS
  <1>1. CASE UNCHANGED vars
    BY <1>1 DEF vars, tables, venue, locks, IInv, TypeOK, RequestsInv, LockInv, Apart,
                EventsInv, Shape, Decided, Owning, Holding, At, Exists, Unborn, HistoryKept,
                ShowtimeKept, SeatMapIntact, StillVisible, Inventory, listVenueSeatIds
  <1>2. ASSUME NEW r \in Requests, RequestStep(r) \/ Rollback(r) PROVE IInv'
    BY <1>2, deleteVenueSeatKeeps, createShowSeatsKeeps, lockEventForOwnershipKeeps,
       JudgeKeeps, updateEventFieldsKeeps, markEventPublishedKeeps, deleteEventRowKeeps,
       lockEventSeatsKeeps, insertHoldKeeps, CommitHoldKeeps, RollbackKeeps
    DEF RequestStep
  <1>3. ASSUME NEW r \in Requests, NEW s \in VenueSeats, removeVenueSeat(r, s) PROVE IInv'
    BY <1>3, removeVenueSeatKeeps
  <1>4. ASSUME NEW r \in Requests, NEW e \in Events, NEW as \in EventStatus,
               NEW at \in Schedules, createEvent(r, e, as, at)
        PROVE  IInv'
    BY <1>4, createEventKeeps
  <1>5. ASSUME NEW r \in Requests, NEW e \in Events, NEW mine \in BOOLEAN,
               \/ publishEvent(r, e, mine) \/ deleteEvent(r, e, mine)
               \/ \E to \in Schedules \cup {Keep} : updateEvent(r, e, mine, to)
        PROVE  IInv'
    BY <1>5, BeginOnKeeps DEF publishEvent, deleteEvent, updateEvent, Editing
  <1>6. ASSUME NEW r \in Requests, NEW e \in Events, NEW s \in VenueSeats, createHold(r, e, s)
        PROVE  IInv'
    BY <1>6, createHoldKeeps
  <1>7. ASSUME NEW s \in VenueSeats, NEW c \in SeatCategory,
               insertVenueSeats(s, c) \/ updateVenueSeatCategory(s, c)
        PROVE  IInv'
    BY <1>7, insertVenueSeatsKeeps, updateVenueSeatCategoryKeeps
  <1>8. ASSUME NEW e \in Events, NEW s \in VenueSeats, confirmHold(e, s) \/ ReleaseSeat(e, s)
        PROVE  IInv'
    BY <1>8, SeatMoves
  <1>9. ASSUME (\E e \in Events : getEventById(e)) \/ findPublicSeatMap PROVE IInv'
    BY <1>9, ReadsKeep
  <1> QED BY <1>1, <1>2, <1>3, <1>4, <1>5, <1>6, <1>7, <1>8, <1>9 DEF Next

\* event.service.ts, venue.service.ts: whatever the number of events, seats, schedules and
\* simultaneous requests, a reserved event is neither deleted nor rescheduled, a seat that
\* is on sale stays in the venue, and what was public when a reader asked is public still.
THEOREM ReservationsAreKept == EventsAssumption => (Spec => []ReservationsKept)
  <1> SUFFICES ASSUME EventsAssumption PROVE Spec => []ReservationsKept
    OBVIOUS
  <1>1. Init => IInv
    BY InitInv
  <1>2. IInv /\ [Next]_vars => IInv'
    BY NextKeeps
  <1>3. IInv => ReservationsKept
    BY DEF IInv, EventsInv, ReservationsKept
  <1> QED BY <1>1, <1>2, <1>3, PTL DEF Spec
===============================================================================
