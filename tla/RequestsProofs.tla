---------------------------- MODULE RequestsProofs ----------------------------
(***************************************************************************)
(* The parts of MCRequests for any number of requests, tabs, sockets and   *)
(* loops.  First the work of an idempotency key, which is done at most     *)
(* once and whose answers all agree; then the other parts, each through    *)
(* the specification of its component, which PartsSpec implements.         *)
(***************************************************************************)
EXTENDS MCRequests, Integers, Sequences, FiniteSetTheorems, WellFoundedInduction,
        TLAPS

-----------------------------------------------------------------------------
(* One lemma per action, one step per part of the invariant                *)

\* An arriving request (Deliver) keeps the inductive invariant.
LEMMA DeliverKeeps ==
  ASSUME NEW r \in Requests, IInv, Deliver(r)
  PROVE  IInv'
  <1>1. TypeOK'
    BY DEF IInv, Deliver, TypeOK, Request, GoTo
  <1>2. ClaimInv'
    BY DEF IInv, Deliver, ClaimInv, Owns, GoTo
  <1>3. RecordInv'
    BY DEF IInv, Deliver, RecordInv, GoTo
  <1>4. ReplyInv'
    BY DEF IInv, Deliver, ReplyInv, GoTo
  <1>5. AnswersAgree'
    BY DEF IInv, Deliver, AnswersAgree, GoTo
  <1>. QED
    BY <1>1, <1>2, <1>3, <1>4, <1>5 DEF IInv

\* A claim (ClaimKey) keeps the inductive invariant.
LEMMA ClaimKeyKeeps ==
  ASSUME NEW r \in Requests, IInv, ClaimKey(r)
  PROVE  IInv'
  <1>1. TypeOK'
    BY DEF IInv, ClaimKey, TypeOK, Row, Request, GoTo
  <1>2. ClaimInv'
    BY NullAssumption DEF IInv, ClaimKey, TypeOK, ClaimInv, Owns, Row, Request, GoTo
  <1>3. RecordInv'
    BY DEF IInv, ClaimKey, RecordInv, GoTo
  <1>4. ReplyInv'
    BY DEF IInv, ClaimKey, ReplyInv, GoTo
  <1>5. AnswersAgree'
    BY DEF IInv, ClaimKey, AnswersAgree, GoTo
  <1>. QED
    BY <1>1, <1>2, <1>3, <1>4, <1>5 DEF IInv

\* A refused claim (KeyTaken) keeps the inductive invariant.
LEMMA KeyTakenKeeps ==
  ASSUME NEW r \in Requests, IInv, KeyTaken(r)
  PROVE  IInv'
  <1>1. TypeOK'
    BY DEF IInv, KeyTaken, TypeOK, Request, GoTo
  <1>2. ClaimInv'
    BY DEF IInv, KeyTaken, ClaimInv, Owns, GoTo
  <1>3. RecordInv'
    BY DEF IInv, KeyTaken, RecordInv, GoTo
  <1>4. ReplyInv'
    BY DEF IInv, KeyTaken, ReplyInv, GoTo
  <1>5. AnswersAgree'
    BY DEF IInv, KeyTaken, AnswersAgree, GoTo
  <1>. QED
    BY <1>1, <1>2, <1>3, <1>4, <1>5 DEF IInv

\* The wrapped operation (RunOperation) keeps the inductive invariant.
LEMMA RunOperationKeeps ==
  ASSUME NEW r \in Requests, IInv, RunOperation(r)
  PROVE  IInv'
  <1>1. TypeOK'
    BY DEF IInv, RunOperation, TypeOK, Request, GoTo
  <1>2. ClaimInv'
    BY DEF IInv, RunOperation, ClaimInv, Owns, GoTo
  <1>3. RecordInv'
    BY DEF IInv, RunOperation, RecordInv, GoTo
  <1>4. ReplyInv'
    BY DEF IInv, RunOperation, ReplyInv, GoTo
  <1>5. AnswersAgree'
    BY DEF IInv, RunOperation, AnswersAgree, GoTo
  <1>. QED
    BY <1>1, <1>2, <1>3, <1>4, <1>5 DEF IInv

\* Storing the response in the uncommitted row (CompleteRecord) keeps the inductive invariant.
LEMMA CompleteRecordKeeps ==
  ASSUME NEW r \in Requests, IInv, CompleteRecord(r)
  PROVE  IInv'
  <1>1. TypeOK'
    BY DEF IInv, CompleteRecord, TypeOK, Row, Request, GoTo, ClaimInv, Owns
  <1>2. ClaimInv'
    <2> DEFINE k == req[r].key
               stored == [pending[k] EXCEPT !.status = "completed", !.body = r]
    <2>1. TypeOK /\ ClaimInv /\ req[r].pc = "complete" /\ k \in Keys
      BY DEF IInv, CompleteRecord, TypeOK, Request
    <2>2. /\ pending[k] \in Row /\ pending[k].by = r /\ pending[k].hash = req[r].hash
          /\ record[k] = NoRow
      BY <2>1 DEF ClaimInv, Owns, TypeOK
    <2>3. stored \in Row /\ stored # NoRow /\ stored.by = r /\ stored.hash = req[r].hash
          /\ stored.status = "completed" /\ stored.body = r
      BY <2>2, NullAssumption DEF Row
    <2>4. /\ pending' = [pending EXCEPT ![k] = stored] /\ record' = record
          /\ req' = [req EXCEPT ![r].pc = "commit"]
      BY DEF CompleteRecord, GoTo
    <2>5. \A q \in Requests : /\ req'[q].key = req[q].key /\ req'[q].hash = req[q].hash
                             /\ req'[q].pc = IF q = r THEN "commit" ELSE req[q].pc
      BY <2>1, <2>4 DEF TypeOK, Request
    <2>6. \A q \in Requests : req'[q].pc \in {"run", "complete", "commit"} <=> Owns(q)
      BY <2>1, <2>5 DEF Owns
    <2>7. \A j \in Keys : pending'[j] = IF j = k THEN stored ELSE pending[j]
      BY <2>1, <2>4 DEF TypeOK
    <2>8. \A q \in Requests : Owns(q) => q = r \/ req[q].key # k
      BY <2>1, <2>2 DEF ClaimInv
    <2> HIDE DEF stored, k
    <2> USE <2>1, <2>2, <2>3, <2>5, <2>6, <2>7, <2>8
    <2>9. \A q \in Requests : req[q].key \in Keys
      BY DEF TypeOK, Request
    <2>10. \A q \in Requests : req'[q].pc \in {"run", "complete", "commit"} =>
             /\ pending'[req'[q].key] # NoRow
             /\ pending'[req'[q].key].by = q
             /\ pending'[req'[q].key].hash = req'[q].hash
             /\ record'[req'[q].key] = NoRow
      BY <2>4, <2>9 DEF ClaimInv, k
    <2>11. \A q \in Requests : req'[q].pc = "commit" =>
             /\ pending'[req'[q].key].status = "completed"
             /\ pending'[req'[q].key].body = q
      BY <2>9 DEF ClaimInv, Owns, k
    <2>12. ASSUME NEW j \in Keys, pending'[j] # NoRow
           PROVE  /\ req'[pending'[j].by].pc \in {"run", "complete", "commit"}
                  /\ req'[pending'[j].by].key = j
      <3> DEFINE by == pending'[j].by
      <3>1. by \in Requests /\ Owns(by) /\ req[by].key = j
        <4>1. CASE j = k
          BY <4>1 DEF Owns, k
        <4>2. CASE j # k
          <5>1. pending'[j] = pending[j] /\ pending[j] \in Row
            BY <2>12, <4>2 DEF TypeOK
          <5> QED BY <2>12, <5>1 DEF ClaimInv, Row
        <4> QED BY <4>1, <4>2
      <3> HIDE DEF by
      <3>2. req'[by].pc \in {"run", "complete", "commit"} /\ req'[by].key = j
        BY <3>1
      <3> QED BY <3>2 DEF by
    <2> QED
      BY ONLY <2>10, <2>11, <2>12 DEF ClaimInv, Owns
  <1>3. RecordInv'
    BY DEF IInv, CompleteRecord, RecordInv, GoTo
  <1>4. ReplyInv'
    BY DEF IInv, CompleteRecord, ReplyInv, GoTo
  <1>5. AnswersAgree'
    BY DEF IInv, CompleteRecord, AnswersAgree, GoTo
  <1>. QED
    BY <1>1, <1>2, <1>3, <1>4, <1>5 DEF IInv

\* COMMIT (Commit) keeps the inductive invariant.
LEMMA CommitKeeps ==
  ASSUME NEW r \in Requests, IInv, Commit(r)
  PROVE  IInv'
  <1>1. TypeOK'
    <2>1. TypeOK /\ req[r] \in Request
      BY DEF IInv, TypeOK
    <2>2. [req[r] EXCEPT !.pc = "reply", !.body = r] \in Request
      BY <2>1 DEF Request
    <2>3. req' = [req EXCEPT ![r] = [req[r] EXCEPT !.pc = "reply", !.body = r]]
      BY DEF Commit
    <2>4. req' \in [Requests -> Request]
      BY <2>1, <2>2, <2>3 DEF TypeOK
    <2>5. req[r].key \in Keys
      BY <2>1 DEF Request
    <2>6. /\ record' = [record EXCEPT ![req[r].key] = pending[req[r].key]]
          /\ pending' = [pending EXCEPT ![req[r].key] = NoRow]
          /\ ran' = ran \cup {r} /\ answer' = answer
      BY DEF Commit
    <2> QED BY <2>1, <2>4, <2>5, <2>6 DEF TypeOK
  <1>2. ClaimInv'
    BY DEF IInv, Commit, TypeOK, ClaimInv, Owns, Row
  <1>3. RecordInv'
    BY DEF IInv, Commit, TypeOK, RecordInv, ClaimInv, Owns, Request
  <1>4. ReplyInv'
    BY DEF IInv, Commit, TypeOK, ReplyInv
  <1>5. AnswersAgree'
    BY DEF IInv, Commit, TypeOK, AnswersAgree
  <1>. QED
    BY <1>1, <1>2, <1>3, <1>4, <1>5 DEF IInv

\* ROLLBACK (Rollback) keeps the inductive invariant.
LEMMA RollbackKeeps ==
  ASSUME NEW r \in Requests, IInv, Rollback(r)
  PROVE  IInv'
  <1>1. TypeOK'
    BY DEF IInv, Rollback, TypeOK, Request, GoTo
  <1>2. ClaimInv'
    BY DEF IInv, Rollback, TypeOK, ClaimInv, Owns, GoTo
  <1>3. RecordInv'
    BY DEF IInv, Rollback, RecordInv, GoTo
  <1>4. ReplyInv'
    BY DEF IInv, Rollback, ReplyInv, GoTo
  <1>5. AnswersAgree'
    BY DEF IInv, Rollback, AnswersAgree, GoTo
  <1>. QED
    BY <1>1, <1>2, <1>3, <1>4, <1>5 DEF IInv

\* Replaying a stored response (Replay) keeps the inductive invariant.
LEMMA ReplayKeeps ==
  ASSUME NEW r \in Requests, IInv, Replay(r)
  PROVE  IInv'
  <1>1. TypeOK'
    <2> DEFINE stored == record[req[r].key]
    <2>1. TypeOK /\ req[r] \in Request /\ req[r].key \in Keys
      BY DEF IInv, TypeOK, Request
    <2>2. stored \in Row \cup {NoRow} /\ stored # NoRow
      BY <2>1 DEF TypeOK, Replay, Replayable
    <2>3. stored.body \in Requests \cup {NoReq}
      BY <2>2 DEF Row
    <2>4. req' = [req EXCEPT ![r] = [req[r] EXCEPT !.pc = "reply", !.body = stored.body]]
      BY DEF Replay
    <2> HIDE DEF stored
    <2>5. [req[r] EXCEPT !.pc = "reply", !.body = stored.body] \in Request
      BY <2>1, <2>3 DEF Request
    <2>6. req' \in [Requests -> Request]
      BY <2>1, <2>4, <2>5 DEF TypeOK
    <2> QED BY <2>1, <2>6 DEF TypeOK, Replay
  <1>2. ClaimInv'
    BY DEF IInv, Replay, TypeOK, ClaimInv, Owns, Row
  <1>3. RecordInv'
    BY DEF IInv, Replay, TypeOK, RecordInv
  <1>4. ReplyInv'
    BY DEF IInv, Replay, TypeOK, ReplyInv, RecordInv, Request, Replayable
  <1>5. AnswersAgree'
    BY DEF IInv, Replay, TypeOK, AnswersAgree
  <1>. QED
    BY <1>1, <1>2, <1>3, <1>4, <1>5 DEF IInv

\* A 409 (Refuse) keeps the inductive invariant.
LEMMA RefuseKeeps ==
  ASSUME NEW r \in Requests, IInv, Refuse(r)
  PROVE  IInv'
  <1>1. TypeOK'
    BY DEF IInv, Refuse, TypeOK, Request, GoTo
  <1>2. ClaimInv'
    BY DEF IInv, Refuse, ClaimInv, Owns, GoTo
  <1>3. RecordInv'
    BY DEF IInv, Refuse, RecordInv, GoTo
  <1>4. ReplyInv'
    BY DEF IInv, Refuse, ReplyInv, GoTo
  <1>5. AnswersAgree'
    BY DEF IInv, Refuse, AnswersAgree, GoTo
  <1>. QED
    BY <1>1, <1>2, <1>3, <1>4, <1>5 DEF IInv

\* Answering the client (Reply) keeps the inductive invariant.
LEMMA ReplyKeeps ==
  ASSUME NEW r \in Requests, IInv, Reply(r)
  PROVE  IInv'
  <1>1. TypeOK'
    BY DEF IInv, Reply, TypeOK, Request, GoTo
  <1>2. ClaimInv'
    BY DEF IInv, Reply, ClaimInv, Owns, GoTo
  <1>3. RecordInv'
    BY DEF IInv, Reply, RecordInv, GoTo
  <1>4. ReplyInv'
    BY DEF IInv, Reply, ReplyInv, GoTo
  <1>5. AnswersAgree'
    BY DEF IInv, Reply, AnswersAgree, ReplyInv, GoTo
  <1>. QED
    BY <1>1, <1>2, <1>3, <1>4, <1>5 DEF IInv

\* Losing the answer (LoseReply) keeps the inductive invariant.
LEMMA LoseReplyKeeps ==
  ASSUME NEW r \in Requests, IInv, LoseReply(r)
  PROVE  IInv'
  <1>1. TypeOK'
    BY DEF IInv, LoseReply, TypeOK, Request, GoTo
  <1>2. ClaimInv'
    BY DEF IInv, LoseReply, ClaimInv, Owns, GoTo
  <1>3. RecordInv'
    BY DEF IInv, LoseReply, RecordInv, GoTo
  <1>4. ReplyInv'
    BY DEF IInv, LoseReply, ReplyInv, GoTo
  <1>5. AnswersAgree'
    BY DEF IInv, LoseReply, AnswersAgree, GoTo
  <1>. QED
    BY <1>1, <1>2, <1>3, <1>4, <1>5 DEF IInv

-----------------------------------------------------------------------------
(* The theorems                                                            *)

\* Every step of the wrapper keeps the inductive invariant.
LEMMA NextKeeps == IInv /\ [Next]_vars => IInv'
  <1>. SUFFICES ASSUME IInv, [Next]_vars PROVE IInv'
    OBVIOUS
  <1>1. CASE UNCHANGED vars
    BY <1>1 DEF vars, IInv, TypeOK, ClaimInv, Owns, RecordInv, ReplyInv, AnswersAgree
  <1>2. ASSUME NEW r \in Requests,
               Deliver(r) \/ Advance(r) \/ Rollback(r) \/ LoseReply(r)
        PROVE  IInv'
    BY <1>2, DeliverKeeps, ClaimKeyKeeps, KeyTakenKeeps, RunOperationKeeps,
       CompleteRecordKeeps, CommitKeeps, ReplayKeeps, RefuseKeeps, ReplyKeeps,
       RollbackKeeps, LoseReplyKeeps
       DEF Advance
  <1>. QED
    BY <1>1, <1>2 DEF Next

\* The invariant holds throughout: the uncommitted row of a key belongs to the one
\* request that owns it, and a committed row to the one that did the work.
THEOREM Invariance == Spec => []IInv
  <1>1. Init => IInv
    BY NullAssumption DEF Init, IInv, TypeOK, Request, ClaimInv, Owns, RecordInv, ReplyInv, AnswersAgree
  <1>. QED
    BY <1>1, NextKeeps, PTL DEF Spec

\* Every reachable state of the wrapper is well typed.
THEOREM TypeCorrect == Spec => []TypeOK
  <1>1. IInv => TypeOK
    BY DEF IInv
  <1>. QED
    BY <1>1, Invariance, PTL

\* runIdempotently commits the work of a (user, key) at most once.
THEOREM AtMostOnce == Spec => []OncePerKey
  <1>1. IInv => OncePerKey
    BY DEF IInv, RecordInv, OncePerKey
  <1>. QED
    BY <1>1, Invariance, PTL

\* A client only ever receives the stored response of work done for its own key and
\* its own request.
THEOREM OneAnswer == Spec => []AnswersAgree
  <1>1. IInv => AnswersAgree
    BY DEF IInv
  <1>. QED
    BY <1>1, Invariance, PTL

\* replayExisting answers 409 only when the key was used for a different request.
THEOREM HonestRefusal == Spec => RefusedOnlyForReuse
  <1>1. ASSUME IInv, NEW r \in Requests, Refuse(r)
        PROVE  \E q \in ran : req[q].key = req[r].key /\ req[q].hash # req[r].hash
    <2>. DEFINE stored == record[req[r].key]
    <2>1. stored # NoRow /\ stored.status = "completed" /\ stored.hash # req[r].hash
      BY <1>1 DEF IInv, TypeOK, Request, RecordInv, Refuse, Replayable
    <2>2. stored.body \in ran /\ req[stored.body].key = req[r].key /\ req[stored.body].hash = stored.hash
      BY <1>1, <2>1 DEF IInv, TypeOK, Request, RecordInv
    <2>. QED
      BY <2>1, <2>2
  <1>2. IInv /\ [Next]_vars =>
          [\A r \in Requests : Refuse(r) =>
             \E q \in ran : req[q].key = req[r].key /\ req[q].hash # req[r].hash]_vars
    BY <1>1
  <1>. QED
    BY <1>2, Invariance, PTL DEF Spec, RefusedOnlyForReuse

-----------------------------------------------------------------------------
(* Refresh tokens: the theorems of SessionsProofs, carried over             *)

\* While another part moves, no session does.
LEMMA AuthSpec == PartsSpec => Auth!Spec
  <1>1. PartsInit => Auth!Init
    BY DEF PartsInit
  <1>2. [PartsNext]_<<part, keyVars, authVars, limitVars, socketVars, processVars>>
          => [Auth!Next]_(Auth!vars)
    BY DEF PartsNext, authVars, Auth!vars, Auth!table, Auth!server, Auth!browser
  <1>. QED
    BY <1>1, <1>2, PTL DEF PartsSpec, Auth!Spec

\* auth.service.ts, refresh: in the run's own specification too, a token is exchanged at
\* most once and nobody is stranded.
THEOREM RotationInRequests == PartsSpec => []RotationSound
  <1>1. Auth!Spec => []Auth!RotationSound
    BY RequestsAssumption, Auth!Rotation DEF RequestsAssumption
  <1>2. Auth!RotationSound => RotationSound
    BY DEF RotationSound
  <1>. QED
    BY AuthSpec, <1>1, <1>2, PTL

\* api/client.ts: in the run's own specification too, a page sends a token once.
THEOREM PresentationInRequests == PartsSpec => PresentedOnce
  <1>1. Auth!Spec => Auth!PresentedOnce
    BY RequestsAssumption, Auth!Presentation DEF RequestsAssumption
  <1>. QED
    BY AuthSpec, <1>1, PTL DEF PresentedOnce

-----------------------------------------------------------------------------
(* The life of the process                                                  *)

\* Of the API's five resources the first has to be released before the connections are
\* known to be closed, the second before the loops are over; Redis is the fourth and the
\* pool the last.
ApiInv ==
    ~standalone =>
        /\ step > 0 => awaited = {} /\ ~running
        /\ step > 1 => \A l \in Loops : task[l] \in {"off", "done"}
        /\ redis = "closed" => step > 3

\* A worker process serves nobody.
WorkerInv ==
    standalone => awaited = {} /\ ~listening /\ boot \notin {"listen", "websocket"}

\* Loops and handlers may be anywhere but in a transaction once the pool has ended.
PoolInv == step = Len(Process!Teardown) => \A t \in Process!Tasks : task[t] # "txn"

ProcessInv ==
    /\ Process!TypeOK
    /\ ApiInv /\ WorkerInv /\ PoolInv
    /\ listening => shutting = "no"
    /\ shutting # "no" => boot \in {"websocket", "ready"}
    /\ step > 0 => shutting # "no"
    /\ pool = "closed" => step = Len(Process!Teardown)
    /\ status = "success" => step = Len(Process!Teardown)

\* A worker's shutdown has two steps and the API's five.
LEMMA TeardownShape ==
    /\ standalone => /\ Len(Process!Teardown) = 2
                     /\ Process!Teardown[1] = "redis" /\ Process!Teardown[2] = "pool"
    /\ ~standalone => /\ Len(Process!Teardown) = 5
                      /\ Process!Teardown[1] = "server" /\ Process!Teardown[2] = "workers"
                      /\ Process!Teardown[3] = "sockets" /\ Process!Teardown[4] = "redis"
                      /\ Process!Teardown[5] = "pool"
  BY DEF Process!Teardown, Process!workerTeardown, Process!apiTeardown

LEMMA TeardownStays == standalone' = standalone => Process!Teardown' = Process!Teardown
  BY DEF Process!Teardown, Process!workerTeardown, Process!apiTeardown

LEMMA StepNumber == ProcessInv => step \in Nat
  BY TeardownShape DEF ProcessInv, Process!TypeOK

LEMMA ProcessInit == PartsInit => ProcessInv
  <1> SUFFICES ASSUME Process!Init PROVE ProcessInv
    BY DEF PartsInit
  <1> USE DEF Process!Init
  <1>1. step = 0 /\ 0 \in 0..Len(Process!Teardown)
    BY TeardownShape
  <1>2. standalone \in BOOLEAN /\ running \in BOOLEAN /\ listening \in BOOLEAN
    OBVIOUS
  <1>3. /\ elapsed \in 0..Timeout /\ sockets \in 0..MaxSockets
        /\ wake \in [Loops -> 0..Interval]
    BY RequestsAssumption DEF RequestsAssumption, Process!LifecycleAssumption
  <1>4. Process!TypeOK
    BY <1>1, <1>2, <1>3 DEF Process!TypeOK, Process!TaskState
  <1>. QED
    BY <1>1, <1>4 DEF ProcessInv, ApiInv, WorkerInv, PoolInv

\* start, up to the end of the process that did not come up.
LEMMA StartKeeps ==
    ASSUME ProcessInv, RequestsAssumption,
           \/ \E ok \in BOOLEAN : \/ Process!ReachDatabase(ok) \/ Process!ReachRedis(ok)
                                  \/ Process!attachWebSocketServer(ok)
           \/ Process!Listen \/ Process!Killed
    PROVE  ProcessInv'
  <1> USE DEF ProcessInv, ApiInv, WorkerInv, PoolInv, Process!TypeOK, Process!TaskState,
              Process!starting, Process!traffic, Process!tasks, Process!ending, Process!Up,
              Process!Exit
  <1>1. ASSUME NEW ok \in BOOLEAN, Process!ReachDatabase(ok) PROVE ProcessInv'
    BY <1>1, TeardownShape, TeardownStays DEF Process!ReachDatabase
  <1>2. ASSUME NEW ok \in BOOLEAN, Process!ReachRedis(ok) PROVE ProcessInv'
    <2>1. step = 0
      BY <1>2 DEF Process!ReachRedis
    <2>2. Process!TypeOK'
      BY <1>2, TeardownShape, TeardownStays DEF Process!ReachRedis, Process!StartLoops
    <2>. QED
      BY <1>2, <2>1, <2>2, TeardownShape, TeardownStays
      DEF Process!ReachRedis, Process!StartLoops
  <1>3. ASSUME NEW ok \in BOOLEAN, Process!attachWebSocketServer(ok) PROVE ProcessInv'
    <2>1. CASE ok
      BY <1>3, <2>1, TeardownShape, TeardownStays DEF Process!attachWebSocketServer
    <2>2. CASE ~ok
      <3>1. ~standalone /\ UNCHANGED running
        BY <1>3, <2>2 DEF Process!attachWebSocketServer, Process!shutdown
      <3>. QED
        BY <1>3, <2>2, <3>1, TeardownShape, TeardownStays
        DEF Process!attachWebSocketServer, Process!shutdown
    <2>. QED
      BY <2>1, <2>2
  <1>4. CASE Process!Listen
    BY <1>4, TeardownShape, TeardownStays DEF Process!Listen
  <1>5. CASE Process!Killed
    BY <1>5, TeardownShape, TeardownStays DEF Process!Killed
  <1>. QED
    BY <1>1, <1>2, <1>3, <1>4, <1>5

\* Connections and sockets come and go, but no connection comes once the process shuts
\* down; a signal releases nothing yet.
LEMMA TrafficKeeps ==
    ASSUME ProcessInv, RequestsAssumption,
           \/ \E code \in {"success", "failure"} : Process!Signalled(code)
           \/ Process!SocketOpens \/ Process!SocketCloses
    PROVE  ProcessInv'
  <1> USE RequestsAssumption, TeardownShape, TeardownStays
      DEF ProcessInv, ApiInv, WorkerInv, PoolInv, Process!TypeOK, Process!starting,
          Process!tasks, Process!Tasks, Process!ending, Process!Up, RequestsAssumption,
          Process!LifecycleAssumption
  <1>1. ASSUME NEW code \in {"success", "failure"}, Process!Signalled(code) PROVE ProcessInv'
    BY <1>1 DEF Process!Signalled, Process!shutdown
  <1>2. CASE Process!SocketOpens
    BY <1>2 DEF Process!SocketOpens
  <1>3. CASE Process!SocketCloses
    BY <1>3 DEF Process!SocketCloses
  <1>. QED
    BY <1>1, <1>2, <1>3

\* Handlers come and go too, and some stay behind when their connection goes.
LEMMA CallKeeps ==
    ASSUME ProcessInv, RequestsAssumption, NEW c \in Handlers,
           \/ Process!RequestBegins(c) \/ Process!SocketCalls(c)
           \/ Process!ClientLeaves(c) \/ Process!HandlerEnds(c)
    PROVE  ProcessInv'
  <1>0. c \in Process!Tasks /\ c \notin Loops
    BY RequestsAssumption DEF RequestsAssumption, Process!LifecycleAssumption, Process!Tasks
  <1>1. /\ UNCHANGED <<standalone, boot, redis, pool, listening, sockets, running, wake>>
        /\ UNCHANGED <<status, shutting, step, elapsed>>
        /\ \/ task' = [task EXCEPT ![c] = "job"] \/ task' = [task EXCEPT ![c] = "off"]
           \/ task' = task
        /\ \/ awaited' \subseteq awaited
           \/ listening /\ awaited' = awaited \cup {c}
    BY DEF Process!RequestBegins, Process!SocketCalls, Process!ClientLeaves,
           Process!HandlerEnds, Process!starting, Process!traffic, Process!tasks, Process!ending
  <1>2. Process!Teardown' = Process!Teardown
    BY <1>1, TeardownStays
  <1>3. Process!TypeOK'
    BY <1>0, <1>1, <1>2 DEF ProcessInv, Process!TypeOK, Process!TaskState, Process!Tasks
  <1>4. /\ \A l \in Loops : task'[l] = task[l]
        /\ \A t \in Process!Tasks : task'[t] = "txn" => task[t] = "txn"
    BY <1>0, <1>1 DEF ProcessInv, Process!TypeOK, Process!Tasks
  <1>5. listening => step = 0 /\ ~standalone
    BY StepNumber DEF ProcessInv, WorkerInv
  <1>6. step > 0 \/ standalone => awaited' \subseteq awaited
    BY <1>1, <1>5, StepNumber
  <1>7. ApiInv' /\ WorkerInv'
    BY <1>1, <1>4, <1>6 DEF ProcessInv, ApiInv, WorkerInv
  <1>8. PoolInv'
    BY <1>1, <1>2, <1>4 DEF ProcessInv, PoolInv, Process!Tasks
  <1>. QED
    BY <1>1, <1>2, <1>3, <1>7, <1>8 DEF ProcessInv

\* A pool refuses a client once everything before it has been released.
LEMMA PoolRefuses ==
    ASSUME ProcessInv, NEW t \in Process!Tasks, Process!withTransaction(t)
    PROVE  step' # Len(Process!Teardown')
  <1>1. /\ step \in Nat /\ step < Len(Process!Teardown) - 1
        /\ step' = step /\ standalone' = standalone
    BY StepNumber DEF Process!withTransaction, Process!ending, Process!starting
  <1>2. Len(Process!Teardown) \in Nat /\ Process!Teardown' = Process!Teardown
    BY <1>1, TeardownShape, TeardownStays DEF ProcessInv, Process!TypeOK
  <1>. QED
    BY <1>1, <1>2

\* Whoever works may take a client of the pool as long as it has not ended.
LEMMA ClientKeeps ==
    ASSUME ProcessInv, RequestsAssumption, NEW t \in Process!Tasks,
           Process!withTransaction(t) \/ Process!Release(t)
    PROVE  ProcessInv'
  <1> USE RequestsAssumption, TeardownShape, TeardownStays
      DEF ProcessInv, ApiInv, WorkerInv, PoolInv, Process!TypeOK, Process!TaskState,
          Process!Tasks, Process!starting, Process!traffic, Process!ending, Process!Up
  <1>1. CASE Process!withTransaction(t)
    <2>1. Process!TypeOK'
      BY <1>1 DEF Process!withTransaction
    <2>2. ApiInv' /\ WorkerInv'
      BY <1>1 DEF Process!withTransaction
    <2>3. PoolInv'
      BY <1>1, PoolRefuses
    <2>. QED
      BY <1>1, <2>1, <2>2, <2>3 DEF Process!withTransaction
  <1>2. CASE Process!Release(t)
    <2>1. Process!TypeOK'
      BY <1>2 DEF Process!Release
    <2>2. ApiInv' /\ WorkerInv' /\ PoolInv'
      BY <1>2 DEF Process!Release
    <2>. QED
      BY <1>2, <2>1, <2>2 DEF Process!Release
  <1>. QED
    BY <1>1, <1>2

\* A loop that is over stays so.
LEMMA LoopKeeps ==
    ASSUME ProcessInv, RequestsAssumption, NEW l \in Loops,
           Process!PassEnds(l) \/ Process!SleepEnds(l)
    PROVE  ProcessInv'
  <1> USE RequestsAssumption, TeardownShape, TeardownStays
      DEF ProcessInv, ApiInv, WorkerInv, PoolInv, Process!TypeOK, Process!TaskState,
          Process!Tasks, Process!starting, Process!traffic, Process!ending, Process!Up,
          RequestsAssumption, Process!LifecycleAssumption
  <1>1. CASE Process!PassEnds(l)
    <2>1. Process!TypeOK'
      BY <1>1 DEF Process!PassEnds
    <2>2. ApiInv' /\ WorkerInv' /\ PoolInv'
      BY <1>1 DEF Process!PassEnds
    <2>. QED
      BY <1>1, <2>1, <2>2 DEF Process!PassEnds
  <1>2. CASE Process!SleepEnds(l)
    <2>1. Process!TypeOK'
      BY <1>2 DEF Process!SleepEnds
    <2>2. ApiInv' /\ WorkerInv' /\ PoolInv'
      BY <1>2 DEF Process!SleepEnds
    <2>. QED
      BY <1>2, <2>1, <2>2 DEF Process!SleepEnds
  <1>. QED
    BY <1>1, <1>2

LEMMA AwaitedMeans ==
    ASSUME NEW what, Process!Awaited(what)
    PROVE  /\ what = "server" => awaited = {}
           /\ what = "workers" => \A l \in Loops : task[l] \in {"off", "done"}
           /\ what = "pool" => \A t \in Process!Tasks : task[t] # "txn"
  BY DEF Process!Awaited

\* A step of the shutdown is taken when what it waits for is over.
LEMMA ProceedKeeps ==
    ASSUME ProcessInv, Process!Proceed
    PROVE  ProcessInv'
  <1> DEFINE what == Process!Teardown[step + 1]
  <1>1. /\ Process!Awaited(what) /\ step' = step + 1 /\ step < Len(Process!Teardown)
        /\ redis' = IF what = "redis" THEN "closed" ELSE redis
        /\ pool' = IF what = "pool" THEN "closed" ELSE pool
        /\ running' = (running /\ what # "server")
        /\ sockets' = IF what = "sockets" THEN 0 ELSE sockets
        /\ shutting # "no" /\ Process!Up
        /\ UNCHANGED <<standalone, boot, listening, awaited, task, wake, status, shutting, elapsed>>
    BY DEF Process!Proceed
  <1>2. Process!Teardown' = Process!Teardown
    BY <1>1 DEF Process!Teardown, Process!workerTeardown, Process!apiTeardown
  <1>3. step \in Nat /\ step + 1 <= Len(Process!Teardown)
    BY <1>1, TeardownShape, TeardownStays DEF ProcessInv, Process!TypeOK
  <1>T. ASSUME step' \in 0..Len(Process!Teardown') PROVE Process!TypeOK'
    <2>1. running' \in BOOLEAN
      BY <1>1
    <2>2. /\ sockets' \in 0..MaxSockets
          /\ redis' \in {"none", "open", "closed"} /\ pool' \in {"open", "closed"}
      BY <1>1, RequestsAssumption
      DEF ProcessInv, Process!TypeOK, RequestsAssumption, Process!LifecycleAssumption
    <2>. QED
      BY <1>1, <1>T, <2>1, <2>2 DEF ProcessInv, Process!TypeOK
  <1>4. CASE standalone
    <2>0. Len(Process!Teardown) = 2
      BY <1>4, TeardownShape
    <2>1. step \in {0, 1}
      BY <1>3, <2>0
    <2>1a. step = 0 => what = "redis"
      BY <1>4, TeardownShape
    <2>1b. step = 1 => what = "pool"
      BY <1>4, TeardownShape
    <2>2. step' \in 0..Len(Process!Teardown')
      BY <1>1, <1>2, <2>0, <2>1
    <2>3. PoolInv'
      <3>1. step' = 2 => what = "pool"
        BY <1>1, <2>1, <2>1b
      <3>2. step' = 2 => \A t \in Process!Tasks : task'[t] # "txn"
        BY <1>1, <3>1, AwaitedMeans
      <3>. QED
        BY <1>2, <2>0, <3>2 DEF PoolInv, Process!Tasks
    <2>4. /\ pool' = "closed" => step' = 2
          /\ status' = "up"
      BY <1>1, <1>4, <2>0, <2>1, <2>1a DEF ProcessInv, Process!Up
    <2>. QED
      BY <1>1, <1>2, <1>4, <1>T, <2>0, <2>1, <2>2, <2>3, <2>4 DEF ProcessInv, ApiInv, WorkerInv
  <1>5. CASE ~standalone
    <2>0. Len(Process!Teardown) = 5
      BY <1>5, TeardownShape
    <2>1. step \in 0..4
      BY <1>3, <2>0
    <2>1a. (step = 0 => what = "server") /\ (step = 1 => what = "workers")
      BY <1>5, TeardownShape
    <2>1b. (step = 2 => what = "sockets") /\ (step = 3 => what = "redis")
      BY <1>5, TeardownShape
    <2>1c. step = 4 => what = "pool"
      BY <1>5, TeardownShape
    <2>2. step' \in 0..Len(Process!Teardown')
      BY <1>1, <1>2, <2>0, <2>1
    <2>3. /\ step' > 0 => awaited = {} /\ ~running'
          /\ step' > 1 => \A l \in Loops : task[l] \in {"off", "done"}
          /\ redis' = "closed" => step' > 3
      <3>1. step = 0 => awaited = {} /\ ~running'
        BY <1>1, <2>1a, AwaitedMeans
      <3>2. step = 1 => \A l \in Loops : task[l] \in {"off", "done"}
        BY <1>1, <2>1a, AwaitedMeans
      <3>3. step # 3 => what # "redis"
        BY <2>1, <2>1a, <2>1b, <2>1c
      <3>4. /\ step > 0 => awaited = {} /\ ~running
            /\ step > 1 => \A l \in Loops : task[l] \in {"off", "done"}
            /\ redis = "closed" => step > 3
        BY <1>5 DEF ProcessInv, ApiInv
      <3>5. step' > 0 => awaited = {} /\ ~running'
        <4>1. step = 0 \/ step > 0
          BY <2>1
        <4>2. ~running => ~running'
          BY <1>1
        <4>. QED
          BY <3>1, <3>4, <4>1, <4>2
      <3>6. step' > 1 => \A l \in Loops : task[l] \in {"off", "done"}
        BY <1>1, <2>1, <3>2, <3>4
      <3>7. redis' = "closed" => step' > 3
        BY <1>1, <2>1, <3>3, <3>4
      <3>. QED
        BY <3>5, <3>6, <3>7
    <2>P. PoolInv'
      <3>1. step' = 5 => what = "pool"
        BY <1>1, <2>1, <2>1c
      <3>2. step' = 5 => \A t \in Process!Tasks : task'[t] # "txn"
        BY <1>1, <3>1, AwaitedMeans
      <3>. QED
        BY <1>2, <2>0, <3>2 DEF PoolInv, Process!Tasks
    <2>4. /\ pool' = "closed" => step' = 5
          /\ status' = "up"
      BY <1>1, <1>5, <2>0, <2>1, <2>1a, <2>1b DEF ProcessInv, Process!Up
    <2>. QED
      BY <1>1, <1>2, <1>5, <1>T, <2>0, <2>1, <2>2, <2>3, <2>P, <2>4 DEF ProcessInv, ApiInv, WorkerInv
  <1>. QED
    BY <1>4, <1>5

\* The end of the process, and time.
LEMMA EndKeeps ==
    ASSUME ProcessInv, RequestsAssumption,
           \/ Process!Finish \/ Process!TeardownFails \/ Process!forceExit
           \/ Process!Tick \/ Process!Over
    PROVE  ProcessInv'
  <1> USE RequestsAssumption, TeardownShape, TeardownStays
      DEF ProcessInv, ApiInv, WorkerInv, PoolInv, Process!TypeOK, Process!TaskState, Process!starting,
          Process!traffic, Process!tasks, Process!ending, Process!Up, Process!Exit,
          RequestsAssumption, Process!LifecycleAssumption
  <1>1. CASE Process!Finish
    BY <1>1 DEF Process!Finish
  <1>2. CASE Process!TeardownFails
    BY <1>2 DEF Process!TeardownFails
  <1>3. CASE Process!forceExit
    BY <1>3 DEF Process!forceExit
  <1>4. CASE Process!Tick
    BY <1>4 DEF Process!Tick
  <1>5. CASE Process!Over
    BY <1>5 DEF Process!Over, Process!vars
  <1>. QED
    BY <1>1, <1>2, <1>3, <1>4, <1>5

LEMMA ProcessKeeps ==
    ProcessInv /\ [Process!Next]_(Process!vars) => ProcessInv'
  <1>1. ASSUME ProcessInv, Process!Next PROVE ProcessInv'
    BY <1>1, RequestsAssumption, StartKeeps, TrafficKeeps, CallKeeps, ClientKeeps, LoopKeeps,
       ProceedKeeps, EndKeeps
    DEF Process!Next
  <1>2. ASSUME ProcessInv, UNCHANGED Process!vars PROVE ProcessInv'
    BY <1>2, TeardownShape, TeardownStays
    DEF ProcessInv, ApiInv, WorkerInv, PoolInv, Process!TypeOK, Process!vars, Process!starting,
        Process!traffic, Process!tasks, Process!ending
  <1>. QED
    BY <1>1, <1>2

\* server.ts shutdown and the workers': whatever comes in while the process shuts down,
\* and wherever its loops and the handlers of closed connections are, Redis and the pool
\* are closed after every pass and every request that somebody waits for, and a success is
\* reported only if no transaction was open and nobody was left without an answer.
THEOREM ShutdownIsSound == PartsSpec => []ShutdownSound
  <1>1. [PartsNext]_<<part, keyVars, authVars, limitVars, socketVars, processVars>>
          => [Process!Next]_(Process!vars)
    BY DEF PartsNext, processVars, Process!vars, Process!starting, Process!traffic,
           Process!tasks, Process!ending
  <1>2. ASSUME ProcessInv PROVE Process!ShutdownSound
    <2>1. step \in Nat /\ Process!TypeOK
      BY <1>2, StepNumber DEF ProcessInv
    <2>2. Process!CleanExit
      <3>1. ASSUME status = "success" PROVE awaited = {}
        <4>1. step = Len(Process!Teardown)
          BY <1>2, <3>1 DEF ProcessInv
        <4>2. ~standalone => step > 0
          BY <4>1, TeardownShape
        <4>. QED
          BY <1>2, <4>2 DEF ProcessInv, ApiInv, WorkerInv
      <3>2. ASSUME status = "success" PROVE \A t \in Process!Tasks : task[t] # "txn"
        BY <1>2, <3>2 DEF ProcessInv, PoolInv
      <3>. QED
        BY <3>1, <3>2 DEF Process!CleanExit
    <2>3. Process!NothingPulledAway
      <3>1. SUFFICES ASSUME ~standalone, redis = "closed" \/ pool = "closed"
                     PROVE  awaited = {} /\ \A l \in Loops : ~Process!Busy(l)
        BY DEF Process!NothingPulledAway
      <3>2. step > 0 /\ step > 1
        BY <1>2, <2>1, <3>1, TeardownShape DEF ProcessInv, ApiInv
      <3>. QED
        BY <1>2, <3>1, <3>2 DEF ProcessInv, ApiInv, Process!Busy
    <2>. QED
      BY <2>1, <2>2, <2>3 DEF Process!ShutdownSound
  <1>3. Process!ShutdownSound => ShutdownSound
    BY DEF ShutdownSound
  <1>. QED
    BY <1>1, <1>2, <1>3, ProcessInit, ProcessKeeps, PTL DEF PartsSpec

-----------------------------------------------------------------------------
(* Subscriptions                                                           *)

\* A stopped process listens to nothing and has no connection.
StoppedInv ==
    process = "stopped" =>
        /\ wire = <<>> /\ channels = {}
        /\ \A w \in Tabs : conn[w] = "closed" /\ \A e \in Events : asking[w][e] = 0

RegistryInv == Registry!RegistrySound /\ StoppedInv

LEMMA RegistryConstants ==
    /\ MaxSubscriptions \in Nat /\ MaxAsks \in Nat /\ MaxWire \in Nat
    /\ \A E \in SUBSET Events : IsFiniteSet(E) /\ Cardinality(E) \in Nat
    /\ \A E : Registry!Cardinality(E) = Cardinality(E)
  <1>1. \A E : (Registry!IsFiniteSet(E) <=> IsFiniteSet(E)) /\ Registry!Cardinality(E) = Cardinality(E)
    BY DEF Registry!IsFiniteSet, IsFiniteSet, Registry!Cardinality, Cardinality
  <1>2. IsFiniteSet(Events)
    BY <1>1, RequestsAssumption DEF RequestsAssumption, Registry!RegistryAssumption
  <1>3. ASSUME NEW E \in SUBSET Events PROVE IsFiniteSet(E) /\ Cardinality(E) \in Nat
    BY <1>2, FS_Subset, FS_CardinalityType
  <1>4. MaxSubscriptions \in Nat /\ MaxAsks \in Nat /\ MaxWire \in Nat
    BY RequestsAssumption DEF RequestsAssumption, Registry!RegistryAssumption
  <1> QED BY <1>1, <1>3, <1>4

\* SetToSeq lists each member of a finite set once.
LEMMA ListOfEvents ==
    ASSUME NEW E \in SUBSET Events
    PROVE  /\ Registry!SetToSeq(E) \in [1 .. Cardinality(E) -> E]
           /\ \A i, j \in 1 .. Cardinality(E) :
                Registry!SetToSeq(E)[i] = Registry!SetToSeq(E)[j] => i = j
           /\ \A e \in E : \E i \in 1 .. Cardinality(E) : Registry!SetToSeq(E)[i] = e
  <1> DEFINE D == 1 .. Cardinality(E)
  <1>1. IsFiniteSet(E) /\ Cardinality(E) \in Nat /\ Registry!Cardinality(E) = Cardinality(E)
    BY RegistryConstants
  <1>2. PICK b : b \in Bijection(D, E)
    BY <1>1, FS_CardinalityType DEF ExistsBijection
  <1>3. b \in [D -> E] /\ \A i, j \in D : b[i] = b[j] => i = j
    BY <1>2 DEF Bijection, Injection, IsInjective
  <1>4. Registry!IsInjective(b)
    BY <1>3 DEF Registry!IsInjective
  <1> DEFINE q == Registry!SetToSeq(E)
  <1>5. q \in [D -> E] /\ Registry!IsInjective(q)
    <2>1. q = CHOOSE f \in [D -> E] : Registry!IsInjective(f)
      BY <1>1 DEF Registry!SetToSeq
    <2> QED BY <1>3, <1>4, <2>1
  <1>6. \A i, j \in D : q[i] = q[j] => i = j
    BY <1>5 DEF Registry!IsInjective
  <1> HIDE DEF q
  <1>7. q \in Injection(D, E)
    BY <1>5, <1>6 DEF Injection, IsInjective
  <1>8. IsFiniteSet(D) /\ Cardinality(D) = Cardinality(E)
    BY <1>1, FS_Interval
  <1>9. q \in Surjection(D, E)
    BY <1>1, <1>7, <1>8, FS_Injection
  <1> QED BY <1>5, <1>6, <1>9 DEF Surjection, q

\* What is under way once r is sent after p.
LEMMA ConcatMoves ==
    ASSUME NEW S, NEW p \in Seq(S), NEW r \in Seq(S)
    PROVE  /\ p \o r \in Seq(S) /\ Len(p \o r) = Len(p) + Len(r)
           /\ DOMAIN (p \o r) = 1 .. Len(p) + Len(r)
           /\ \A i \in 1 .. Len(p) : (p \o r)[i] = p[i]
           /\ \A k \in 1 .. Len(r) : (p \o r)[Len(p) + k] = r[k]
  <1>1. p \o r \in Seq(S) /\ Len(p \o r) = Len(p) + Len(r)
    OBVIOUS
  <1>2. DOMAIN (p \o r) = 1 .. Len(p) + Len(r)
    BY <1>1
  <1>3. \A i \in 1 .. Len(p) : (p \o r)[i] = p[i]
    OBVIOUS
  <1>4. ASSUME NEW k \in 1 .. Len(r) PROVE (p \o r)[Len(p) + k] = r[k]
    OBVIOUS
  <1> QED BY <1>1, <1>2, <1>3, <1>4

\* The channels C once the commands w are executed.
Listening(C, w) ==
    {e \in Events :
        \/ e \in C /\ \A i \in DOMAIN w : w[i].event # e
        \/ \E i \in DOMAIN w :
              /\ w[i] = [verb |-> "subscribe", event |-> e]
              /\ \A j \in DOMAIN w : j > i => w[j].event # e}

\* After the n commands p, w has one of the given kind for each event of E, listed by q.
Follows(w, p, n, verb, E, q, m) ==
    /\ n \in Nat /\ m \in Nat
    /\ E \subseteq Events /\ verb \in {"subscribe", "unsubscribe"}
    /\ DOMAIN p = 1 .. n /\ DOMAIN w = 1 .. n + m
    /\ \A i \in 1 .. m : q[i] \in E
    /\ \A i, j \in 1 .. m : q[i] = q[j] => i = j
    /\ \A e \in E : \E i \in 1 .. m : q[i] = e
    /\ \A i \in 1 .. n : w[i] = p[i]
    /\ \A k \in 1 .. m : w[n + k] = [verb |-> verb, event |-> q[k]]

\* Commands sent for the events E, all of one kind and one for each, decide for those
\* events and for no others.
LEMMA LaterDecides ==
    ASSUME NEW E, NEW verb, NEW n, NEW m, NEW q, NEW p, NEW w,
           Follows(w, p, n, verb, E, q, m)
    PROVE  \A C : /\ verb = "subscribe" => Listening(C, w) = Listening(C, p) \cup E
                  /\ verb # "subscribe" => Listening(C, w) = Listening(C, p) \ E
  <1> USE DEF Follows
  <1> SUFFICES ASSUME NEW C
               PROVE  /\ verb = "subscribe" => Listening(C, w) = Listening(C, p) \cup E
                      /\ verb # "subscribe" => Listening(C, w) = Listening(C, p) \ E
    OBVIOUS
  <1>1. ASSUME NEW i \in 1 .. n + m
        PROVE  \/ i \in 1 .. n /\ w[i] = p[i]
               \/ \E k \in 1 .. m : i = n + k /\ w[i] = [verb |-> verb, event |-> q[k]]
    <2>1. CASE i <= n
      BY <2>1
    <2>2. CASE i > n
      <3>1. i - n \in 1 .. m /\ i = n + (i - n)
        BY <2>2
      <3>2. w[n + (i - n)] = [verb |-> verb, event |-> q[i - n]]
        BY <3>1
      <3> QED BY <3>1, <3>2
    <2> QED BY <2>1, <2>2
  <1>2. \A i \in 1 .. n : i \in 1 .. n + m
    OBVIOUS
  \* another event: the commands are not about it
  <1>3. ASSUME NEW e \in Events \ E PROVE e \in Listening(C, w) <=> e \in Listening(C, p)
    <2>1. ASSUME NEW i \in 1 .. n + m, w[i].event = e PROVE i \in 1 .. n /\ w[i] = p[i]
      <3>1. ASSUME NEW k \in 1 .. m, w[i] = [verb |-> verb, event |-> q[k]] PROVE FALSE
        <4>1. w[i].event = q[k] /\ q[k] \in E
          BY <3>1
        <4> QED BY <2>1, <4>1
      <3> QED BY <1>1, <3>1
    <2>2. (\A i \in 1 .. n : p[i].event # e) <=> (\A i \in 1 .. n + m : w[i].event # e)
      BY <1>2, <2>1
    <2>3. ASSUME NEW i \in 1 .. n
          PROVE  (\A j \in 1 .. n : j > i => p[j].event # e)
                   <=> (\A j \in 1 .. n + m : j > i => w[j].event # e)
      BY <1>2, <2>1
    <2> DEFINE s == [verb |-> "subscribe", event |-> e]
    <2>4. s.event = e
      OBVIOUS
    <2> HIDE DEF s
    <2>5. (\E i \in 1 .. n : p[i] = s /\ \A j \in 1 .. n : j > i => p[j].event # e)
           <=> (\E i \in 1 .. n + m : w[i] = s /\ \A j \in 1 .. n + m : j > i => w[j].event # e)
      BY <1>2, <2>1, <2>3, <2>4
    <2> QED BY <2>2, <2>5, SMTT(20) DEF Listening, s
  \* an event of the commands: the one about it is the last
  <1>4. ASSUME NEW e \in E PROVE e \in Listening(C, w) <=> verb = "subscribe"
    <2>1. PICK k \in 1 .. m : q[k] = e
      OBVIOUS
    <2>2. n + k \in 1 .. n + m /\ w[n + k] = [verb |-> verb, event |-> e]
      BY <2>1
    <2>3. w[n + k].event = e /\ w[n + k].verb = verb
      BY <2>2
    <2>4. ASSUME NEW j \in 1 .. n + m, j > n + k PROVE w[j].event # e
      <3>1. PICK l \in 1 .. m : j = n + l /\ w[j] = [verb |-> verb, event |-> q[l]]
        BY <1>1, <2>4
      <3>2. l # k /\ w[j].event = q[l]
        BY <2>4, <3>1
      <3> QED BY <2>1, <3>2
    <2>5. CASE verb = "subscribe"
      <3>1. w[n + k] = [verb |-> "subscribe", event |-> e]
        BY <2>2, <2>5
      <3> QED BY <2>2, <2>4, <2>5, <3>1 DEF Listening
    <2>6. CASE verb # "subscribe"
      <3>1. ASSUME NEW i \in 1 .. n + m, w[i] = [verb |-> "subscribe", event |-> e],
                   \A j \in 1 .. n + m : j > i => w[j].event # e
            PROVE  FALSE
        <4>1. w[i].verb = "subscribe" /\ w[i].event = e
          BY <3>1
        <4>2. ~(n + k > i) /\ i # n + k
          BY <2>2, <2>3, <2>6, <3>1, <4>1
        <4>3. i > n + k
          BY <4>2
        <4> QED BY <2>4, <4>1, <4>3
      <3>2. ~ \A i \in 1 .. n + m : w[i].event # e
        BY <2>2, <2>3
      <3> QED BY <2>6, <3>1, <3>2 DEF Listening
    <2> QED BY <2>5, <2>6
  <1>5. Listening(C, w) \subseteq Events /\ Listening(C, p) \subseteq Events
    BY DEF Listening
  <1> QED BY <1>3, <1>4, <1>5

\* The commands sent for the events E.
Sending(verb, E) ==
    [i \in 1 .. Registry!Cardinality(E) |-> [verb |-> verb, event |-> Registry!SetToSeq(E)[i]]]

\* What is under way once they are sent.
LEMMA CommandsSent ==
    ASSUME NEW p \in Seq(Registry!Command), NEW E \in SUBSET Events,
           NEW verb \in {"subscribe", "unsubscribe"}
    PROVE  /\ p \o Sending(verb, E) \in Seq(Registry!Command)
           /\ Len(p \o Sending(verb, E)) = Len(p) + Registry!Cardinality(E)
           /\ \A C : Listening(C, p \o Sending(verb, E)) =
                        IF verb = "subscribe" THEN Listening(C, p) \cup E
                                              ELSE Listening(C, p) \ E
  <1> DEFINE w == p \o Sending(verb, E)
             q == Registry!SetToSeq(E)
             m == Cardinality(E)
             b == [i \in 1 .. m |-> [verb |-> verb, event |-> q[i]]]
  <1>1. /\ q \in [1 .. m -> E] /\ \A i, j \in 1 .. m : q[i] = q[j] => i = j
        /\ \A e \in E : \E i \in 1 .. m : q[i] = e
        /\ m \in Nat /\ Registry!Cardinality(E) = m
    BY ListOfEvents, RegistryConstants
  <1>2. w = p \o b
    BY <1>1 DEF Sending
  <1> HIDE DEF q, m, w
  <1>3. \A i \in 1 .. m : [verb |-> verb, event |-> q[i]] \in Registry!Command
    BY <1>1 DEF Registry!Command
  <1>4. b \in Seq(Registry!Command) /\ Len(b) = m
    BY <1>1, <1>3
  <1>5. \A i \in 1 .. m : b[i] = [verb |-> verb, event |-> q[i]]
    OBVIOUS
  <1> HIDE DEF b
  <1>6. /\ p \o b \in Seq(Registry!Command) /\ Len(p \o b) = Len(p) + Len(b)
        /\ DOMAIN (p \o b) = 1 .. Len(p) + Len(b)
        /\ \A i \in 1 .. Len(p) : (p \o b)[i] = p[i]
        /\ \A k \in 1 .. Len(b) : (p \o b)[Len(p) + k] = b[k]
    <2>1. p \in Seq(Registry!Command) /\ b \in Seq(Registry!Command)
      BY <1>4
    <2> QED BY ONLY <2>1, ConcatMoves
  <1>7. /\ w \in Seq(Registry!Command) /\ Len(w) = Len(p) + m
        /\ DOMAIN w = 1 .. Len(p) + m
        /\ \A i \in 1 .. Len(p) : w[i] = p[i]
        /\ \A k \in 1 .. m : w[Len(p) + k] = [verb |-> verb, event |-> q[k]]
    BY ONLY <1>2, <1>4, <1>5, <1>6
  <1>8. Len(p) \in Nat /\ DOMAIN p = 1 .. Len(p)
    OBVIOUS
  <1>9. \A i \in 1 .. m : q[i] \in E
    BY <1>1
  <1>10. ASSUME NEW C
         PROVE  Listening(C, w) = IF verb = "subscribe" THEN Listening(C, p) \cup E
                                                        ELSE Listening(C, p) \ E
    <2> DEFINE n == Len(p)
    <2>1. n \in Nat /\ m \in Nat /\ verb \in {"subscribe", "unsubscribe"}
      BY <1>1, <1>8
    <2>2. DOMAIN p = 1 .. n /\ DOMAIN w = 1 .. n + m
      BY <1>7, <1>8
    <2>3. \A i \in 1 .. n : w[i] = p[i]
      BY <1>7
    <2>4. \A k \in 1 .. m : w[n + k] = [verb |-> verb, event |-> q[k]]
      BY <1>7
    <2>5. /\ \A i, j \in 1 .. m : q[i] = q[j] => i = j
          /\ \A e \in E : \E i \in 1 .. m : q[i] = e
      BY <1>1
    <2>6. E \in SUBSET Events
      OBVIOUS
    <2>7. Follows(w, p, n, verb, E, q, m)
      BY ONLY <1>9, <2>1, <2>2, <2>3, <2>4, <2>5, <2>6 DEF Follows
    <2>8. /\ verb = "subscribe" => Listening(C, w) = Listening(C, p) \cup E
          /\ verb # "subscribe" => Listening(C, w) = Listening(C, p) \ E
      BY ONLY <2>7, LaterDecides
    <2> QED BY <2>8
  <1> QED
    <2> HIDE DEF Listening, Sending
    <2> QED BY ONLY <1>1, <1>7, <1>10 DEF w

\* Executing the first command changes nothing in what the commands come to.
LEMMA FirstExecuted ==
    ASSUME NEW C, NEW p \in Seq(Registry!Command), p # <<>>, NEW C2,
           C2 = IF Head(p).verb = "subscribe" THEN C \cup {Head(p).event}
                                              ELSE C \ {Head(p).event}
    PROVE  /\ Head(p) \in Registry!Command /\ Tail(p) \in Seq(Registry!Command)
           /\ Len(Tail(p)) <= Len(p)
           /\ Listening(C2, Tail(p)) = Listening(C, p)
  <1> DEFINE n == Len(p)
             t == Tail(p)
             c == Head(p)
  <1>1. n \in Nat /\ n > 0 /\ DOMAIN p = 1 .. n
    OBVIOUS
  <1>2. t \in Seq(Registry!Command) /\ Len(t) = n - 1 /\ DOMAIN t = 1 .. n - 1
    OBVIOUS
  <1>3. c = p[1] /\ c \in Registry!Command
    OBVIOUS
  <1>4. \A i \in 1 .. n - 1 : t[i] = p[i + 1]
    OBVIOUS
  <1>5. c.verb \in {"subscribe", "unsubscribe"} /\ c = [verb |-> c.verb, event |-> c.event]
    BY <1>3 DEF Registry!Command
  <1>6. C2 = IF c.verb = "subscribe" THEN C \cup {c.event} ELSE C \ {c.event}
    OBVIOUS
  <1> HIDE DEF n, t, c
  <1>7. \A i \in 1 .. n - 1 : i + 1 \in 1 .. n /\ t[i] = p[i + 1]
    BY <1>1, <1>4
  <1>8. \A i \in 1 .. n : i # 1 => (i - 1 \in 1 .. n - 1 /\ t[i - 1] = p[i])
    <2>1. ASSUME NEW i \in 1 .. n, i # 1 PROVE i - 1 \in 1 .. n - 1 /\ t[i - 1] = p[i]
      <3>1. i - 1 \in 1 .. n - 1 /\ (i - 1) + 1 = i
        BY <1>1, <2>1
      <3> QED BY <1>7, <3>1
    <2> QED BY <2>1
  <1>9. 1 \in 1 .. n
    BY <1>1
  <1>10. ASSUME NEW e \in Events PROVE e \in Listening(C2, t) <=> e \in Listening(C, p)
    <2> DEFINE s == [verb |-> "subscribe", event |-> e]
    <2>1. s.event = e
      OBVIOUS
    <2>2. c.event = e => (c = s <=> c.verb = "subscribe")
      BY <1>5
    <2>3. e \in C2 <=> IF c.event = e THEN c = s ELSE e \in C
      BY <1>5, <1>6, <2>2
    <2>4. /\ e \in Listening(C, p) <=>
               \/ e \in C /\ \A i \in 1 .. n : p[i].event # e
               \/ \E i \in 1 .. n : p[i] = s /\ \A j \in 1 .. n : j > i => p[j].event # e
          /\ e \in Listening(C2, t) <=>
               \/ e \in C2 /\ \A i \in 1 .. n - 1 : t[i].event # e
               \/ \E i \in 1 .. n - 1 : t[i] = s /\ \A j \in 1 .. n - 1 : j > i => t[j].event # e
      BY <1>1, <1>2 DEF Listening
    <2> HIDE DEF s
    <2>5. (\A i \in 1 .. n : p[i].event # e)
            <=> c.event # e /\ \A i \in 1 .. n - 1 : t[i].event # e
      BY <1>3, <1>7, <1>8, <1>9
    <2>6. (\A j \in 1 .. n : j > 1 => p[j].event # e) <=> \A i \in 1 .. n - 1 : t[i].event # e
      <3>1. ASSUME \A j \in 1 .. n : j > 1 => p[j].event # e, NEW i \in 1 .. n - 1
            PROVE  t[i].event # e
        <4>1. i + 1 \in 1 .. n /\ i + 1 > 1
          BY <1>1
        <4> QED BY <1>7, <3>1, <4>1
      <3>2. ASSUME \A i \in 1 .. n - 1 : t[i].event # e, NEW j \in 1 .. n, j > 1
            PROVE  p[j].event # e
        BY <1>8, <3>2
      <3> QED BY <3>1, <3>2
    <2>7. ASSUME NEW i \in 1 .. n - 1
          PROVE  (\A j \in 1 .. n - 1 : j > i => t[j].event # e)
                   <=> \A j \in 1 .. n : j > i + 1 => p[j].event # e
      <3>1. ASSUME \A j \in 1 .. n - 1 : j > i => t[j].event # e, NEW j \in 1 .. n, j > i + 1
            PROVE  p[j].event # e
        <4>1. j - 1 \in 1 .. n - 1 /\ t[j - 1] = p[j] /\ j - 1 > i
          BY <1>1, <1>8, <3>1
        <4> QED BY <3>1, <4>1
      <3>2. ASSUME \A j \in 1 .. n : j > i + 1 => p[j].event # e, NEW j \in 1 .. n - 1, j > i
            PROVE  t[j].event # e
        <4>1. j + 1 \in 1 .. n /\ t[j] = p[j + 1] /\ j + 1 > i + 1
          BY <1>1, <1>7, <3>2
        <4> QED BY <3>2, <4>1
      <3> QED BY <3>1, <3>2
    <2> DEFINE LastP(i) == p[i] = s /\ \A j \in 1 .. n : j > i => p[j].event # e
               LastT(i) == t[i] = s /\ \A j \in 1 .. n - 1 : j > i => t[j].event # e
    <2>8. \A i \in 1 .. n - 1 : LastT(i) <=> LastP(i + 1)
      BY <1>7, <2>7
    <2>9. LastP(1) <=> c = s /\ \A i \in 1 .. n - 1 : t[i].event # e
      BY <1>3, <2>6
    <2>10. (\E i \in 1 .. n : LastP(i)) <=> LastP(1) \/ \E i \in 1 .. n - 1 : LastT(i)
      <3> HIDE DEF LastP, LastT
      <3>1. ASSUME NEW i \in 1 .. n, LastP(i) PROVE LastP(1) \/ \E k \in 1 .. n - 1 : LastT(k)
        <4>1. CASE i = 1
          BY <3>1, <4>1
        <4>2. CASE i # 1
          <5>1. i - 1 \in 1 .. n - 1 /\ (i - 1) + 1 = i
            BY <1>1, <4>2
          <5> QED BY <2>8, <3>1, <5>1
        <4> QED BY <4>1, <4>2
      <3> QED BY <1>7, <1>9, <2>8, <3>1
    <2>11. c = s => c.event = e
      BY <2>1
    <2> QED
      <3> HIDE DEF LastP, LastT
      <3>1. e \in Listening(C, p) <=> \/ e \in C /\ \A i \in 1 .. n : p[i].event # e
                                      \/ \E i \in 1 .. n : LastP(i)
        BY <2>4 DEF LastP
      <3>2. e \in Listening(C2, t) <=> \/ e \in C2 /\ \A i \in 1 .. n - 1 : t[i].event # e
                                       \/ \E i \in 1 .. n - 1 : LastT(i)
        BY <2>4 DEF LastT
      <3> QED BY <2>3, <2>5, <2>9, <2>10, <2>11, <3>1, <3>2
  <1>11. Listening(C2, t) \subseteq Events /\ Listening(C, p) \subseteq Events
    BY DEF Listening
  <1>12. Listening(C2, t) = Listening(C, p)
    BY <1>10, <1>11
  <1> QED BY <1>1, <1>2, <1>3, <1>12 DEF n, t, c

LEMMA SettledListens ==
    /\ Registry!Settled = Listening(channels, wire)
    /\ Registry!Settled' = Listening(channels', wire')
  BY DEF Registry!Settled, Listening

\* Events somebody here watches.
Watched == {e \in Events : local[e] # {}}

\* The commands of one handler: for the events E, or none because the connection is down.
LEMMA SendKeeps ==
    ASSUME Registry!TypeOK, NEW E \in SUBSET Events,
           NEW verb \in {"subscribe", "unsubscribe"}, Registry!Send(verb, E)
    PROVE  /\ linkUp' = linkUp /\ channels' = channels
           /\ wire' \in Seq(Registry!Command) /\ Len(wire') <= MaxWire
           /\ process' \in {process, "stopping"}
           /\ process' = "running" =>
                Registry!Settled' = IF verb = "subscribe" THEN Registry!Settled \cup E
                                                          ELSE Registry!Settled \ E
  <1>1. wire \in Seq(Registry!Command) /\ Len(wire) <= MaxWire
    BY DEF Registry!TypeOK
  <1>2. CASE E = {}
    <2>1. UNCHANGED <<linkUp, wire, channels, process>>
      BY <1>2 DEF Registry!Send, Registry!redis
    <2>2. Registry!Settled' = Registry!Settled
      BY <2>1, SettledListens
    <2> QED BY <1>1, <1>2, <2>1, <2>2
  <1>3. CASE E # {} /\ linkUp
    <2>1. /\ UNCHANGED <<linkUp, channels, process>>
          /\ Len(wire) + Registry!Cardinality(E) <= MaxWire
          /\ wire' = wire \o Sending(verb, E)
      BY <1>3 DEF Registry!Send, Sending
    <2>2. /\ wire' \in Seq(Registry!Command) /\ Len(wire') = Len(wire) + Registry!Cardinality(E)
          /\ Listening(channels, wire') = IF verb = "subscribe" THEN Listening(channels, wire) \cup E
                                                                ELSE Listening(channels, wire) \ E
      <3> HIDE DEF Listening, Sending
      <3>1. wire \in Seq(Registry!Command) /\ wire' = wire \o Sending(verb, E)
        BY <1>1, <2>1
      <3>2. E \in SUBSET Events /\ verb \in {"subscribe", "unsubscribe"}
        OBVIOUS
      <3>3. /\ wire \o Sending(verb, E) \in Seq(Registry!Command)
            /\ Len(wire \o Sending(verb, E)) = Len(wire) + Registry!Cardinality(E)
            /\ \A C : Listening(C, wire \o Sending(verb, E)) =
                         IF verb = "subscribe" THEN Listening(C, wire) \cup E
                                               ELSE Listening(C, wire) \ E
        BY ONLY <3>1, <3>2, CommandsSent
      <3> QED BY ONLY <3>1, <3>3
    <2> HIDE DEF Listening
    <2>3. Registry!Settled' = IF verb = "subscribe" THEN Registry!Settled \cup E
                                                    ELSE Registry!Settled \ E
      BY <2>1, <2>2, SettledListens
    <2> QED BY ONLY <2>1, <2>2, <2>3
  <1>4. CASE E # {} /\ ~linkUp
    <2>1. UNCHANGED <<linkUp, channels, wire>> /\ process' = "stopping"
      BY <1>4 DEF Registry!Send
    <2> QED BY <1>1, <2>1
  <1> QED BY <1>2, <1>3, <1>4

\* A handler that runs while the process does, opens no connection and keeps the maps in
\* step: it has only to tell Redis of the events that gain or lose their last listener.
LEMMA HandlerKeeps ==
    ASSUME RegistryInv, process # "stopped", NEW E \in SUBSET Events,
           NEW verb \in {"subscribe", "unsubscribe"}, Registry!Send(verb, E),
           Watched' = IF verb = "subscribe" THEN Watched \cup E ELSE Watched \ E
    PROVE  /\ linkUp' \in BOOLEAN /\ channels' \subseteq Events
           /\ wire' \in Seq(Registry!Command) /\ Len(wire') <= MaxWire
           /\ process' \in {"running", "stopping"}
           /\ Registry!ChannelsMatch' /\ StoppedInv'
  <1>1. Registry!TypeOK /\ Registry!ChannelsMatch
    BY DEF RegistryInv, Registry!RegistrySound
  <1>2. /\ linkUp' = linkUp /\ channels' = channels
        /\ wire' \in Seq(Registry!Command) /\ Len(wire') <= MaxWire
        /\ process' \in {process, "stopping"}
        /\ process' = "running" =>
             Registry!Settled' = IF verb = "subscribe" THEN Registry!Settled \cup E
                                                       ELSE Registry!Settled \ E
    BY <1>1, SendKeeps
  <1>3. linkUp \in BOOLEAN /\ channels \subseteq Events /\ process \in {"running", "stopping"}
    BY <1>1 DEF Registry!TypeOK
  <1>4. process' \in {"running", "stopping"} /\ (process' = "running" => process = "running")
    BY <1>2, <1>3
  <1>5. process = "running" => Registry!Settled = Watched
    BY <1>1 DEF Registry!ChannelsMatch, Watched
  <1>6. process' = "running" => Registry!Settled' = Watched'
    BY <1>2, <1>4, <1>5
  <1>7. Registry!ChannelsMatch'
    BY <1>6 DEF Registry!ChannelsMatch, Watched
  <1>8. StoppedInv'
    BY <1>4 DEF StoppedInv
  <1> QED BY <1>2, <1>3, <1>4, <1>7, <1>8

\* The connection to Redis: what it executes, loses and takes up again.
LEMMA LinkKeeps ==
    ASSUME RegistryInv,
           Registry!Execute \/ Registry!Disconnect \/ Registry!Reconnect
    PROVE  RegistryInv'
  <1>1. /\ Registry!TypeOK /\ Registry!TwoWay /\ Registry!ChannelsMatch /\ StoppedInv
        /\ wire \in Seq(Registry!Command) /\ Len(wire) <= MaxWire
    BY DEF RegistryInv, Registry!RegistrySound, Registry!TypeOK
  <1>2. UNCHANGED <<conn, gone, isAlive, subs, local, asking, dropped>>
    BY DEF Registry!Execute, Registry!Disconnect, Registry!Reconnect, Registry!registry
  <1>3. Registry!TwoWay'
    BY <1>1, <1>2 DEF Registry!TwoWay
  <1>4. ASSUME /\ wire' \in Seq(Registry!Command) /\ Len(wire') <= MaxWire
               /\ linkUp' \in BOOLEAN /\ channels' \subseteq Events
               /\ process' \in {"running", "stopping", "stopped"}
               /\ process' = "running" =>
                    process = "running" /\ Registry!Settled' = Registry!Settled
               /\ StoppedInv'
        PROVE  RegistryInv'
    <2>1. Registry!TypeOK'
      BY <1>1, <1>2, <1>4 DEF Registry!TypeOK
    <2>2. Registry!ChannelsMatch'
      BY <1>1, <1>2, <1>4 DEF Registry!ChannelsMatch
    <2> QED BY <1>3, <1>4, <2>1, <2>2 DEF RegistryInv, Registry!RegistrySound
  <1>5. CASE Registry!Execute
    <2>1. /\ wire # <<>> /\ wire' = Tail(wire) /\ UNCHANGED <<linkUp, process>>
          /\ channels' = IF Head(wire).verb = "subscribe" THEN channels \cup {Head(wire).event}
                                                          ELSE channels \ {Head(wire).event}
      BY <1>5 DEF Registry!Execute
    <2>2. /\ Head(wire) \in Registry!Command /\ Tail(wire) \in Seq(Registry!Command)
          /\ Len(Tail(wire)) <= Len(wire)
          /\ Listening(channels', Tail(wire)) = Listening(channels, wire)
      BY <1>1, <2>1, FirstExecuted
    <2>3. Len(Tail(wire)) <= MaxWire
      <3>1. Len(wire) \in Nat /\ Len(Tail(wire)) \in Nat /\ MaxWire \in Nat
        BY <1>1, <2>2, RegistryConstants
      <3> QED BY <1>1, <2>2, <3>1
    <2>4. Registry!Settled' = Registry!Settled
      BY <2>1, <2>2, SettledListens
    <2>5. Head(wire).event \in Events
      BY <2>2 DEF Registry!Command
    <2>6. process # "stopped"
      BY <1>1, <2>1 DEF StoppedInv
    <2>7. StoppedInv'
      BY <2>1, <2>6 DEF StoppedInv
    <2>8. /\ wire' \in Seq(Registry!Command) /\ Len(wire') <= MaxWire
          /\ linkUp' \in BOOLEAN /\ channels' \subseteq Events
          /\ process' = process /\ process \in {"running", "stopping", "stopped"}
      BY <1>1, <2>1, <2>2, <2>3, <2>5 DEF Registry!TypeOK
    <2> QED BY <1>4, <2>4, <2>7, <2>8
  <1>6. CASE Registry!Disconnect
    <2>1. /\ process # "stopped" /\ linkUp' = FALSE /\ channels' = channels
          /\ \/ UNCHANGED <<wire, process>>
             \/ wire' = <<>> /\ process' = "stopping"
      BY <1>6 DEF Registry!Disconnect
    <2>2. channels \subseteq Events /\ process \in {"running", "stopping", "stopped"}
      BY <1>1 DEF Registry!TypeOK
    <2>3. StoppedInv'
      BY <2>1 DEF StoppedInv
    <2>4. CASE UNCHANGED <<wire, process>>
      <3>1. Registry!Settled' = Registry!Settled
        BY <2>1, <2>4, SettledListens
      <3> QED BY <1>1, <1>4, <2>1, <2>2, <2>3, <2>4, <3>1
    <2>5. CASE wire' = <<>> /\ process' = "stopping"
      <3>1. <<>> \in Seq(Registry!Command) /\ Len(<<>>) = 0 /\ MaxWire \in Nat
        BY RegistryConstants
      <3>2. wire' \in Seq(Registry!Command) /\ Len(wire') <= MaxWire
        BY <2>5, <3>1
      <3> QED BY <1>4, <2>1, <2>2, <2>3, <2>5, <3>2
    <2> QED BY <2>1, <2>4, <2>5
  <1>7. CASE Registry!Reconnect
    <2>1. linkUp' = TRUE /\ UNCHANGED <<wire, channels, process>>
      BY <1>7 DEF Registry!Reconnect
    <2>2. Registry!Settled' = Registry!Settled
      BY <2>1, SettledListens
    <2>3. StoppedInv'
      BY <1>1, <1>2, <2>1 DEF StoppedInv
    <2>4. channels \subseteq Events /\ process \in {"running", "stopping", "stopped"}
      BY <1>1 DEF Registry!TypeOK
    <2> QED BY <1>1, <1>4, <2>1, <2>2, <2>3, <2>4
  <1> QED BY <1>5, <1>6, <1>7

\* The process: it ends with all its connections, and starts with none.
LEMMA RestartKeeps ==
    ASSUME RegistryInv, Registry!closeWebSocketServer \/ Registry!startSubscriptionRegistry
    PROVE  RegistryInv'
  <1>1. Registry!TypeOK /\ Registry!TwoWay /\ Registry!ChannelsMatch /\ StoppedInv
    BY DEF RegistryInv, Registry!RegistrySound
  <1>2. CASE Registry!closeWebSocketServer
    <2>1. /\ process' = "stopped" /\ dropped' = Registry!Open \ gone
          /\ conn' = [w \in Tabs |-> "closed"]
          /\ subs' = [w \in Tabs |-> {}] /\ local' = [e \in Events |-> {}]
          /\ asking' = [w \in Tabs |-> [e \in Events |-> 0]]
          /\ wire' = <<>> /\ channels' = {}
          /\ UNCHANGED <<gone, isAlive, linkUp>>
      BY <1>2 DEF Registry!closeWebSocketServer
    <2>2. Registry!TypeOK'
      <3>1. <<>> \in Seq(Registry!Command) /\ Len(<<>>) = 0 /\ MaxWire \in Nat /\ MaxAsks \in Nat
        BY RegistryConstants
      <3>2. wire' \in Seq(Registry!Command) /\ Len(wire') <= MaxWire
        BY <2>1, <3>1
      <3>3. asking' \in [Tabs -> [Events -> 0 .. MaxAsks]]
        <4>1. 0 \in 0 .. MaxAsks
          BY <3>1
        <4> QED BY <2>1, <4>1
      <3>4. dropped' \subseteq Tabs
        BY <2>1 DEF Registry!Open
      <3> QED BY <1>1, <2>1, <3>2, <3>3, <3>4 DEF Registry!TypeOK
    <2>3. Registry!TwoWay'
      BY <2>1 DEF Registry!TwoWay
    <2>4. Registry!ChannelsMatch' /\ StoppedInv'
      BY <2>1 DEF Registry!ChannelsMatch, StoppedInv
    <2> QED BY <2>2, <2>3, <2>4 DEF RegistryInv, Registry!RegistrySound
  <1>3. CASE Registry!startSubscriptionRegistry
    <2>1. /\ process = "stopped" /\ process' = "running" /\ dropped' = {}
          /\ UNCHANGED <<conn, gone, isAlive, subs, local, asking, linkUp, wire, channels>>
      BY <1>3 DEF Registry!startSubscriptionRegistry, Registry!registry, Registry!redis
    <2>2. Registry!TypeOK'
      BY <1>1, <2>1 DEF Registry!TypeOK
    <2>3. Registry!TwoWay' /\ StoppedInv'
      BY <1>1, <2>1 DEF Registry!TwoWay, StoppedInv
    <2>4. wire = <<>> /\ channels = {} /\ \A w \in Tabs : conn[w] = "closed"
      BY <1>1, <2>1 DEF StoppedInv
    <2>5. Registry!Settled = {}
      <3>1. DOMAIN wire = {}
        BY <2>4
      <3> QED BY <2>4, <3>1 DEF Registry!Settled
    <2>6. \A e \in Events : local[e] = {}
      BY <1>1, <2>4 DEF Registry!TwoWay, Registry!TypeOK
    <2>7. Registry!Settled' = Registry!Settled
      BY <2>1, SettledListens
    <2>8. Registry!ChannelsMatch'
      BY <2>1, <2>5, <2>6, <2>7 DEF Registry!ChannelsMatch
    <2> QED BY <2>2, <2>3, <2>8 DEF RegistryInv, Registry!RegistrySound
  <1> QED BY <1>2, <1>3

\* Handlers that tell nobody: a connection, a missing one, an answer to a ping, a question.
LEMMA QuietKeeps ==
    ASSUME RegistryInv, NEW v \in Tabs,
           \/ Registry!Connect(v) \/ Registry!Vanish(v) \/ Registry!Pong(v)
           \/ \E e \in Events : Registry!handleSubscribe(v, e)
    PROVE  RegistryInv'
  <1>1. Registry!TypeOK /\ Registry!TwoWay /\ Registry!ChannelsMatch /\ StoppedInv
    BY DEF RegistryInv, Registry!RegistrySound
  <1>2. UNCHANGED <<subs, local, linkUp, wire, channels, process, dropped>>
    BY DEF Registry!Connect, Registry!Vanish, Registry!Pong, Registry!handleSubscribe,
           Registry!registry, Registry!redis
  <1>3. Registry!Settled' = Registry!Settled
    BY <1>2, SettledListens
  <1>4. Registry!ChannelsMatch'
    BY <1>1, <1>2, <1>3 DEF Registry!ChannelsMatch
  <1>5. process # "stopped"
    BY <1>1 DEF StoppedInv, Registry!Connect, Registry!Vanish, Registry!Pong,
                Registry!handleSubscribe
  <1>6. StoppedInv'
    BY <1>2, <1>5 DEF StoppedInv
  <1>7. ASSUME conn' = conn \/ conn' = [conn EXCEPT ![v] = "open"]
        PROVE  conn' \in [Tabs -> {"open", "closed"}] /\ Registry!TwoWay'
    <2>1. /\ conn \in [Tabs -> {"open", "closed"}]
          /\ conn' \in [Tabs -> {"open", "closed"}]
          /\ \A w \in Tabs : conn[w] = "open" => conn'[w] = "open"
      BY <1>1, <1>7 DEF Registry!TypeOK
    <2> QED BY <1>1, <1>2, <2>1 DEF Registry!TwoWay
  <1>8. ASSUME conn' \in [Tabs -> {"open", "closed"}], Registry!TwoWay',
               gone' \subseteq Tabs, isAlive' \subseteq Tabs,
               asking' \in [Tabs -> [Events -> 0 .. MaxAsks]]
        PROVE  RegistryInv'
    <2>1. Registry!TypeOK'
      BY <1>1, <1>2, <1>8 DEF Registry!TypeOK
    <2> QED BY <1>4, <1>6, <1>8, <2>1 DEF RegistryInv, Registry!RegistrySound
  <1>9. gone \subseteq Tabs /\ isAlive \subseteq Tabs /\ asking \in [Tabs -> [Events -> 0 .. MaxAsks]]
    BY <1>1 DEF Registry!TypeOK
  <1>10. CASE Registry!Connect(v)
    BY <1>7, <1>8, <1>9, <1>10 DEF Registry!Connect
  <1>11. CASE Registry!Vanish(v)
    BY <1>7, <1>8, <1>9, <1>11 DEF Registry!Vanish
  <1>12. CASE Registry!Pong(v)
    BY <1>7, <1>8, <1>9, <1>12 DEF Registry!Pong
  <1>13. ASSUME NEW e \in Events, Registry!handleSubscribe(v, e) PROVE RegistryInv'
    <2>1. /\ asking[v][e] < MaxAsks /\ UNCHANGED <<conn, gone, isAlive>>
          /\ asking' = [asking EXCEPT ![v][e] = @ + 1]
      BY <1>13 DEF Registry!handleSubscribe
    <2>2. asking[v] \in [Events -> 0 .. MaxAsks] /\ asking[v][e] \in 0 .. MaxAsks /\ MaxAsks \in Nat
      BY <1>9, RegistryConstants
    <2>3. asking[v][e] + 1 \in 0 .. MaxAsks
      BY <2>1, <2>2
    <2>4. \A w \in Tabs, d \in Events :
            asking'[w][d] = IF w = v /\ d = e THEN asking[v][e] + 1 ELSE asking[w][d]
      BY <1>9, <2>1
    <2>5. asking' \in [Tabs -> [Events -> 0 .. MaxAsks]]
      BY <1>9, <2>1, <2>3, <2>4
    <2> QED BY <1>7, <1>8, <1>9, <2>1, <2>5
  <1> QED BY <1>10, <1>11, <1>12, <1>13

\* Connections that close: of the events they watched, those nobody else watches are left.
LEMMA DeregisterKeeps ==
    ASSUME RegistryInv, process # "stopped", NEW W \in SUBSET Tabs,
           Registry!deregisterConnections(W),
           gone' \subseteq Tabs, isAlive' \subseteq Tabs, UNCHANGED <<asking, dropped>>
    PROVE  RegistryInv'
  <1> DEFINE E == {e \in Events : local[e] # {} /\ local[e] \subseteq W}
  <1>1. Registry!TypeOK /\ Registry!TwoWay
    BY DEF RegistryInv, Registry!RegistrySound
  <1>2. /\ conn' = [w \in Tabs |-> IF w \in W THEN "closed" ELSE conn[w]]
        /\ subs' = [w \in Tabs |-> IF w \in W THEN {} ELSE subs[w]]
        /\ local' = [e \in Events |-> local[e] \ W]
        /\ Registry!Send("unsubscribe", E)
    BY DEF Registry!deregisterConnections
  <1>3. Watched' = Watched \ E
    BY <1>2 DEF Watched
  <1>4. E \in SUBSET Events
    OBVIOUS
  <1> HIDE DEF E
  <1>5. /\ linkUp' \in BOOLEAN /\ channels' \subseteq Events
        /\ wire' \in Seq(Registry!Command) /\ Len(wire') <= MaxWire
        /\ process' \in {"running", "stopping"}
        /\ Registry!ChannelsMatch' /\ StoppedInv'
    BY <1>2, <1>3, <1>4, HandlerKeeps
  <1>6. conn' \in [Tabs -> {"open", "closed"}]
    BY <1>1, <1>2 DEF Registry!TypeOK
  <1>7. subs' \in [Tabs -> SUBSET Events] /\ local' \in [Events -> SUBSET Tabs]
    BY <1>1, <1>2 DEF Registry!TypeOK
  <1>8. Registry!TypeOK'
    BY <1>1, <1>5, <1>6, <1>7 DEF Registry!TypeOK
  <1>9. Registry!TwoWay'
    BY <1>1, <1>2 DEF Registry!TwoWay
  <1> QED BY <1>5, <1>8, <1>9 DEF RegistryInv, Registry!RegistrySound

\* A connection that leaves one event, or joins one if it is still there.
LEMMA ListenerKeeps ==
    ASSUME RegistryInv, process # "stopped", NEW v \in Tabs, NEW e \in Events,
           \/ Registry!subscribeConnection(v, e) \/ Registry!unsubscribeConnection(v, e)
           \/ UNCHANGED <<subs, local, linkUp, wire, channels, process>>,
           UNCHANGED <<conn, gone, isAlive, dropped>>,
           asking' \in [Tabs -> [Events -> 0 .. MaxAsks]]
    PROVE  RegistryInv'
  <1>1. Registry!TypeOK /\ Registry!TwoWay /\ Registry!ChannelsMatch
    BY DEF RegistryInv, Registry!RegistrySound
  <1>2. /\ conn \in [Tabs -> {"open", "closed"}]
        /\ subs \in [Tabs -> SUBSET Events] /\ local \in [Events -> SUBSET Tabs]
    BY <1>1 DEF Registry!TypeOK
  <1>3. ASSUME /\ linkUp' \in BOOLEAN /\ channels' \subseteq Events
               /\ wire' \in Seq(Registry!Command) /\ Len(wire') <= MaxWire
               /\ process' \in {"running", "stopping"}
               /\ Registry!ChannelsMatch' /\ StoppedInv',
               subs' \in [Tabs -> SUBSET Events], local' \in [Events -> SUBSET Tabs],
               Registry!TwoWay'
        PROVE  RegistryInv'
    <2>1. Registry!TypeOK'
      BY <1>1, <1>3 DEF Registry!TypeOK
    <2> QED BY <1>3, <2>1 DEF RegistryInv, Registry!RegistrySound
  <1>4. CASE UNCHANGED <<subs, local, linkUp, wire, channels, process>>
    <2>1. Registry!Settled' = Registry!Settled
      BY <1>4, SettledListens
    <2>2. Registry!ChannelsMatch'
      BY <1>1, <1>4, <2>1 DEF Registry!ChannelsMatch
    <2>3. Registry!TwoWay' /\ StoppedInv'
      BY <1>1, <1>4 DEF Registry!TwoWay, StoppedInv
    <2>4. /\ linkUp' \in BOOLEAN /\ channels' \subseteq Events
          /\ wire' \in Seq(Registry!Command) /\ Len(wire') <= MaxWire
          /\ process' \in {"running", "stopping"}
      BY <1>1, <1>4 DEF Registry!TypeOK
    <2> QED BY <1>2, <1>3, <1>4, <2>2, <2>3, <2>4
  <1>5. ASSUME conn[v] = "open",
               subs' = [subs EXCEPT ![v] = @ \cup {e}],
               local' = [local EXCEPT ![e] = @ \cup {v}],
               Registry!Send("subscribe", IF local[e] = {} THEN {e} ELSE {})
        PROVE  RegistryInv'
    <2> DEFINE E == IF local[e] = {} THEN {e} ELSE {}
    <2>1. \A d \in Events : local'[d] = IF d = e THEN local[e] \cup {v} ELSE local[d]
      BY <1>2, <1>5
    <2>2. \A w \in Tabs : subs'[w] = IF w = v THEN subs[v] \cup {e} ELSE subs[w]
      BY <1>2, <1>5
    <2>3. Watched' = Watched \cup E
      BY <2>1 DEF Watched
    <2>4. E \in SUBSET Events /\ Registry!Send("subscribe", E)
      BY <1>5
    <2> HIDE DEF E
    <2>5. /\ linkUp' \in BOOLEAN /\ channels' \subseteq Events
          /\ wire' \in Seq(Registry!Command) /\ Len(wire') <= MaxWire
          /\ process' \in {"running", "stopping"}
          /\ Registry!ChannelsMatch' /\ StoppedInv'
      BY <2>3, <2>4, HandlerKeeps
    <2>6. subs' \in [Tabs -> SUBSET Events] /\ local' \in [Events -> SUBSET Tabs]
      BY <1>2, <1>5
    <2>7. Registry!TwoWay'
      BY <1>1, <1>5, <2>1, <2>2 DEF Registry!TwoWay
    <2> QED BY <1>3, <2>5, <2>6, <2>7
  <1>6. ASSUME e \in subs[v],
               subs' = [subs EXCEPT ![v] = @ \ {e}],
               local' = [local EXCEPT ![e] = @ \ {v}],
               Registry!Send("unsubscribe", IF local[e] = {v} THEN {e} ELSE {})
        PROVE  RegistryInv'
    <2> DEFINE E == IF local[e] = {v} THEN {e} ELSE {}
    <2>1. \A d \in Events : local'[d] = IF d = e THEN local[e] \ {v} ELSE local[d]
      BY <1>2, <1>6
    <2>2. \A w \in Tabs : subs'[w] = IF w = v THEN subs[v] \ {e} ELSE subs[w]
      BY <1>2, <1>6
    <2>3. v \in local[e]
      BY <1>1, <1>6 DEF Registry!TwoWay
    <2>4. Watched' = Watched \ E
      BY <2>1, <2>3 DEF Watched
    <2>5. E \in SUBSET Events /\ Registry!Send("unsubscribe", E)
      BY <1>6
    <2> HIDE DEF E
    <2>6. /\ linkUp' \in BOOLEAN /\ channels' \subseteq Events
          /\ wire' \in Seq(Registry!Command) /\ Len(wire') <= MaxWire
          /\ process' \in {"running", "stopping"}
          /\ Registry!ChannelsMatch' /\ StoppedInv'
      BY <2>4, <2>5, HandlerKeeps
    <2>7. subs' \in [Tabs -> SUBSET Events] /\ local' \in [Events -> SUBSET Tabs]
      BY <1>2, <1>6
    <2>8. Registry!TwoWay'
      BY <1>1, <2>1, <2>2 DEF Registry!TwoWay
    <2> QED BY <1>3, <2>6, <2>7, <2>8
  <1>7. CASE Registry!subscribeConnection(v, e)
    BY <1>2, <1>4, <1>5, <1>7 DEF Registry!subscribeConnection, Registry!registry, Registry!redis
  <1>8. CASE Registry!unsubscribeConnection(v, e)
    BY <1>4, <1>6, <1>8
    DEF Registry!unsubscribeConnection, Registry!removeLocalSubscriber, Registry!registry,
        Registry!redis
  <1> QED BY <1>4, <1>7, <1>8

LEMMA RegistryStep ==
    ASSUME RegistryInv, Registry!Next
    PROVE  RegistryInv'
  <1>1. Registry!TypeOK /\ Registry!TwoWay /\ StoppedInv
    BY DEF RegistryInv, Registry!RegistrySound
  <1>2. /\ gone \subseteq Tabs /\ isAlive \subseteq Tabs
        /\ conn \in [Tabs -> {"open", "closed"}]
        /\ asking \in [Tabs -> [Events -> 0 .. MaxAsks]]
    BY <1>1 DEF Registry!TypeOK
  <1>3. CASE Registry!Execute \/ Registry!Disconnect \/ Registry!Reconnect
    BY <1>3, LinkKeeps
  <1>4. CASE Registry!closeWebSocketServer \/ Registry!startSubscriptionRegistry
    BY <1>4, RestartKeeps
  <1>5. CASE Registry!Heartbeat
    <2>1. /\ process # "stopped" /\ isAlive' = {} /\ UNCHANGED <<gone, asking, dropped>>
          /\ Registry!deregisterConnections(Registry!Open \ isAlive)
      BY <1>5 DEF Registry!Heartbeat
    <2>2. Registry!Open \ isAlive \in SUBSET Tabs
      BY DEF Registry!Open
    <2> QED BY <1>2, <2>1, <2>2, DeregisterKeeps
  <1>6. ASSUME NEW v \in Tabs, Registry!Close(v) PROVE RegistryInv'
    <2>1. conn[v] = "open" /\ Registry!deregisterConnections({v})
          /\ UNCHANGED <<gone, isAlive, asking, dropped>>
      BY <1>6 DEF Registry!Close
    <2>2. process # "stopped"
      BY <1>1, <2>1 DEF StoppedInv
    <2>3. {v} \in SUBSET Tabs
      OBVIOUS
    <2> QED BY <1>2, <2>1, <2>2, <2>3, DeregisterKeeps
  <1>7. ASSUME NEW v \in Tabs,
               \/ Registry!Connect(v) \/ Registry!Vanish(v) \/ Registry!Pong(v)
               \/ \E e \in Events : Registry!handleSubscribe(v, e)
        PROVE  RegistryInv'
    BY <1>7, QuietKeeps
  <1>8. ASSUME NEW v \in Tabs, NEW e \in Events, Registry!handleUnsubscribe(v, e)
        PROVE  RegistryInv'
    <2>1. conn[v] = "open" /\ Registry!unsubscribeConnection(v, e)
          /\ UNCHANGED <<conn, gone, isAlive, asking, dropped>>
      BY <1>8 DEF Registry!handleUnsubscribe
    <2>2. process # "stopped"
      BY <1>1, <2>1 DEF StoppedInv
    <2> QED BY <1>2, <2>1, <2>2, ListenerKeeps
  <1>9. ASSUME NEW v \in Tabs, NEW e \in Events, NEW allowed \in BOOLEAN,
               Registry!Authorised(v, e, allowed)
        PROVE  RegistryInv'
    <2>1. /\ asking[v][e] > 0
          /\ asking' = [asking EXCEPT ![v][e] = @ - 1]
          /\ \/ Registry!subscribeConnection(v, e)
             \/ UNCHANGED <<subs, local, linkUp, wire, channels, process>>
          /\ UNCHANGED <<conn, gone, isAlive, dropped>>
      BY <1>9 DEF Registry!Authorised, Registry!registry, Registry!redis
    <2>2. asking[v] \in [Events -> 0 .. MaxAsks] /\ asking[v][e] \in 0 .. MaxAsks /\ MaxAsks \in Nat
      BY <1>2, RegistryConstants
    <2>3. asking[v][e] - 1 \in 0 .. MaxAsks
      BY <2>1, <2>2
    <2>4. \A w \in Tabs, d \in Events :
            asking'[w][d] = IF w = v /\ d = e THEN asking[v][e] - 1 ELSE asking[w][d]
      BY <1>2, <2>1
    <2>5. asking' \in [Tabs -> [Events -> 0 .. MaxAsks]]
      BY <1>2, <2>1, <2>3, <2>4
    <2>6. process # "stopped"
      BY <1>1, <2>1, <2>2 DEF StoppedInv
    <2> QED BY <2>1, <2>5, <2>6, ListenerKeeps
  <1> QED BY <1>3, <1>4, <1>5, <1>6, <1>7, <1>8, <1>9 DEF Registry!Next

LEMMA RegistryStarts == ASSUME Registry!Init PROVE RegistryInv
  <1>1. Registry!TypeOK
    <2>1. <<>> \in Seq(Registry!Command) /\ Len(<<>>) = 0
          /\ MaxWire \in Nat /\ MaxAsks \in Nat /\ 0 \in 0 .. MaxAsks
      BY RegistryConstants
    <2>2. asking \in [Tabs -> [Events -> 0 .. MaxAsks]]
      BY <2>1 DEF Registry!Init
    <2> QED BY <2>1, <2>2 DEF Registry!Init, Registry!TypeOK
  <1>2. Registry!TwoWay /\ StoppedInv
    BY DEF Registry!Init, Registry!TwoWay, StoppedInv
  <1>3. Registry!ChannelsMatch
    <2>1. DOMAIN wire = {} /\ channels = {} /\ \A e \in Events : local[e] = {}
      BY DEF Registry!Init
    <2> QED BY <2>1 DEF Registry!ChannelsMatch, Registry!Settled
  <1> QED BY <1>1, <1>2, <1>3 DEF RegistryInv, Registry!RegistrySound

\* subscription-registry.ts: however sockets join, leave, vanish and are dropped between a
\* question to the database and its answer, and however often the connection to Redis
\* breaks or the process ends, the two maps say the same of every socket and event, no
\* closed socket is in them, and once the commands under way are executed Redis has open
\* exactly the channels of the events somebody here watches.
THEOREM SubscriptionsInRequests == PartsSpec => []RegistrySound
  <1>1. PartsInit => RegistryInv
    BY RegistryStarts DEF PartsInit
  <1>2. ASSUME RegistryInv, UNCHANGED Registry!vars PROVE RegistryInv'
    <2>1. UNCHANGED <<conn, gone, isAlive, subs, local, asking, linkUp, wire, channels, process,
                      dropped>>
      BY <1>2 DEF Registry!vars, Registry!registry, Registry!redis
    <2>2. Registry!Settled' = Registry!Settled
      BY <2>1, SettledListens
    <2>3. Registry!TypeOK' /\ Registry!TwoWay' /\ StoppedInv'
      BY <1>2, <2>1 DEF RegistryInv, Registry!RegistrySound, Registry!TypeOK, Registry!TwoWay,
                        StoppedInv
    <2>4. Registry!ChannelsMatch'
      BY <1>2, <2>1, <2>2 DEF RegistryInv, Registry!RegistrySound, Registry!ChannelsMatch
    <2> QED BY <2>3, <2>4 DEF RegistryInv, Registry!RegistrySound
  <1>3. RegistryInv /\ [PartsNext]_<<part, keyVars, authVars, limitVars, socketVars, processVars>>
          => RegistryInv'
    <2>1. [PartsNext]_<<part, keyVars, authVars, limitVars, socketVars, processVars>>
            => [Registry!Next]_(Registry!vars)
      BY DEF PartsNext, socketVars, Registry!vars, Registry!registry, Registry!redis
    <2> QED BY <1>2, <2>1, RegistryStep
  <1>4. RegistryInv => RegistrySound
    BY DEF RegistryInv, RegistrySound
  <1> QED BY <1>1, <1>3, <1>4, PTL DEF PartsSpec
-----------------------------------------------------------------------------
(* Sums over finite sets                                                   *)
(*                                                                         *)
(* Total adds up over a set with a fold, which takes the elements one      *)
(* after the other.  A sum is therefore a function on all the subsets      *)
(* that takes the same elements first; it exists, and is the fold.         *)

\* A family of subsets of a finite set has a least member.
LEMMA LeastSubset ==
    ASSUME NEW X, IsFiniteSet(X), NEW T, T \subseteq SUBSET X, T # {}
    PROVE  \E s \in T : \A r \in SUBSET X : r \subseteq s /\ r # s => r \notin T
  <1> DEFINE R == StrictSubsetOrdering(X)
  <1>1. T \subseteq FiniteSubsetsOf(X)
    <2>1. \A s \in T : s \in SUBSET X /\ IsFiniteSet(s)
      BY FS_Subset
    <2> QED BY <2>1 DEF FiniteSubsetsOf
  <1>2. IsWellFoundedOn(R, FiniteSubsetsOf(X))
    BY FS_StrictSubsetOrderingWellFounded
  <1> HIDE DEF R
  <1>3. PICK s \in T : \A r \in T : ~ (<<r, s>> \in R)
    BY <1>1, <1>2, WFMin
  <1>4. ASSUME NEW r \in SUBSET X, r \subseteq s, r # s PROVE r \notin T
    <2>1. <<r, s>> \in R
      BY <1>4 DEF R, StrictSubsetOrdering
    <2> QED BY <1>3, <2>1
  <1> QED BY <1>4

Pick(s) == CHOOSE x \in s : TRUE

\* f gives the sum of h over each subset of X, one element after the other.
Solves(f, h, X) ==
    f = [s \in SUBSET X |-> IF s = {} THEN 0 ELSE h[Pick(s)] + f[s \ {Pick(s)}]]

\* The same for subsets of at most k elements.
SolvesTo(f, h, X, k) ==
    f = [s \in SUBSET X |-> IF s = {} \/ Cardinality(s) > k THEN 0
                            ELSE h[Pick(s)] + f[s \ {Pick(s)}]]

LEMMA Picked ==
    ASSUME NEW X, IsFiniteSet(X), NEW s \in SUBSET X, s # {}
    PROVE  /\ Pick(s) \in s /\ s \ {Pick(s)} \in SUBSET X
           /\ Cardinality(s) \in Nat /\ Cardinality(s) > 0
           /\ Cardinality(s \ {Pick(s)}) = Cardinality(s) - 1
  <1>1. Pick(s) \in s
    BY DEF Pick
  <1>2. IsFiniteSet(s) /\ Cardinality(s) \in Nat /\ Cardinality(s) # 0
    BY FS_Subset, FS_CardinalityType, FS_EmptySet
  <1>3. Cardinality(s \ {Pick(s)}) = Cardinality(s) - 1
    BY <1>1, <1>2, FS_RemoveElement
  <1> QED BY <1>1, <1>2, <1>3

LEMMA SumExists ==
    ASSUME NEW X, IsFiniteSet(X), NEW h
    PROVE  \E f : Solves(f, h, X)
  <1> DEFINE T == {A \in SUBSET X : ~ \E f : SolvesTo(f, h, X, Cardinality(A))}
  <1>1. \A s \in SUBSET X : Cardinality(s) \in Nat /\ Cardinality(s) <= Cardinality(X)
                            /\ (Cardinality(s) = 0 => s = {})
    BY FS_Subset, FS_CardinalityType, FS_EmptySet
  <1>2. T = {}
    <2> SUFFICES ASSUME T # {} PROVE FALSE
      OBVIOUS
    <2>1. PICK A \in T : \A r \in SUBSET X : r \subseteq A /\ r # A => r \notin T
      <3>1. T \subseteq SUBSET X
        OBVIOUS
      <3> HIDE DEF T
      <3> QED BY <3>1, LeastSubset
    <2>2. A \in SUBSET X /\ ~ \E f : SolvesTo(f, h, X, Cardinality(A))
      OBVIOUS
    <2>3. CASE A = {}
      <3> DEFINE g == [s \in SUBSET X |-> 0]
      <3>1. \A s \in SUBSET X : s = {} \/ Cardinality(s) > 0
        BY <1>1
      <3>2. SolvesTo(g, h, X, 0)
        BY <3>1 DEF SolvesTo
      <3> QED BY <2>2, <2>3, <3>2, FS_EmptySet
    <2>4. CASE A # {}
      <3> DEFINE k == Cardinality(A)
                 B == A \ {Pick(A)}
      <3>1. B \in SUBSET X /\ B \subseteq A /\ B # A /\ Cardinality(B) = k - 1 /\ k \in Nat /\ k > 0
        BY <2>2, <2>4, Picked
      <3> HIDE DEF k, B
      <3>2. \E f : SolvesTo(f, h, X, k - 1)
        BY <2>1, <3>1
      <3>3. PICK f : SolvesTo(f, h, X, k - 1)
        BY <3>2
      <3>4. \A s \in SUBSET X : f[s] = IF s = {} \/ Cardinality(s) > k - 1 THEN 0
                                       ELSE h[Pick(s)] + f[s \ {Pick(s)}]
        BY <3>3 DEF SolvesTo
      <3> DEFINE g == [s \in SUBSET X |-> IF Cardinality(s) = k THEN h[Pick(s)] + f[s \ {Pick(s)}]
                                          ELSE f[s]]
      <3>5. ASSUME NEW s \in SUBSET X
            PROVE  g[s] = IF s = {} \/ Cardinality(s) > k THEN 0 ELSE h[Pick(s)] + g[s \ {Pick(s)}]
        <4>1. CASE s = {}
          <5>1. Cardinality(s) # k /\ g[s] = f[s]
            BY <3>1, <4>1, FS_EmptySet
          <5> QED BY <3>4, <4>1, <5>1
        <4>2. CASE s # {} /\ Cardinality(s) > k
          <5>1. Cardinality(s) # k /\ Cardinality(s) > k - 1
            BY <1>1, <3>1, <4>2
          <5> QED BY <3>4, <4>2, <5>1
        <4>3. CASE s # {} /\ ~(Cardinality(s) > k)
          <5> DEFINE r == s \ {Pick(s)}
          <5>1. r \in SUBSET X /\ Cardinality(r) = Cardinality(s) - 1 /\ Cardinality(s) \in Nat
            BY <4>3, Picked
          <5>2. Cardinality(r) # k
            BY <3>1, <4>3, <5>1
          <5>3. g[r] = f[r]
            BY <5>1, <5>2
          <5>4. CASE Cardinality(s) = k
            BY <4>3, <5>3, <5>4
          <5>5. CASE Cardinality(s) # k
            <6>1. ~(Cardinality(s) > k - 1)
              BY <3>1, <4>3, <5>1, <5>5
            <6>2. g[s] = f[s]
              BY <5>5
            <6> QED BY <3>4, <4>3, <5>3, <6>1, <6>2
          <5> QED BY <5>4, <5>5
        <4> QED BY <4>1, <4>2, <4>3
      <3>6. g = [s \in SUBSET X |-> g[s]]
        OBVIOUS
      <3> HIDE DEF g
      <3>7. SolvesTo(g, h, X, k)
        BY <3>5, <3>6 DEF SolvesTo
      <3> QED BY <2>2, <3>7 DEF k
    <2> QED BY <2>3, <2>4
  <1>3. PICK f : SolvesTo(f, h, X, Cardinality(X))
    BY <1>2
  <1>4. \A s \in SUBSET X : ~(Cardinality(s) > Cardinality(X))
    BY <1>1
  <1>5. [s \in SUBSET X |-> IF s = {} \/ Cardinality(s) > Cardinality(X) THEN 0
                            ELSE h[Pick(s)] + f[s \ {Pick(s)}]]
          = [s \in SUBSET X |-> IF s = {} THEN 0 ELSE h[Pick(s)] + f[s \ {Pick(s)}]]
    BY <1>4
  <1> QED BY <1>3, <1>5 DEF Solves, SolvesTo

\* f gives the sums of the numbers h over the subsets of the finite set X.
Sums(f, h, X) == IsFiniteSet(X) /\ h \in [X -> Nat] /\ Solves(f, h, X)

\* The sum does not depend on the order of the elements.
LEMMA SumSteps ==
    ASSUME NEW f, NEW h, NEW X, Sums(f, h, X)
    PROVE  /\ f[{}] = 0
           /\ \A s \in SUBSET X : f[s] \in Nat
           /\ \A s \in SUBSET X : \A y \in s : f[s] = h[y] + f[s \ {y}]
  <1>1. IsFiniteSet(X) /\ h \in [X -> Nat]
    BY DEF Sums
  <1>2. \A s \in SUBSET X : f[s] = IF s = {} THEN 0 ELSE h[Pick(s)] + f[s \ {Pick(s)}]
    BY DEF Sums, Solves
  <1>3. f[{}] = 0
    BY <1>2
  <1>4. \A s \in SUBSET X : f[s] \in Nat
    <2> DEFINE T == {s \in SUBSET X : f[s] \notin Nat}
    <2> SUFFICES ASSUME T # {} PROVE FALSE
      OBVIOUS
    <2>1. PICK s \in T : \A r \in SUBSET X : r \subseteq s /\ r # s => r \notin T
      <3>1. T \subseteq SUBSET X
        OBVIOUS
      <3> HIDE DEF T
      <3> QED BY <1>1, <3>1, LeastSubset
    <2>2. s \in SUBSET X /\ f[s] \notin Nat /\ s # {}
      BY <1>3
    <2>3. Pick(s) \in s /\ s \ {Pick(s)} \in SUBSET X
      BY <1>1, <2>2, Picked
    <2>4. h[Pick(s)] \in Nat /\ f[s \ {Pick(s)}] \in Nat
      BY <1>1, <2>1, <2>2, <2>3
    <2>5. f[s] = h[Pick(s)] + f[s \ {Pick(s)}]
      BY <1>2, <2>2
    <2> HIDE DEF T
    <2> QED BY <2>2, <2>4, <2>5
  <1>5. \A s \in SUBSET X : \A y \in s : f[s] = h[y] + f[s \ {y}]
    <2> DEFINE T == {s \in SUBSET X : ~ \A y \in s : f[s] = h[y] + f[s \ {y}]}
    <2> SUFFICES ASSUME T # {} PROVE FALSE
      OBVIOUS
    <2>1. PICK s \in T : \A r \in SUBSET X : r \subseteq s /\ r # s => r \notin T
      <3>1. T \subseteq SUBSET X
        OBVIOUS
      <3> HIDE DEF T
      <3> QED BY <1>1, <3>1, LeastSubset
    <2>2. PICK y \in s : f[s] # h[y] + f[s \ {y}]
      OBVIOUS
    <2>3. s \in SUBSET X /\ s # {}
      OBVIOUS
    <2>4. \A r \in SUBSET X : r \subseteq s /\ r # s => \A x \in r : f[r] = h[x] + f[r \ {x}]
      BY <2>1
    <2> HIDE DEF T
    <2> DEFINE c == Pick(s)
    <2>5. c \in s /\ f[s] = h[c] + f[s \ {c}]
      BY <1>1, <1>2, <2>3, Picked
    <2>6. c # y
      BY <2>2, <2>5
    <2> HIDE DEF c
    <2>7. f[s \ {c}] = h[y] + f[(s \ {c}) \ {y}]
      <3>1. s \ {c} \in SUBSET X /\ s \ {c} \subseteq s /\ s \ {c} # s /\ y \in s \ {c}
        BY <2>3, <2>5, <2>6
      <3> QED BY <2>4, <3>1
    <2>8. f[s \ {y}] = h[c] + f[(s \ {y}) \ {c}]
      <3>1. s \ {y} \in SUBSET X /\ s \ {y} \subseteq s /\ s \ {y} # s /\ c \in s \ {y}
        BY <2>3, <2>5, <2>6
      <3> QED BY <2>4, <3>1
    <2>9. (s \ {y}) \ {c} = (s \ {c}) \ {y}
      OBVIOUS
    <2>10. h[c] \in Nat /\ h[y] \in Nat /\ f[(s \ {c}) \ {y}] \in Nat
      BY <1>1, <1>4, <2>3, <2>5
    <2>11. f[s] = h[c] + (h[y] + f[(s \ {c}) \ {y}])
      BY <2>5, <2>7
    <2>12. h[y] + f[s \ {y}] = h[y] + (h[c] + f[(s \ {c}) \ {y}])
      BY <2>8, <2>9
    <2>13. \A i, j, l \in Nat : i + (j + l) = j + (i + l)
      OBVIOUS
    <2> QED BY <2>2, <2>10, <2>11, <2>12, <2>13
  <1> QED BY <1>3, <1>4, <1>5

\* g carries what counts in s to places of t where there is at least as much.
Carries(g, h, s, k, t) ==
    /\ \A x \in s : h[x] = 0 \/ (g[x] \in t /\ h[x] <= k[g[x]])
    /\ \A x, y \in s : h[x] # 0 /\ h[y] # 0 /\ g[x] = g[y] => x = y

\* The sum over s is then at most the sum over t.
LEMMA SumCarries ==
    ASSUME NEW X, NEW Y, NEW f, NEW h, NEW e, NEW k, Sums(f, h, X), Sums(e, k, Y),
           NEW s \in SUBSET X, NEW t \in SUBSET Y, NEW g, Carries(g, h, s, k, t)
    PROVE  f[s] <= e[t]
  <1> DEFINE T == {r \in SUBSET X : \E u \in SUBSET Y : Carries(g, h, r, k, u) /\ ~(f[r] <= e[u])}
  <1>1. IsFiniteSet(X) /\ h \in [X -> Nat] /\ k \in [Y -> Nat]
    BY DEF Sums
  <1>2. /\ f[{}] = 0 /\ \A r \in SUBSET X : f[r] \in Nat
        /\ \A r \in SUBSET X : \A y \in r : f[r] = h[y] + f[r \ {y}]
    BY SumSteps
  <1>3. /\ \A r \in SUBSET Y : e[r] \in Nat
        /\ \A r \in SUBSET Y : \A y \in r : e[r] = k[y] + e[r \ {y}]
    BY SumSteps
  <1>4. T = {}
    <2> SUFFICES ASSUME T # {} PROVE FALSE
      OBVIOUS
    <2>1. PICK r \in T : \A v \in SUBSET X : v \subseteq r /\ v # r => v \notin T
      <3>1. T \subseteq SUBSET X
        OBVIOUS
      <3> HIDE DEF T
      <3> QED BY <1>1, <3>1, LeastSubset
    <2>2. PICK u \in SUBSET Y : Carries(g, h, r, k, u) /\ ~(f[r] <= e[u])
      OBVIOUS
    <2>3. r \in SUBSET X
      OBVIOUS
    <2>4. \A v \in SUBSET X, w \in SUBSET Y :
            v \subseteq r /\ v # r /\ Carries(g, h, v, k, w) => f[v] <= e[w]
      BY <2>1
    <2> HIDE DEF T
    <2>5. r # {}
      <3>1. e[u] \in Nat /\ f[{}] = 0
        BY <1>2, <1>3, <2>3
      <3>2. 0 <= e[u]
        BY <3>1
      <3>3. ASSUME r = {} PROVE f[r] <= e[u]
        BY ONLY <3>1, <3>2, <3>3
      <3> QED BY <2>2, <3>3
    <2>5a. PICK x \in r : TRUE
      BY <2>5
    <2> DEFINE v == r \ {x}
    <2>6. v \in SUBSET X /\ v \subseteq r /\ v # r /\ f[r] = h[x] + f[v]
      BY <1>2, <2>3, <2>5a
    <2>7. f[r] \in Nat /\ f[v] \in Nat /\ e[u] \in Nat /\ h[x] \in Nat
      BY <1>1, <1>2, <1>3, <2>3, <2>6
    <2>8. CASE h[x] = 0
      <3>1. Carries(g, h, v, k, u)
        BY <2>2 DEF Carries
      <3>2. f[v] <= e[u]
        BY <2>4, <2>6, <3>1
      <3> HIDE DEF v
      <3> QED BY <2>2, <2>6, <2>7, <2>8, <3>2
    <2>9. CASE h[x] # 0
      <3> DEFINE w == u \ {g[x]}
      <3>1. g[x] \in u /\ h[x] <= k[g[x]]
        BY <2>2, <2>9 DEF Carries
      <3>2. Carries(g, h, v, k, w)
        BY <2>2, <2>9 DEF Carries
      <3>3. w \in SUBSET Y /\ e[u] = k[g[x]] + e[w] /\ e[w] \in Nat /\ k[g[x]] \in Nat
        BY <1>1, <1>3, <3>1
      <3> HIDE DEF v, w
      <3>4. f[v] <= e[w]
        BY <2>4, <2>6, <3>2, <3>3
      <3> QED BY <2>2, <2>6, <2>7, <3>1, <3>3, <3>4
    <2> QED BY <2>8, <2>9
  <1> QED BY <1>4

\* The sum over two disjoint sets.
LEMMA SumSplits ==
    ASSUME NEW X, NEW f, NEW h, Sums(f, h, X), NEW s \in SUBSET X, NEW t \in SUBSET s
    PROVE  f[s] = f[t] + f[s \ t]
  <1> DEFINE T == {r \in SUBSET X : r \subseteq s /\ f[s] # f[r] + f[s \ r]}
  <1>1. IsFiniteSet(X) /\ h \in [X -> Nat]
    BY DEF Sums
  <1>2. /\ f[{}] = 0 /\ \A r \in SUBSET X : f[r] \in Nat
        /\ \A r \in SUBSET X : \A y \in r : f[r] = h[y] + f[r \ {y}]
    BY SumSteps
  <1>3. T = {}
    <2> SUFFICES ASSUME T # {} PROVE FALSE
      OBVIOUS
    <2>1. PICK r \in T : \A v \in SUBSET X : v \subseteq r /\ v # r => v \notin T
      <3>1. T \subseteq SUBSET X
        OBVIOUS
      <3> HIDE DEF T
      <3> QED BY <1>1, <3>1, LeastSubset
    <2>2. r \in SUBSET X /\ r \subseteq s /\ f[s] # f[r] + f[s \ r]
      OBVIOUS
    <2>3. r # {}
      <3>1. ASSUME r = {} PROVE f[s] = f[r] + f[s \ r]
        <4>1. s \ r = s
          BY <3>1
        <4>2. f[s \ r] = f[s] /\ f[r] = 0
          BY <1>2, <3>1, <4>1, Zenon
        <4>3. f[s] \in Nat
          BY <1>2
        <4> QED BY ONLY <4>2, <4>3
      <3> QED BY <2>2, <3>1
    <2>4. PICK x \in r : TRUE
      BY <2>3
    <2> DEFINE v == r \ {x}
    <2>5. v \in SUBSET X /\ v \subseteq r /\ v # r /\ v \subseteq s
      BY <2>2, <2>4
    <2>6. f[s] = f[v] + f[s \ v]
      BY <2>1, <2>5
    <2>7. f[r] = h[x] + f[v]
      BY <1>2, <2>2, <2>4
    <2>8. f[s \ v] = h[x] + f[s \ r]
      <3>1. s \ v \in SUBSET X /\ x \in s \ v /\ (s \ v) \ {x} = s \ r
        BY <2>2, <2>4
      <3> QED BY <1>2, <3>1
    <2>9. h[x] \in Nat /\ f[v] \in Nat /\ f[s \ r] \in Nat
      BY <1>1, <1>2, <2>2, <2>4, <2>5
    <2> HIDE DEF v, T
    <2> QED BY <2>2, <2>6, <2>7, <2>8, <2>9
  <1> QED BY <1>3

\* One more at y, and nothing else.
LEMMA SumGrows ==
    ASSUME NEW X, NEW f, NEW h, NEW e, NEW k, Sums(f, h, X), Sums(e, k, X),
           NEW s \in SUBSET X, NEW y \in s, \A x \in s \ {y} : k[x] = h[x]
    PROVE  /\ k[y] <= h[y] + 1 => e[s] <= f[s] + 1
           /\ k[y] >= h[y] + 1 => e[s] >= f[s] + 1
           /\ e[s] >= k[y]
  <1>1. IsFiniteSet(X) /\ h \in [X -> Nat] /\ k \in [X -> Nat]
    BY DEF Sums
  <1> DEFINE r == s \ {y}
             g == [x \in X |-> x]
  <1>2. r \in SUBSET X /\ f[s] = h[y] + f[r] /\ f[r] \in Nat /\ f[s] \in Nat
    <2>1. r \in SUBSET X
      OBVIOUS
    <2>2. /\ \A v \in SUBSET X : f[v] \in Nat
          /\ \A v \in SUBSET X : \A x \in v : f[v] = h[x] + f[v \ {x}]
      BY ONLY Sums(f, h, X), SumSteps
    <2> QED BY <2>1, <2>2
  <1>3. e[s] = k[y] + e[r] /\ e[r] \in Nat /\ e[s] \in Nat
    <2>1. /\ \A v \in SUBSET X : e[v] \in Nat
          /\ \A v \in SUBSET X : \A x \in v : e[v] = k[x] + e[v \ {x}]
      BY ONLY Sums(e, k, X), SumSteps
    <2> QED BY <1>2, <2>1
  <1>4. h[y] \in Nat /\ k[y] \in Nat
    BY <1>1
  <1>5. Carries(g, h, r, k, r) /\ Carries(g, k, r, h, r)
    BY <1>1 DEF Carries
  <1> HIDE DEF g, r
  <1>6. f[r] <= e[r]
    BY <1>2, <1>5, SumCarries
  <1>7. e[r] <= f[r]
    BY <1>2, <1>5, SumCarries
  <1> QED BY <1>2, <1>3, <1>4, <1>6, <1>7

-----------------------------------------------------------------------------
(* Rate limits                                                             *)

\* The requests of everybody who is one with a caller, by who and how long ago.
Theirs(p, c) == {d \in Callers : Limiter!Same(p, c, d)} \X Limiter!Ages
Held(H, p, c) == [x \in Theirs(p, c) |-> H[<<p, x[1]>>][x[2]]]
SumOf(H, p, c) == CHOOSE f : Solves(f, Held(H, p, c), Theirs(p, c))

Histories == [Policies \X Callers -> [Limiter!Ages -> Nat]]

LEMMA LimiterConstants ==
    /\ Limit \in Nat /\ Limit > 0 /\ Window \in Nat /\ Window > 0
    /\ Source \in [Policies -> {"ip", "email-and-ip", "user"}]
    /\ IsFiniteSet(Callers)
    /\ Limiter!Ages = 0 .. Window - 1
  <1>1. Limiter!IsFiniteSet(Callers) <=> IsFiniteSet(Callers)
    BY DEF Limiter!IsFiniteSet, IsFiniteSet
  <1> QED BY <1>1, RequestsAssumption DEF RequestsAssumption, Limiter!RateLimitAssumption, Limiter!Ages

\* The smaller of two numbers.
LEMMA Lesser ==
    ASSUME NEW i \in Nat, NEW j \in Nat
    PROVE  Limiter!Min({i, j}) = IF i <= j THEN i ELSE j
  BY DEF Limiter!Min

\* Two callers count on one key exactly if they are one to the policy.
LEMMA KeyOfSame ==
    ASSUME NEW p \in Policies, NEW q \in Policies, NEW c \in Callers, NEW d \in Callers
    PROVE  Limiter!rateLimitKey(p, c) = Limiter!rateLimitKey(q, d) <=> p = q /\ Limiter!Same(p, c, d)
  <1>1. Source[p] \in {"ip", "email-and-ip", "user"}
    BY LimiterConstants
  <1>2. Limiter!rateLimitKey(p, c) = Limiter!rateLimitKey(q, d)
          <=> p = q /\ Limiter!resolveIdentifier(p, c) = Limiter!resolveIdentifier(q, d)
    BY DEF Limiter!rateLimitKey
  <1>3. Limiter!resolveIdentifier(p, c) = Limiter!resolveIdentifier(p, d) <=> Limiter!Same(p, c, d)
    <2>1. CASE Source[p] = "ip"
      BY <2>1 DEF Limiter!resolveIdentifier, Limiter!Same
    <2>2. CASE Source[p] = "user"
      BY <2>2 DEF Limiter!resolveIdentifier, Limiter!Same
    <2>3. CASE Source[p] = "email-and-ip"
      BY <2>3 DEF Limiter!resolveIdentifier, Limiter!Same
    <2> QED BY <1>1, <2>1, <2>2, <2>3
  <1> QED BY <1>2, <1>3

\* Total is such a sum.
LEMMA TotalSums ==
    ASSUME NEW H \in Histories, NEW p \in Policies, NEW c \in Callers
    PROVE  /\ Sums(SumOf(H, p, c), Held(H, p, c), Theirs(p, c))
           /\ Limiter!Total(H, p, c) = SumOf(H, p, c)[Theirs(p, c)]
  <1> DEFINE X == Theirs(p, c)
             E(f) == f = [s \in SUBSET X |-> IF s = {} THEN 0
                                             ELSE H[<<p, Pick(s)[1]>>][Pick(s)[2]] + f[s \ {Pick(s)}]]
             iter == CHOOSE f : E(f)
  <1>1. Limiter!Total(H, p, c) = iter[X]
    BY DEF Limiter!Total, Limiter!MapThenSumSet, Limiter!MapThenFoldSet, Theirs, Pick
  <1>2. ASSUME NEW s \in SUBSET X, s # {}
        PROVE  Held(H, p, c)[Pick(s)] = H[<<p, Pick(s)[1]>>][Pick(s)[2]]
    <2>1. Pick(s) \in X
      BY <1>2 DEF Pick
    <2> HIDE DEF X
    <2> QED BY <2>1 DEF Held, X
  <1>3. IsFiniteSet(X) /\ Held(H, p, c) \in [X -> Nat]
    <2>1. IsFiniteSet({d \in Callers : Limiter!Same(p, c, d)})
      BY LimiterConstants, FS_Subset
    <2>2. IsFiniteSet(Limiter!Ages)
      BY LimiterConstants, FS_Interval
    <2>3. IsFiniteSet(X)
      BY <2>1, <2>2, FS_Product DEF Theirs
    <2>4. \A x \in X : <<p, x[1]>> \in Policies \X Callers /\ x[2] \in Limiter!Ages
      BY DEF Theirs
    <2>5. \A x \in X : H[<<p, x[1]>>][x[2]] \in Nat
      BY <2>4 DEF Histories
    <2> HIDE DEF X
    <2> QED BY <2>3, <2>5 DEF Held, X
  <1> HIDE DEF X
  <1>4. ASSUME NEW f PROVE E(f) <=> Solves(f, Held(H, p, c), X)
    <2>1. [s \in SUBSET X |-> IF s = {} THEN 0 ELSE H[<<p, Pick(s)[1]>>][Pick(s)[2]] + f[s \ {Pick(s)}]]
            = [s \in SUBSET X |-> IF s = {} THEN 0 ELSE Held(H, p, c)[Pick(s)] + f[s \ {Pick(s)}]]
      BY <1>2
    <2> QED BY <2>1 DEF Solves
  <1>5. \E f : Solves(f, Held(H, p, c), X)
    BY <1>3, SumExists
  <1>6. E(iter)
    <2>1. \E f : E(f)
      BY <1>4, <1>5
    <2> HIDE DEF E
    <2> QED BY <2>1
  <1>7. Sums(iter, Held(H, p, c), X)
    BY <1>3, <1>4, <1>6 DEF Sums
  <1>8. Sums(SumOf(H, p, c), Held(H, p, c), X)
    BY <1>3, <1>5 DEF SumOf, Sums, X
  <1>9. iter[X] = SumOf(H, p, c)[X]
    <2> DEFINE g == [x \in X |-> x]
               e == SumOf(H, p, c)
               h == Held(H, p, c)
    <2>1. Carries(g, h, X, h, X)
      <3>1. \A x \in X : g[x] = x /\ h[x] \in Nat
        BY <1>3
      <3> HIDE DEF g, h
      <3> QED BY <3>1 DEF Carries
    <2> HIDE DEF g, h, e, iter
    <2>2. Sums(iter, h, X) /\ Sums(e, h, X)
      BY <1>7, <1>8 DEF h, e
    <2>3. X \in SUBSET X
      OBVIOUS
    <2>4. iter[X] <= e[X] /\ e[X] <= iter[X]
      BY ONLY <2>1, <2>2, <2>3, SumCarries
    <2>5. iter[X] \in Nat
      BY ONLY <2>2, <2>3, SumSteps
    <2>6. e[X] \in Nat
      BY ONLY <2>2, <2>3, SumSteps
    <2> QED BY <2>4, <2>5, <2>6 DEF e
  <1> QED BY <1>1, <1>8, <1>9 DEF X

\* One more request of c0 counted in a history, up to cap.
LEMMA NotedSums ==
    ASSUME NEW H \in Histories, NEW q \in Policies, NEW c0 \in Callers, NEW cap \in Nat, cap > 0
    PROVE  /\ Limiter!Note(H, q, c0, cap) \in Histories
           /\ \A p \in Policies, c \in Callers : \A s \in SUBSET Theirs(p, c) :
                LET f == SumOf(H, p, c)  e == SumOf(Limiter!Note(H, q, c0, cap), p, c) IN
                /\ f[s] \in Nat /\ e[s] \in Nat
                /\ f[s] <= e[s] \/ cap <= e[s]
                /\ (p # q \/ <<c0, 0>> \notin s) => e[s] = f[s]
                /\ e[s] <= f[s] + 1
                /\ (p = q /\ <<c0, 0>> \in s) => e[s] >= f[s] + 1 \/ e[s] >= cap
  <1> DEFINE H2 == Limiter!Note(H, q, c0, cap)
             v == IF H[<<q, c0>>][0] + 1 <= cap THEN H[<<q, c0>>][0] + 1 ELSE cap
  <1>1. 0 \in Limiter!Ages /\ <<q, c0>> \in Policies \X Callers
    BY LimiterConstants
  <1>2. H[<<q, c0>>][0] \in Nat /\ H[<<q, c0>>][0] + 1 \in Nat
    BY <1>1 DEF Histories
  <1>3. Limiter!Min({H[<<q, c0>>][0] + 1, cap}) = v
    BY <1>2, Lesser
  <1>4. v \in Nat
    BY <1>2
  <1>5. H2 = [H EXCEPT ![<<q, c0>>][0] = v]
    BY <1>3 DEF Limiter!Note
  <1>6. /\ H2 \in Histories
        /\ \A y \in Policies \X Callers, a \in Limiter!Ages :
             H2[y][a] = IF y = <<q, c0>> /\ a = 0 THEN v ELSE H[y][a]
    <2> DEFINE D == Policies \X Callers
               z == <<q, c0>>
    <2>1. H \in [D -> [Limiter!Ages -> Nat]] /\ z \in D /\ H2 = [H EXCEPT ![z][0] = v]
      BY <1>1, <1>5 DEF Histories
    <2> HIDE DEF D, z, v, H2
    <2>2. H2 \in [D -> [Limiter!Ages -> Nat]]
      BY <1>1, <1>4, <2>1
    <2>3. \A y \in D, a \in Limiter!Ages : H2[y][a] = IF y = z /\ a = 0 THEN v ELSE H[y][a]
      BY <1>1, <2>1
    <2> QED BY <2>2, <2>3 DEF D, z, Histories
  <1> HIDE DEF H2
  <1>7. ASSUME NEW p \in Policies, NEW c \in Callers, NEW s \in SUBSET Theirs(p, c)
        PROVE  LET f == SumOf(H, p, c)  e == SumOf(H2, p, c) IN
               /\ f[s] \in Nat /\ e[s] \in Nat
               /\ f[s] <= e[s] \/ cap <= e[s]
               /\ (p # q \/ <<c0, 0>> \notin s) => e[s] = f[s]
               /\ e[s] <= f[s] + 1
               /\ (p = q /\ <<c0, 0>> \in s) => e[s] >= f[s] + 1 \/ e[s] >= cap
    <2> DEFINE X == Theirs(p, c)
               f == SumOf(H, p, c)
               e == SumOf(H2, p, c)
               h == Held(H, p, c)
               k == Held(H2, p, c)
               y == <<c0, 0>>
    <2>1. Sums(f, h, X) /\ Sums(e, k, X)
      BY <1>6, TotalSums
    <2>2. \A x \in X : x[1] \in Callers /\ x[2] \in Limiter!Ages /\ x = <<x[1], x[2]>>
      BY DEF Theirs
    <2>3. \A x \in X : /\ <<p, x[1]>> \in Policies \X Callers
                       /\ h[x] = H[<<p, x[1]>>][x[2]] /\ k[x] = H2[<<p, x[1]>>][x[2]]
      BY <2>2 DEF Held
    <2>4. \A x \in X : p # q \/ x # y => k[x] = h[x]
      <3>1. ASSUME NEW x \in X, p # q \/ x # y PROVE k[x] = h[x]
        <4>1. ~(<<p, x[1]>> = <<q, c0>> /\ x[2] = 0)
          BY <2>2, <3>1
        <4>2. <<p, x[1]>> \in Policies \X Callers /\ x[2] \in Limiter!Ages
          BY <2>2, <2>3
        <4>3. H2[<<p, x[1]>>][x[2]] = H[<<p, x[1]>>][x[2]]
          BY <1>6, <4>1, <4>2
        <4>4. h[x] = H[<<p, x[1]>>][x[2]] /\ k[x] = H2[<<p, x[1]>>][x[2]]
          BY <2>3
        <4> QED BY ONLY <4>3, <4>4
      <3> QED BY <3>1
    <2>5. (p = q /\ y \in s) => h[y] = H[<<q, c0>>][0] /\ k[y] = v
      BY <1>1, <1>6, <2>3
    <2>6. h \in [X -> Nat] /\ k \in [X -> Nat]
      BY <2>1 DEF Sums
    <2> HIDE DEF X, f, e, h, k, y
    <2>7. f[s] \in Nat
      BY ONLY <2>1, SumSteps, s \in SUBSET Theirs(p, c) DEF X
    <2>8. e[s] \in Nat
      BY ONLY <2>1, SumSteps, s \in SUBSET Theirs(p, c) DEF X
    <2>9. CASE p # q \/ y \notin s
      <3> DEFINE g == [x \in X |-> x]
      <3>1. \A x \in s : x \in X /\ g[x] = x /\ h[x] \in Nat /\ k[x] = h[x]
        BY <2>4, <2>6, <2>9 DEF X
      <3> HIDE DEF g
      <3>2. Carries(g, h, s, k, s) /\ Carries(g, k, s, h, s)
        BY <3>1 DEF Carries
      <3>3. s \in SUBSET X
        BY DEF X
      <3>4. f[s] <= e[s]
        BY ONLY <2>1, <3>2, <3>3, SumCarries
      <3>5. e[s] <= f[s]
        BY ONLY <2>1, <3>2, <3>3, SumCarries
      <3>6. e[s] = f[s]
        BY <2>7, <2>8, <3>4, <3>5
      <3> QED BY <2>7, <2>8, <2>9, <3>6 DEF f, e, y
    <2>10. CASE p = q /\ y \in s
      <3>1. \A x \in s \ {y} : k[x] = h[x]
        BY <2>4 DEF X
      <3>2. s \in SUBSET X /\ y \in s
        BY <2>10 DEF X
      <3>3. /\ k[y] <= h[y] + 1 => e[s] <= f[s] + 1
            /\ k[y] >= h[y] + 1 => e[s] >= f[s] + 1
            /\ e[s] >= k[y]
        BY ONLY <2>1, <3>1, <3>2, SumGrows
      <3>4. k[y] <= h[y] + 1 /\ (k[y] >= h[y] + 1 \/ k[y] = cap) /\ h[y] \in Nat
        BY <1>2, <2>5, <2>10
      <3>5. e[s] <= f[s] + 1 /\ (e[s] >= f[s] + 1 \/ e[s] >= cap)
        BY <3>3, <3>4
      <3> QED BY <2>7, <2>8, <2>10, <3>5 DEF f, e, y
    <2> QED BY <2>9, <2>10
  <1> QED BY <1>6, <1>7 DEF H2

\* After a unit of time each request is one older: s holds then what t held before, if
\* every place of s but the newest comes from one of t.
LEMMA AgedSums ==
    ASSUME NEW H \in Histories
    PROVE  /\ Limiter!Older(H) \in Histories
           /\ \A y \in Policies \X Callers : Limiter!Older(H)[y][0] = 0
           /\ \A p \in Policies, c \in Callers : \A s, t \in SUBSET Theirs(p, c) :
                LET f == SumOf(H, p, c)  e == SumOf(Limiter!Older(H), p, c) IN
                /\ e[s] \in Nat
                /\ (\A x \in s : x[2] # 0 => <<x[1], x[2] - 1>> \in t) => e[s] <= f[t]
                /\ (\A x \in t : <<x[1], x[2] + 1>> \in s) => f[t] <= e[s]
  <1> DEFINE H2 == Limiter!Older(H)
  <1>1. Limiter!Ages = 0 .. Window - 1 /\ Window \in Nat /\ Window > 0 /\ 0 \in Limiter!Ages
    BY LimiterConstants
  <1>2. DOMAIN H = Policies \X Callers
    BY DEF Histories
  <1>3. /\ H2 = [y \in Policies \X Callers |->
                   [a \in Limiter!Ages |-> IF a = 0 THEN 0 ELSE H[y][a - 1]]]
        /\ \A a \in Limiter!Ages : a = 0 \/ a - 1 \in Limiter!Ages
    BY <1>1, <1>2 DEF Limiter!Older
  <1> HIDE DEF H2
  <1>4. /\ H2 \in Histories
        /\ \A y \in Policies \X Callers, a \in Limiter!Ages :
             H2[y][a] = IF a = 0 THEN 0 ELSE H[y][a - 1]
    BY <1>3 DEF Histories
  <1>5. \A y \in Policies \X Callers : H2[y][0] = 0
    BY <1>1, <1>4
  <1>6. ASSUME NEW p \in Policies, NEW c \in Callers,
               NEW s \in SUBSET Theirs(p, c), NEW t \in SUBSET Theirs(p, c)
        PROVE  LET f == SumOf(H, p, c)  e == SumOf(H2, p, c) IN
               /\ e[s] \in Nat
               /\ (\A x \in s : x[2] # 0 => <<x[1], x[2] - 1>> \in t) => e[s] <= f[t]
               /\ (\A x \in t : <<x[1], x[2] + 1>> \in s) => f[t] <= e[s]
    <2> DEFINE X == Theirs(p, c)
               f == SumOf(H, p, c)
               e == SumOf(H2, p, c)
               h == Held(H, p, c)
               k == Held(H2, p, c)
    <2>1. Sums(f, h, X) /\ Sums(e, k, X)
      BY <1>4, TotalSums
    <2>2. \A x \in X : x[1] \in Callers /\ x[2] \in Limiter!Ages /\ x = <<x[1], x[2]>>
      BY DEF Theirs
    <2>3. \A x \in X : /\ <<p, x[1]>> \in Policies \X Callers
                       /\ h[x] = H[<<p, x[1]>>][x[2]] /\ k[x] = H2[<<p, x[1]>>][x[2]]
      BY <2>2 DEF Held
    <2>4. \A x \in X : x[2] \in Nat /\ h[x] \in Nat /\ k[x] \in Nat
      BY <1>1, <2>1, <2>2 DEF Sums
    <2>5. \A x \in X : x[2] = 0 => k[x] = 0
      BY <1>4, <2>2, <2>3
    <2>6. ASSUME NEW x \in X, NEW z \in X, x[1] = z[1], z[2] = x[2] + 1 PROVE k[z] = h[x]
      <3>1. z[2] # 0 /\ z[2] - 1 = x[2]
        BY <2>4, <2>6
      <3>2. k[z] = H[<<p, z[1]>>][z[2] - 1]
        BY <1>4, <2>2, <2>3, <3>1
      <3> QED BY <2>3, <2>6, <3>1, <3>2
    <2>7. s \in SUBSET X /\ t \in SUBSET X
      OBVIOUS
    <2> HIDE DEF X, f, e, h, k
    <2>8. e[s] \in Nat
      BY ONLY <2>1, <2>7, SumSteps
    <2>9. ASSUME \A x \in s : x[2] # 0 => <<x[1], x[2] - 1>> \in t PROVE e[s] <= f[t]
      <3> DEFINE g == [x \in X |-> <<x[1], x[2] - 1>>]
      <3>1. ASSUME NEW x \in s, x[2] # 0 PROVE g[x] \in t /\ k[x] = h[g[x]]
        <4>1. g[x] = <<x[1], x[2] - 1>> /\ g[x] \in t /\ x \in X /\ g[x] \in X
          BY <2>7, <2>9, <3>1
        <4>2. x[1] = g[x][1] /\ x[2] = g[x][2] + 1
          BY <2>4, <4>1
        <4> QED BY <2>6, <4>1, <4>2
      <3>2. ASSUME NEW x \in s, NEW z \in s, g[x] = g[z] PROVE x = z
        <4>1. x \in X /\ z \in X /\ g[x] = <<x[1], x[2] - 1>> /\ g[z] = <<z[1], z[2] - 1>>
          BY <2>7
        <4>2. x[1] = z[1] /\ x[2] - 1 = z[2] - 1
          BY <3>2, <4>1
        <4>3. x[2] = z[2]
          BY <2>4, <4>1, <4>2
        <4> QED BY <2>2, <4>1, <4>2, <4>3
      <3>3. \A x \in s : k[x] = 0 \/ (g[x] \in t /\ k[x] <= h[g[x]])
        <4>1. ASSUME NEW x \in s PROVE k[x] = 0 \/ (g[x] \in t /\ k[x] <= h[g[x]])
          <5>1. CASE x[2] = 0
            BY <2>5, <2>7, <5>1
          <5>2. CASE x[2] # 0
            <6>1. g[x] \in t /\ k[x] = h[g[x]] /\ k[x] \in Nat
              BY <2>4, <2>7, <3>1, <5>2
            <6> HIDE DEF g
            <6> QED BY <6>1
          <5> QED BY <5>1, <5>2
        <4> QED BY <4>1
      <3>4. Carries(g, k, s, h, t)
        <4> HIDE DEF g
        <4> QED BY <3>2, <3>3 DEF Carries
      <3> QED BY ONLY <2>1, <2>7, <3>4, SumCarries
    <2>10. ASSUME \A x \in t : <<x[1], x[2] + 1>> \in s PROVE f[t] <= e[s]
      <3> DEFINE g == [x \in X |-> <<x[1], x[2] + 1>>]
      <3>1. ASSUME NEW x \in t PROVE g[x] \in s /\ k[g[x]] = h[x]
        <4>1. g[x] = <<x[1], x[2] + 1>> /\ g[x] \in s /\ x \in X /\ g[x] \in X
          BY <2>7, <2>10, <3>1
        <4>2. x[1] = g[x][1] /\ g[x][2] = x[2] + 1
          BY <4>1
        <4> QED BY <2>6, <4>1, <4>2
      <3>2. ASSUME NEW x \in t, NEW z \in t, g[x] = g[z] PROVE x = z
        <4>1. x \in X /\ z \in X /\ g[x] = <<x[1], x[2] + 1>> /\ g[z] = <<z[1], z[2] + 1>>
          BY <2>7
        <4>2. x[1] = z[1] /\ x[2] + 1 = z[2] + 1
          BY <3>2, <4>1
        <4>3. x[2] = z[2]
          BY <2>4, <4>1, <4>2
        <4> QED BY <2>2, <4>1, <4>2, <4>3
      <3>3. \A x \in t : g[x] \in s /\ h[x] <= k[g[x]]
        <4>1. ASSUME NEW x \in t PROVE g[x] \in s /\ h[x] <= k[g[x]]
          <5>1. h[x] \in Nat /\ g[x] \in s /\ k[g[x]] = h[x]
            BY <2>4, <2>7, <3>1
          <5> HIDE DEF g
          <5> QED BY <5>1
        <4> QED BY <4>1
      <3>4. Carries(g, h, t, k, s)
        <4> HIDE DEF g
        <4> QED BY <3>2, <3>3 DEF Carries
      <3> QED BY ONLY <2>1, <2>7, <3>4, SumCarries
    <2> QED BY <2>8, <2>9, <2>10 DEF f, e
  <1> QED BY <1>4, <1>5, <1>6 DEF H2

\* More places hold no less, and places that hold nothing add up to nothing.
LEMMA SumsOrder ==
    ASSUME NEW H \in Histories, NEW p \in Policies, NEW c \in Callers,
           NEW s \in SUBSET Theirs(p, c)
    PROVE  /\ SumOf(H, p, c)[s] \in Nat
           /\ \A t \in SUBSET s : /\ SumOf(H, p, c)[t] <= SumOf(H, p, c)[s]
                                  /\ SumOf(H, p, c)[s] = SumOf(H, p, c)[t] + SumOf(H, p, c)[s \ t]
           /\ (\A x \in s : H[<<p, x[1]>>][x[2]] = 0) => SumOf(H, p, c)[s] = 0
  <1> DEFINE X == Theirs(p, c)
             f == SumOf(H, p, c)
             h == Held(H, p, c)
  <1>1. Sums(f, h, X)
    BY TotalSums
  <1>2. \A x \in s : h[x] = H[<<p, x[1]>>][x[2]]
    BY DEF Held
  <1>3. s \in SUBSET X
    OBVIOUS
  <1> HIDE DEF X, f, h
  <1>4. f[{}] = 0 /\ \A t \in SUBSET X : f[t] \in Nat
    BY ONLY <1>1, SumSteps
  <1>5. ASSUME NEW t \in SUBSET s PROVE f[t] <= f[s] /\ f[s] = f[t] + f[s \ t]
    <2>1. f[s] = f[t] + f[s \ t]
      BY ONLY <1>1, <1>3, SumSplits, t \in SUBSET s
    <2>2. f[s] \in Nat /\ f[t] \in Nat /\ f[s \ t] \in Nat
      BY <1>3, <1>4
    <2> QED BY <2>1, <2>2
  <1>6. ASSUME \A x \in s : H[<<p, x[1]>>][x[2]] = 0 PROVE f[s] = 0
    <2>1. \A x \in s : h[x] = 0
      BY <1>2, <1>6
    <2>2. Carries(h, h, s, h, {})
      BY <2>1 DEF Carries
    <2>3. {} \in SUBSET X
      OBVIOUS
    <2>4. f[s] <= f[{}]
      BY ONLY <1>1, <1>3, <2>2, <2>3, SumCarries
    <2>5. f[s] \in Nat
      BY <1>3, <1>4
    <2> QED BY <1>4, <2>4, <2>5
  <1> QED BY <1>3, <1>4, <1>5, <1>6 DEF f

\* A total is at least what any part of it holds.
LEMMA TotalAtLeast ==
    ASSUME NEW H \in Histories, NEW p \in Policies, NEW c \in Callers
    PROVE  \A s \in SUBSET Theirs(p, c) :
             /\ SumOf(H, p, c)[s] \in Nat /\ Limiter!Total(H, p, c) \in Nat
             /\ SumOf(H, p, c)[s] <= Limiter!Total(H, p, c)
  <1> DEFINE X == Theirs(p, c)
             f == SumOf(H, p, c)
  <1>1. X \in SUBSET X
    OBVIOUS
  <1>2. Limiter!Total(H, p, c) = f[X]
    BY TotalSums
  <1>3. ASSUME NEW s \in SUBSET X PROVE f[s] \in Nat /\ f[X] \in Nat /\ f[s] <= f[X]
    BY <1>1, SumsOrder
  <1> HIDE DEF X, f
  <1> QED BY <1>2, <1>3 DEF X, f

\* Histories stay below their cap.
LEMMA HistoriesTyped ==
    ASSUME NEW cap \in Nat, NEW H \in [Policies \X Callers -> [Limiter!Ages -> 0 .. cap]]
    PROVE  /\ H \in Histories
           /\ Limiter!Older(H) \in [Policies \X Callers -> [Limiter!Ages -> 0 .. cap]]
           /\ \A q \in Policies, d \in Callers :
                Limiter!Note(H, q, d, cap) \in [Policies \X Callers -> [Limiter!Ages -> 0 .. cap]]
  <1>1. Limiter!Ages = 0 .. Window - 1 /\ Window \in Nat /\ Window > 0 /\ 0 \in Limiter!Ages
    BY LimiterConstants
  <1>2. \A i \in 0 .. cap : i \in Nat
    OBVIOUS
  <1>3. H \in Histories
    BY <1>2 DEF Histories
  <1>4. Limiter!Older(H) \in [Policies \X Callers -> [Limiter!Ages -> 0 .. cap]]
    <2>1. 0 \in 0 .. cap /\ \A a \in Limiter!Ages : a = 0 \/ a - 1 \in Limiter!Ages
      BY <1>1
    <2> QED BY <2>1 DEF Limiter!Older
  <1>5. ASSUME NEW q \in Policies, NEW d \in Callers
        PROVE  Limiter!Note(H, q, d, cap) \in [Policies \X Callers -> [Limiter!Ages -> 0 .. cap]]
    <2> DEFINE D == Policies \X Callers
               z == <<q, d>>
               v == Limiter!Min({H[z][0] + 1, cap})
    <2>1. z \in D /\ H[z][0] \in 0 .. cap /\ H[z][0] + 1 \in Nat
      BY <1>1
    <2>2. v \in 0 .. cap
      <3>1. v = IF H[z][0] + 1 <= cap THEN H[z][0] + 1 ELSE cap
        BY <2>1, Lesser
      <3> HIDE DEF v
      <3> QED BY <2>1, <3>1
    <2>3. Limiter!Note(H, q, d, cap) = [H EXCEPT ![z][0] = v]
      BY DEF Limiter!Note
    <2>4. H \in [D -> [Limiter!Ages -> 0 .. cap]]
      OBVIOUS
    <2> HIDE DEF D, z, v
    <2>5. [H EXCEPT ![z][0] = v] \in [D -> [Limiter!Ages -> 0 .. cap]]
      BY <1>1, <2>1, <2>2, <2>4
    <2> QED BY <2>3, <2>5 DEF D
  <1> QED BY <1>3, <1>4, <1>5

\* The places of the window that a key with r to live has begun.
Current(r, p, c) == {x \in Theirs(p, c) : r > 0 /\ x[2] + r <= Window}

\* What a key says of those who count on it: it lives while it counts, it has counted what
\* the current window let through and no more than was asked, and what older windows let
\* through is one limit at most.
Counting(p, c) ==
    LET k == Limiter!rateLimitKey(p, c) IN
    /\ count[k] = 0 <=> ttl[k] = 0
    /\ SumOf(served, p, c)[Current(ttl[k], p, c)] <= count[k]
    /\ SumOf(served, p, c)[Current(ttl[k], p, c)] <= Limit
    /\ count[k] <= SumOf(counted, p, c)[Current(ttl[k], p, c)]
    /\ SumOf(served, p, c)[Theirs(p, c) \ Current(ttl[k], p, c)] <= Limit
    /\ ttl[k] = 0 => \A d \in Callers : Limiter!Same(p, c, d) => served[<<p, d>>][0] = 0

LimiterInv ==
    /\ Limiter!TypeOK /\ Limiter!RefusedForReason
    /\ \A p \in Policies, c \in Callers : Counting(p, c)

LEMMA LimiterTypes ==
    ASSUME Limiter!TypeOK, NEW p \in Policies, NEW c \in Callers
    PROVE  /\ Limiter!rateLimitKey(p, c) \in Limiter!Counters
           /\ count[Limiter!rateLimitKey(p, c)] \in 0 .. (Limit + 1)
           /\ ttl[Limiter!rateLimitKey(p, c)] \in 0 .. Window
           /\ served \in Histories /\ counted \in Histories
           /\ served \in [Policies \X Callers -> [Limiter!Ages -> 0 .. (2 * Limit + 1)]]
           /\ counted \in [Policies \X Callers -> [Limiter!Ages -> 0 .. (Limit + 1)]]
           /\ 2 * Limit + 1 \in Nat /\ Limit + 1 \in Nat
  <1>1. Limiter!rateLimitKey(p, c) \in Limiter!Counters
    BY DEF Limiter!Counters
  <1>2. 2 * Limit + 1 \in Nat /\ Limit + 1 \in Nat
    BY LimiterConstants
  <1>3. /\ served \in [Policies \X Callers -> [Limiter!Ages -> 0 .. (2 * Limit + 1)]]
        /\ counted \in [Policies \X Callers -> [Limiter!Ages -> 0 .. (Limit + 1)]]
        /\ count \in [Limiter!Counters -> 0 .. (Limit + 1)] /\ ttl \in [Limiter!Counters -> 0 .. Window]
    BY DEF Limiter!TypeOK
  <1>4. served \in Histories
    BY ONLY <1>2, <1>3, HistoriesTyped
  <1>5. counted \in Histories
    BY ONLY <1>2, <1>3, HistoriesTyped
  <1> QED BY <1>1, <1>2, <1>3, <1>4, <1>5

\* The two ends of the invariant: at most twice the limit in any stretch of a window, and
\* a full counter has counted more than the limit.
LEMMA CountingBounds ==
    ASSUME Limiter!TypeOK, NEW p \in Policies, NEW c \in Callers, Counting(p, c)
    PROVE  /\ Limiter!Total(served, p, c) <= 2 * Limit
           /\ count[Limiter!rateLimitKey(p, c)] = Limit + 1 => Limiter!Total(counted, p, c) > Limit
  <1> DEFINE k == Limiter!rateLimitKey(p, c)
             X == Theirs(p, c)
             C == Current(ttl[k], p, c)
             f == SumOf(served, p, c)
             e == SumOf(counted, p, c)
  <1>1. /\ served \in Histories /\ counted \in Histories /\ count[k] \in 0 .. (Limit + 1)
        /\ Limit \in Nat
    BY LimiterTypes, LimiterConstants
  <1>2. X \in SUBSET X /\ C \in SUBSET X
    BY DEF Current
  <1>3. f[C] <= Limit /\ f[X \ C] <= Limit /\ count[k] <= e[C]
    BY DEF Counting
  <1>4. Limiter!Total(served, p, c) = f[X] /\ Limiter!Total(counted, p, c) = e[X]
    BY <1>1, TotalSums
  <1>5. f[X] = f[C] + f[X \ C] /\ f[X] \in Nat /\ f[C] \in Nat /\ f[X \ C] \in Nat
    <2>1. X \ C \in SUBSET X
      OBVIOUS
    <2>2. f[X] = f[C] + f[X \ C]
      BY <1>1, <1>2, SumsOrder
    <2>3. \A s \in SUBSET X : f[s] \in Nat
      BY <1>1, SumsOrder
    <2> HIDE DEF f, X, C
    <2> QED BY <1>2, <2>1, <2>2, <2>3
  <1>6. e[C] <= e[X] /\ e[X] \in Nat /\ e[C] \in Nat
    BY <1>1, <1>2, SumsOrder
  <1> HIDE DEF X, C, f, e, k
  <1>7. f[X] <= 2 * Limit
    BY <1>1, <1>3, <1>5
  <1>8. count[k] = Limit + 1 => e[X] > Limit
    BY <1>1, <1>3, <1>6
  <1> QED BY <1>4, <1>7, <1>8 DEF k

\* The script runs for a request of q and c0; it is let through only below the limit.
LEMMA ConsumeCounts ==
    ASSUME LimiterInv, NEW q \in Policies, NEW c0 \in Callers,
           Limiter!CONSUME_SCRIPT(Limiter!rateLimitKey(q, c0)),
           counted' = Limiter!Note(counted, q, c0, Limit + 1),
           \/ served' = served
           \/ /\ Limiter!Incremented(Limiter!rateLimitKey(q, c0)) <= Limit
              /\ served' = Limiter!Note(served, q, c0, 2 * Limit + 1)
    PROVE  /\ count' \in [Limiter!Counters -> 0 .. (Limit + 1)]
           /\ ttl' \in [Limiter!Counters -> 0 .. Window]
           /\ served' \in [Policies \X Callers -> [Limiter!Ages -> 0 .. (2 * Limit + 1)]]
           /\ counted' \in [Policies \X Callers -> [Limiter!Ages -> 0 .. (Limit + 1)]]
           /\ \A p \in Policies, c \in Callers : Counting(p, c)'
           /\ count'[Limiter!rateLimitKey(q, c0)] = Limiter!Incremented(Limiter!rateLimitKey(q, c0))
           /\ Limiter!Incremented(Limiter!rateLimitKey(q, c0)) \in 0 .. (Limit + 1)
  <1> DEFINE k0 == Limiter!rateLimitKey(q, c0)
             n == count[k0]
             r == ttl[k0]
             inc == Limiter!Incremented(k0)
  <1>1. Limiter!TypeOK /\ Limit \in Nat /\ Limit > 0 /\ Window \in Nat /\ Window > 0
    BY LimiterConstants DEF LimiterInv
  <1>2. /\ k0 \in Limiter!Counters /\ n \in 0 .. (Limit + 1) /\ r \in 0 .. Window
        /\ served \in Histories /\ counted \in Histories
        /\ served \in [Policies \X Callers -> [Limiter!Ages -> 0 .. (2 * Limit + 1)]]
        /\ counted \in [Policies \X Callers -> [Limiter!Ages -> 0 .. (Limit + 1)]]
        /\ 2 * Limit + 1 \in Nat /\ Limit + 1 \in Nat /\ 2 * Limit + 1 > 0
    <2>1. /\ k0 \in Limiter!Counters /\ n \in 0 .. (Limit + 1) /\ r \in 0 .. Window
          /\ served \in Histories /\ counted \in Histories
          /\ served \in [Policies \X Callers -> [Limiter!Ages -> 0 .. (2 * Limit + 1)]]
          /\ counted \in [Policies \X Callers -> [Limiter!Ages -> 0 .. (Limit + 1)]]
          /\ 2 * Limit + 1 \in Nat /\ Limit + 1 \in Nat
      BY <1>1, LimiterTypes
    <2>2. 2 * Limit + 1 > 0
      BY <1>1
    <2> QED BY <2>1, <2>2
  <1>3. inc = IF n + 1 <= Limit + 1 THEN n + 1 ELSE Limit + 1
    <2>1. n + 1 \in Nat
      BY <1>1, <1>2
    <2> QED BY <1>2, <2>1, Lesser DEF Limiter!Incremented
  <1>4. inc \in 0 .. (Limit + 1) /\ inc > 0 /\ n <= inc /\ inc <= n + 1 /\ (inc <= Limit => inc = n + 1)
    <2> HIDE DEF inc
    <2> QED BY <1>1, <1>2, <1>3
  <1>5. /\ count \in [Limiter!Counters -> 0 .. (Limit + 1)] /\ ttl \in [Limiter!Counters -> 0 .. Window]
        /\ count' = [count EXCEPT ![k0] = inc]
        /\ ttl' = [ttl EXCEPT ![k0] = IF n = 0 THEN Window ELSE @]
    BY <1>1 DEF Limiter!TypeOK, Limiter!CONSUME_SCRIPT
  <1>6. n = 0 <=> r = 0
    BY DEF LimiterInv, Counting
  <1> HIDE DEF n, r, inc, k0
  <1> DEFINE r2 == IF n = 0 THEN Window ELSE r
  <1>7. /\ count'[k0] = inc /\ ttl'[k0] = r2 /\ r2 \in 0 .. Window /\ r2 > 0
        /\ \A k \in Limiter!Counters : k # k0 => count'[k] = count[k] /\ ttl'[k] = ttl[k]
    BY <1>1, <1>2, <1>5, <1>6 DEF r
  <1>8. count' \in [Limiter!Counters -> 0 .. (Limit + 1)] /\ ttl' \in [Limiter!Counters -> 0 .. Window]
    BY <1>2, <1>4, <1>5, <1>7
  <1>9. counted' \in [Policies \X Callers -> [Limiter!Ages -> 0 .. (Limit + 1)]]
    BY <1>2, HistoriesTyped
  <1>10. served' \in [Policies \X Callers -> [Limiter!Ages -> 0 .. (2 * Limit + 1)]]
    <2> DEFINE H2 == Limiter!Note(served, q, c0, 2 * Limit + 1)
    <2>1. H2 \in [Policies \X Callers -> [Limiter!Ages -> 0 .. (2 * Limit + 1)]]
      BY <1>2, HistoriesTyped
    <2>2. served' = served \/ served' = H2
      OBVIOUS
    <2> HIDE DEF H2
    <2> QED BY ONLY <1>2, <2>1, <2>2
  <1>11. served' \in Histories /\ counted' \in Histories
    <2>1. served' \in Histories
      BY ONLY <1>2, <1>10, HistoriesTyped
    <2>2. counted' \in Histories
      BY ONLY <1>2, <1>9, HistoriesTyped
    <2> QED BY <2>1, <2>2
  <1>12. ASSUME NEW p \in Policies, NEW c \in Callers, NEW s \in SUBSET Theirs(p, c)
         PROVE  /\ SumOf(served, p, c)[s] \in Nat /\ SumOf(served', p, c)[s] \in Nat
                /\ SumOf(counted, p, c)[s] \in Nat /\ SumOf(counted', p, c)[s] \in Nat
                /\ p # q \/ <<c0, 0>> \notin s =>
                     /\ SumOf(served', p, c)[s] = SumOf(served, p, c)[s]
                     /\ SumOf(counted', p, c)[s] = SumOf(counted, p, c)[s]
                /\ SumOf(served', p, c)[s] <= SumOf(served, p, c)[s] + 1
                /\ inc > Limit => SumOf(served', p, c)[s] = SumOf(served, p, c)[s]
                /\ p = q /\ <<c0, 0>> \in s =>
                     \/ SumOf(counted', p, c)[s] >= SumOf(counted, p, c)[s] + 1
                     \/ SumOf(counted', p, c)[s] >= Limit + 1
    <2>1. /\ SumOf(counted, p, c)[s] \in Nat /\ SumOf(counted', p, c)[s] \in Nat
          /\ p # q \/ <<c0, 0>> \notin s => SumOf(counted', p, c)[s] = SumOf(counted, p, c)[s]
          /\ p = q /\ <<c0, 0>> \in s =>
               \/ SumOf(counted', p, c)[s] >= SumOf(counted, p, c)[s] + 1
               \/ SumOf(counted', p, c)[s] >= Limit + 1
      BY <1>1, <1>2, NotedSums
    <2>2. CASE served' = served
      <3>1. SumOf(served, p, c)[s] \in Nat
        BY <1>2, SumsOrder
      <3> QED BY <2>1, <2>2, <3>1
    <2>3. CASE inc <= Limit /\ served' = Limiter!Note(served, q, c0, 2 * Limit + 1)
      <3>1. /\ SumOf(served, p, c)[s] \in Nat /\ SumOf(served', p, c)[s] \in Nat
            /\ p # q \/ <<c0, 0>> \notin s => SumOf(served', p, c)[s] = SumOf(served, p, c)[s]
            /\ SumOf(served', p, c)[s] <= SumOf(served, p, c)[s] + 1
        BY <1>2, <2>3, NotedSums
      <3>2. ~(inc > Limit)
        BY <1>1, <1>4, <2>3
      <3> QED BY <2>1, <3>1, <3>2
    <2> QED BY <2>2, <2>3 DEF inc, k0
  <1>13. ASSUME NEW p \in Policies, NEW c \in Callers PROVE Counting(p, c)'
    <2> DEFINE k == Limiter!rateLimitKey(p, c)
               X == Theirs(p, c)
               C == Current(ttl[k], p, c)
               D == Current(ttl'[k], p, c)
    <2>1. /\ count[k] = 0 <=> ttl[k] = 0
          /\ SumOf(served, p, c)[C] <= count[k] /\ SumOf(served, p, c)[C] <= Limit
          /\ count[k] <= SumOf(counted, p, c)[C]
          /\ SumOf(served, p, c)[X \ C] <= Limit
          /\ ttl[k] = 0 => \A d \in Callers : Limiter!Same(p, c, d) => served[<<p, d>>][0] = 0
      BY DEF LimiterInv, Counting
    <2>2. /\ C \in SUBSET X /\ D \in SUBSET X /\ k \in Limiter!Counters
          /\ X \ C \in SUBSET X /\ X \ D \in SUBSET X
      BY DEF Current, Limiter!Counters
    <2>3. SUFFICES /\ count'[k] = 0 <=> ttl'[k] = 0
                   /\ SumOf(served', p, c)[D] <= count'[k] /\ SumOf(served', p, c)[D] <= Limit
                   /\ count'[k] <= SumOf(counted', p, c)[D]
                   /\ SumOf(served', p, c)[X \ D] <= Limit
                   /\ ttl'[k] = 0 =>
                        \A d \in Callers : Limiter!Same(p, c, d) => served'[<<p, d>>][0] = 0
      BY DEF Counting
    <2>4. k = k0 <=> p = q /\ Limiter!Same(p, c, c0)
      BY KeyOfSame DEF k0
    <2>5. CASE k # k0
      <3>1. p # q \/ <<c0, 0>> \notin X
        BY <2>4, <2>5 DEF Theirs
      <3>2. count'[k] = count[k] /\ ttl'[k] = ttl[k] /\ C = D
        BY <1>7, <2>2, <2>5
      <3>3. \A s \in SUBSET X : /\ SumOf(served', p, c)[s] = SumOf(served, p, c)[s]
                                /\ SumOf(counted', p, c)[s] = SumOf(counted, p, c)[s]
        BY <1>12, <3>1
      <3>4. ASSUME NEW d \in Callers, Limiter!Same(p, c, d), served[<<p, d>>][0] = 0
            PROVE  served'[<<p, d>>][0] = 0
        <4>1. <<p, d>> # <<q, c0>> /\ <<p, d>> \in Policies \X Callers
          BY <2>4, <2>5, <3>4
        <4>2. served' = served \/ served' = Limiter!Note(served, q, c0, 2 * Limit + 1)
          OBVIOUS
        <4>3. Limiter!Note(served, q, c0, 2 * Limit + 1)[<<p, d>>] = served[<<p, d>>]
          BY <1>2, <4>1 DEF Limiter!Note
        <4> QED BY <3>4, <4>2, <4>3
      <3> HIDE DEF X, C, D, k
      <3> QED BY <2>1, <2>2, <3>2, <3>3, <3>4
    <2>6. CASE k = k0
      <3>1. p = q /\ Limiter!Same(p, c, c0)
        BY <2>4, <2>6
      <3>2. <<c0, 0>> \in X
        <4>1. 0 \in Limiter!Ages
          BY LimiterConstants
        <4> QED BY <3>1, <4>1 DEF Theirs
      <3>3. count'[k] = inc /\ ttl'[k] = r2 /\ count[k] = n /\ ttl[k] = r
        BY <1>7, <2>6 DEF n, r
      <3>4. <<c0, 0>> \in D /\ <<c0, 0>> \notin X \ D
        <4>1. 0 + r2 <= Window
          BY <1>1, <1>7
        <4> QED BY <1>7, <3>2, <3>3, <4>1 DEF Current
      <3>5. /\ SumOf(served, p, c)[D] \in Nat /\ SumOf(served', p, c)[D] \in Nat
            /\ SumOf(counted, p, c)[D] \in Nat /\ SumOf(counted', p, c)[D] \in Nat
            /\ SumOf(served', p, c)[D] <= SumOf(served, p, c)[D] + 1
            /\ inc > Limit => SumOf(served', p, c)[D] = SumOf(served, p, c)[D]
            /\ \/ SumOf(counted', p, c)[D] >= SumOf(counted, p, c)[D] + 1
               \/ SumOf(counted', p, c)[D] >= Limit + 1
        BY <1>12, <2>2, <3>1, <3>4
      <3>6. SumOf(served', p, c)[X \ D] = SumOf(served, p, c)[X \ D]
        BY <1>12, <2>2, <3>4
      <3>7. /\ SumOf(served, p, c)[D] <= n /\ SumOf(served, p, c)[D] <= Limit
            /\ n <= SumOf(counted, p, c)[D]
            /\ SumOf(served, p, c)[X \ D] <= Limit
        <4>1. CASE n = 0
          <5>1. \A x \in D : served[<<p, x[1]>>][x[2]] = 0
            <6>1. ASSUME NEW x \in D PROVE served[<<p, x[1]>>][x[2]] = 0
              <7>1. x[2] + Window <= Window /\ x \in X
                BY <3>3, <4>1 DEF Current
              <7>2. x[1] \in Callers /\ Limiter!Same(p, c, x[1]) /\ x[2] \in Nat
                BY <7>1, LimiterConstants DEF Theirs
              <7>3. x[2] = 0
                BY <1>1, <7>1, <7>2
              <7> QED BY <1>6, <2>1, <3>3, <4>1, <7>2, <7>3
            <6> QED BY <6>1
          <5>2. SumOf(served, p, c)[D] = 0
            <6> HIDE DEF D, k
            <6> QED BY <1>2, <2>2, <5>1, SumsOrder
          <5>3. C = {}
            BY <1>6, <3>3, <4>1 DEF Current
          <5>4. X \ C = X /\ X \in SUBSET X
            BY <5>3
          <5>5. SumOf(served, p, c)[X \ D] <= SumOf(served, p, c)[X]
            BY <1>2, <2>2, <5>4, SumsOrder
          <5>6. SumOf(served, p, c)[X] \in Nat /\ SumOf(served, p, c)[X \ D] \in Nat
            BY <1>2, <2>2, <5>4, SumsOrder
          <5>7. SumOf(served, p, c)[X] <= Limit
            BY <2>1, <5>4
          <5> HIDE DEF X, C, D, k
          <5>8. SumOf(served, p, c)[X \ D] <= Limit
            BY <1>1, <5>5, <5>6, <5>7
          <5> QED BY <1>1, <3>5, <4>1, <5>2, <5>8
        <4>2. CASE n # 0
          <5>1. C = D
            BY <3>3, <4>2
          <5> HIDE DEF X, C, D, k
          <5> QED BY <2>1, <3>3, <5>1
        <4> QED BY <4>1, <4>2
      <3> DEFINE a == SumOf(served, p, c)[D]
                 b == SumOf(served', p, c)[D]
                 d == SumOf(counted, p, c)[D]
                 e == SumOf(counted', p, c)[D]
      <3> HIDE DEF a, b, d, e
      <3>8. /\ a \in Nat /\ b \in Nat /\ d \in Nat /\ e \in Nat /\ b <= a + 1
            /\ inc > Limit => b = a
            /\ e >= d + 1 \/ e >= Limit + 1
            /\ a <= n /\ a <= Limit /\ n <= d
        BY <3>5, <3>7 DEF a, b, d, e
      <3>9. n \in Nat /\ inc \in Nat
        BY <1>1, <1>2, <1>4
      <3>10. b <= inc /\ b <= Limit
        <4>1. CASE inc > Limit
          BY <1>1, <1>4, <3>8, <3>9, <4>1
        <4>2. CASE ~(inc > Limit)
          <5>1. inc = n + 1 /\ inc <= Limit
            BY <1>1, <1>4, <3>9, <4>2
          <5> QED BY <1>1, <3>8, <3>9, <5>1
        <4> QED BY <4>1, <4>2
      <3>11. inc <= e
        BY <1>1, <1>4, <3>8, <3>9
      <3>12. count'[k] # 0 /\ ttl'[k] # 0
        BY <1>1, <1>4, <1>7, <3>3
      <3> HIDE DEF X, C, D, k
      <3> QED BY <3>3, <3>6, <3>7, <3>10, <3>11, <3>12 DEF b, e
    <2> QED BY <2>5, <2>6
  <1> QED BY <1>4, <1>7, <1>8, <1>9, <1>10, <1>13 DEF inc, k0

\* A unit of time: every key has one less to live, every request is one older.
LEMMA TickCounts ==
    ASSUME LimiterInv, Limiter!Tick
    PROVE  LimiterInv'
  <1>1. Limiter!TypeOK /\ Limit \in Nat /\ Limit > 0 /\ Window \in Nat /\ Window > 0
    BY LimiterConstants DEF LimiterInv
  <1>2. /\ ttl' = [k \in Limiter!Counters |-> IF ttl[k] = 0 THEN 0 ELSE ttl[k] - 1]
        /\ count' = [k \in Limiter!Counters |-> IF ttl[k] = 1 THEN 0 ELSE count[k]]
        /\ served' = Limiter!Older(served) /\ counted' = Limiter!Older(counted)
        /\ last' = Limiter!None /\ redisUp' = redisUp
    BY DEF Limiter!Tick
  <1>3. /\ count \in [Limiter!Counters -> 0 .. (Limit + 1)] /\ ttl \in [Limiter!Counters -> 0 .. Window]
        /\ served \in [Policies \X Callers -> [Limiter!Ages -> 0 .. (2 * Limit + 1)]]
        /\ counted \in [Policies \X Callers -> [Limiter!Ages -> 0 .. (Limit + 1)]]
        /\ redisUp \in BOOLEAN
        /\ 2 * Limit + 1 \in Nat /\ Limit + 1 \in Nat
    BY <1>1 DEF Limiter!TypeOK
  <1>4. /\ served \in Histories
        /\ served' \in [Policies \X Callers -> [Limiter!Ages -> 0 .. (2 * Limit + 1)]]
    BY ONLY <1>2, <1>3, HistoriesTyped
  <1>5. /\ counted \in Histories
        /\ counted' \in [Policies \X Callers -> [Limiter!Ages -> 0 .. (Limit + 1)]]
    BY ONLY <1>2, <1>3, HistoriesTyped
  <1>6. count' \in [Limiter!Counters -> 0 .. (Limit + 1)] /\ ttl' \in [Limiter!Counters -> 0 .. Window]
    <2>1. ASSUME NEW k \in Limiter!Counters
          PROVE  /\ (IF ttl[k] = 1 THEN 0 ELSE count[k]) \in 0 .. (Limit + 1)
                 /\ (IF ttl[k] = 0 THEN 0 ELSE ttl[k] - 1) \in 0 .. Window
      <3> DEFINE n == count[k]
                 r == ttl[k]
      <3>1. n \in 0 .. (Limit + 1) /\ r \in 0 .. Window
        BY <1>3
      <3> HIDE DEF n, r
      <3>2. (IF r = 1 THEN 0 ELSE n) \in 0 .. (Limit + 1) /\ (IF r = 0 THEN 0 ELSE r - 1) \in 0 .. Window
        <4>1. CASE r = 0
          BY <1>1, <3>1, <4>1
        <4>2. CASE r # 0
          BY <1>1, <3>1, <4>2
        <4> QED BY <4>1, <4>2
      <3> QED BY <3>2 DEF n, r
    <2> QED BY <1>2, <2>1
  <1>7. Limiter!TypeOK'
    BY <1>2, <1>3, <1>4, <1>5, <1>6 DEF Limiter!TypeOK
  <1>8. Limiter!RefusedForReason'
    BY <1>2 DEF Limiter!RefusedForReason
  <1>9. ASSUME NEW p \in Policies, NEW c \in Callers PROVE Counting(p, c)'
    <2> DEFINE k == Limiter!rateLimitKey(p, c)
               X == Theirs(p, c)
               n == count[k]
               r == ttl[k]
               n2 == count'[k]
               r2 == ttl'[k]
               C == Current(r, p, c)
               D == Current(r2, p, c)
               f == SumOf(served, p, c)
               e == SumOf(counted, p, c)
               f2 == SumOf(served', p, c)
               e2 == SumOf(counted', p, c)
    <2>1. /\ n = 0 <=> r = 0
          /\ f[C] <= n /\ f[C] <= Limit /\ n <= e[C] /\ f[X \ C] <= Limit
      BY DEF LimiterInv, Counting
    <2>2. /\ k \in Limiter!Counters /\ n \in 0 .. (Limit + 1) /\ r \in 0 .. Window
          /\ n2 = (IF r = 1 THEN 0 ELSE n) /\ r2 = (IF r = 0 THEN 0 ELSE r - 1)
      BY <1>2, <1>3 DEF Limiter!Counters
    <2>3. \A x \in X : /\ x[1] \in Callers /\ Limiter!Same(p, c, x[1]) /\ x = <<x[1], x[2]>>
                       /\ x[2] \in Nat /\ x[2] < Window
      BY <1>1, LimiterConstants DEF Theirs
    <2>4. \A d, a : d \in Callers /\ Limiter!Same(p, c, d) /\ a \in Nat /\ a < Window
                      => <<d, a>> \in X
      BY <1>1, LimiterConstants DEF Theirs
    <2>5. /\ \A x : x \in C <=> x \in X /\ r > 0 /\ x[2] + r <= Window
          /\ \A x : x \in D <=> x \in X /\ r2 > 0 /\ x[2] + r2 <= Window
      BY DEF Current
    <2>6. \A s, t \in SUBSET X :
            /\ f2[s] \in Nat
            /\ (\A x \in s : x[2] # 0 => <<x[1], x[2] - 1>> \in t) => f2[s] <= f[t]
      BY <1>2, <1>4, AgedSums
    <2>7. \A s, t \in SUBSET X :
            /\ e2[s] \in Nat
            /\ (\A x \in t : <<x[1], x[2] + 1>> \in s) => e[t] <= e2[s]
      BY <1>2, <1>5, AgedSums
    <2>8. f[C] \in Nat /\ f[X \ C] \in Nat /\ e[C] \in Nat
      <3>1. C \in SUBSET X /\ X \ C \in SUBSET X
        BY <2>5
      <3> HIDE DEF C
      <3> QED BY <1>4, <1>5, <3>1, SumsOrder
    <2>9. \A d \in Callers : served'[<<p, d>>][0] = 0
      <3>1. \A y \in Policies \X Callers : Limiter!Older(served)[y][0] = 0
        BY <1>4, AgedSums
      <3> QED BY <1>2, <3>1
    <2>10. f2[{}] = 0
      <3>1. served' \in Histories
        BY ONLY <1>3, <1>4, HistoriesTyped
      <3>2. {} \in SUBSET Theirs(p, c) /\ \A x \in {} : served'[<<p, x[1]>>][x[2]] = 0
        OBVIOUS
      <3> QED BY ONLY <3>1, <3>2, p \in Policies, c \in Callers, SumsOrder
    <2>11. SUFFICES /\ n2 = 0 <=> r2 = 0
                    /\ f2[D] <= n2 /\ f2[D] <= Limit /\ n2 <= e2[D] /\ f2[X \ D] <= Limit
      BY <2>9 DEF Counting
    <2> HIDE DEF k, X, n, r, n2, r2, C, D, f, e, f2, e2
    <2>12. C \in SUBSET X /\ D \in SUBSET X /\ X \ C \in SUBSET X /\ X \ D \in SUBSET X
      BY <2>5
    <2>13. CASE r >= 2
      <3>1. n2 = n /\ r2 = r - 1 /\ r2 > 0 /\ r \in Nat /\ r <= Window
        BY <1>1, <2>2, <2>13
      <3>2. \A x \in D : x[2] # 0 => <<x[1], x[2] - 1>> \in C
        <4>1. ASSUME NEW x \in D, x[2] # 0 PROVE <<x[1], x[2] - 1>> \in C
          <5> DEFINE z == <<x[1], x[2] - 1>>
          <5>1. x \in X /\ x[2] + r2 <= Window
            BY <2>5
          <5>2. x[2] - 1 \in Nat /\ x[2] - 1 < Window /\ (x[2] - 1) + r <= Window
            BY <1>1, <2>3, <3>1, <4>1, <5>1
          <5>3. z \in X /\ z[2] = x[2] - 1
            BY <2>3, <2>4, <5>1, <5>2
          <5>4. z[2] + r <= Window /\ r > 0
            BY <3>1, <5>2, <5>3
          <5> HIDE DEF z
          <5>5. z \in C
            BY <2>5, <5>3, <5>4
          <5> QED BY <5>5 DEF z
        <4> QED BY <4>1
      <3>3. \A x \in X \ D : x[2] # 0 => <<x[1], x[2] - 1>> \in X \ C
        <4>1. ASSUME NEW x \in X \ D, x[2] # 0 PROVE <<x[1], x[2] - 1>> \in X \ C
          <5> DEFINE z == <<x[1], x[2] - 1>>
          <5>1. x \in X /\ ~(x[2] + r2 <= Window)
            BY <2>5, <3>1
          <5>2. x[2] - 1 \in Nat /\ x[2] - 1 < Window /\ ~((x[2] - 1) + r <= Window)
            BY <1>1, <2>3, <3>1, <4>1, <5>1
          <5>3. z \in X /\ z[2] = x[2] - 1
            BY <2>3, <2>4, <5>1, <5>2
          <5>4. ~(z[2] + r <= Window)
            BY <5>2, <5>3
          <5> HIDE DEF z
          <5>5. z \in X \ C
            BY <2>5, <5>3, <5>4
          <5> QED BY <5>5 DEF z
        <4> QED BY <4>1
      <3>4. \A x \in C : <<x[1], x[2] + 1>> \in D
        <4>1. ASSUME NEW x \in C PROVE <<x[1], x[2] + 1>> \in D
          <5> DEFINE z == <<x[1], x[2] + 1>>
          <5>1. x \in X /\ x[2] + r <= Window
            BY <2>5
          <5>2. x[2] + 1 \in Nat /\ x[2] + 1 < Window /\ (x[2] + 1) + r2 <= Window
            BY <1>1, <2>3, <2>13, <3>1, <5>1
          <5>3. z \in X /\ z[2] = x[2] + 1
            BY <2>3, <2>4, <5>1, <5>2
          <5>4. z[2] + r2 <= Window
            BY <5>2, <5>3
          <5> HIDE DEF z
          <5>5. z \in D
            BY <2>5, <3>1, <5>3, <5>4
          <5> QED BY <5>5 DEF z
        <4> QED BY <4>1
      <3>5. f2[D] <= f[C] /\ f2[D] \in Nat
        BY <2>6, <2>12, <3>2
      <3>6. f2[X \ D] <= f[X \ C] /\ f2[X \ D] \in Nat
        BY <2>6, <2>12, <3>3
      <3>7. e[C] <= e2[D] /\ e2[D] \in Nat
        BY <2>7, <2>12, <3>4
      <3>8. n \in Nat /\ n # 0
        BY <1>1, <2>1, <2>2, <2>13
      <3> QED BY <1>1, <2>1, <2>8, <3>1, <3>5, <3>6, <3>7, <3>8
    <2>14. CASE r = 1
      <3>1. n2 = 0 /\ r2 = 0
        BY <2>2, <2>14
      <3>2. D = {} /\ X \ D = X /\ X \in SUBSET X
        BY <2>5, <3>1
      <3>3. \A x \in X : x[2] # 0 => <<x[1], x[2] - 1>> \in C
        <4>1. ASSUME NEW x \in X, x[2] # 0 PROVE <<x[1], x[2] - 1>> \in C
          <5> DEFINE z == <<x[1], x[2] - 1>>
          <5>1. x[2] - 1 \in Nat /\ x[2] - 1 < Window /\ (x[2] - 1) + r <= Window
            BY <1>1, <2>3, <2>14, <4>1
          <5>2. z \in X /\ z[2] = x[2] - 1
            BY <2>3, <2>4, <5>1
          <5>3. z[2] + r <= Window /\ r > 0
            BY <2>14, <5>1, <5>2
          <5> HIDE DEF z
          <5>4. z \in C
            BY <2>5, <5>2, <5>3
          <5> QED BY <5>4 DEF z
        <4> QED BY <4>1
      <3>4. f2[X] <= f[C] /\ f2[X] \in Nat
        BY <2>6, <2>12, <3>2, <3>3
      <3>5. e2[{}] \in Nat
        BY <2>7
      <3>6. f2[X \ D] <= Limit
        BY <1>1, <2>1, <2>8, <3>2, <3>4
      <3>7. f2[D] = 0 /\ e2[D] \in Nat
        BY <2>10, <3>2, <3>5
      <3> QED BY <1>1, <3>1, <3>6, <3>7
    <2>15. CASE r = 0
      <3>1. n2 = 0 /\ r2 = 0
        BY <2>1, <2>2, <2>15
      <3>2. D = {} /\ C = {} /\ X \ D = X /\ X \ C = X /\ X \in SUBSET X
        BY <2>5, <2>15, <3>1
      <3>3. \A x \in X : x[2] # 0 => <<x[1], x[2] - 1>> \in X
        <4>1. ASSUME NEW x \in X, x[2] # 0 PROVE <<x[1], x[2] - 1>> \in X
          <5>1. x[2] - 1 \in Nat /\ x[2] - 1 < Window
            BY <1>1, <2>3, <4>1
          <5> QED BY <2>3, <2>4, <5>1
        <4> QED BY <4>1
      <3>4. f2[X] <= f[X] /\ f2[X] \in Nat
        BY <2>6, <3>2, <3>3
      <3>5. f[X] <= Limit /\ f[X] \in Nat
        BY <2>1, <2>8, <3>2
      <3>6. f2[X \ D] <= Limit
        BY <1>1, <3>2, <3>4, <3>5
      <3>7. f2[D] = 0 /\ e2[D] \in Nat
        BY <2>7, <2>10, <3>2
      <3> QED BY <1>1, <3>1, <3>6, <3>7
    <2>16. r >= 2 \/ r = 1 \/ r = 0
      BY <1>1, <2>2
    <2> QED BY <2>13, <2>14, <2>15, <2>16
  <1> QED BY <1>7, <1>8, <1>9 DEF LimiterInv

\* A request, whichever way it ends.
LEMMA RequestCounts ==
    ASSUME LimiterInv, NEW q \in Policies, NEW c0 \in Callers,
           Limiter!consumeRateLimit(q, c0) \/ Limiter!AnswerLost(q, c0) \/ Limiter!NotSent(q, c0)
    PROVE  LimiterInv'
  <1> DEFINE k0 == Limiter!rateLimitKey(q, c0)
             inc == Limiter!Incremented(k0)
  <1>1. Limiter!TypeOK /\ Limit \in Nat /\ Limit > 0
    BY LimiterConstants DEF LimiterInv
  <1>2. \A st \in {200, 429, 503} : Limiter!Answer(q, c0, st) =>
          /\ last' \in [policy : Policies, caller : Callers, status : {200, 429, 503}]
          /\ last'.policy = q /\ last'.caller = c0 /\ last'.status = st
    BY DEF Limiter!Answer
  <1>3. ASSUME /\ count' \in [Limiter!Counters -> 0 .. (Limit + 1)]
               /\ ttl' \in [Limiter!Counters -> 0 .. Window]
               /\ served' \in [Policies \X Callers -> [Limiter!Ages -> 0 .. (2 * Limit + 1)]]
               /\ counted' \in [Policies \X Callers -> [Limiter!Ages -> 0 .. (Limit + 1)]]
               /\ redisUp' \in BOOLEAN
               /\ last' \in [policy : Policies, caller : Callers, status : {200, 429, 503}]
        PROVE  Limiter!TypeOK'
    BY <1>3 DEF Limiter!TypeOK
  <1>4. CASE Limiter!consumeRateLimit(q, c0)
    <2>1. /\ Limiter!CONSUME_SCRIPT(k0) /\ redisUp' = redisUp
          /\ counted' = Limiter!Note(counted, q, c0, Limit + 1)
          /\ \/ /\ inc <= Limit /\ Limiter!Answer(q, c0, 200)
                /\ served' = Limiter!Note(served, q, c0, 2 * Limit + 1)
             \/ ~(inc <= Limit) /\ Limiter!Answer(q, c0, 429) /\ served' = served
      BY <1>4 DEF Limiter!consumeRateLimit
    <2>2. /\ count' \in [Limiter!Counters -> 0 .. (Limit + 1)]
          /\ ttl' \in [Limiter!Counters -> 0 .. Window]
          /\ served' \in [Policies \X Callers -> [Limiter!Ages -> 0 .. (2 * Limit + 1)]]
          /\ counted' \in [Policies \X Callers -> [Limiter!Ages -> 0 .. (Limit + 1)]]
          /\ \A p \in Policies, c \in Callers : Counting(p, c)'
          /\ count'[k0] = inc /\ inc \in 0 .. (Limit + 1)
      BY <2>1, ConsumeCounts
    <2>3. redisUp' \in BOOLEAN
      BY <1>1, <2>1 DEF Limiter!TypeOK
    <2>4. /\ last' \in [policy : Policies, caller : Callers, status : {200, 429, 503}]
          /\ last'.policy = q /\ last'.caller = c0
          /\ last'.status = 429 => inc = Limit + 1
      BY <1>1, <1>2, <2>1, <2>2
    <2>5. Limiter!TypeOK'
      BY <1>3, <2>2, <2>3, <2>4
    <2>6. Counting(q, c0)'
      BY <2>2
    <2>7. inc = Limit + 1 => Limiter!Total(counted', q, c0) > Limit
      <3> DEFINE s == Current(ttl'[k0], q, c0)
      <3>1. s \in SUBSET Theirs(q, c0)
        BY DEF Current
      <3>2. count'[k0] <= SumOf(counted', q, c0)[s]
        BY <2>6 DEF Counting
      <3>3. counted' \in Histories
        <4>1. Limit + 1 \in Nat
          BY <1>1
        <4> QED BY ONLY <2>2, <4>1, HistoriesTyped
      <3> HIDE DEF s
      <3>4. /\ SumOf(counted', q, c0)[s] \in Nat /\ Limiter!Total(counted', q, c0) \in Nat
            /\ SumOf(counted', q, c0)[s] <= Limiter!Total(counted', q, c0)
        BY <3>1, <3>3, TotalAtLeast
      <3> QED BY <1>1, <2>2, <3>2, <3>4
    <2>8. Limiter!RefusedForReason'
      BY <2>4, <2>7 DEF Limiter!RefusedForReason
    <2> QED BY <2>2, <2>5, <2>8 DEF LimiterInv
  <1>5. CASE Limiter!AnswerLost(q, c0)
    <2>1. /\ Limiter!CONSUME_SCRIPT(k0) /\ redisUp' = FALSE
          /\ counted' = Limiter!Note(counted, q, c0, Limit + 1)
          /\ Limiter!Answer(q, c0, 503) /\ served' = served
      BY <1>5 DEF Limiter!AnswerLost, Limiter!enforceRateLimit
    <2>2. /\ count' \in [Limiter!Counters -> 0 .. (Limit + 1)]
          /\ ttl' \in [Limiter!Counters -> 0 .. Window]
          /\ served' \in [Policies \X Callers -> [Limiter!Ages -> 0 .. (2 * Limit + 1)]]
          /\ counted' \in [Policies \X Callers -> [Limiter!Ages -> 0 .. (Limit + 1)]]
          /\ \A p \in Policies, c \in Callers : Counting(p, c)'
      BY <2>1, ConsumeCounts
    <2>3. /\ last' \in [policy : Policies, caller : Callers, status : {200, 429, 503}]
          /\ last'.status = 503
      BY <1>2, <2>1
    <2>4. served' \in [Policies \X Callers -> [Limiter!Ages -> 0 .. (2 * Limit + 1)]] /\ redisUp' \in BOOLEAN
      BY <2>1, <2>2
    <2>5. Limiter!TypeOK'
      BY <1>3, <2>2, <2>3, <2>4
    <2>6. Limiter!RefusedForReason'
      BY <2>3 DEF Limiter!RefusedForReason
    <2> QED BY <2>2, <2>5, <2>6 DEF LimiterInv
  <1>6. CASE Limiter!NotSent(q, c0)
    <2>1. Limiter!Answer(q, c0, 503) /\ UNCHANGED <<count, ttl, served, counted, redisUp>>
      BY <1>6 DEF Limiter!NotSent, Limiter!enforceRateLimit
    <2>2. \A p \in Policies, c \in Callers : Counting(p, c)'
      BY <2>1 DEF LimiterInv, Counting
    <2>3. Limiter!TypeOK' /\ Limiter!RefusedForReason'
      BY <1>1, <1>2, <1>3, <2>1 DEF Limiter!RefusedForReason, Limiter!TypeOK
    <2> QED BY <2>2, <2>3 DEF LimiterInv
  <1> QED BY <1>4, <1>5, <1>6

LEMMA LimiterStep ==
    ASSUME LimiterInv, [Limiter!Next]_(Limiter!vars)
    PROVE  LimiterInv'
  <1>1. ASSUME UNCHANGED <<count, ttl, served, counted, last>>, redisUp' \in BOOLEAN
        PROVE  LimiterInv'
    <2>1. Limiter!TypeOK' /\ Limiter!RefusedForReason'
      BY <1>1 DEF LimiterInv, Limiter!TypeOK, Limiter!RefusedForReason
    <2>2. \A p \in Policies, c \in Callers : Counting(p, c)'
      BY <1>1 DEF LimiterInv, Counting
    <2> QED BY <2>1, <2>2 DEF LimiterInv
  <1>2. CASE Limiter!Tick
    BY <1>2, TickCounts
  <1>3. CASE Limiter!Disconnect \/ Limiter!Reconnect
    BY <1>1, <1>3 DEF Limiter!Disconnect, Limiter!Reconnect
  <1>4. CASE UNCHANGED Limiter!vars
    BY <1>1, <1>4 DEF Limiter!vars, LimiterInv, Limiter!TypeOK
  <1>5. CASE \E p \in Policies, c \in Callers :
               Limiter!consumeRateLimit(p, c) \/ Limiter!AnswerLost(p, c) \/ Limiter!NotSent(p, c)
    BY <1>5, RequestCounts
  <1> QED BY <1>2, <1>3, <1>4, <1>5 DEF Limiter!Next

LEMMA LimiterStarts == ASSUME Limiter!Init PROVE LimiterInv
  <1>1. Limit \in Nat /\ Limit > 0 /\ Window \in Nat /\ Window > 0
    BY LimiterConstants
  <1>2. /\ count = [k \in Limiter!Counters |-> 0] /\ ttl = [k \in Limiter!Counters |-> 0]
        /\ redisUp = TRUE /\ counted = served /\ last = Limiter!None
        /\ served = [x \in Policies \X Callers |-> [a \in Limiter!Ages |-> 0]]
    BY DEF Limiter!Init
  <1>3. Limiter!TypeOK
    <2>1. 0 \in 0 .. (Limit + 1) /\ 0 \in 0 .. (2 * Limit + 1) /\ 0 \in 0 .. Window
      BY <1>1
    <2> QED BY <1>2, <2>1 DEF Limiter!TypeOK
  <1>4. ASSUME NEW p \in Policies, NEW c \in Callers PROVE Counting(p, c)
    <2> DEFINE k == Limiter!rateLimitKey(p, c)
    <2>1. k \in Limiter!Counters
      BY DEF Limiter!Counters
    <2>2. count[k] = 0 /\ ttl[k] = 0
      BY <1>2, <2>1
    <2>3. served \in Histories /\ 0 \in Limiter!Ages
      BY <1>2, LimiterConstants DEF Histories
    <2>4. \A s \in SUBSET Theirs(p, c) : SumOf(served, p, c)[s] = 0
      <3>1. \A x \in Theirs(p, c) : served[<<p, x[1]>>][x[2]] = 0
        BY <1>2 DEF Theirs
      <3>2. ASSUME NEW s \in SUBSET Theirs(p, c) PROVE SumOf(served, p, c)[s] = 0
        <4>1. \A x \in s : served[<<p, x[1]>>][x[2]] = 0
          BY <3>1
        <4> QED BY <2>3, <4>1, SumsOrder
      <3> QED BY <3>2
    <2>5. Current(0, p, c) \in SUBSET Theirs(p, c) /\ Theirs(p, c) \ Current(0, p, c) \in SUBSET Theirs(p, c)
      BY DEF Current
    <2>6. /\ SumOf(served, p, c)[Current(0, p, c)] = 0
          /\ SumOf(served, p, c)[Theirs(p, c) \ Current(0, p, c)] = 0
          /\ SumOf(counted, p, c)[Current(0, p, c)] = 0
      BY <1>2, <2>4, <2>5
    <2>7. \A d \in Callers : served[<<p, d>>][0] = 0
      BY <1>2, <2>3
    <2> QED BY <1>1, <2>2, <2>6, <2>7 DEF Counting
  <1>5. Limiter!RefusedForReason
    BY <1>2 DEF Limiter!RefusedForReason
  <1> QED BY <1>3, <1>4, <1>5 DEF LimiterInv

\* rate-limit.service.ts, for any routes, callers, limit and window: at most twice the
\* limit is let through in any stretch of a window, however an address is spelt and
\* whatever becomes of Redis, and whoever is told 429 has had more than the limit of its
\* own requests counted within the last window.
THEOREM LimitsInRequests == PartsSpec => []LimitsKept
  <1>1. PartsInit => LimiterInv
    BY LimiterStarts DEF PartsInit
  <1>2. LimiterInv /\ [PartsNext]_<<part, keyVars, authVars, limitVars, socketVars, processVars>>
          => LimiterInv'
    <2>1. [PartsNext]_<<part, keyVars, authVars, limitVars, socketVars, processVars>>
            => [Limiter!Next]_(Limiter!vars)
      BY DEF PartsNext, limitVars, Limiter!vars
    <2> QED BY <2>1, LimiterStep
  <1>3. LimiterInv => LimitsKept
    <2> SUFFICES ASSUME LimiterInv PROVE Limiter!LimitsKept
      BY DEF LimitsKept
    <2>1. Limiter!BurstBound
      BY CountingBounds DEF LimiterInv, Limiter!BurstBound
    <2> QED BY <2>1 DEF LimiterInv, Limiter!LimitsKept
  <1> QED BY <1>1, <1>2, <1>3, PTL DEF PartsSpec
=============================================================================
