-------------------------- MODULE ProcessLifecycle --------------------------
(***************************************************************************)
(* The life of one process: src/server.ts (start, shutdown) with the loops *)
(* of src/workers/in-process.ts inside it, or one of the standalone        *)
(* workers in src/workers.  It is about who may still be using Redis and   *)
(* the pool when they are closed, and about how a shutdown ends.           *)
(*                                                                         *)
(* A task is a loop, or the handler of an HTTP request or of a WebSocket's *)
(* upgrade or message.  At work it alternates between holding a pool       *)
(* client ("txn") and not ("job").  A handler goes on when its connection  *)
(* is gone: nothing cancels it.  Time is counted in units that the         *)
(* shutdown timeout and the loops' intervals are multiples of.             *)
(***************************************************************************)
EXTENDS Naturals, Sequences

CONSTANTS Loops,        \* its polling loops
          Calls,        \* handlers that may run at once
          Interval,     \* the sleep between two passes
          Timeout,      \* config.shutdownTimeoutMs
          MaxSockets    \* bound: WebSockets open at once

LifecycleAssumption ==
    /\ Interval \in Nat \ {0} /\ Timeout \in Nat \ {0}
    /\ MaxSockets \in Nat /\ Loops \cap Calls = {}

VARIABLES standalone,  \* a worker process instead of the API
          boot,        \* how far start() has come
          status,      \* "up", or how it ended
          shutting,    \* shuttingDown, with the code shutdown was asked for
          step,        \* the resources already released, in number
          elapsed,     \* time since shutdown began
          running,     \* the loops' flag
          listening,
          awaited,     \* handlers of HTTP requests whose connection is open
          sockets,     \* open WebSockets, in number
          task,        \* each loop and each handler
          wake,        \* what remains of a loop's sleep
          redis, pool

starting == <<standalone, boot, redis>>
traffic  == <<listening, awaited, sockets>>
tasks    == <<running, task, wake>>
ending   == <<status, shutting, step, elapsed>>
vars     == <<starting, traffic, tasks, ending, pool>>

Tasks     == Loops \cup Calls
TaskState == {"off", "job", "txn", "sleep", "done"}

\* For the mutants: Redis is released before the loops have stopped.
apiTeardownSwapped == <<"server", "redis", "workers", "sockets", "pool">>

\* server.ts shutdown: what is waited for and released, in order.
apiTeardown == <<"server", "workers", "sockets", "redis", "pool">>

\* A worker's shutdown does not wait for its loops.
workerTeardown == <<"redis", "pool">>

Teardown == IF standalone THEN workerTeardown ELSE apiTeardown

TypeOK ==
    /\ standalone \in BOOLEAN
    /\ boot \in {"database", "redis", "listen", "websocket", "ready"}
    /\ status \in {"up", "success", "failure", "killed"}
    /\ shutting \in {"no", "success", "failure"}
    /\ step \in 0..Len(Teardown) /\ elapsed \in 0..Timeout
    /\ running \in BOOLEAN /\ listening \in BOOLEAN
    /\ awaited \subseteq Calls /\ sockets \in 0..MaxSockets
    /\ task \in [Tasks -> TaskState] /\ wake \in [Loops -> 0..Interval]
    /\ redis \in {"none", "open", "closed"} /\ pool \in {"open", "closed"}

Init ==
    /\ standalone \in BOOLEAN
    /\ boot = "database" /\ status = "up" /\ shutting = "no"
    /\ step = 0 /\ elapsed = 0
    /\ running = standalone
    /\ listening = FALSE /\ awaited = {} /\ sockets = 0
    /\ task = [t \in Tasks |-> "off"] /\ wake = [l \in Loops |-> 0]
    /\ redis = "none" /\ pool = "open"

Up == status = "up"
Busy(t) == task[t] \in {"job", "txn"}
Exit(code) == status' = code /\ UNCHANGED <<shutting, step, elapsed>>

-----------------------------------------------------------------------------
(* start *)

\* verifyDatabaseConnection, and process.exit(1) if it throws.
ReachDatabase(ok) ==
    /\ Up /\ boot = "database"
    /\ IF ok THEN boot' = "redis" /\ UNCHANGED ending ELSE Exit("failure") /\ UNCHANGED boot
    /\ UNCHANGED <<standalone, traffic, tasks, redis, pool>>

StartLoops == running' = TRUE /\ task' = [t \in Tasks |-> IF t \in Loops THEN "job" ELSE "off"]

\* connectRedis and verifyRedisConnection; the loops of a standalone worker start here,
\* those inside the API (startInProcessWorkers) before it listens.
ReachRedis(ok) ==
    /\ Up /\ boot = "redis"
    /\ IF ok
       THEN /\ redis' = "open" /\ boot' = IF standalone THEN "ready" ELSE "listen"
            /\ StartLoops
            /\ UNCHANGED ending
       ELSE Exit("failure") /\ UNCHANGED <<boot, redis, running, task>>
    /\ UNCHANGED <<standalone, traffic, wake, pool>>

\* shutdown up to its first await.
shutdown(code) ==
    /\ shutting = "no"
    /\ shutting' = code
    /\ listening' = FALSE
    /\ running' = (running /\ ~standalone)
    /\ UNCHANGED <<status, step, elapsed>>

Listen ==
    /\ Up /\ boot = "listen" /\ shutting = "no"
    /\ boot' = "websocket" /\ listening' = TRUE
    /\ UNCHANGED <<standalone, redis, awaited, sockets, tasks, ending, pool>>

\* attachWebSocketServer succeeds, and the signal handlers are installed; or a bind error
\* ('error') or its own failure shuts the process down.
attachWebSocketServer(ok) ==
    /\ Up /\ boot = "websocket" /\ shutting = "no"
    /\ IF ok THEN boot' = "ready" /\ UNCHANGED <<ending, listening, running>>
             ELSE shutdown("failure") /\ UNCHANGED boot
    /\ UNCHANGED <<standalone, redis, awaited, sockets, task, wake, pool>>

\* SIGTERM and SIGINT, or an uncaught exception or unhandled rejection (exit code 1).
Signalled(code) ==
    /\ Up /\ boot = "ready"
    /\ standalone => code = "success"
    /\ shutdown(code)
    /\ UNCHANGED <<starting, awaited, sockets, task, wake, pool>>

\* A signal before there is a handler for it.
Killed ==
    /\ Up /\ boot # "ready" /\ shutting = "no"
    /\ Exit("killed")
    /\ UNCHANGED <<starting, traffic, tasks, pool>>

-----------------------------------------------------------------------------
(* Requests and sockets *)

RequestBegins(c) ==
    /\ Up /\ listening /\ task[c] = "off"
    /\ task' = [task EXCEPT ![c] = "job"] /\ awaited' = awaited \cup {c}
    /\ UNCHANGED <<starting, listening, sockets, running, wake, ending, pool>>

\* 'connection' (authenticateUpgrade) and 'message' (handleMessage) of an open WebSocket.
SocketCalls(c) ==
    /\ Up /\ sockets > 0 /\ task[c] = "off"
    /\ task' = [task EXCEPT ![c] = "job"]
    /\ UNCHANGED <<starting, traffic, running, wake, ending, pool>>

\* A client goes before its answer; the handler is not told.
ClientLeaves(c) ==
    /\ Up /\ c \in awaited
    /\ awaited' = awaited \ {c}
    /\ UNCHANGED <<starting, listening, sockets, tasks, ending, pool>>

\* The handler returns, well or with an error; a request is answered.
HandlerEnds(c) ==
    /\ Up /\ task[c] = "job"
    /\ task' = [task EXCEPT ![c] = "off"] /\ awaited' = awaited \ {c}
    /\ UNCHANGED <<starting, listening, sockets, running, wake, ending, pool>>

SocketOpens ==
    /\ Up /\ listening /\ boot = "ready" /\ sockets < MaxSockets
    /\ sockets' = sockets + 1
    /\ UNCHANGED <<starting, listening, awaited, tasks, ending, pool>>

\* Its handlers go on.
SocketCloses ==
    /\ Up /\ sockets > 0
    /\ sockets' = sockets - 1
    /\ UNCHANGED <<starting, listening, awaited, tasks, ending, pool>>

-----------------------------------------------------------------------------
(* withTransaction, and runLoop *)

\* pool.connect, which the pool refuses once pool.end has been called.
withTransaction(t) ==
    /\ Up /\ task[t] = "job"
    /\ step < Len(Teardown) - 1
    /\ task' = [task EXCEPT ![t] = "txn"]
    /\ UNCHANGED <<starting, traffic, running, wake, ending, pool>>

\* COMMIT or ROLLBACK, and client.release.
Release(t) ==
    /\ Up /\ task[t] = "txn"
    /\ task' = [task EXCEPT ![t] = "job"]
    /\ UNCHANGED <<starting, traffic, running, wake, ending, pool>>

\* The pass ends, well or with an error that is logged.
PassEnds(l) ==
    /\ Up /\ task[l] = "job"
    /\ IF running
       THEN task' = [task EXCEPT ![l] = "sleep"] /\ wake' = [wake EXCEPT ![l] = Interval]
       ELSE task' = [task EXCEPT ![l] = "done"] /\ UNCHANGED wake
    /\ UNCHANGED <<starting, traffic, running, ending, pool>>

\* while (running), after the sleep.
SleepEnds(l) ==
    /\ Up /\ task[l] = "sleep" /\ wake[l] = 0
    /\ task' = [task EXCEPT ![l] = IF running THEN "job" ELSE "done"]
    /\ UNCHANGED <<starting, traffic, running, wake, ending, pool>>

-----------------------------------------------------------------------------
(* shutdown *)

\* For the mutants: the pool is ended with clients checked out.
AwaitedNotPool(what) ==
    CASE what = "server"  -> awaited = {} /\ sockets = 0
      [] what = "workers" -> \A l \in Loops : task[l] \in {"off", "done"}
      [] OTHER            -> TRUE

\* server.close waits for the connections, upgraded ones too, and not for the handlers
\* they began; stopInProcessWorkers for its loops, asleep or not; pool.end for the clients
\* that are checked out.
Awaited(what) ==
    CASE what = "server"  -> awaited = {} /\ sockets = 0
      [] what = "workers" -> \A l \in Loops : task[l] \in {"off", "done"}
      [] what = "pool"    -> \A t \in Tasks : task[t] # "txn"
      [] OTHER            -> TRUE

Proceed ==
    /\ Up /\ shutting # "no" /\ step < Len(Teardown)
    /\ LET what == Teardown[step + 1] IN
         /\ Awaited(what)
         /\ redis' = IF what = "redis" THEN "closed" ELSE redis
         /\ pool' = IF what = "pool" THEN "closed" ELSE pool
         /\ running' = (running /\ what # "server")
         /\ sockets' = IF what = "sockets" THEN 0 ELSE sockets
    /\ step' = step + 1
    /\ UNCHANGED <<standalone, boot, listening, awaited, task, wake, status, shutting, elapsed>>

\* process.exit(exitCode).
Finish ==
    /\ Up /\ shutting # "no" /\ step = Len(Teardown)
    /\ Exit(shutting)
    /\ UNCHANGED <<starting, traffic, tasks, pool>>

\* A step rejects: process.exit(1).
TeardownFails ==
    /\ Up /\ shutting # "no" /\ step < Len(Teardown)
    /\ Exit("failure")
    /\ UNCHANGED <<starting, traffic, tasks, pool>>

\* For the mutants: the timer is armed once the server has closed.
forceExitLate ==
    /\ Up /\ elapsed = Timeout /\ step > 0
    /\ Exit("failure")
    /\ UNCHANGED <<starting, traffic, tasks, pool>>

\* The timer that shutdown started.
forceExit ==
    /\ Up /\ elapsed = Timeout
    /\ Exit("failure")
    /\ UNCHANGED <<starting, traffic, tasks, pool>>

\* Time does not pass what is due.
Tick ==
    /\ Up
    /\ shutting # "no" => elapsed < Timeout
    /\ \A l \in Loops : task[l] = "sleep" => wake[l] > 0
    /\ shutting # "no" \/ \E l \in Loops : task[l] = "sleep"
    /\ elapsed' = IF shutting = "no" THEN 0 ELSE elapsed + 1
    /\ wake' = [l \in Loops |-> IF task[l] = "sleep" THEN wake[l] - 1 ELSE wake[l]]
    /\ UNCHANGED <<starting, traffic, running, task, status, shutting, step, pool>>

\* The process has ended.
Over == ~Up /\ UNCHANGED vars

Next ==
    \/ \E ok \in BOOLEAN : ReachDatabase(ok) \/ ReachRedis(ok) \/ attachWebSocketServer(ok)
    \/ \E code \in {"success", "failure"} : Signalled(code)
    \/ Listen \/ Killed \/ SocketOpens \/ SocketCloses
    \/ \E c \in Calls : RequestBegins(c) \/ SocketCalls(c) \/ ClientLeaves(c) \/ HandlerEnds(c)
    \/ \E t \in Tasks : withTransaction(t) \/ Release(t)
    \/ \E l \in Loops : PassEnds(l) \/ SleepEnds(l)
    \/ Proceed \/ Finish \/ TeardownFails \/ forceExit \/ Tick \/ Over

Spec == Init /\ [][Next]_vars

\* Time passes, timers fire; requests, passes and sockets may hang for ever.
Fairness == WF_vars(Tick) /\ WF_vars(forceExit) /\ \A l \in Loops : WF_vars(SleepEnds(l))

-----------------------------------------------------------------------------
(* Properties *)

\* server.ts shutdown: neither Redis nor the pool goes away under a request somebody still
\* waits for, or under a pass of an in-process loop.
NothingPulledAway ==
    ~standalone /\ (redis = "closed" \/ pool = "closed")
        => awaited = {} /\ \A l \in Loops : ~Busy(l)

\* Whatever is cut off is cut off between transactions only, so a process that reports
\* success has left none open, not even of a handler whose client had gone or of a worker's
\* pass, and no client without its answer.
CleanExit == status = "success" => awaited = {} /\ \A t \in Tasks : task[t] # "txn"

\* A process that shuts down leaves nobody who waits, and no transaction, behind when it
\* reports success.
ShutdownSound == TypeOK /\ NothingPulledAway /\ CleanExit

\* forceExit: a shutdown ends, whatever hangs.
ShutdownEnds == shutting # "no" ~> ~Up

\* server.ts:39-45, sockets and loops "are torn down explicitly before either Redis or
\* PostgreSQL goes away under them".  Connections are: a handler whose client left, or
\* whose WebSocket closed while it awaited, runs on and finds Redis or the pool closed.
NobodyPulledAway ==
    ~standalone /\ (redis = "closed" \/ pool = "closed") => \A t \in Tasks : ~Busy(t)

\* forceExit is the last resort for a stuck connection: when it is due, some request or
\* some pass has not finished.
ForcedOnlyIfStuck == Up /\ elapsed = Timeout => awaited # {} \/ \E l \in Loops : Busy(l)
=============================================================================
