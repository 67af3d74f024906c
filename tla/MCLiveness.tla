------------------------------ MODULE MCLiveness ------------------------------
(***************************************************************************)
(* What must happen in the end, on small instances: the parts of MCWorkers *)
(* and four of MCRequests.  Each property assumes the fairness that the    *)
(* module of its part gives it, and of no other part.                      *)
(***************************************************************************)
EXTENDS MCWorkers

CONSTANTS Requests, Keys, Hashes, NoReq, NoRow,
          Tokens, Lapsing, Tabs, Handlers, NoToken, NoHandler,
          Events, MaxSubscriptions, MaxAsks, MaxWire,
          Loops, Interval, Timeout, MaxSockets

VARIABLES pending, record, ran, req, answer,
          authRow, expired, rotatedFrom, locks, authPc, token, minted, authTodo, session,
          storage, refreshing, leaving, presented, ended,
          conn, gone, isAlive, subs, local, asking, up, wire, channels, process, dropped,
          standalone, boot, status, shutting, step, elapsed, running, listening,
          awaited, sockets, task, wake, redis, pool

Keyed == INSTANCE Idempotency

Auth == INSTANCE Sessions WITH row <- authRow, pc <- authPc, todo <- authTodo

Registry == INSTANCE SubscriptionRegistry WITH Sockets <- Tabs

Process == INSTANCE ProcessLifecycle WITH Calls <- Handlers

ASSUME LivenessAssumption ==
    /\ Auth!SessionsAssumption
    /\ Registry!RegistryAssumption /\ Process!LifecycleAssumption

workerVars  == <<signalVars, ticketVars, feedVars, batchVars>>
keyVars     == <<pending, record, ran, req, answer>>
authVars    == <<authRow, expired, rotatedFrom, locks, authPc, token, minted, authTodo,
                 session, storage, refreshing, leaving, presented, ended>>
socketVars  == <<conn, gone, isAlive, subs, local, asking, up, wire, channels, process,
                 dropped>>
processVars == <<standalone, boot, status, shutting, step, elapsed, running,
                 listening, awaited, sockets, task, wake, redis, pool>>
requestVars == <<keyVars, authVars, socketVars, processVars>>

LiveInit ==
    /\ PartsInit
    /\ Keyed!Init /\ Auth!Init /\ Registry!Init /\ Process!Init
    \* one initial state of a part that is not to move
    /\ part # "keys" => \A q, r \in Requests : req[q] = req[r]
    /\ part # "keys" => \A r \in Requests : req[r].key = (CHOOSE k \in Keys : TRUE)
    /\ part # "keys" => \A r \in Requests : req[r].hash = (CHOOSE h \in Hashes : TRUE)
    /\ part # "process" => ~standalone

LiveNext ==
    \/ PartsNext /\ UNCHANGED requestVars
    \/ /\ part = "keys" /\ Keyed!Next
       /\ UNCHANGED <<part, workerVars, authVars, socketVars, processVars>>
    \/ /\ part = "auth" /\ Auth!Next
       /\ UNCHANGED <<part, workerVars, keyVars, socketVars, processVars>>
    \/ /\ part = "sockets" /\ Registry!Next
       /\ UNCHANGED <<part, workerVars, keyVars, authVars, processVars>>
    \/ /\ part = "process" /\ Process!Next
       /\ UNCHANGED <<part, workerVars, keyVars, authVars, socketVars>>

LiveSpec == LiveInit /\ [][LiveNext]_<<part, workerVars, requestVars>>

-----------------------------------------------------------------------------
(* Properties                                                              *)

\* Every request that arrives is answered: nobody waits for ever for a key whose attempt
\* died, nor for the seats a batch of the waitlist has locked.
RequestsEnd ==
    /\ part = "keys" /\ Keyed!Fairness => Keyed!RequestsEnd
    /\ part = "batches" /\ Batches!Fairness => Batches!RequestsEnd

\* auth.service.ts: a refresh is always answered, whatever other refreshes, sweeps and
\* logouts do with the same rows.
RefreshSettles == part = "auth" /\ Auth!Fairness => Auth!RefreshSettles

\* reconcileExpiryKeys: a key that Redis lost is back before its hold lapses.
KeysRestored == part = "signals" /\ Signals!Fairness => Signals!KeysRestored

\* The outboxes of the ticket e-mails and of the seat status drain: every row is
\* processed, over crashes, refusals and lost answers.
OutboxesDrain ==
    /\ part = "tickets" /\ Tickets!Fairness => Tickets!MailArrives
    /\ part = "feed" /\ Feed!Fairness => Feed!RowsRetired

\* waitlist-allocation.worker.ts: every batch ends, in spite of lost races, deadlocks and
\* customers that keep coming.
BatchesEnd == part = "batches" /\ Batches!Fairness => Batches!BatchesEnd

\* server.ts and heartbeat: a shutdown ends whatever hangs, and a peer that vanished
\* without closing is dropped.
NothingHangs ==
    /\ part = "process" /\ Process!Fairness => Process!ShutdownEnds
    /\ part = "sockets" /\ Registry!Fairness => Registry!DeadPeersDropped
=============================================================================
