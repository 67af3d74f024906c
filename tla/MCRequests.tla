------------------------------ MODULE MCRequests ------------------------------
(***************************************************************************)
(* What stands between a browser and a handler, on small instances:        *)
(* idempotency keys, refresh tokens, rate limits, the WebSocket            *)
(* subscriptions and the life of the process itself.  The parts share no   *)
(* variable, so a behaviour moves the part it was begun for and leaves the *)
(* others in their initial state: every state of each is reached, and no   *)
(* product of them.                                                        *)
(***************************************************************************)
EXTENDS Idempotency, TLC

CONSTANTS Tokens, Lapsing, Tabs, Handlers, NoToken, NoHandler,
          Policies, Source, Callers, Canonical, Limit, Window,
          Events, MaxSubscriptions, MaxAsks, MaxWire,
          Loops, Interval, Timeout, MaxSockets

VARIABLES part,
          row, expired, rotatedFrom, locks, pc, token, minted, todo, session, storage,
          refreshing, leaving, presented, ended,
          count, ttl, redisUp, served, counted, last,
          conn, gone, isAlive, subs, local, asking, linkUp, wire, channels, process, dropped,
          standalone, boot, status, shutting, step, elapsed, running, listening, awaited,
          sockets, task, wake, redis, pool

Auth == INSTANCE SessionsProofs

\* The login, with two spellings of one address and somebody else from the same place.
LimitedBy == [p \in {"login"} |-> "email-and-ip"]
Routes    == DOMAIN LimitedBy
Spelling  == [e \in {"a@x", "A@x", "b@x"} |-> IF e = "A@x" THEN "a@x" ELSE e]
Visitors  == {[ip |-> "i", email |-> e, user |-> "u"] : e \in DOMAIN Spelling}

Limiter == INSTANCE RateLimit WITH up <- redisUp

\* A page opens one socket.
Registry == INSTANCE SubscriptionRegistry WITH Sockets <- Tabs, up <- linkUp

Process == INSTANCE ProcessLifecycle WITH Calls <- Handlers

ASSUME RequestsAssumption ==
    /\ Auth!SessionsAssumption /\ Limiter!RateLimitAssumption
    /\ Registry!RegistryAssumption /\ Process!LifecycleAssumption

\* Pages are interchangeable, and so are the requests inside the server.
RequestsSymmetry == Permutations(Tabs) \cup Permutations(Handlers)

keyVars     == vars
authVars    == <<row, expired, rotatedFrom, locks, pc, token, minted, todo, session,
                 storage, refreshing, leaving, presented, ended>>
limitVars   == <<count, ttl, redisUp, served, counted, last>>
socketVars  == <<conn, gone, isAlive, subs, local, asking, linkUp, wire, channels, process,
                 dropped>>
processVars == <<standalone, boot, status, shutting, step, elapsed, running, listening,
                 awaited, sockets, task, wake, redis, pool>>

PartsInit ==
    /\ part \in {"keys", "auth", "limits", "sockets", "process"}
    /\ Init /\ Auth!Init /\ Limiter!Init /\ Registry!Init /\ Process!Init
    \* one initial state of a part that is not to move
    /\ part # "keys" => \A q, r \in Requests : req[q] = req[r]
    /\ part # "keys" => \A r \in Requests : req[r].key = (CHOOSE k \in Keys : TRUE)
    /\ part # "keys" => \A r \in Requests : req[r].hash = (CHOOSE h \in Hashes : TRUE)
    /\ part # "process" => ~standalone

PartsNext ==
    \/ /\ part = "keys" /\ Next
       /\ UNCHANGED <<part, authVars, limitVars, socketVars, processVars>>
    \/ /\ part = "auth" /\ Auth!Next
       /\ UNCHANGED <<part, keyVars, limitVars, socketVars, processVars>>
    \/ /\ part = "limits" /\ Limiter!Next
       /\ UNCHANGED <<part, keyVars, authVars, socketVars, processVars>>
    \/ /\ part = "sockets" /\ Registry!Next
       /\ UNCHANGED <<part, keyVars, authVars, limitVars, processVars>>
    \/ /\ part = "process" /\ Process!Next
       /\ UNCHANGED <<part, keyVars, authVars, limitVars, socketVars>>

PartsSpec ==
    /\ PartsInit
    /\ [][PartsNext]_<<part, keyVars, authVars, limitVars, socketVars, processVars>>

-----------------------------------------------------------------------------
(* Properties of the parts                                                 *)

\* auth.service.ts, refresh: a token has at most one successor, of the two at most one
\* is live, and no session is left without a live one but by a logout or a reuse.
RotationSound == part = "auth" => Auth!RotationSound

\* api/client.ts: a page never presents one refresh token twice.
PresentedOnce == Auth!PresentedOnce

\* rate-limit.service.ts: at most twice the limit in any window, and a 429 only for
\* requests of one's own.
LimitsKept == part = "limits" => Limiter!LimitsKept

\* subscription-registry.ts: the maps of the registry agree, and Redis is listened to
\* for exactly the events that somebody watches.
RegistrySound == part = "sockets" => Registry!RegistrySound

\* server.ts and the workers' shutdown: nothing is closed under its user, and success
\* is reported only if nothing was cut off.
ShutdownSound == part = "process" => Process!ShutdownSound
=============================================================================
