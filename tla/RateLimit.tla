----------------------------- MODULE RateLimit -----------------------------
(***************************************************************************)
(* src/modules/rate-limit and src/middleware/rate-limit.ts: fixed-window   *)
(* counters in Redis, shared by every API process.  A process keeps        *)
(* nothing, and what it does with an answer touches nothing shared, so one *)
(* request is one step: counted and answered, counted with the answer      *)
(* lost, or not counted.                                                   *)
(*                                                                         *)
(* The histories index what happened by who asked and how long ago, never  *)
(* by key: the properties speak of callers.                                *)
(***************************************************************************)
EXTENDS Naturals, FiniteSets, FiniteSetsExt

CONSTANTS Policies,    \* the routes' policies
          Source,      \* IdentifierSource of each
          Callers,     \* records of ip, email and user
          Canonical,   \* the trimmed, lower-case form of an e-mail address
          Limit, Window  \* policy.max, policy.windowSeconds

RateLimitAssumption ==
    /\ Limit \in Nat \ {0} /\ Window \in Nat \ {0}
    /\ IsFiniteSet(Callers)
    /\ Source \in [Policies -> {"ip", "email-and-ip", "user"}]

VARIABLES count,     \* the value at a key; 0 when there is none
          ttl,       \* its remaining time
          up,        \* Redis answers
          served,    \* history: requests let through, by policy, caller and age
          counted,   \* history: requests Redis has counted
          last       \* history: the last answer

vars == <<count, ttl, up, served, counted, last>>

\* For the mutants: everybody behind one address is one.
resolveIdentifierIp(p, c) == <<c.ip>>

\* resolveIdentifier and identifierDigest.
resolveIdentifier(p, c) ==
    CASE Source[p] = "ip"   -> <<c.ip>>
      [] Source[p] = "user" -> <<c.user>>
      [] OTHER              -> <<Canonical[c.email], c.ip>>

rateLimitKey(p, c) == <<p, resolveIdentifier(p, c)>>

Counters == {rateLimitKey(p, c) : p \in Policies, c \in Callers}
Ages == 0..(Window - 1)
None == [policy |-> "none"]

TypeOK ==
    /\ count \in [Counters -> 0..(Limit + 1)]
    /\ ttl \in [Counters -> 0..Window]
    /\ up \in BOOLEAN
    /\ served \in [Policies \X Callers -> [Ages -> 0..(2 * Limit + 1)]]
    /\ counted \in [Policies \X Callers -> [Ages -> 0..(Limit + 1)]]
    /\ \/ last = None
       \/ last \in [policy : Policies, caller : Callers, status : {200, 429, 503}]

Init ==
    /\ count = [k \in Counters |-> 0] /\ ttl = [k \in Counters |-> 0]
    /\ up = TRUE
    /\ served = [x \in Policies \X Callers |-> [a \in Ages |-> 0]]
    /\ counted = served
    /\ last = None

-----------------------------------------------------------------------------

\* INCR; a count past the limit is as good as any larger one.
Incremented(k) == Min({count[k] + 1, Limit + 1})

\* For the mutants: INCR and EXPIRE sent one after the other, the second of which may
\* not arrive.
ConsumeInTwoSteps(k) ==
    /\ count' = [count EXCEPT ![k] = Incremented(k)]
    /\ \/ ttl' = [ttl EXCEPT ![k] = IF count[k] = 0 THEN Window ELSE @]
       \/ UNCHANGED ttl

\* The script: INCR, and EXPIRE when it created the key.
CONSUME_SCRIPT(k) ==
    /\ count' = [count EXCEPT ![k] = Incremented(k)]
    /\ ttl' = [ttl EXCEPT ![k] = IF count[k] = 0 THEN Window ELSE @]

Note(history, p, c, cap) == [history EXCEPT ![<<p, c>>][0] = Min({@ + 1, cap})]

Answer(p, c, status) == last' = [policy |-> p, caller |-> c, status |-> status]

\* The limiter answers: `allowed` and next, or RateLimitedError.
consumeRateLimit(p, c) ==
    LET k == rateLimitKey(p, c) IN
    /\ up
    /\ CONSUME_SCRIPT(k)
    /\ counted' = Note(counted, p, c, Limit + 1)
    /\ IF Incremented(k) <= Limit
       THEN Answer(p, c, 200) /\ served' = Note(served, p, c, 2 * Limit + 1)
       ELSE Answer(p, c, 429) /\ UNCHANGED served
    /\ UNCHANGED up

\* For the mutants: a request that cannot be counted is let through.
enforceRateLimitOpen(p, c) ==
    /\ Answer(p, c, 200)
    /\ served' = Note(served, p, c, 2 * Limit + 1)

\* RateLimitUnavailableError, and the policy on it: refused.
enforceRateLimit(p, c) == Answer(p, c, 503) /\ UNCHANGED served

\* Counted, but the connection breaks before the answer.
AnswerLost(p, c) ==
    /\ up
    /\ CONSUME_SCRIPT(rateLimitKey(p, c))
    /\ counted' = Note(counted, p, c, Limit + 1)
    /\ enforceRateLimit(p, c)
    /\ up' = FALSE

\* enableOfflineQueue: false.
NotSent(p, c) ==
    /\ ~up
    /\ enforceRateLimit(p, c)
    /\ UNCHANGED <<count, ttl, up, counted>>

Disconnect == up /\ up' = FALSE /\ UNCHANGED <<count, ttl, served, counted, last>>
Reconnect  == ~up /\ up' = TRUE /\ UNCHANGED <<count, ttl, served, counted, last>>

Older(history) == [x \in DOMAIN history |-> [a \in Ages |-> IF a = 0 THEN 0 ELSE history[x][a - 1]]]

\* A unit of time: a key whose time is up is gone.
Tick ==
    /\ ttl' = [k \in Counters |-> IF ttl[k] = 0 THEN 0 ELSE ttl[k] - 1]
    /\ count' = [k \in Counters |-> IF ttl[k] = 1 THEN 0 ELSE count[k]]
    /\ served' = Older(served) /\ counted' = Older(counted)
    /\ last' = None
    /\ UNCHANGED up

Next ==
    \/ \E p \in Policies, c \in Callers : consumeRateLimit(p, c) \/ AnswerLost(p, c) \/ NotSent(p, c)
    \/ Disconnect \/ Reconnect \/ Tick

Spec == Init /\ [][Next]_vars

-----------------------------------------------------------------------------
(* Properties *)

\* Whether two callers are one to a policy: the same account from the same address at
\* the login, the same address at registration and refresh, the same person at the door.
Same(p, c, d) ==
    CASE Source[p] = "ip"   -> c.ip = d.ip
      [] Source[p] = "user" -> c.user = d.user
      [] OTHER              -> c.ip = d.ip /\ Canonical[c.email] = Canonical[d.email]

\* What a history holds of everyone who is one with a caller.
Total(history, p, c) ==
    MapThenSumSet(LAMBDA x : history[<<p, x[1]>>][x[2]], {d \in Callers : Same(p, c, d)} \X Ages)

\* consumeRateLimit's fixed window: in any stretch as long as a window, wherever it
\* starts, at most twice the limit is let through, in whatever way an address is spelt
\* and whatever becomes of Redis.
BurstBound == \A p \in Policies, c \in Callers : Total(served, p, c) <= 2 * Limit

\* rateLimitKey and the script: who is told "too many requests" has had more than its
\* limit of its own requests counted within the last window, this one included; nobody
\* pays for another caller or another route.
RefusedForReason ==
    last # None /\ last.status = 429 => Total(counted, last.policy, last.caller) > Limit

\* Nobody gets more than the window allows, and nobody is refused less.
LimitsKept == TypeOK /\ BurstBound /\ RefusedForReason
=============================================================================
