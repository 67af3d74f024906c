---------------------------- MODULE ExpirySignal ----------------------------
(***************************************************************************)
(* The expiry signal of a hold: the hold_expiration_outbox row written     *)
(* with the hold, the workers that turn it into a Redis key with a TTL,    *)
(* the sweep that removes the key, and the reconcile loop that puts back   *)
(* what Redis lost.                                                        *)
(*                                                                         *)
(* A publish pass is one PostgreSQL transaction with a Redis command       *)
(* between its statements: what it wrote to Redis stays when the           *)
(* transaction is lost.  now() is fixed when the transaction begins, so a  *)
(* TTL may be used later than it was computed.  One hold has one outbox    *)
(* row (hold_id is unique), so rows are named by their holds.              *)
(***************************************************************************)
EXTENDS Integers, FiniteSets, FiniteSetsExt

CONSTANTS Holds,
          Publishers,      \* the publish loops of the expiry workers
          Reconcilers,     \* their reconcile loops
          HoldTtl,         \* HOLD_TTL_SECONDS, in ticks
          BatchSize,       \* OUTBOX_BATCH_SIZE, RECONCILE_BATCH_SIZE
          Window,          \* RECONCILE_WINDOW_SECONDS
          RetryBase, RetryMax,
          MaxTime,         \* bound: the clock stops here
          MaxAttempts,     \* bound: attempts are counted up to here
          MaxLosses        \* bound: how often Redis loses its keys

SignalAssumption ==
    /\ {HoldTtl, BatchSize, Window, RetryBase, RetryMax, MaxAttempts} \subseteq Nat \ {0}
    /\ {MaxTime, MaxLosses} \subseteq Nat
    \* enough doublings that the cap on the delay is reached
    /\ RetryBase * 2^MaxAttempts >= RetryMax

VARIABLES now,             \* PostgreSQL's clock
          hold,            \* reservation_holds.status: "none", "active" or "ended"
          expiresAt,
          row,             \* hold_expiration_outbox: "none", "pending" or "processed"
          availableAt, attempts,
          keyUntil,        \* when Redis drops the hold's key; 0 without a key
          losses,          \* how often Redis has lost its keys
          lost,            \* history: holds whose key Redis lost since it was written
          batch,           \* rows a publisher has claimed, locked, and not yet attempted
          began,           \* now() of its publish transaction
          sent, failed,    \* what the transaction has written and not committed
          looking,         \* holds its reconcile pass still has to examine
          lookedAt,        \* now() of the query that found them
          absent,          \* the hold whose key EXISTS did not find
          cleanup          \* holds that sweeps have expired and whose keys they will delete

outbox == <<row, availableAt, attempts>>
redis  == <<keyUntil, losses, lost>>
pass   == <<batch, began, sent, failed>>
look   == <<looking, lookedAt, absent>>
vars   == <<now, hold, expiresAt, outbox, redis, pass, look, cleanup>>

HoldStatus == {"none", "active", "ended"}
RowStatus  == {"none", "pending", "processed"}

TypeOK ==
    /\ now \in 0..MaxTime
    /\ hold \in [Holds -> HoldStatus]
    /\ row \in [Holds -> RowStatus]
    /\ attempts \in [Holds -> 0..MaxAttempts]
    /\ expiresAt \in [Holds -> Nat] /\ availableAt \in [Holds -> Nat]
    /\ keyUntil \in [Holds -> Nat] /\ losses \in 0..MaxLosses /\ lost \subseteq Holds
    /\ {batch, sent, failed} \subseteq [Publishers -> SUBSET Holds]
    /\ {looking, absent} \subseteq [Reconcilers -> SUBSET Holds]
    /\ began \in [Publishers -> 0..MaxTime] /\ lookedAt \in [Reconcilers -> 0..MaxTime]
    /\ cleanup \subseteq Holds

Init ==
    /\ now = 0
    /\ hold = [h \in Holds |-> "none"]
    /\ row = [h \in Holds |-> "none"]
    /\ expiresAt = [h \in Holds |-> 0]
    /\ availableAt = [h \in Holds |-> 0]
    /\ attempts = [h \in Holds |-> 0]
    /\ keyUntil = [h \in Holds |-> 0]
    /\ losses = 0 /\ lost = {}
    /\ batch = [w \in Publishers |-> {}] /\ began = [w \in Publishers |-> 0]
    /\ sent = [w \in Publishers |-> {}] /\ failed = [w \in Publishers |-> {}]
    /\ looking = [w \in Reconcilers |-> {}] /\ lookedAt = [w \in Reconcilers |-> 0]
    /\ absent = [w \in Reconcilers |-> {}]
    /\ cleanup = {}

-----------------------------------------------------------------------------
(* The clock and Redis *)

HasKey(h) == keyUntil[h] # 0

\* Time passes, and Redis drops the keys whose TTL has run out.
Tick ==
    /\ now < MaxTime
    /\ now' = now + 1
    /\ keyUntil' = [h \in Holds |-> IF keyUntil[h] > now + 1 THEN keyUntil[h] ELSE 0]
    /\ UNCHANGED <<hold, expiresAt, outbox, losses, lost, pass, look, cleanup>>

\* Redis is flushed, restarted without persistence, or fails over to an empty replica.
LoseKeys ==
    /\ losses < MaxLosses
    /\ losses' = losses + 1
    /\ lost' = lost \cup {h \in Holds : HasKey(h)}
    /\ keyUntil' = [h \in Holds |-> 0]
    /\ UNCHANGED <<now, hold, expiresAt, outbox, pass, look, cleanup>>

\* For the mutants: a TTL computed by a worker whose clock is fast.
TtlFast(until, at) == Max({1, until - at - 1})

\* GREATEST(1, CEIL(expires_at - now())): Redis refuses a TTL of zero.
Ttl(until, at) == Max({1, until - at})

\* SET key holdId EX ttl, the TTL as computed at the time `at`.
writeExpiryKey(h, at) ==
    /\ keyUntil' = [keyUntil EXCEPT ![h] = now + Ttl(expiresAt[h], at)]
    /\ lost' = lost \ {h}
    /\ UNCHANGED losses

\* DEL key.
DeleteKey(h) ==
    /\ keyUntil' = [keyUntil EXCEPT ![h] = 0]
    /\ lost' = lost \ {h}
    /\ UNCHANGED losses

-----------------------------------------------------------------------------
(* Holds *)

\* insertHold and enqueueHoldExpiration, one transaction.  Bound: the hold lapses
\* before the clock stops.
createHold(h) ==
    /\ hold[h] = "none"
    /\ now + HoldTtl <= MaxTime
    /\ hold' = [hold EXCEPT ![h] = "active"]
    /\ expiresAt' = [expiresAt EXCEPT ![h] = now + HoldTtl]
    /\ row' = [row EXCEPT ![h] = "pending"]
    /\ availableAt' = [availableAt EXCEPT ![h] = now]
    /\ UNCHANGED <<now, attempts, redis, pass, look, cleanup>>

\* Confirmed, cancelled or reclaimed: the key is left to lapse by itself.
EndHold(h) ==
    /\ hold[h] = "active"
    /\ hold' = [hold EXCEPT ![h] = "ended"]
    /\ UNCHANGED <<now, expiresAt, outbox, redis, pass, look, cleanup>>

\* sweepExpiredHolds: the hold is expired in a transaction of its own ...
Sweep(h) ==
    /\ hold[h] = "active" /\ expiresAt[h] <= now
    /\ hold' = [hold EXCEPT ![h] = "ended"]
    /\ cleanup' = cleanup \cup {h}
    /\ UNCHANGED <<now, expiresAt, outbox, redis, pass, look>>

\* ... and only then is its key deleted.  A failing command is swallowed, and a
\* worker that dies here never comes back to it.
deleteExpiryKey(h) ==
    /\ h \in cleanup
    /\ DeleteKey(h) \/ UNCHANGED redis
    /\ cleanup' = cleanup \ {h}
    /\ UNCHANGED <<now, hold, expiresAt, outbox, pass, look>>

-----------------------------------------------------------------------------
(* The publish pass *)

LockedRows == UNION {batch[w] \cup sent[w] \cup failed[w] : w \in Publishers}

Claimable == {h \in Holds : row[h] = "pending" /\ availableAt[h] <= now} \ LockedRows

\* The first `n` of a set by time, ties broken either way.
FirstBy(S, time, n) ==
    {T \in SUBSET S :
        /\ Cardinality(T) = Min({n, Cardinality(S)})
        /\ \A h \in T, g \in S \ T : time[h] <= time[g]}

\* ORDER BY available_at LIMIT $1 FOR UPDATE SKIP LOCKED.
claimPendingOutboxRows(w) ==
    /\ batch[w] \cup sent[w] \cup failed[w] = {}
    /\ Claimable # {}
    /\ \E T \in FirstBy(Claimable, availableAt, BatchSize) : batch' = [batch EXCEPT ![w] = T]
    /\ began' = [began EXCEPT ![w] = now]
    /\ UNCHANGED <<now, hold, expiresAt, outbox, redis, sent, failed, look, cleanup>>

\* For the mutants: the row is marked before the key is written, and a failure of
\* Redis is only logged.
PublishMarkedFirst(w, h) ==
    /\ h \in batch[w]
    /\ batch' = [batch EXCEPT ![w] = @ \ {h}]
    /\ sent' = [sent EXCEPT ![w] = @ \cup {h}]
    /\ writeExpiryKey(h, began[w]) \/ UNCHANGED redis
    /\ UNCHANGED <<now, hold, expiresAt, outbox, began, failed, look, cleanup>>

\* Redis takes the key, and the row is marked in the open transaction.
Publish(w, h) ==
    /\ h \in batch[w]
    /\ batch' = [batch EXCEPT ![w] = @ \ {h}]
    /\ sent' = [sent EXCEPT ![w] = @ \cup {h}]
    /\ writeExpiryKey(h, began[w])
    /\ UNCHANGED <<now, hold, expiresAt, outbox, began, failed, look, cleanup>>

\* LEAST(retryMax, retryBase * 2^attempts).
Backoff(n) == Min({RetryMax, RetryBase * 2^n})

\* Redis refuses, or takes the key and loses the answer: recordOutboxFailure.  Bound:
\* no failure whose retry would come after the clock has stopped.
PublishFails(w, h) ==
    /\ h \in batch[w]
    /\ began[w] + Backoff(attempts[h]) <= MaxTime
    /\ batch' = [batch EXCEPT ![w] = @ \ {h}]
    /\ failed' = [failed EXCEPT ![w] = @ \cup {h}]
    /\ writeExpiryKey(h, began[w]) \/ UNCHANGED redis
    /\ UNCHANGED <<now, hold, expiresAt, outbox, began, sent, look, cleanup>>

\* COMMIT: markOutboxProcessed and recordOutboxFailure of the whole batch.
CommitPass(w) ==
    /\ batch[w] = {} /\ sent[w] \cup failed[w] # {}
    /\ row' = [h \in Holds |-> IF h \in sent[w] THEN "processed" ELSE row[h]]
    /\ availableAt' = [h \in Holds |-> IF h \in failed[w]
                                       THEN began[w] + Backoff(attempts[h])
                                       ELSE availableAt[h]]
    /\ attempts' = [h \in Holds |-> IF h \in failed[w]
                                    THEN Min({attempts[h] + 1, MaxAttempts})
                                    ELSE attempts[h]]
    /\ sent' = [sent EXCEPT ![w] = {}] /\ failed' = [failed EXCEPT ![w] = {}]
    /\ began' = [began EXCEPT ![w] = 0]
    /\ UNCHANGED <<now, hold, expiresAt, redis, batch, look, cleanup>>

\* The worker is killed, or PostgreSQL drops its connection: ROLLBACK.
CrashPass(w) ==
    /\ batch[w] \cup sent[w] \cup failed[w] # {}
    /\ batch' = [batch EXCEPT ![w] = {}]
    /\ sent' = [sent EXCEPT ![w] = {}] /\ failed' = [failed EXCEPT ![w] = {}]
    /\ began' = [began EXCEPT ![w] = 0]
    /\ UNCHANGED <<now, hold, expiresAt, outbox, redis, look, cleanup>>

-----------------------------------------------------------------------------
(* The reconcile pass *)

Live(h) == hold[h] = "active" /\ expiresAt[h] > now

\* findActiveHoldsExpiringWithin, a read-only transaction.
Look(w) ==
    /\ looking[w] \cup absent[w] = {}
    /\ LET due == {h \in Holds : Live(h) /\ expiresAt[h] <= now + Window}
       IN  /\ due # {}
           /\ \E T \in FirstBy(due, expiresAt, BatchSize) : looking' = [looking EXCEPT ![w] = T]
    /\ lookedAt' = [lookedAt EXCEPT ![w] = now]
    /\ UNCHANGED <<now, hold, expiresAt, outbox, redis, pass, absent, cleanup>>

\* For the mutants: the answer of EXISTS taken the other way round.
CheckKeyInverted(w, h) ==
    /\ h \in looking[w] /\ absent[w] = {}
    /\ looking' = [looking EXCEPT ![w] = @ \ {h}]
    /\ absent' = [absent EXCEPT ![w] = IF HasKey(h) THEN {h} ELSE {}]
    /\ UNCHANGED <<now, hold, expiresAt, outbox, redis, pass, lookedAt, cleanup>>

\* EXISTS: a key that is there is left alone.
CheckKey(w, h) ==
    /\ h \in looking[w] /\ absent[w] = {}
    /\ looking' = [looking EXCEPT ![w] = @ \ {h}]
    /\ absent' = [absent EXCEPT ![w] = IF HasKey(h) THEN {} ELSE {h}]
    /\ UNCHANGED <<now, hold, expiresAt, outbox, redis, pass, lookedAt, cleanup>>

\* The missing key is written again; an error ends the pass.
RestoreKey(w) ==
    /\ \E h \in absent[w] : writeExpiryKey(h, lookedAt[w])
    /\ absent' = [absent EXCEPT ![w] = {}]
    /\ UNCHANGED <<now, hold, expiresAt, outbox, pass, looking, lookedAt, cleanup>>

\* The pass ends early: Redis fails, or the worker dies.
LookFails(w) ==
    /\ looking[w] \cup absent[w] # {}
    /\ absent' = [absent EXCEPT ![w] = {}]
    /\ looking' = [looking EXCEPT ![w] = {}]
    /\ UNCHANGED <<now, hold, expiresAt, outbox, redis, pass, lookedAt, cleanup>>

-----------------------------------------------------------------------------

PublishStep(w) ==
    \/ claimPendingOutboxRows(w)
    \/ \E h \in Holds : Publish(w, h) \/ PublishFails(w, h)
    \/ CommitPass(w)

ReconcileStep(w) == Look(w) \/ RestoreKey(w) \/ \E h \in Holds : CheckKey(w, h)

Next ==
    \/ Tick \/ LoseKeys
    \/ \E h \in Holds : createHold(h) \/ EndHold(h) \/ Sweep(h) \/ deleteExpiryKey(h)
    \/ \E w \in Publishers : PublishStep(w) \/ CrashPass(w)
    \/ \E w \in Reconcilers : ReconcileStep(w) \/ LookFails(w)

Spec == Init /\ [][Next]_vars

\* The reconcile loops keep running.  Crashes and Redis errors may happen for ever, but
\* not to the exclusion of everything else.  Nothing here may wait for the clock: a hold
\* that lapses needs no key.
Fairness ==
    \A w \in Reconcilers :
        /\ WF_vars(ReconcileStep(w)) /\ SF_vars(RestoreKey(w))
        /\ \A h \in Holds : SF_vars(CheckKey(w, h))

-----------------------------------------------------------------------------
(* Properties *)

\* expiration.service.ts, writeExpiryKey: the key of a hold never lapses before the
\* hold, whoever wrote it, however long after the TTL was computed, and although two
\* workers and a reconcile pass may write it with different TTLs.
KeyNeverEarly ==
    \A h \in Holds : keyUntil[h] # 0 => keyUntil[h] >= expiresAt[h]

\* "The outbox closes the window between committing a hold and publishing its signal":
\* a live hold without a key has a row that will still be published, unless it was
\* Redis that lost the key.
NoSignalForgotten ==
    \A h \in Holds : Live(h) /\ ~HasKey(h) => row[h] = "pending" \/ h \in lost

\* The key of a hold is there when it should be and does not go before it should.
SignalSound == TypeOK /\ KeyNeverEarly /\ NoSignalForgotten

\* reconcileExpiryKeys: a lost key comes back well before its hold lapses: as soon as
\* the hold is in the look-ahead window, without waiting for time to pass.  (Should
\* more live holds than a batch be in the window, the first of them have to lapse.)
KeysRestored ==
    \A h \in Holds :
        h \in lost /\ expiresAt[h] <= now + Window ~> HasKey(h) \/ ~Live(h)
=============================================================================
