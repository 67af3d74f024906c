---------------------------- MODULE WorkersProofs ----------------------------
(***************************************************************************)
(* The parts of MCWorkers for any number of workers, holds, seats and      *)
(* clients, each through the specification of its component, which         *)
(* PartsSpec implements.                                                   *)
(***************************************************************************)
EXTENDS MCWorkers, Sequences, FiniteSetTheorems, TLAPS

-----------------------------------------------------------------------------
(* Tickets: the theorem of TicketDeliveryProofs, carried over               *)

\* While another part moves, no ticket does.
LEMMA TicketSpec == PartsSpec => Tickets!Spec
  <1>1. PartsInit => Tickets!Init
    BY DEF PartsInit
  <1>2. [PartsNext]_<<part, signalVars, ticketVars, feedVars, batchVars>>
          => [Tickets!Next]_(Tickets!vars)
    BY DEF PartsNext, ticketVars, Tickets!vars, Tickets!requests, Tickets!mailing
  <1>. QED
    BY <1>1, <1>2, PTL DEF PartsSpec, Tickets!Spec

\* ticket.service.ts and ticket-email.service.ts: in the run's own specification too, a
\* ticket lets one person in and its mail tells of it.
THEOREM TicketsInWorkers == PartsSpec => []TicketSound
  <1>1. Tickets!Spec => []Tickets!TicketSound
    BY WorkersAssumption, Tickets!TicketsAreSound DEF WorkersAssumption
  <1>2. Tickets!TicketSound => TicketSound
    BY DEF TicketSound
  <1>. QED
    BY TicketSpec, <1>1, <1>2, PTL

-----------------------------------------------------------------------------
(* Expiry signals                                                           *)

Created == {h \in Holds : hold[h] # "none"}

\* A transaction's now() is not in the future.
ClocksInv ==
    /\ \A w \in Workers : began[w] <= now
    /\ \A w \in Reconcilers : lookedAt[w] <= now

\* Workers and sweeps only ever work on holds that were created.
CreatedInv ==
    /\ \A h \in Holds : hold[h] = "none" => row[h] = "none" /\ keyUntil[h] = 0
    /\ \A w \in Workers : batch[w] \cup sent[w] \cup failed[w] \subseteq Created
    /\ \A w \in Reconcilers : looking[w] \cup absent[w] \subseteq Created
    /\ \A h \in cleanup : hold[h] = "ended"

\* A live hold has its key, unless Redis lost it or its row is yet to be published by a
\* transaction that has not done so.
PublishedInv ==
    \A h \in Holds : Signals!Live(h) /\ ~Signals!HasKey(h) =>
        h \in lost \/ (row[h] = "pending" /\ \A w \in Workers : h \notin sent[w])

SignalInv ==
    Signals!TypeOK /\ ClocksInv /\ CreatedInv /\ Signals!KeyNeverEarly /\ PublishedInv

LEMMA MaxOfTwo ==
    ASSUME NEW a \in Int, NEW b \in Int
    PROVE  /\ Signals!Max({a, b}) \in {a, b}
           /\ Signals!Max({a, b}) >= a /\ Signals!Max({a, b}) >= b
  <1>1. \E x \in {a, b} : \A y \in {a, b} : x >= y
    <2>1. CASE a >= b
      BY <2>1
    <2>2. CASE b >= a
      BY <2>2
    <2> QED BY <2>1, <2>2
  <1>2. Signals!Max({a, b}) = CHOOSE x \in {a, b} : \A y \in {a, b} : x >= y
    BY DEF Signals!Max
  <1> QED BY <1>1, <1>2

LEMMA MinOfTwo ==
    ASSUME NEW a \in Int, NEW b \in Int
    PROVE  Signals!Min({a, b}) \in {a, b} /\ Signals!Min({a, b}) <= b
  <1>1. \E x \in {a, b} : \A y \in {a, b} : x =< y
    <2>1. CASE a <= b
      BY <2>1
    <2>2. CASE b <= a
      BY <2>2
    <2> QED BY <2>1, <2>2
  <1>2. Signals!Min({a, b}) = CHOOSE x \in {a, b} : \A y \in {a, b} : x =< y
    BY DEF Signals!Min
  <1> QED BY <1>1, <1>2

\* A retry is delayed by a number of ticks.
LEMMA BackoffIsNat ==
    ASSUME NEW n \in Nat
    PROVE  Signals!Backoff(n) \in Nat
  <1>1. 2^n \in Nat
    <2>1. IsFiniteSet(1 .. n) /\ Cardinality(1 .. n) = n
      BY FS_Interval
    <2>2. IsFiniteSet(SUBSET (1 .. n)) /\ Cardinality(SUBSET (1 .. n)) = 2^n
      BY <2>1, FS_SUBSET
    <2> QED BY <2>2, FS_CardinalityType
  <1>2. RetryMax \in Nat /\ RetryBase \in Nat
    BY WorkersAssumption DEF WorkersAssumption, Signals!SignalAssumption
  <1>3. RetryBase * 2^n \in Nat
    BY <1>1, <1>2
  <1> DEFINE uncapped == RetryBase * 2^n
  <1>4. Signals!Backoff(n) = Signals!Min({RetryMax, uncapped})
    BY DEF Signals!Backoff
  <1>5. uncapped \in Nat
    BY <1>3
  <1> HIDE DEF uncapped
  <1> QED BY <1>2, <1>4, <1>5, MinOfTwo

\* The TTL that a worker computed at a time that is past now is no shorter than the rest
\* of the hold.
LEMMA WriteMoves ==
    ASSUME Signals!TypeOK, NEW h \in Holds, NEW t \in 0 .. MaxTime, t <= now,
           Signals!writeExpiryKey(h, t)
    PROVE  /\ keyUntil' \in [Holds -> Nat] /\ keyUntil'[h] >= expiresAt[h] /\ keyUntil'[h] # 0
           /\ \A g \in Holds : g # h => keyUntil'[g] = keyUntil[g]
           /\ lost' = lost \ {h} /\ losses' = losses
  <1> DEFINE ttl == Signals!Ttl(expiresAt[h], t)
  <1>1. /\ keyUntil \in [Holds -> Nat] /\ expiresAt[h] \in Nat /\ now \in 0 .. MaxTime
        /\ MaxTime \in Nat
    BY WorkersAssumption DEF Signals!TypeOK, WorkersAssumption, Signals!SignalAssumption
  <1>2. ttl \in {1, expiresAt[h] - t} /\ ttl >= 1 /\ ttl >= expiresAt[h] - t
    <2> DEFINE rest == expiresAt[h] - t
    <2>1. rest \in Int
      BY <1>1
    <2>2. ttl = Signals!Max({1, rest})
      BY DEF Signals!Ttl
    <2> HIDE DEF rest, ttl
    <2>3. ttl \in {1, rest} /\ ttl >= 1 /\ ttl >= rest
      BY <2>1, <2>2, MaxOfTwo
    <2> QED BY <2>3 DEF rest
  <1>3. keyUntil' = [keyUntil EXCEPT ![h] = now + ttl] /\ lost' = lost \ {h} /\ losses' = losses
    BY DEF Signals!writeExpiryKey
  <1> HIDE DEF ttl
  <1>4. now + ttl \in Nat /\ now + ttl >= expiresAt[h] /\ now + ttl # 0
    BY <1>1, <1>2
  <1> QED BY <1>1, <1>3, <1>4

LEMMA SignalInit == PartsInit => SignalInv
  <1> SUFFICES ASSUME Signals!Init PROVE SignalInv
    BY DEF PartsInit
  <1>1. {MaxTime, MaxLosses, MaxAttempts} \subseteq Nat
    BY WorkersAssumption DEF WorkersAssumption, Signals!SignalAssumption
  <1>2. Signals!TypeOK
    BY <1>1 DEF Signals!Init, Signals!TypeOK, Signals!HoldStatus, Signals!RowStatus
  <1>3. ClocksInv /\ CreatedInv /\ Signals!KeyNeverEarly /\ PublishedInv
    BY <1>1
    DEF Signals!Init, ClocksInv, CreatedInv, Signals!KeyNeverEarly, PublishedInv, Signals!Live
  <1> QED BY <1>2, <1>3 DEF SignalInv

\* The clock, Redis and the holds themselves.
LEMMA HoldsKeep ==
    ASSUME SignalInv,
           \/ Signals!Tick \/ Signals!LoseKeys
           \/ \E h \in Holds : \/ Signals!createHold(h) \/ Signals!EndHold(h) \/ Signals!Sweep(h)
                               \/ Signals!deleteExpiryKey(h)
    PROVE  SignalInv'
  <1>1. {MaxTime, MaxLosses, MaxAttempts, HoldTtl} \subseteq Nat
    BY WorkersAssumption DEF WorkersAssumption, Signals!SignalAssumption
  <1>2. CASE Signals!Tick
    <2>1. /\ now < MaxTime /\ now' = now + 1
          /\ keyUntil' = [h \in Holds |-> IF keyUntil[h] > now + 1 THEN keyUntil[h] ELSE 0]
          /\ UNCHANGED <<hold, expiresAt, row, availableAt, attempts, losses, lost, batch, began,
                         sent, failed, looking, lookedAt, absent, cleanup>>
      BY <1>2 DEF Signals!Tick, Signals!outbox, Signals!pass, Signals!look
    <2>2. now' \in 0 .. MaxTime /\ now \in Nat
      BY <1>1, <2>1 DEF SignalInv, Signals!TypeOK
    <2>3. keyUntil' \in [Holds -> Nat]
      BY <2>1 DEF SignalInv, Signals!TypeOK
    <2>4. Signals!TypeOK'
      BY <2>1, <2>2, <2>3 DEF SignalInv, Signals!TypeOK
    <2>5. ClocksInv'
      BY <2>1, <2>2 DEF SignalInv, Signals!TypeOK, ClocksInv
    <2>6. CreatedInv'
      BY <2>1 DEF SignalInv, CreatedInv, Created
    <2>7. Signals!KeyNeverEarly'
      BY <2>1 DEF SignalInv, Signals!KeyNeverEarly, Signals!TypeOK
    <2>8. PublishedInv'
      BY <2>1, <2>2
      DEF SignalInv, PublishedInv, Signals!Live, Signals!HasKey, Signals!TypeOK, Signals!KeyNeverEarly
    <2> QED BY <2>4, <2>5, <2>6, <2>7, <2>8 DEF SignalInv
  <1>3. CASE Signals!LoseKeys
    <2>1. /\ losses < MaxLosses /\ losses' = losses + 1
          /\ lost' = lost \cup {h \in Holds : Signals!HasKey(h)}
          /\ keyUntil' = [h \in Holds |-> 0]
          /\ UNCHANGED <<now, hold, expiresAt, row, availableAt, attempts, batch, began,
                         sent, failed, looking, lookedAt, absent, cleanup>>
      BY <1>3 DEF Signals!LoseKeys, Signals!outbox, Signals!pass, Signals!look
    <2>2. losses' \in 0 .. MaxLosses /\ keyUntil' \in [Holds -> Nat]
      BY <1>1, <2>1 DEF SignalInv, Signals!TypeOK
    <2>3. Signals!TypeOK'
      BY <2>1, <2>2 DEF SignalInv, Signals!TypeOK
    <2>4. ClocksInv' /\ CreatedInv' /\ Signals!KeyNeverEarly'
      BY <2>1 DEF SignalInv, ClocksInv, CreatedInv, Created, Signals!KeyNeverEarly
    <2>5. PublishedInv'
      BY <2>1 DEF SignalInv, PublishedInv, Signals!Live, Signals!HasKey
    <2> QED BY <2>3, <2>4, <2>5 DEF SignalInv
  <1>4. ASSUME NEW h \in Holds, Signals!createHold(h) PROVE SignalInv'
    <2>1. /\ hold[h] = "none"
          /\ hold' = [hold EXCEPT ![h] = "active"]
          /\ expiresAt' = [expiresAt EXCEPT ![h] = now + HoldTtl]
          /\ row' = [row EXCEPT ![h] = "pending"]
          /\ availableAt' = [availableAt EXCEPT ![h] = now]
          /\ UNCHANGED <<now, attempts, keyUntil, losses, lost, batch, began,
                         sent, failed, looking, lookedAt, absent, cleanup>>
      BY <1>4 DEF Signals!createHold, Signals!redis, Signals!pass, Signals!look
    <2>2. now \in Nat /\ now + HoldTtl \in Nat
      BY <1>1 DEF SignalInv, Signals!TypeOK
    <2>3. Signals!TypeOK'
      BY <2>1, <2>2 DEF SignalInv, Signals!TypeOK, Signals!HoldStatus, Signals!RowStatus
    <2>4. keyUntil[h] = 0 /\ \A w \in Workers : h \notin sent[w]
      BY <2>1 DEF SignalInv, CreatedInv, Created
    <2>5. \A g \in Holds : g # h => /\ hold'[g] = hold[g] /\ expiresAt'[g] = expiresAt[g]
                                    /\ row'[g] = row[g]
      BY <2>1 DEF SignalInv, Signals!TypeOK
    <2>6. hold'[h] = "active" /\ row'[h] = "pending"
      BY <2>1 DEF SignalInv, Signals!TypeOK
    <2>7. ClocksInv' /\ Signals!KeyNeverEarly'
      BY <2>1, <2>4, <2>5 DEF SignalInv, ClocksInv, Signals!KeyNeverEarly
    <2>8. CreatedInv'
      <3>1. Created \subseteq Created'
        BY <2>5, <2>6 DEF Created
      <3>2. \A g \in cleanup : g # h
        BY <2>1 DEF SignalInv, CreatedInv
      <3> QED BY <2>1, <2>5, <2>6, <3>1, <3>2 DEF SignalInv, CreatedInv, Signals!TypeOK
    <2>9. PublishedInv'
      BY <2>1, <2>4, <2>5, <2>6 DEF SignalInv, PublishedInv, Signals!Live, Signals!HasKey
    <2> QED BY <2>3, <2>7, <2>8, <2>9 DEF SignalInv
  <1>5. ASSUME NEW h \in Holds, Signals!EndHold(h) \/ Signals!Sweep(h) PROVE SignalInv'
    <2>1. /\ hold[h] = "active" /\ hold' = [hold EXCEPT ![h] = "ended"]
          /\ cleanup' \in {cleanup, cleanup \cup {h}}
          /\ UNCHANGED <<now, expiresAt, row, availableAt, attempts, keyUntil, losses, lost, batch,
                         began, sent, failed, looking, lookedAt, absent>>
      BY <1>5
      DEF Signals!EndHold, Signals!Sweep, Signals!outbox, Signals!redis, Signals!pass, Signals!look
    <2>2. Signals!TypeOK'
      BY <2>1 DEF SignalInv, Signals!TypeOK, Signals!HoldStatus
    <2>3. \A g \in Holds : (g # h => hold'[g] = hold[g]) /\ hold'[h] = "ended"
      BY <2>1 DEF SignalInv, Signals!TypeOK
    <2>4. ClocksInv' /\ Signals!KeyNeverEarly'
      BY <2>1 DEF SignalInv, ClocksInv, Signals!KeyNeverEarly
    <2>5. CreatedInv'
      <3>1. Created' = Created
        BY <2>1, <2>3 DEF Created
      <3> QED BY <2>1, <2>3, <3>1 DEF SignalInv, CreatedInv, Signals!TypeOK
    <2>6. PublishedInv'
      BY <2>1, <2>3 DEF SignalInv, PublishedInv, Signals!Live, Signals!HasKey
    <2> QED BY <2>2, <2>4, <2>5, <2>6 DEF SignalInv
  <1>6. ASSUME NEW h \in Holds, Signals!deleteExpiryKey(h) PROVE SignalInv'
    <2>1. /\ h \in cleanup /\ cleanup' = cleanup \ {h}
          /\ \/ keyUntil' = keyUntil /\ lost' = lost
             \/ keyUntil' = [keyUntil EXCEPT ![h] = 0] /\ lost' = lost \ {h}
          /\ UNCHANGED <<now, hold, expiresAt, row, availableAt, attempts, losses, batch,
                         began, sent, failed, looking, lookedAt, absent>>
      BY <1>6
      DEF Signals!deleteExpiryKey, Signals!DeleteKey, Signals!outbox, Signals!redis, Signals!pass,
          Signals!look
    <2>2. hold[h] = "ended"
      BY <2>1 DEF SignalInv, CreatedInv
    <2>3. Signals!TypeOK'
      BY <2>1 DEF SignalInv, Signals!TypeOK
    <2>4. \A g \in Holds : g # h => keyUntil'[g] = keyUntil[g] /\ (g \in lost => g \in lost')
      BY <2>1 DEF SignalInv, Signals!TypeOK
    <2>5. keyUntil'[h] \in {0, keyUntil[h]}
      BY <2>1 DEF SignalInv, Signals!TypeOK
    <2>6. ClocksInv' /\ CreatedInv' /\ Signals!KeyNeverEarly'
      BY <2>1, <2>4, <2>5 DEF SignalInv, ClocksInv, CreatedInv, Created, Signals!KeyNeverEarly
    <2>7. PublishedInv'
      BY <2>1, <2>2, <2>4 DEF SignalInv, PublishedInv, Signals!Live, Signals!HasKey
    <2> QED BY <2>3, <2>6, <2>7 DEF SignalInv
  <1> QED BY <1>2, <1>3, <1>4, <1>5, <1>6

\* Whoever writes a key that is not too early, of a hold that was created, may do so.
LEMMA WriteKeeps ==
    ASSUME SignalInv, NEW h \in Created, NEW t \in 0 .. MaxTime, t <= now,
           \/ Signals!writeExpiryKey(h, t)
           \/ keyUntil' = keyUntil /\ losses' = losses /\ lost' = lost,
           hold' = hold, expiresAt' = expiresAt
    PROVE  /\ keyUntil' \in [Holds -> Nat] /\ losses' \in 0 .. MaxLosses /\ lost' \subseteq Holds
           /\ \A g \in Holds : hold[g] = "none" => keyUntil'[g] = 0
           /\ Signals!KeyNeverEarly'
           /\ \A g \in Holds : ~Signals!HasKey(g)' => ~Signals!HasKey(g) /\ (g \in lost => g \in lost')
           /\ Signals!writeExpiryKey(h, t) => Signals!HasKey(h)'
  <1>1. h \in Holds /\ hold[h] # "none" /\ Signals!TypeOK
    BY DEF Created, SignalInv
  <1>2. CASE Signals!writeExpiryKey(h, t)
    <2>1. /\ keyUntil' \in [Holds -> Nat] /\ keyUntil'[h] >= expiresAt[h] /\ keyUntil'[h] # 0
          /\ \A g \in Holds : g # h => keyUntil'[g] = keyUntil[g]
          /\ lost' = lost \ {h} /\ losses' = losses
      BY <1>1, <1>2, WriteMoves
    <2> QED BY <1>1, <2>1
         DEF SignalInv, CreatedInv, Signals!KeyNeverEarly, Signals!HasKey, Signals!TypeOK
  <1>3. CASE ~Signals!writeExpiryKey(h, t) /\ keyUntil' = keyUntil /\ losses' = losses /\ lost' = lost
    BY <1>1, <1>3 DEF SignalInv, CreatedInv, Signals!KeyNeverEarly, Signals!HasKey, Signals!TypeOK
  <1> QED BY <1>2, <1>3

\* The publish loop.
LEMMA PublishKeeps ==
    ASSUME SignalInv, NEW w \in Workers, Signals!PublishStep(w) \/ Signals!CrashPass(w)
    PROVE  SignalInv'
  <1>1. /\ batch \in [Workers -> SUBSET Holds] /\ sent \in [Workers -> SUBSET Holds]
        /\ failed \in [Workers -> SUBSET Holds] /\ began \in [Workers -> 0 .. MaxTime]
        /\ now \in 0 .. MaxTime /\ MaxTime \in Nat /\ MaxAttempts \in Nat
        /\ attempts \in [Holds -> 0 .. MaxAttempts] /\ availableAt \in [Holds -> Nat]
        /\ Signals!TypeOK
    BY WorkersAssumption DEF WorkersAssumption, Signals!SignalAssumption, SignalInv, Signals!TypeOK
  <1>2. CASE Signals!claimPendingOutboxRows(w)
    <2>1. PICK T \in Signals!FirstBy(Signals!Claimable, availableAt, BatchSize) :
            batch' = [batch EXCEPT ![w] = T]
      BY <1>2 DEF Signals!claimPendingOutboxRows
    <2>2. /\ began' = [began EXCEPT ![w] = now]
          /\ UNCHANGED <<now, hold, expiresAt, row, availableAt, attempts, keyUntil, losses, lost,
                         sent, failed, looking, lookedAt, absent, cleanup>>
      BY <1>2 DEF Signals!claimPendingOutboxRows, Signals!outbox, Signals!redis, Signals!look
    <2>3. T \subseteq Holds /\ \A h \in T : row[h] = "pending"
      BY <2>1 DEF Signals!FirstBy, Signals!Claimable
    <2>4. T \subseteq Created
      BY <2>3 DEF SignalInv, CreatedInv, Created
    <2>5. began' \in [Workers -> 0 .. MaxTime] /\ batch' \in [Workers -> SUBSET Holds]
      BY <1>1, <2>1, <2>2, <2>3
    <2>6. Signals!TypeOK'
      BY <2>2, <2>5, <1>1 DEF Signals!TypeOK
    <2>7. ClocksInv'
      BY <1>1, <2>2 DEF SignalInv, ClocksInv
    <2>8. \A v \in Workers : batch'[v] \subseteq batch[v] \cup Created
      BY <1>1, <2>1, <2>4
    <2>9. CreatedInv' /\ Signals!KeyNeverEarly'
      BY <2>2, <2>8 DEF SignalInv, CreatedInv, Created, Signals!KeyNeverEarly
    <2>10. PublishedInv'
      BY <2>2 DEF SignalInv, PublishedInv, Signals!Live, Signals!HasKey
    <2> QED BY <2>6, <2>7, <2>9, <2>10 DEF SignalInv
  <1>3. ASSUME NEW h \in Holds, Signals!Publish(w, h) \/ Signals!PublishFails(w, h)
        PROVE  SignalInv'
    <2>1. /\ h \in batch[w] /\ batch' = [batch EXCEPT ![w] = @ \ {h}]
          /\ \/ /\ Signals!writeExpiryKey(h, began[w])
                /\ sent' = [sent EXCEPT ![w] = @ \cup {h}] /\ failed' = failed
             \/ /\ \/ Signals!writeExpiryKey(h, began[w])
                   \/ keyUntil' = keyUntil /\ losses' = losses /\ lost' = lost
                /\ sent' = sent /\ failed' = [failed EXCEPT ![w] = @ \cup {h}]
          /\ UNCHANGED <<now, hold, expiresAt, row, availableAt, attempts, began,
                         looking, lookedAt, absent, cleanup>>
      BY <1>3 DEF Signals!Publish, Signals!PublishFails, Signals!outbox, Signals!look, Signals!redis
    <2>2. h \in Created /\ began[w] \in 0 .. MaxTime /\ began[w] <= now
      BY <1>1, <2>1 DEF SignalInv, CreatedInv, ClocksInv
    <2>3. /\ keyUntil' \in [Holds -> Nat] /\ losses' \in 0 .. MaxLosses /\ lost' \subseteq Holds
          /\ \A g \in Holds : hold[g] = "none" => keyUntil'[g] = 0
          /\ Signals!KeyNeverEarly'
          /\ \A g \in Holds : ~Signals!HasKey(g)' => ~Signals!HasKey(g) /\ (g \in lost => g \in lost')
          /\ Signals!writeExpiryKey(h, began[w]) => Signals!HasKey(h)'
      <3>1. \/ Signals!writeExpiryKey(h, began[w])
            \/ keyUntil' = keyUntil /\ losses' = losses /\ lost' = lost
        BY <2>1
      <3>2. hold' = hold /\ expiresAt' = expiresAt
        BY <2>1
      <3> QED BY <2>2, <3>1, <3>2, WriteKeeps
    <2>4. batch' \in [Workers -> SUBSET Holds] /\ \A v \in Workers : batch'[v] \subseteq batch[v]
      BY <1>1, <2>1
    <2>5. /\ sent' \in [Workers -> SUBSET Holds] /\ failed' \in [Workers -> SUBSET Holds]
          /\ \A v \in Workers : sent'[v] \subseteq sent[v] \cup {h} /\ failed'[v] \subseteq failed[v] \cup {h}
      BY <1>1, <2>1
    <2>6. \A v \in Workers : \A g \in sent'[v] : g \in sent[v] \/ (g = h /\ Signals!HasKey(h)')
      BY <1>1, <2>1, <2>3
    <2>7. Signals!TypeOK'
      BY <1>1, <2>1, <2>3, <2>4, <2>5 DEF Signals!TypeOK
    <2>8. ClocksInv'
      BY <2>1 DEF SignalInv, ClocksInv
    <2>9. CreatedInv'
      <3>1. Created' = Created
        BY <2>1 DEF Created
      <3> QED BY <2>1, <2>2, <2>3, <2>4, <2>5, <3>1 DEF SignalInv, CreatedInv
    <2>10. PublishedInv'
      <3> SUFFICES ASSUME NEW g \in Holds, Signals!Live(g)', ~Signals!HasKey(g)'
                   PROVE  g \in lost' \/ (row'[g] = "pending" /\ \A v \in Workers : g \notin sent'[v])
        BY DEF PublishedInv
      <3>1. Signals!Live(g) /\ ~Signals!HasKey(g) /\ (g \in lost => g \in lost')
        BY <2>1, <2>3 DEF Signals!Live
      <3>2. \A v \in Workers : g \in sent'[v] => g \in sent[v]
        BY <2>6
      <3> QED BY <2>1, <3>1, <3>2 DEF SignalInv, PublishedInv
    <2> QED BY <2>3, <2>7, <2>8, <2>9, <2>10 DEF SignalInv
  <1>4. CASE Signals!CommitPass(w)
    <2>1. /\ row' = [h \in Holds |-> IF h \in sent[w] THEN "processed" ELSE row[h]]
          /\ availableAt' = [h \in Holds |-> IF h \in failed[w]
                                             THEN began[w] + Signals!Backoff(attempts[h])
                                             ELSE availableAt[h]]
          /\ attempts' = [h \in Holds |-> IF h \in failed[w]
                                          THEN Signals!Min({attempts[h] + 1, MaxAttempts})
                                          ELSE attempts[h]]
          /\ sent' = [sent EXCEPT ![w] = {}] /\ failed' = [failed EXCEPT ![w] = {}]
          /\ began' = [began EXCEPT ![w] = 0]
          /\ UNCHANGED <<now, hold, expiresAt, keyUntil, losses, lost, batch, looking, lookedAt,
                         absent, cleanup>>
      BY <1>4 DEF Signals!CommitPass, Signals!redis, Signals!look
    <2>2. \A h \in Holds : began[w] + Signals!Backoff(attempts[h]) \in Nat
      <3> SUFFICES ASSUME NEW h \in Holds PROVE began[w] + Signals!Backoff(attempts[h]) \in Nat
        OBVIOUS
      <3>1. attempts[h] \in Nat /\ began[w] \in Nat
        BY <1>1
      <3>2. Signals!Backoff(attempts[h]) \in Nat
        BY <3>1, BackoffIsNat
      <3> QED BY <3>1, <3>2
    <2>3. \A h \in Holds : Signals!Min({attempts[h] + 1, MaxAttempts}) \in 0 .. MaxAttempts
      <3> SUFFICES ASSUME NEW h \in Holds
                   PROVE  Signals!Min({attempts[h] + 1, MaxAttempts}) \in 0 .. MaxAttempts
        OBVIOUS
      <3>1. attempts[h] \in 0 .. MaxAttempts /\ attempts[h] + 1 \in Int /\ MaxAttempts \in Int
        BY <1>1
      <3>2. /\ Signals!Min({attempts[h] + 1, MaxAttempts}) \in {attempts[h] + 1, MaxAttempts}
            /\ Signals!Min({attempts[h] + 1, MaxAttempts}) <= MaxAttempts
        BY <3>1, MinOfTwo
      <3> QED BY <1>1, <3>1, <3>2
    <2>4. availableAt' \in [Holds -> Nat]
      BY <1>1, <2>1, <2>2
    <2>5. attempts' \in [Holds -> 0 .. MaxAttempts]
      BY <1>1, <2>1, <2>3
    <2>6. /\ sent' \in [Workers -> SUBSET Holds] /\ failed' \in [Workers -> SUBSET Holds]
          /\ began' \in [Workers -> 0 .. MaxTime]
          /\ row' \in [Holds -> Signals!RowStatus]
      BY <1>1, <2>1 DEF Signals!TypeOK, Signals!RowStatus
    <2>7. Signals!TypeOK'
      BY <1>1, <2>1, <2>4, <2>5, <2>6 DEF Signals!TypeOK
    <2>8. ClocksInv'
      BY <1>1, <2>1 DEF SignalInv, ClocksInv
    <2>9. \A v \in Workers : sent'[v] \subseteq sent[v] /\ failed'[v] \subseteq failed[v]
      BY <1>1, <2>1
    <2>10. CreatedInv'
      <3>1. Created' = Created
        BY <2>1 DEF Created
      <3>2. \A h \in Holds : hold[h] = "none" => row'[h] = "none"
        BY <2>1 DEF SignalInv, CreatedInv, Created
      <3> QED BY <2>1, <2>9, <3>1, <3>2 DEF SignalInv, CreatedInv
    <2>11. Signals!KeyNeverEarly'
      BY <2>1 DEF SignalInv, Signals!KeyNeverEarly
    <2>12. PublishedInv'
      BY <2>1, <2>9 DEF SignalInv, PublishedInv, Signals!Live, Signals!HasKey
    <2> QED BY <2>7, <2>8, <2>10, <2>11, <2>12 DEF SignalInv
  <1>5. CASE Signals!CrashPass(w)
    <2>1. /\ batch' = [batch EXCEPT ![w] = {}]
          /\ sent' = [sent EXCEPT ![w] = {}] /\ failed' = [failed EXCEPT ![w] = {}]
          /\ began' = [began EXCEPT ![w] = 0]
          /\ UNCHANGED <<now, hold, expiresAt, row, availableAt, attempts, keyUntil, losses, lost,
                         looking, lookedAt, absent, cleanup>>
      BY <1>5 DEF Signals!CrashPass, Signals!outbox, Signals!redis, Signals!look
    <2>2. /\ sent' \in [Workers -> SUBSET Holds] /\ failed' \in [Workers -> SUBSET Holds]
          /\ batch' \in [Workers -> SUBSET Holds] /\ began' \in [Workers -> 0 .. MaxTime]
      BY <1>1, <2>1
    <2>3. Signals!TypeOK'
      BY <1>1, <2>1, <2>2 DEF Signals!TypeOK
    <2>4. ClocksInv'
      BY <1>1, <2>1 DEF SignalInv, ClocksInv
    <2>5. \A v \in Workers : /\ sent'[v] \subseteq sent[v] /\ failed'[v] \subseteq failed[v]
                             /\ batch'[v] \subseteq batch[v]
      BY <1>1, <2>1
    <2>6. CreatedInv' /\ Signals!KeyNeverEarly'
      BY <2>1, <2>5 DEF SignalInv, CreatedInv, Created, Signals!KeyNeverEarly
    <2>7. PublishedInv'
      BY <2>1, <2>5 DEF SignalInv, PublishedInv, Signals!Live, Signals!HasKey
    <2> QED BY <2>3, <2>4, <2>6, <2>7 DEF SignalInv
  <1> QED BY <1>2, <1>3, <1>4, <1>5 DEF Signals!PublishStep

\* The reconcile loop.
LEMMA ReconcileKeeps ==
    ASSUME SignalInv, NEW w \in Reconcilers, Signals!ReconcileStep(w) \/ Signals!LookFails(w)
    PROVE  SignalInv'
  <1>1. /\ looking \in [Reconcilers -> SUBSET Holds] /\ absent \in [Reconcilers -> SUBSET Holds]
        /\ lookedAt \in [Reconcilers -> 0 .. MaxTime]
        /\ now \in 0 .. MaxTime /\ MaxTime \in Nat /\ Signals!TypeOK
    BY WorkersAssumption DEF WorkersAssumption, Signals!SignalAssumption, SignalInv, Signals!TypeOK
  <1>2. CASE Signals!RestoreKey(w)
    <2>1. PICK h \in absent[w] : Signals!writeExpiryKey(h, lookedAt[w])
      BY <1>2 DEF Signals!RestoreKey
    <2>2. /\ absent' = [absent EXCEPT ![w] = {}]
          /\ UNCHANGED <<now, hold, expiresAt, row, availableAt, attempts, batch, began, sent, failed,
                         looking, lookedAt, cleanup>>
      BY <1>2 DEF Signals!RestoreKey, Signals!outbox, Signals!pass
    <2>3. h \in Created /\ lookedAt[w] \in 0 .. MaxTime /\ lookedAt[w] <= now
      BY <1>1, <2>1 DEF SignalInv, CreatedInv, ClocksInv
    <2>4. /\ keyUntil' \in [Holds -> Nat] /\ losses' \in 0 .. MaxLosses /\ lost' \subseteq Holds
          /\ \A g \in Holds : hold[g] = "none" => keyUntil'[g] = 0
          /\ Signals!KeyNeverEarly'
          /\ \A g \in Holds : ~Signals!HasKey(g)' => ~Signals!HasKey(g) /\ (g \in lost => g \in lost')
      <3>1. hold' = hold /\ expiresAt' = expiresAt
        BY <2>2
      <3> QED BY <2>1, <2>3, <3>1, WriteKeeps
    <2>5. absent' \in [Reconcilers -> SUBSET Holds] /\ \A v \in Reconcilers : absent'[v] \subseteq absent[v]
      BY <1>1, <2>2
    <2>6. Signals!TypeOK'
      BY <1>1, <2>2, <2>4, <2>5 DEF Signals!TypeOK
    <2>7. ClocksInv'
      BY <2>2 DEF SignalInv, ClocksInv
    <2>8. CreatedInv'
      <3>1. Created' = Created
        BY <2>2 DEF Created
      <3> QED BY <2>2, <2>4, <2>5, <3>1 DEF SignalInv, CreatedInv
    <2>9. PublishedInv'
      <3> SUFFICES ASSUME NEW g \in Holds, Signals!Live(g)', ~Signals!HasKey(g)'
                   PROVE  g \in lost' \/ (row'[g] = "pending" /\ \A v \in Workers : g \notin sent'[v])
        BY DEF PublishedInv
      <3>1. Signals!Live(g) /\ ~Signals!HasKey(g) /\ (g \in lost => g \in lost')
        BY <2>2, <2>4 DEF Signals!Live
      <3> QED BY <2>2, <3>1 DEF SignalInv, PublishedInv
    <2> QED BY <2>4, <2>6, <2>7, <2>8, <2>9 DEF SignalInv
  <1>3. ASSUME /\ \A v \in Reconcilers : looking'[v] \cup absent'[v]
                                           \subseteq looking[v] \cup absent[v] \cup Created
               /\ looking' \in [Reconcilers -> SUBSET Holds]
               /\ absent' \in [Reconcilers -> SUBSET Holds]
               /\ lookedAt' \in {lookedAt, [lookedAt EXCEPT ![w] = now]}
               /\ UNCHANGED <<now, hold, expiresAt, row, availableAt, attempts, keyUntil, losses, lost,
                              batch, began, sent, failed, cleanup>>
        PROVE  SignalInv'
    <2>1. lookedAt' \in [Reconcilers -> 0 .. MaxTime]
      BY <1>1, <1>3
    <2>2. Signals!TypeOK'
      BY <1>1, <1>3, <2>1 DEF Signals!TypeOK
    <2>3. ClocksInv'
      <3>1. \A v \in Reconcilers : lookedAt'[v] \in {lookedAt[v], now}
        BY <1>1, <1>3
      <3> QED BY <1>1, <1>3, <3>1 DEF SignalInv, ClocksInv
    <2>4. CreatedInv' /\ Signals!KeyNeverEarly'
      BY <1>3 DEF SignalInv, CreatedInv, Created, Signals!KeyNeverEarly
    <2>5. PublishedInv'
      BY <1>3 DEF SignalInv, PublishedInv, Signals!Live, Signals!HasKey
    <2> QED BY <2>2, <2>3, <2>4, <2>5 DEF SignalInv
  <1>4. CASE Signals!Look(w)
    <2>1. PICK T \in Signals!FirstBy({h \in Holds : Signals!Live(h) /\ expiresAt[h] <= now + Window},
                                     expiresAt, BatchSize) :
            looking' = [looking EXCEPT ![w] = T]
      BY <1>4 DEF Signals!Look
    <2>2. T \subseteq Holds /\ T \subseteq Created
      BY <2>1 DEF Signals!FirstBy, Signals!Live, Created
    <2>3. looking' \in [Reconcilers -> SUBSET Holds] /\ \A v \in Reconcilers : looking'[v] \subseteq looking[v] \cup Created
      BY <1>1, <2>1, <2>2
    <2>4. /\ absent' = absent /\ lookedAt' = [lookedAt EXCEPT ![w] = now]
          /\ UNCHANGED <<now, hold, expiresAt, row, availableAt, attempts, keyUntil, losses, lost,
                         batch, began, sent, failed, cleanup>>
      BY <1>4 DEF Signals!Look, Signals!outbox, Signals!redis, Signals!pass
    <2> QED BY <1>1, <1>3, <2>3, <2>4
  <1>5. ASSUME NEW h \in Holds, Signals!CheckKey(w, h) PROVE SignalInv'
    <2>1. /\ h \in looking[w] /\ looking' = [looking EXCEPT ![w] = @ \ {h}]
          /\ absent' = [absent EXCEPT ![w] = IF Signals!HasKey(h) THEN {} ELSE {h}]
          /\ lookedAt' = lookedAt
          /\ UNCHANGED <<now, hold, expiresAt, row, availableAt, attempts, keyUntil, losses, lost,
                         batch, began, sent, failed, cleanup>>
      BY <1>5 DEF Signals!CheckKey, Signals!outbox, Signals!redis, Signals!pass
    <2>2. /\ looking' \in [Reconcilers -> SUBSET Holds] /\ absent' \in [Reconcilers -> SUBSET Holds]
          /\ \A v \in Reconcilers : looking'[v] \cup absent'[v] \subseteq looking[v] \cup absent[v]
      BY <1>1, <2>1
    <2> QED BY <1>3, <2>1, <2>2
  <1>6. CASE Signals!LookFails(w)
    <2>1. /\ looking' = [looking EXCEPT ![w] = {}] /\ absent' = [absent EXCEPT ![w] = {}]
          /\ lookedAt' = lookedAt
          /\ UNCHANGED <<now, hold, expiresAt, row, availableAt, attempts, keyUntil, losses, lost,
                         batch, began, sent, failed, cleanup>>
      BY <1>6 DEF Signals!LookFails, Signals!outbox, Signals!redis, Signals!pass
    <2>2. /\ looking' \in [Reconcilers -> SUBSET Holds] /\ absent' \in [Reconcilers -> SUBSET Holds]
          /\ \A v \in Reconcilers : looking'[v] \cup absent'[v] \subseteq looking[v] \cup absent[v]
      BY <1>1, <2>1
    <2> QED BY <1>3, <2>1, <2>2
  <1> QED BY <1>2, <1>4, <1>5, <1>6 DEF Signals!ReconcileStep

\* expiration.service.ts: whatever Redis loses, and whichever passes fail, no expiry key
\* lapses before its hold, and a live hold has a key or a row that will be published.
THEOREM SignalsInWorkers == PartsSpec => []SignalSound
  <1>1. SignalInv /\ [PartsNext]_<<part, signalVars, ticketVars, feedVars, batchVars>> => SignalInv'
    <2> SUFFICES ASSUME SignalInv,
                        [PartsNext]_<<part, signalVars, ticketVars, feedVars, batchVars>>
                 PROVE  SignalInv'
      OBVIOUS
    <2>1. CASE UNCHANGED signalVars
      BY <2>1
      DEF signalVars, SignalInv, ClocksInv, CreatedInv, Created, PublishedInv, Signals!TypeOK,
          Signals!KeyNeverEarly, Signals!Live, Signals!HasKey
    <2>2. CASE Signals!Next
      BY <2>2, HoldsKeep, PublishKeeps, ReconcileKeeps DEF Signals!Next
    <2> QED BY <2>1, <2>2 DEF PartsNext
  <1>2. SignalInv => SignalSound
    BY DEF SignalInv, PublishedInv, SignalSound, Signals!SignalSound, Signals!NoSignalForgotten
  <1> QED BY <1>1, <1>2, SignalInit, PTL DEF PartsSpec

-----------------------------------------------------------------------------
(* Seat status feed                                                         *)

Under(w) == feedClaimed[w] \cup feedSent[w] \cup feedFailed[w]

\* No row is in two transactions, and what one is about to retire has been published.
RowsInv ==
    /\ \A v, w \in Workers : v # w => Under(v) \cap Under(w) = {}
    /\ \A w \in Workers : feedSent[w] \subseteq published

\* A row says what the table said at its version.
HonestInv ==
    \A r \in outbox \cup Feed!Range(pipe) :
        /\ r.version <= version[r.seat]
        /\ r.version = version[r.seat] => r.status = feedStatus[r.seat]

\* So does a snapshot, and what is on screen.
SnapshotInv ==
    /\ \A i \in DOMAIN loads : \A s \in FeedSeats :
        /\ loads[i].at[s] <= version[s]
        /\ loads[i].at[s] = version[s] => loads[i].seats[s] = feedStatus[s]
    /\ \A s \in FeedSeats :
        /\ shown[s] <= version[s]
        /\ shown[s] = version[s] /\ seats[s] # Feed!Unloaded => seats[s] = feedStatus[s]

\* Once a message has been applied, the screen is not ahead of what is known.
KnownInv ==
    \A s \in FeedSeats : /\ versions[s] > 0 => shown[s] <= versions[s]
                         /\ seats[s] = Feed!Unloaded => shown[s] = 0

\* The rows that are certain to reach a calm page, and those that may.
Certain  == (outbox \ UNION {feedSent[w] : w \in Workers}) \cup Feed!Range(pipe)
Possible == outbox \cup Feed!Range(pipe)

\* A calm page is subscribed; what it does not show yet is certain to come, and nothing
\* that can still come and would be applied is older than what it shows.
CalmInv ==
    calm =>
        /\ link = "subscribed"
        /\ \A s \in FeedSeats :
            /\ seats[s] # Feed!Unloaded
            /\ versions[s] <= shown[s]
            /\ \A v \in (shown[s] + 1)..version[s] :
                 \E r \in Certain : r.seat = s /\ r.version = v
            /\ \A r \in Possible : r.seat = s /\ r.version > versions[s] => r.version > shown[s]

FeedInv ==
    Feed!TypeOK /\ Feed!NothingLost /\ RowsInv /\ HonestInv /\ SnapshotInv /\ KnownInv /\ CalmInv

\* What a pipe holds after a message more, or the first one less.
LEMMA AppendMoves ==
    ASSUME NEW S, NEW p \in Seq(S), NEW r \in S
    PROVE  /\ Append(p, r) \in Seq(S) /\ Len(Append(p, r)) = Len(p) + 1
           /\ Feed!Range(Append(p, r)) = Feed!Range(p) \cup {r}
  <1>1. /\ Append(p, r) \in Seq(S) /\ Len(Append(p, r)) = Len(p) + 1
        /\ DOMAIN Append(p, r) = 1 .. Len(p) + 1 /\ DOMAIN p = 1 .. Len(p) /\ Len(p) \in Nat
        /\ \A i \in 1 .. Len(p) : Append(p, r)[i] = p[i]
        /\ Append(p, r)[Len(p) + 1] = r
    OBVIOUS
  <1>2. ASSUME NEW x \in Feed!Range(Append(p, r)) PROVE x \in Feed!Range(p) \cup {r}
    <2>1. PICK i \in 1 .. Len(p) + 1 : x = Append(p, r)[i]
      BY <1>1, <1>2 DEF Feed!Range
    <2>2. i \in 1 .. Len(p) \/ i = Len(p) + 1
      BY <1>1
    <2> QED BY <1>1, <2>1, <2>2 DEF Feed!Range
  <1>3. ASSUME NEW x \in Feed!Range(p) PROVE x \in Feed!Range(Append(p, r))
    <2>1. PICK i \in 1 .. Len(p) : x = p[i]
      BY <1>1, <1>3 DEF Feed!Range
    <2>2. i \in 1 .. Len(p) + 1
      BY <1>1
    <2> QED BY <1>1, <2>1, <2>2 DEF Feed!Range
  <1>4. r \in Feed!Range(Append(p, r))
    <2>1. Len(p) + 1 \in 1 .. Len(p) + 1
      BY <1>1
    <2> QED BY <1>1, <2>1 DEF Feed!Range
  <1> QED BY <1>1, <1>2, <1>3, <1>4

LEMMA TailMoves ==
    ASSUME NEW S, NEW p \in Seq(S), p # <<>>
    PROVE  /\ Tail(p) \in Seq(S) /\ Len(Tail(p)) = Len(p) - 1 /\ Head(p) \in S
           /\ Feed!Range(p) = {Head(p)} \cup Feed!Range(Tail(p))
  <1>1. /\ Tail(p) \in Seq(S) /\ Len(Tail(p)) = Len(p) - 1 /\ Len(p) \in Nat /\ Len(p) >= 1
        /\ DOMAIN Tail(p) = 1 .. Len(p) - 1 /\ DOMAIN p = 1 .. Len(p)
        /\ Head(p) = p[1] /\ Head(p) \in S
        /\ \A i \in 1 .. Len(p) - 1 : Tail(p)[i] = p[i + 1]
    OBVIOUS
  <1>2. ASSUME NEW x \in Feed!Range(p) PROVE x \in {Head(p)} \cup Feed!Range(Tail(p))
    <2>1. PICK i \in 1 .. Len(p) : x = p[i]
      BY <1>1, <1>2 DEF Feed!Range
    <2>2. CASE i = 1
      BY <1>1, <2>1, <2>2
    <2>3. CASE i # 1
      <3>1. i - 1 \in 1 .. Len(p) - 1 /\ (i - 1) + 1 = i
        BY <1>1, <2>3
      <3>2. x = Tail(p)[i - 1]
        BY <1>1, <2>1, <3>1
      <3> QED BY <1>1, <3>1, <3>2 DEF Feed!Range
    <2> QED BY <2>2, <2>3
  <1>3. ASSUME NEW x \in Feed!Range(Tail(p)) PROVE x \in Feed!Range(p)
    <2>1. PICK i \in 1 .. Len(p) - 1 : x = Tail(p)[i]
      BY <1>1, <1>3 DEF Feed!Range
    <2>2. i + 1 \in 1 .. Len(p) /\ x = p[i + 1]
      BY <1>1, <2>1
    <2> QED BY <1>1, <2>2 DEF Feed!Range
  <1>4. Head(p) \in Feed!Range(p)
    BY <1>1 DEF Feed!Range
  <1> QED BY <1>1, <1>2, <1>3, <1>4

\* A load that ends leaves the others.
LEMMA RemoveAtMoves ==
    ASSUME NEW S, NEW p \in Seq(S), NEW i \in 1 .. Len(p)
    PROVE  /\ Feed!RemoveAt(p, i) \in Seq(S) /\ Len(Feed!RemoveAt(p, i)) = Len(p) - 1
           /\ \A j \in DOMAIN Feed!RemoveAt(p, i) : \E k \in DOMAIN p : Feed!RemoveAt(p, i)[j] = p[k]
  <1> DEFINE low == SubSeq(p, 1, i - 1)
             high == SubSeq(p, i + 1, Len(p))
  <1>1. Feed!RemoveAt(p, i) = low \o high
    BY DEF Feed!RemoveAt
  <1>2. /\ low \in Seq(S) /\ Len(low) = i - 1 /\ Len(p) \in Nat /\ DOMAIN p = 1 .. Len(p)
        /\ \A j \in 1 .. i - 1 : low[j] = p[j]
    OBVIOUS
  <1>3. /\ high \in Seq(S) /\ Len(high) = Len(p) - i
        /\ \A j \in 1 .. Len(p) - i : high[j] = p[i + j]
    OBVIOUS
  <1> HIDE DEF low, high
  <1>4. /\ low \o high \in Seq(S) /\ Len(low \o high) = Len(p) - 1
        /\ DOMAIN (low \o high) = 1 .. Len(p) - 1
    <2>1. low \in Seq(S) /\ high \in Seq(S)
      BY <1>2, <1>3
    <2>2. low \o high \in Seq(S)
      BY <2>1
    <2>3. Len(low \o high) = Len(low) + Len(high)
      BY <2>1
    <2>4. DOMAIN (low \o high) = 1 .. Len(low \o high)
      BY <2>2
    <2>5. Len(low) + Len(high) = Len(p) - 1
      BY <1>2, <1>3
    <2> QED BY <2>2, <2>3, <2>4, <2>5
  <1>5. ASSUME NEW j \in 1 .. Len(p) - 1 PROVE \E k \in DOMAIN p : (low \o high)[j] = p[k]
    <2>1. CASE j <= i - 1
      <3>1. j \in 1 .. i - 1 /\ j \in 1 .. Len(p)
        BY <1>2, <2>1
      <3>2. (low \o high)[j] = low[j]
        BY <1>2, <1>3, <3>1
      <3> QED BY <1>2, <3>1, <3>2
    <2>2. CASE j > i - 1
      <3>1. j - (i - 1) \in 1 .. Len(p) - i /\ i + (j - (i - 1)) \in 1 .. Len(p)
        BY <1>2, <2>2
      <3>2. (low \o high)[j] = high[j - (i - 1)]
        BY <1>2, <1>3, <2>2
      <3> QED BY <1>2, <1>3, <3>1, <3>2
    <2>3. j <= i - 1 \/ j > i - 1
      BY <1>2
    <2> QED BY <2>1, <2>2, <2>3
  <1> QED BY <1>1, <1>4, <1>5

LEMMA FeedInit == PartsInit => FeedInv
  <1> SUFFICES ASSUME Feed!Init PROVE FeedInv
    BY DEF PartsInit
  <1>1. {MaxVersion, MaxBuffered, MaxLoads} \subseteq Nat
    BY WorkersAssumption DEF WorkersAssumption, Feed!FeedAssumption
  <1>2. Feed!TypeOK
    <2>1. /\ feedClaimed \in [Workers -> SUBSET outbox] /\ feedSent \in [Workers -> SUBSET outbox]
          /\ feedFailed \in [Workers -> SUBSET outbox]
      BY DEF Feed!Init
    <2>2. /\ version \in [FeedSeats -> 0 .. MaxVersion] /\ shown \in [FeedSeats -> 0 .. MaxVersion]
          /\ versions \in [FeedSeats -> -1 .. MaxVersion]
      BY <1>1 DEF Feed!Init
    <2>3. /\ feedStatus \in [FeedSeats -> Feed!SeatStatus]
          /\ seats \in [FeedSeats -> Feed!SeatStatus \cup {Feed!Unloaded}]
      BY DEF Feed!Init, Feed!SeatStatus
    <2>4. /\ pipe \in Seq(Feed!Row) /\ Len(pipe) <= MaxBuffered
          /\ loads \in Seq(Feed!Load) /\ Len(loads) <= MaxLoads
      BY <1>1 DEF Feed!Init
    <2> QED BY <2>1, <2>2, <2>3, <2>4 DEF Feed!Init, Feed!TypeOK
  <1>3. Feed!NothingLost /\ RowsInv /\ HonestInv
    BY DEF Feed!Init, Feed!NothingLost, RowsInv, HonestInv, Under, Feed!Range
  <1>4. SnapshotInv /\ KnownInv /\ CalmInv
    BY DEF Feed!Init, SnapshotInv, KnownInv, CalmInv
  <1> QED BY <1>2, <1>3, <1>4 DEF FeedInv

\* The workers and the socket: nothing new can come, and of what is certain to come to a
\* page that stays calm nothing goes.
LEMMA WorkersMove ==
    ASSUME FeedInv, Feed!TypeOK', RowsInv',
           UNCHANGED <<feedStatus, version, loads, seats, versions, shown>>,
           outbox \cup published \subseteq outbox' \cup published',
           Possible' \subseteq Possible,
           calm' => calm /\ link' = link /\ Certain \subseteq Certain'
    PROVE  FeedInv'
  <1>1. Feed!NothingLost'
    BY DEF FeedInv, Feed!NothingLost
  <1>2. HonestInv'
    BY DEF FeedInv, HonestInv, Possible
  <1>3. SnapshotInv' /\ KnownInv'
    BY DEF FeedInv, SnapshotInv, KnownInv
  <1>4. CalmInv'
    BY DEF FeedInv, CalmInv
  <1> QED BY <1>1, <1>2, <1>3, <1>4 DEF FeedInv

LEMMA ClaimKeeps ==
    ASSUME FeedInv, NEW w \in Workers, Feed!claimPendingSeatStatusEvents(w)
    PROVE  FeedInv'
  <1>1. PICK B \in SUBSET (outbox \ UNION {Under(v) : v \in Workers}) :
          feedClaimed' = [feedClaimed EXCEPT ![w] = B]
    BY DEF Feed!claimPendingSeatStatusEvents, Feed!Held, Under
  <1>2. /\ Under(w) = {}
        /\ UNCHANGED <<feedStatus, version, outbox, feedSent, feedFailed, published, link, pipe, loads,
                       seats, versions, shown, calm>>
    BY DEF Feed!claimPendingSeatStatusEvents, Feed!Held, Under, Feed!table, Feed!page
  <1>3. feedClaimed \in [Workers -> SUBSET outbox]
    BY DEF FeedInv, Feed!TypeOK
  <1>4. feedClaimed' \in [Workers -> SUBSET outbox]
    BY <1>1, <1>3
  <1>5. Feed!TypeOK'
    BY <1>2, <1>4 DEF FeedInv, Feed!TypeOK
  <1>6. \A v \in Workers : Under(v)' = IF v = w THEN B ELSE Under(v)
    BY <1>1, <1>2, <1>3 DEF Under
  <1>7. RowsInv'
    BY <1>1, <1>2, <1>6 DEF FeedInv, RowsInv
  <1>8. Possible' = Possible /\ Certain' = Certain
    BY <1>2 DEF Possible, Certain
  <1> QED BY <1>2, <1>5, <1>7, <1>8, WorkersMove

\* forwardToLocalSubscribers, by a worker that goes on holding the row.
LEMMA ForwardKeeps ==
    ASSUME FeedInv, NEW w \in Workers, NEW r \in feedClaimed[w],
           feedClaimed' = [feedClaimed EXCEPT ![w] = @ \ {r}],
           \/ /\ feedSent' = [feedSent EXCEPT ![w] = @ \cup {r}] /\ feedFailed' = feedFailed
              /\ Feed!forwardToLocalSubscribers(r)
           \/ /\ feedFailed' = [feedFailed EXCEPT ![w] = @ \cup {r}] /\ feedSent' = feedSent
              /\ \/ Feed!forwardToLocalSubscribers(r)
                 \/ published' = published /\ pipe' = pipe /\ calm' = calm,
           UNCHANGED <<feedStatus, version, outbox, link, loads, seats, versions, shown>>
    PROVE  FeedInv'
  <1>1. /\ feedClaimed \in [Workers -> SUBSET outbox] /\ feedSent \in [Workers -> SUBSET outbox]
        /\ feedFailed \in [Workers -> SUBSET outbox] /\ outbox \subseteq Feed!Row
        /\ published \subseteq Feed!Row /\ pipe \in Seq(Feed!Row) /\ Len(pipe) <= MaxBuffered
        /\ calm \in BOOLEAN /\ MaxBuffered \in Nat
    BY WorkersAssumption DEF WorkersAssumption, Feed!FeedAssumption, FeedInv, Feed!TypeOK
  <1>2. r \in outbox /\ r \in Feed!Row /\ r \in Under(w)
    BY <1>1 DEF Under
  <1>3. /\ published' \in {published, published \cup {r}}
        /\ feedSent' # feedSent => r \in published'
        /\ \/ pipe' = pipe /\ calm' \in BOOLEAN
              /\ (calm' => calm /\ published' = published /\ feedSent' = feedSent)
           \/ pipe' = Append(pipe, r) /\ Len(pipe) < MaxBuffered /\ calm' = calm
    <2>1. CASE Feed!forwardToLocalSubscribers(r)
      BY <1>1, <2>1 DEF Feed!forwardToLocalSubscribers
    <2>2. CASE published' = published /\ pipe' = pipe /\ calm' = calm /\ feedSent' = feedSent
      BY <1>1, <2>2
    <2> QED BY <2>1, <2>2
  <1>4. /\ feedClaimed' \in [Workers -> SUBSET outbox] /\ feedSent' \in [Workers -> SUBSET outbox]
        /\ feedFailed' \in [Workers -> SUBSET outbox]
    BY <1>1, <1>2
  <1>5. /\ pipe' \in Seq(Feed!Row) /\ Len(pipe') <= MaxBuffered
        /\ Feed!Range(pipe') = Feed!Range(pipe) \cup (IF pipe' = pipe THEN {} ELSE {r})
    <2>1. CASE pipe' = pipe
      BY <1>1, <2>1
    <2>2. CASE pipe' = Append(pipe, r) /\ Len(pipe) < MaxBuffered
      <3>1. /\ pipe' \in Seq(Feed!Row) /\ Len(pipe') = Len(pipe) + 1
            /\ Feed!Range(pipe') = Feed!Range(pipe) \cup {r}
        BY <1>1, <1>2, <2>2, AppendMoves
      <3>2. Len(pipe') <= MaxBuffered /\ pipe' # pipe
        BY <1>1, <2>2, <3>1
      <3> QED BY <3>1, <3>2
    <2> QED BY <1>3, <2>1, <2>2
  <1>6. Feed!TypeOK'
    <2>1. published' \subseteq Feed!Row /\ calm' \in BOOLEAN
      BY <1>1, <1>2, <1>3
    <2> QED BY <1>4, <1>5, <2>1 DEF FeedInv, Feed!TypeOK
  <1>7. /\ \A v \in Workers : Under(v)' = Under(v)
        /\ \A v \in Workers : feedSent'[v] \subseteq feedSent[v] \cup (IF feedSent' = feedSent THEN {} ELSE {r})
        /\ \A v \in Workers : feedSent[v] \subseteq feedSent'[v]
    BY <1>1, <1>2 DEF Under
  <1>8. RowsInv'
    BY <1>3, <1>7 DEF FeedInv, RowsInv
  <1>9. Possible' \subseteq Possible
    BY <1>2, <1>5 DEF Possible
  <1>10. ASSUME calm' PROVE calm /\ Certain \subseteq Certain'
    <2>1. CASE pipe' = pipe /\ feedSent' = feedSent /\ calm
      BY <2>1 DEF Certain
    <2>2. CASE pipe' = Append(pipe, r) /\ calm
      <3>1. Feed!Range(pipe') = Feed!Range(pipe) \cup {r}
        BY <1>1, <1>2, <2>2, AppendMoves
      <3> QED BY <1>7, <2>2, <3>1 DEF Certain
    <2> QED BY <1>3, <1>10, <2>1, <2>2
  <1> QED BY <1>3, <1>6, <1>8, <1>9, <1>10, WorkersMove

LEMMA CommitKeeps ==
    ASSUME FeedInv, NEW w \in Workers, Feed!Commit(w) \/ Feed!Crash(w)
    PROVE  FeedInv'
  <1>1. /\ feedClaimed \in [Workers -> SUBSET outbox] /\ feedSent \in [Workers -> SUBSET outbox]
        /\ feedFailed \in [Workers -> SUBSET outbox] /\ outbox \subseteq Feed!Row
    BY DEF FeedInv, Feed!TypeOK
  <1>2. /\ UNCHANGED <<feedStatus, version, published, link, pipe, loads, seats, versions, shown, calm>>
        /\ feedSent' = [feedSent EXCEPT ![w] = {}] /\ feedFailed' = [feedFailed EXCEPT ![w] = {}]
        /\ \/ outbox' = outbox \ feedSent[w] /\ feedClaimed' = feedClaimed /\ feedClaimed[w] = {}
           \/ outbox' = outbox /\ feedClaimed' = [feedClaimed EXCEPT ![w] = {}]
    BY DEF Feed!Commit, Feed!Crash, Feed!table, Feed!page
  <1>3. \A v \in Workers :
          /\ feedClaimed'[v] = IF v = w THEN {} ELSE feedClaimed[v]
          /\ feedSent'[v] = IF v = w THEN {} ELSE feedSent[v]
          /\ feedFailed'[v] = IF v = w THEN {} ELSE feedFailed[v]
    BY <1>1, <1>2
  <1>4. \A v \in Workers : v # w => Under(v) \cap feedSent[w] = {}
    BY DEF FeedInv, RowsInv, Under
  <1>5. \A v \in Workers : /\ feedClaimed'[v] \subseteq outbox' /\ feedSent'[v] \subseteq outbox'
                           /\ feedFailed'[v] \subseteq outbox'
    BY <1>1, <1>2, <1>3, <1>4 DEF Under
  <1>6. /\ feedClaimed' \in [Workers -> SUBSET outbox'] /\ feedSent' \in [Workers -> SUBSET outbox']
        /\ feedFailed' \in [Workers -> SUBSET outbox'] /\ outbox' \subseteq Feed!Row
    <2>1. /\ feedClaimed' = [v \in Workers |-> feedClaimed'[v]] /\ feedSent' = [v \in Workers |-> feedSent'[v]]
          /\ feedFailed' = [v \in Workers |-> feedFailed'[v]]
      BY <1>1, <1>2
    <2> QED BY <1>1, <1>2, <1>5, <2>1
  <1>7. Feed!TypeOK'
    BY <1>2, <1>6 DEF FeedInv, Feed!TypeOK
  <1>8. RowsInv'
    BY <1>2, <1>3 DEF FeedInv, RowsInv, Under
  <1>9. outbox \cup published \subseteq outbox' \cup published' /\ Possible' \subseteq Possible
    BY <1>2 DEF FeedInv, RowsInv, Possible
  <1>10. Certain \subseteq Certain'
    BY <1>2, <1>3 DEF Certain
  <1> QED BY <1>2, <1>7, <1>8, <1>9, <1>10, WorkersMove

LEMMA SocketKeeps ==
    ASSUME FeedInv, Feed!onopen \/ Feed!Subscribed \/ Feed!onclose
    PROVE  FeedInv'
  <1>1. /\ UNCHANGED <<feedStatus, version, outbox, feedClaimed, feedSent, feedFailed, published, loads,
                       seats, versions, shown>>
        /\ link' \in {"down", "open", "subscribed"}
        /\ \/ pipe' = pipe /\ calm' = calm /\ link # "subscribed"
           \/ pipe' = <<>> /\ calm' = FALSE
    BY DEF Feed!onopen, Feed!Subscribed, Feed!onclose, Feed!table, Feed!workers, Feed!page
  <1>2. Feed!Range(pipe') \subseteq Feed!Range(pipe)
    <2>1. Feed!Range(<<>>) = {}
      BY DEF Feed!Range
    <2> QED BY <1>1, <2>1
  <1>3. Feed!TypeOK'
    <2>1. pipe' \in Seq(Feed!Row) /\ Len(pipe') <= MaxBuffered /\ calm' \in BOOLEAN
      <3>1. pipe \in Seq(Feed!Row) /\ Len(pipe) <= MaxBuffered /\ calm \in BOOLEAN
        BY DEF FeedInv, Feed!TypeOK
      <3>2. <<>> \in Seq(Feed!Row)
        OBVIOUS
      <3>3. Len(<<>>) <= MaxBuffered
        BY WorkersAssumption DEF WorkersAssumption, Feed!FeedAssumption
      <3>4. calm' \in BOOLEAN
        BY <1>1, <3>1
      <3>5. CASE pipe' = pipe
        BY <3>1, <3>4, <3>5
      <3>6. CASE pipe' = <<>>
        BY <3>2, <3>3, <3>4, <3>6
      <3> QED BY <1>1, <3>5, <3>6
    <2> QED BY <1>1, <2>1 DEF FeedInv, Feed!TypeOK
  <1>4. RowsInv'
    BY <1>1 DEF FeedInv, RowsInv, Under
  <1>5. Possible' \subseteq Possible
    BY <1>1, <1>2 DEF Possible
  <1>6. ~calm'
    BY <1>1 DEF FeedInv, CalmInv
  <1> QED BY <1>1, <1>3, <1>4, <1>5, <1>6, WorkersMove

\* The trigger: a row with a version of its own.
LEMMA ChangeKeeps ==
    ASSUME FeedInv, NEW s \in FeedSeats, NEW to \in Feed!SeatStatus, Feed!ChangeSeat(s, to)
    PROVE  FeedInv'
  <1> DEFINE r == [seat |-> s, version |-> version[s] + 1, status |-> to]
  <1>1. /\ version \in [FeedSeats -> 0 .. MaxVersion] /\ feedStatus \in [FeedSeats -> Feed!SeatStatus]
        /\ shown \in [FeedSeats -> 0 .. MaxVersion] /\ MaxVersion \in Nat
        /\ loads \in Seq(Feed!Load)
        /\ outbox \subseteq Feed!Row /\ pipe \in Seq(Feed!Row)
        /\ feedClaimed \in [Workers -> SUBSET outbox] /\ feedSent \in [Workers -> SUBSET outbox]
        /\ feedFailed \in [Workers -> SUBSET outbox]
    BY WorkersAssumption DEF FeedInv, Feed!TypeOK, WorkersAssumption, Feed!FeedAssumption
  <1>2. /\ version[s] < MaxVersion /\ feedStatus' = [feedStatus EXCEPT ![s] = to]
        /\ version' = [version EXCEPT ![s] = @ + 1] /\ outbox' = outbox \cup {r}
        /\ UNCHANGED <<feedClaimed, feedSent, feedFailed, published, link, pipe, loads, seats, versions,
                       shown, calm>>
    BY DEF Feed!ChangeSeat, Feed!emit_seat_status_event, Feed!workers, Feed!page
  <1>3. r \in Feed!Row /\ r.seat = s /\ r.version = version[s] + 1 /\ r.status = to
    BY <1>1, <1>2 DEF Feed!Row
  <1> HIDE DEF r
  <1>4. /\ version' \in [FeedSeats -> 0 .. MaxVersion] /\ feedStatus' \in [FeedSeats -> Feed!SeatStatus]
        /\ version'[s] = version[s] + 1 /\ feedStatus'[s] = to
        /\ \A t \in FeedSeats : t # s => version'[t] = version[t] /\ feedStatus'[t] = feedStatus[t]
    BY <1>1, <1>2
  <1>5. ASSUME NEW q \in Possible
        PROVE  /\ q \in Feed!Row /\ q.seat \in FeedSeats /\ q.version \in 1 .. MaxVersion
               /\ q.version <= version[q.seat]
               /\ q.version = version[q.seat] => q.status = feedStatus[q.seat]
    <2>1. q \in Feed!Row
      BY <1>1, <1>5 DEF Possible, Feed!Range
    <2> QED BY <1>5, <2>1 DEF Possible, FeedInv, HonestInv, Feed!Row
  <1>6. r \notin Possible
    BY <1>1, <1>3, <1>5
  <1>7. Possible' = Possible \cup {r} /\ Certain' = Certain \cup {r}
    <2>1. \A w \in Workers : r \notin feedSent[w]
      BY <1>1, <1>6 DEF Possible
    <2> QED BY <1>2, <2>1 DEF Possible, Certain
  <1>8. Feed!TypeOK'
    <2>1. /\ outbox' \subseteq Feed!Row
          /\ feedClaimed' \in [Workers -> SUBSET outbox'] /\ feedSent' \in [Workers -> SUBSET outbox']
          /\ feedFailed' \in [Workers -> SUBSET outbox']
      BY <1>1, <1>2, <1>3
    <2> QED BY <1>2, <1>4, <2>1 DEF FeedInv, Feed!TypeOK
  <1>9. Feed!NothingLost'
    <2> SUFFICES ASSUME NEW t \in FeedSeats, NEW v \in 1 .. version'[t]
                 PROVE  \E q \in outbox' \cup published' : q.seat = t /\ q.version = v
      BY DEF Feed!NothingLost
    <2>1. CASE t = s /\ v = version[s] + 1
      BY <1>2, <1>3, <2>1
    <2>2. CASE ~(t = s /\ v = version[s] + 1)
      <3>1. v \in 1 .. version[t]
        BY <1>1, <1>4, <2>2
      <3> QED BY <1>2, <3>1 DEF FeedInv, Feed!NothingLost
    <2> QED BY <2>1, <2>2
  <1>10. RowsInv'
    BY <1>2 DEF FeedInv, RowsInv, Under
  <1>11. HonestInv'
    <2> SUFFICES ASSUME NEW q \in Possible \cup {r}
                 PROVE  /\ q.version <= version'[q.seat]
                        /\ q.version = version'[q.seat] => q.status = feedStatus'[q.seat]
      BY <1>7 DEF HonestInv, Possible
    <2>1. CASE q = r
      BY <1>1, <1>3, <1>4, <2>1
    <2>2. CASE q \in Possible
      <3>1. CASE q.seat = s
        BY <1>1, <1>4, <1>5, <2>2, <3>1
      <3>2. CASE q.seat # s
        BY <1>4, <1>5, <2>2, <3>2
      <3> QED BY <3>1, <3>2
    <2> QED BY <2>1, <2>2
  <1>12. SnapshotInv'
    <2>1. ASSUME NEW i \in DOMAIN loads, NEW t \in FeedSeats
          PROVE  /\ loads[i].at[t] <= version'[t]
                 /\ loads[i].at[t] = version'[t] => loads[i].seats[t] = feedStatus'[t]
      <3>1. loads[i].at[t] \in 0 .. MaxVersion
        <4>1. loads[i] \in Feed!Load
          BY <1>1
        <4> QED BY <4>1 DEF Feed!Load
      <3>2. /\ loads[i].at[t] <= version[t]
            /\ loads[i].at[t] = version[t] => loads[i].seats[t] = feedStatus[t]
        BY DEF FeedInv, SnapshotInv
      <3> QED BY <1>1, <1>4, <3>1, <3>2
    <2>2. ASSUME NEW t \in FeedSeats
          PROVE  /\ shown[t] <= version'[t]
                 /\ shown[t] = version'[t] /\ seats[t] # Feed!Unloaded => seats[t] = feedStatus'[t]
      <3>1. /\ shown[t] <= version[t]
            /\ shown[t] = version[t] /\ seats[t] # Feed!Unloaded => seats[t] = feedStatus[t]
        BY DEF FeedInv, SnapshotInv
      <3>2. shown[t] \in Int /\ version[t] \in Int
        BY <1>1
      <3> QED BY <1>4, <3>1, <3>2
    <2> QED BY <1>2, <2>1, <2>2 DEF SnapshotInv
  <1>13. KnownInv'
    BY <1>2 DEF FeedInv, KnownInv
  <1>14. CalmInv'
    <2> SUFFICES ASSUME calm
                 PROVE  /\ link = "subscribed"
                        /\ \A t \in FeedSeats :
                             /\ seats[t] # Feed!Unloaded
                             /\ versions[t] <= shown[t]
                             /\ \A v \in (shown[t] + 1)..version'[t] :
                                  \E q \in Certain' : q.seat = t /\ q.version = v
                             /\ \A q \in Possible' : q.seat = t /\ q.version > versions[t]
                                                       => q.version > shown[t]
      BY <1>2 DEF CalmInv
    <2>1. ASSUME NEW t \in FeedSeats, NEW v \in (shown[t] + 1)..version'[t]
          PROVE  \E q \in Certain' : q.seat = t /\ q.version = v
      <3>1. CASE t = s /\ v = version[s] + 1
        BY <1>3, <1>7, <3>1
      <3>2. CASE ~(t = s /\ v = version[s] + 1)
        <4>1. v \in (shown[t] + 1) .. version[t]
          BY <1>1, <1>4, <3>2
        <4> QED BY <1>7, <4>1 DEF FeedInv, CalmInv
      <3> QED BY <3>1, <3>2
    <2>2. r.version > shown[s]
      <3>1. shown[s] <= version[s] /\ shown[s] \in Int /\ version[s] \in Int
        BY <1>1 DEF FeedInv, SnapshotInv
      <3> QED BY <1>3, <3>1
    <2> QED BY <1>3, <1>7, <2>1, <2>2 DEF FeedInv, CalmInv
  <1> QED BY <1>8, <1>9, <1>10, <1>11, <1>12, <1>13, <1>14 DEF FeedInv

\* A load that is sent, answered, or fails: what is on screen stays.
LEMMA LoadsMove ==
    ASSUME FeedInv, loads' \in Seq(Feed!Load), Len(loads') <= MaxLoads,
           \A j \in DOMAIN loads' :
             \/ \E k \in DOMAIN loads : loads'[j] = loads[k]
             \/ loads'[j].at = version /\ loads'[j].seats = feedStatus,
           UNCHANGED <<feedStatus, version, outbox, feedClaimed, feedSent, feedFailed, published, link,
                       pipe, seats, versions, shown, calm>>
    PROVE  FeedInv'
  <1>1. Feed!TypeOK'
    BY DEF FeedInv, Feed!TypeOK
  <1>2. Feed!NothingLost' /\ RowsInv' /\ HonestInv' /\ KnownInv' /\ CalmInv'
    BY DEF FeedInv, Feed!NothingLost, RowsInv, Under, HonestInv, KnownInv, CalmInv, Certain, Possible
  <1>3. \A t \in FeedSeats : version[t] <= version[t]
    BY DEF FeedInv, Feed!TypeOK
  <1>4. SnapshotInv'
    <2> SUFFICES ASSUME NEW j \in DOMAIN loads', NEW t \in FeedSeats
                 PROVE  /\ loads'[j].at[t] <= version[t]
                        /\ loads'[j].at[t] = version[t] => loads'[j].seats[t] = feedStatus[t]
      BY DEF FeedInv, SnapshotInv
    <2> QED BY <1>3 DEF FeedInv, SnapshotInv
  <1> QED BY <1>1, <1>2, <1>4 DEF FeedInv

LEMMA LoadKeeps ==
    ASSUME FeedInv,
           Feed!load \/ \E i \in 1 .. Len(loads) : Feed!findPublicSeatMap(i) \/ Feed!LoadFails(i)
    PROVE  FeedInv'
  <1>1. /\ loads \in Seq(Feed!Load) /\ Len(loads) <= MaxLoads /\ MaxLoads \in Nat
        /\ version \in [FeedSeats -> 0 .. MaxVersion] /\ feedStatus \in [FeedSeats -> Feed!SeatStatus]
        /\ Len(loads) \in Nat
    BY WorkersAssumption DEF WorkersAssumption, Feed!FeedAssumption, FeedInv, Feed!TypeOK
  <1>2. ASSUME NEW st \in {"sent", "answered"}
        PROVE  /\ [state |-> st, seats |-> feedStatus, at |-> version] \in Feed!Load
               /\ [state |-> st, seats |-> feedStatus, at |-> version].at = version
               /\ [state |-> st, seats |-> feedStatus, at |-> version].seats = feedStatus
    BY <1>1 DEF Feed!Load
  <1>3. UNCHANGED <<feedStatus, version, outbox, feedClaimed, feedSent, feedFailed, published, link,
                    pipe, seats, versions, shown, calm>>
    BY DEF Feed!load, Feed!findPublicSeatMap, Feed!LoadFails, Feed!table, Feed!workers
  <1>4. CASE Feed!load
    <2> DEFINE l == [state |-> "sent", seats |-> feedStatus, at |-> version]
    <2>1. l \in Feed!Load /\ l.at = version /\ l.seats = feedStatus
      BY <1>2
    <2>2. Len(loads) < MaxLoads /\ loads' = Append(loads, l)
      BY <1>4 DEF Feed!load
    <2> HIDE DEF l
    <2>3. /\ loads' \in Seq(Feed!Load) /\ Len(loads') = Len(loads) + 1
          /\ \A j \in 1 .. Len(loads) : loads'[j] = loads[j]
          /\ loads'[Len(loads) + 1] = l
          /\ DOMAIN loads' = 1 .. Len(loads) + 1 /\ DOMAIN loads = 1 .. Len(loads)
      BY <1>1, <2>1, <2>2
    <2>4. ASSUME NEW j \in DOMAIN loads'
          PROVE  (\E k \in DOMAIN loads : loads'[j] = loads[k]) \/ loads'[j] = l
      <3>1. j \in 1 .. Len(loads) \/ j = Len(loads) + 1
        BY <1>1, <2>3
      <3> QED BY <2>3, <3>1
    <2>5. Len(loads') <= MaxLoads
      BY <1>1, <2>2, <2>3
    <2> QED BY <1>3, <2>1, <2>3, <2>4, <2>5, LoadsMove
  <1>5. ASSUME NEW i \in 1 .. Len(loads), Feed!findPublicSeatMap(i) PROVE FeedInv'
    <2> DEFINE l == [state |-> "answered", seats |-> feedStatus, at |-> version]
    <2>1. l \in Feed!Load /\ l.at = version /\ l.seats = feedStatus
      BY <1>2
    <2>2. loads' = [loads EXCEPT ![i] = l]
      BY <1>5 DEF Feed!findPublicSeatMap
    <2> HIDE DEF l
    <2>3. /\ loads' \in Seq(Feed!Load) /\ Len(loads') = Len(loads) /\ DOMAIN loads' = DOMAIN loads
          /\ \A j \in DOMAIN loads : loads'[j] = IF j = i THEN l ELSE loads[j]
      BY <1>1, <2>1, <2>2
    <2>4. ASSUME NEW j \in DOMAIN loads'
          PROVE  (\E k \in DOMAIN loads : loads'[j] = loads[k]) \/ loads'[j] = l
      BY <2>3
    <2> QED BY <1>1, <1>3, <2>1, <2>3, <2>4, LoadsMove
  <1>6. ASSUME NEW i \in 1 .. Len(loads), Feed!LoadFails(i) PROVE FeedInv'
    <2>1. /\ Feed!RemoveAt(loads, i) \in Seq(Feed!Load)
          /\ Len(Feed!RemoveAt(loads, i)) = Len(loads) - 1
          /\ \A j \in DOMAIN Feed!RemoveAt(loads, i) :
               \E k \in DOMAIN loads : Feed!RemoveAt(loads, i)[j] = loads[k]
      BY <1>1, RemoveAtMoves
    <2>2. loads' = Feed!RemoveAt(loads, i)
      BY <1>6 DEF Feed!LoadFails
    <2>3. Len(loads') <= MaxLoads
      BY <1>1, <2>1, <2>2
    <2> QED BY <1>3, <2>1, <2>2, <2>3, LoadsMove
  <1> QED BY <1>4, <1>5, <1>6

\* The snapshot replaces the screen.
LEMMA LoadedKeeps ==
    ASSUME FeedInv, NEW i \in 1 .. Len(loads), Feed!Loaded(i)
    PROVE  FeedInv' /\ loads' # loads
  <1> DEFINE l == loads[i]
  <1>1. /\ loads \in Seq(Feed!Load) /\ Len(loads) <= MaxLoads /\ MaxLoads \in Nat
        /\ DOMAIN loads = 1 .. Len(loads) /\ Len(loads) \in Nat /\ MaxVersion \in Nat
        /\ version \in [FeedSeats -> 0 .. MaxVersion] /\ l \in Feed!Load
    BY WorkersAssumption DEF WorkersAssumption, Feed!FeedAssumption, FeedInv, Feed!TypeOK
  <1>2. /\ loads' = Feed!RemoveAt(loads, i) /\ seats' = l.seats /\ shown' = l.at
        /\ versions' = [s \in FeedSeats |-> 0] /\ calm' = Feed!MissesNothing(l)
        /\ UNCHANGED <<feedStatus, version, outbox, feedClaimed, feedSent, feedFailed, published, link, pipe>>
    BY DEF Feed!Loaded, Feed!table, Feed!workers
  <1>3. /\ loads' \in Seq(Feed!Load) /\ Len(loads') = Len(loads) - 1
        /\ \A j \in DOMAIN loads' : \E k \in DOMAIN loads : loads'[j] = loads[k]
    <2>1. /\ Feed!RemoveAt(loads, i) \in Seq(Feed!Load)
          /\ Len(Feed!RemoveAt(loads, i)) = Len(loads) - 1
          /\ \A j \in DOMAIN Feed!RemoveAt(loads, i) :
               \E k \in DOMAIN loads : Feed!RemoveAt(loads, i)[j] = loads[k]
      BY <1>1, RemoveAtMoves, ZenonT(60)
    <2>2. loads' = Feed!RemoveAt(loads, i)
      BY <1>2
    <2> QED BY <2>1, <2>2
  <1>4. /\ l.seats \in [FeedSeats -> Feed!SeatStatus] /\ l.at \in [FeedSeats -> 0 .. MaxVersion]
        /\ \A s \in FeedSeats : /\ l.at[s] <= version[s]
                                /\ l.at[s] = version[s] => l.seats[s] = feedStatus[s]
    BY <1>1 DEF FeedInv, SnapshotInv, Feed!Load
  <1> HIDE DEF l
  <1>5. Feed!TypeOK'
    <2>1. Len(loads') <= MaxLoads /\ versions' \in [FeedSeats -> -1 .. MaxVersion]
      BY <1>1, <1>2, <1>3
    <2>2. calm' \in BOOLEAN
      BY <1>2 DEF Feed!MissesNothing
    <2>3. seats' \in [FeedSeats -> Feed!SeatStatus \cup {Feed!Unloaded}]
      BY <1>2, <1>4
    <2> QED BY <1>2, <1>3, <1>4, <2>1, <2>2, <2>3 DEF FeedInv, Feed!TypeOK
  <1>6. Feed!NothingLost' /\ RowsInv' /\ HonestInv'
    BY <1>2 DEF FeedInv, Feed!NothingLost, RowsInv, Under, HonestInv
  <1>7. SnapshotInv'
    <2>1. ASSUME NEW j \in DOMAIN loads', NEW t \in FeedSeats
          PROVE  /\ loads'[j].at[t] <= version[t]
                 /\ loads'[j].at[t] = version[t] => loads'[j].seats[t] = feedStatus[t]
      BY <1>3 DEF FeedInv, SnapshotInv
    <2> QED BY <1>2, <1>4, <2>1 DEF SnapshotInv
  <1>8. KnownInv'
    <2>1. \A s \in FeedSeats : l.seats[s] # Feed!Unloaded
      BY <1>4 DEF Feed!SeatStatus, Feed!Unloaded
    <2> QED BY <1>2, <2>1 DEF KnownInv
  <1>9. CalmInv'
    <2> SUFFICES ASSUME Feed!MissesNothing(l) PROVE CalmInv'
      BY <1>2 DEF CalmInv
    <2>1. /\ link = "subscribed"
          /\ \A s \in FeedSeats :
               /\ (l.at[s] + 1)..version[s] \subseteq Feed!VersionsIn(Certain, s)
               /\ \A v \in Feed!VersionsIn(Possible, s) : v > l.at[s]
      BY DEF Feed!MissesNothing, Certain, Possible
    <2>2. ASSUME NEW s \in FeedSeats, NEW v \in (l.at[s] + 1)..version[s]
          PROVE  \E r \in Certain : r.seat = s /\ r.version = v
      BY <2>1 DEF Feed!VersionsIn
    <2>3. ASSUME NEW s \in FeedSeats, NEW r \in Possible, r.seat = s
          PROVE  r.version > l.at[s]
      BY <2>1, <2>3 DEF Feed!VersionsIn
    <2>4. \A s \in FeedSeats : l.seats[s] # Feed!Unloaded /\ 0 <= l.at[s]
      <3>1. \A s \in FeedSeats : l.seats[s] # Feed!Unloaded
        BY <1>4 DEF Feed!SeatStatus, Feed!Unloaded
      <3>2. \A s \in FeedSeats : l.at[s] \in 0 .. MaxVersion
        BY <1>4
      <3> QED BY <1>1, <3>1, <3>2
    <2>5. Certain' = Certain /\ Possible' = Possible
      BY <1>2 DEF Certain, Possible
    <2> QED BY <1>2, <2>1, <2>2, <2>3, <2>4, <2>5 DEF CalmInv
  <1>10. loads' # loads
    BY <1>1, <1>3
  <1> QED BY <1>5, <1>6, <1>7, <1>8, <1>9, <1>10 DEF FeedInv

\* A message is applied if it is newer than what is known of its seat, and dropped
\* otherwise.
LEMMA MessageKeeps ==
    ASSUME FeedInv, Feed!onMessage
    PROVE  /\ FeedInv'
           /\ \A s \in FeedSeats : versions[s] > 0 => shown'[s] >= shown[s]
  <1> DEFINE r == Head(pipe)
  <1>1. /\ pipe \in Seq(Feed!Row) /\ pipe # <<>> /\ Len(pipe) <= MaxBuffered
        /\ outbox \subseteq Feed!Row /\ Len(pipe) \in Nat /\ MaxBuffered \in Nat /\ MaxVersion \in Nat
        /\ version \in [FeedSeats -> 0 .. MaxVersion] /\ shown \in [FeedSeats -> 0 .. MaxVersion]
        /\ versions \in [FeedSeats -> -1 .. MaxVersion]
        /\ seats \in [FeedSeats -> Feed!SeatStatus \cup {Feed!Unloaded}]
    BY WorkersAssumption
    DEF WorkersAssumption, Feed!FeedAssumption, FeedInv, Feed!TypeOK, Feed!onMessage
  <1>2. /\ Tail(pipe) \in Seq(Feed!Row) /\ Len(Tail(pipe)) = Len(pipe) - 1 /\ r \in Feed!Row
        /\ Feed!Range(pipe) = {r} \cup Feed!Range(Tail(pipe))
    BY <1>1, TailMoves
  <1>3. /\ pipe' = Tail(pipe)
        /\ UNCHANGED <<feedStatus, version, outbox, feedClaimed, feedSent, feedFailed, published, link,
                       loads, calm>>
        /\ \/ /\ r.version > versions[r.seat]
              /\ versions' = [versions EXCEPT ![r.seat] = r.version]
              /\ \/ seats[r.seat] = Feed!Unloaded /\ seats' = seats /\ shown' = shown
                 \/ /\ seats[r.seat] # Feed!Unloaded
                    /\ seats' = [seats EXCEPT ![r.seat] = r.status]
                    /\ shown' = [shown EXCEPT ![r.seat] = r.version]
           \/ /\ ~(r.version > versions[r.seat])
              /\ versions' = versions /\ seats' = seats /\ shown' = shown
    BY DEF Feed!onMessage, Feed!Newer, Feed!table, Feed!workers
  <1> HIDE DEF r
  <1>4. /\ r.seat \in FeedSeats /\ r.version \in 1 .. MaxVersion /\ r.status \in Feed!SeatStatus
        /\ r.version <= version[r.seat] /\ r \in Possible
        /\ r.version = version[r.seat] => r.status = feedStatus[r.seat]
    BY <1>2 DEF FeedInv, HonestInv, Feed!Row, Possible
  <1>5. \A s \in FeedSeats : s # r.seat =>
          versions'[s] = versions[s] /\ seats'[s] = seats[s] /\ shown'[s] = shown[s]
    BY <1>1, <1>3
  <1>6. \/ /\ r.version > versions[r.seat] /\ versions'[r.seat] = r.version
           /\ seats[r.seat] = Feed!Unloaded /\ seats' = seats /\ shown' = shown
        \/ /\ r.version > versions[r.seat] /\ versions'[r.seat] = r.version
           /\ seats[r.seat] # Feed!Unloaded
           /\ seats'[r.seat] = r.status /\ shown'[r.seat] = r.version
        \/ /\ ~(r.version > versions[r.seat])
           /\ versions' = versions /\ seats' = seats /\ shown' = shown
    BY <1>1, <1>3, <1>4
  <1>7. Feed!TypeOK'
    <2>1. Len(pipe') <= MaxBuffered
      BY <1>1, <1>2, <1>3
    <2>2. /\ versions' \in [FeedSeats -> -1 .. MaxVersion] /\ shown' \in [FeedSeats -> 0 .. MaxVersion]
      <3>1. r.version \in -1 .. MaxVersion /\ r.version \in 0 .. MaxVersion
        BY <1>1, <1>4
      <3> QED BY <1>1, <1>3, <3>1
    <2>3. seats' \in [FeedSeats -> Feed!SeatStatus \cup {Feed!Unloaded}]
      BY <1>1, <1>3, <1>4
    <2> QED BY <1>2, <1>3, <2>1, <2>2, <2>3 DEF FeedInv, Feed!TypeOK
  <1>8. /\ Possible' \subseteq Possible /\ Certain' \subseteq Certain
        /\ \A q \in Certain : q # r => q \in Certain'
    BY <1>2, <1>3 DEF Possible, Certain
  <1>9. Feed!NothingLost' /\ RowsInv'
    BY <1>3 DEF FeedInv, Feed!NothingLost, RowsInv, Under
  <1>10. HonestInv'
    BY <1>3, <1>8 DEF FeedInv, HonestInv, Possible
  <1>11. SnapshotInv'
    <2>1. ASSUME NEW s \in FeedSeats
          PROVE  /\ shown'[s] <= version[s]
                 /\ shown'[s] = version[s] /\ seats'[s] # Feed!Unloaded => seats'[s] = feedStatus[s]
      <3>1. /\ shown[s] <= version[s]
            /\ shown[s] = version[s] /\ seats[s] # Feed!Unloaded => seats[s] = feedStatus[s]
        BY DEF FeedInv, SnapshotInv
      <3> QED BY <1>4, <1>5, <1>6, <3>1
    <2> QED BY <1>3, <2>1 DEF FeedInv, SnapshotInv
  <1>12. KnownInv'
    <2>1. ASSUME NEW s \in FeedSeats
          PROVE  /\ versions'[s] > 0 => shown'[s] <= versions'[s]
                 /\ seats'[s] = Feed!Unloaded => shown'[s] = 0
      <3>1. /\ versions[s] > 0 => shown[s] <= versions[s]
            /\ seats[s] = Feed!Unloaded => shown[s] = 0
        BY DEF FeedInv, KnownInv
      <3>2. r.status # Feed!Unloaded /\ r.version \in Int /\ r.version >= 1
        BY <1>4, <1>1 DEF Feed!SeatStatus, Feed!Unloaded
      <3>3. CASE s = r.seat
        BY <1>6, <3>1, <3>2, <3>3
      <3>4. CASE s # r.seat
        BY <1>5, <3>1, <3>4
      <3> QED BY <3>3, <3>4
    <2> QED BY <2>1 DEF KnownInv
  <1>13. CalmInv'
    <2> SUFFICES ASSUME calm
                 PROVE  /\ link = "subscribed"
                        /\ \A s \in FeedSeats :
                             /\ seats'[s] # Feed!Unloaded
                             /\ versions'[s] <= shown'[s]
                             /\ \A v \in (shown'[s] + 1)..version[s] :
                                  \E q \in Certain' : q.seat = s /\ q.version = v
                             /\ \A q \in Possible' : q.seat = s /\ q.version > versions'[s]
                                                       => q.version > shown'[s]
      BY <1>3 DEF CalmInv
    <2>1. /\ link = "subscribed"
          /\ \A s \in FeedSeats :
               /\ seats[s] # Feed!Unloaded
               /\ versions[s] <= shown[s]
               /\ \A v \in (shown[s] + 1)..version[s] :
                    \E q \in Certain : q.seat = s /\ q.version = v
               /\ \A q \in Possible : q.seat = s /\ q.version > versions[s] => q.version > shown[s]
      BY DEF FeedInv, CalmInv
    <2>2. r.version \in Int /\ shown[r.seat] \in Int /\ versions[r.seat] \in Int
      BY <1>1, <1>4
    <2>3. ASSUME NEW s \in FeedSeats, s # r.seat
          PROVE  /\ seats'[s] # Feed!Unloaded
                 /\ versions'[s] <= shown'[s]
                 /\ \A v \in (shown'[s] + 1)..version[s] :
                      \E q \in Certain' : q.seat = s /\ q.version = v
                 /\ \A q \in Possible' : q.seat = s /\ q.version > versions'[s]
                                           => q.version > shown'[s]
      BY <1>5, <1>8, <2>1, <2>3
    <2>4. CASE r.version > versions[r.seat]
      <3>1. /\ versions'[r.seat] = r.version /\ seats'[r.seat] = r.status /\ shown'[r.seat] = r.version
            /\ r.version > shown[r.seat] /\ r.status # Feed!Unloaded
        BY <1>4, <1>6, <2>1, <2>4 DEF Feed!SeatStatus, Feed!Unloaded
      <3>2. ASSUME NEW v \in (r.version + 1)..version[r.seat]
            PROVE  \E q \in Certain' : q.seat = r.seat /\ q.version = v
        <4>1. v \in (shown[r.seat] + 1)..version[r.seat] /\ v # r.version
          BY <1>1, <1>4, <2>2, <3>1
        <4> QED BY <1>4, <1>8, <2>1, <4>1
      <3>3. versions'[r.seat] <= shown'[r.seat]
        BY <2>2, <3>1
      <3> QED BY <1>8, <2>1, <2>3, <3>1, <3>2, <3>3
    <2>5. CASE ~(r.version > versions[r.seat])
      <3>1. versions' = versions /\ seats' = seats /\ shown' = shown
        BY <1>6, <2>5
      <3>2. ASSUME NEW v \in (shown[r.seat] + 1)..version[r.seat]
            PROVE  \E q \in Certain' : q.seat = r.seat /\ q.version = v
        <4>1. v # r.version
          <5>1. versions[r.seat] <= shown[r.seat]
            BY <1>4, <2>1
          <5>2. v > shown[r.seat]
            BY <1>1, <1>4, <2>2
          <5> QED BY <2>2, <2>5, <5>1, <5>2
        <4> QED BY <1>4, <1>8, <2>1, <4>1
      <3> QED BY <1>8, <2>1, <2>3, <3>1, <3>2
    <2> QED BY <2>4, <2>5
  <1>14. ASSUME NEW s \in FeedSeats, versions[s] > 0 PROVE shown'[s] >= shown[s]
    <2>1. shown[s] <= versions[s] /\ shown[s] \in Int /\ versions[s] \in Int /\ r.version \in Int
      BY <1>1, <1>4, <1>14 DEF FeedInv, KnownInv
    <2>2. CASE s = r.seat
      BY <1>6, <2>1, <2>2
    <2>3. CASE s # r.seat
      BY <1>5, <2>1, <2>3
    <2> QED BY <2>2, <2>3
  <1> QED BY <1>7, <1>9, <1>10, <1>11, <1>12, <1>13, <1>14 DEF FeedInv

LEMMA FeedKeeps ==
    ASSUME FeedInv, [PartsNext]_<<part, signalVars, ticketVars, feedVars, batchVars>>
    PROVE  FeedInv'
  <1>1. CASE UNCHANGED feedVars
    BY <1>1
    DEF feedVars, FeedInv, Feed!TypeOK, Feed!NothingLost, RowsInv, Under, HonestInv, SnapshotInv,
        KnownInv, CalmInv, Certain, Possible
  <1>2. ASSUME NEW w \in Workers, NEW r \in feedClaimed[w],
               Feed!Publish(w, r) \/ \E arrived \in BOOLEAN : Feed!PublishFails(w, r, arrived)
        PROVE  FeedInv'
    <2>1. /\ feedClaimed' = [feedClaimed EXCEPT ![w] = @ \ {r}]
          /\ \/ /\ feedSent' = [feedSent EXCEPT ![w] = @ \cup {r}] /\ feedFailed' = feedFailed
                /\ Feed!forwardToLocalSubscribers(r)
             \/ /\ feedFailed' = [feedFailed EXCEPT ![w] = @ \cup {r}] /\ feedSent' = feedSent
                /\ \/ Feed!forwardToLocalSubscribers(r)
                   \/ published' = published /\ pipe' = pipe /\ calm' = calm
          /\ UNCHANGED <<feedStatus, version, outbox, link, loads, seats, versions, shown>>
      BY <1>2 DEF Feed!Publish, Feed!PublishFails, Feed!table, Feed!page
    <2> QED BY <2>1, ForwardKeeps
  <1>3. CASE Feed!Next
    BY <1>2, <1>3, ChangeKeeps, ClaimKeeps, CommitKeeps, SocketKeeps, LoadKeeps, LoadedKeeps,
       MessageKeeps
    DEF Feed!Next
  <1> QED BY <1>1, <1>3 DEF PartsNext

\* realtime-seat-status.worker.ts and useSeatMap.ts: whatever fails or crashes, every
\* change of a seat has been published or will be, and a page whose last load met nothing
\* it could miss shows what the table says once nothing is on its way.
THEOREM FeedInWorkers == PartsSpec => []FeedSound
  <1>1. FeedInv => FeedSound
    <2> SUFFICES ASSUME FeedInv, calm, outbox = {}, pipe = <<>> PROVE seats = feedStatus
      BY DEF FeedInv, FeedSound, Feed!FeedSound, Feed!Converges
    <2>1. Certain = {}
      BY DEF Certain, Feed!Range
    <2>2. /\ feedStatus \in [FeedSeats -> Feed!SeatStatus]
          /\ seats \in [FeedSeats -> Feed!SeatStatus \cup {Feed!Unloaded}]
          /\ version \in [FeedSeats -> 0 .. MaxVersion] /\ shown \in [FeedSeats -> 0 .. MaxVersion]
      BY DEF FeedInv, Feed!TypeOK
    <2>3. ASSUME NEW s \in FeedSeats PROVE seats[s] = feedStatus[s]
      <3>1. (shown[s] + 1)..version[s] = {} /\ seats[s] # Feed!Unloaded
        BY <2>1 DEF FeedInv, CalmInv
      <3>2. shown[s] <= version[s]
        BY DEF FeedInv, SnapshotInv
      <3>3. shown[s] = version[s]
        <4>1. shown[s] \in Int /\ version[s] \in Int
          BY <2>2
        <4>2. SUFFICES ASSUME shown[s] < version[s] PROVE FALSE
          BY <3>2, <4>1
        <4>3. shown[s] + 1 \in (shown[s] + 1)..version[s]
          BY <4>1, <4>2
        <4> QED BY <3>1, <4>3
      <3> QED BY <3>1, <3>3 DEF FeedInv, SnapshotInv
    <2> QED BY <2>2, <2>3
  <1> QED BY <1>1, FeedInit, FeedKeeps, PTL DEF PartsSpec

\* useSeatMap.ts, applyUpdate: between two loads no duplicate or overtaken message takes
\* a seat on screen back, once one has been applied.
THEOREM ForwardInWorkers == PartsSpec => ForwardSinceLoad
  <1>1. FeedInv /\ [PartsNext]_<<part, signalVars, ticketVars, feedVars, batchVars>>
          => [\A s \in FeedSeats : versions[s] > 0 /\ shown'[s] < shown[s] => loads' # loads]_(Feed!vars)
    <2> SUFFICES ASSUME FeedInv,
                        [PartsNext]_<<part, signalVars, ticketVars, feedVars, batchVars>>,
                        NEW s \in FeedSeats, versions[s] > 0, shown'[s] < shown[s]
                 PROVE  loads' # loads
      OBVIOUS
    <2>1. shown \in [FeedSeats -> 0 .. MaxVersion] /\ MaxVersion \in Nat
      BY WorkersAssumption DEF WorkersAssumption, Feed!FeedAssumption, FeedInv, Feed!TypeOK
    <2>2. CASE shown' = shown
      BY <2>1, <2>2
    <2>3. CASE Feed!onMessage
      <3>1. FeedInv' /\ shown'[s] >= shown[s]
        BY <2>3, MessageKeeps
      <3>2. shown' \in [FeedSeats -> 0 .. MaxVersion]
        BY <3>1 DEF FeedInv, Feed!TypeOK
      <3> QED BY <2>1, <3>1, <3>2
    <2>4. ASSUME NEW i \in 1 .. Len(loads), Feed!Loaded(i) PROVE loads' # loads
      BY <2>4, LoadedKeeps
    <2>5. CASE Feed!Next
      BY <2>2, <2>3, <2>4, <2>5
      DEF Feed!Next, Feed!ChangeSeat, Feed!claimPendingSeatStatusEvents, Feed!Commit, Feed!Crash,
          Feed!Publish, Feed!PublishFails, Feed!onopen, Feed!Subscribed, Feed!onclose, Feed!load,
          Feed!findPublicSeatMap, Feed!LoadFails, Feed!page
    <2> QED BY <2>2, <2>5 DEF PartsNext, feedVars
  <1> QED BY <1>1, FeedInit, FeedKeeps, PTL DEF PartsSpec, ForwardSinceLoad, Feed!ForwardSinceLoad

-----------------------------------------------------------------------------
(* Batches of the waitlist                                                  *)

\* What a batch has paired belongs to rows it has claimed, and a pairing in progress is
\* within the demand of its row and the iterations of its pass.
MadeInv ==
    \A w \in Workers :
        /\ \A s \in made[w] : Category[s] \in Batches!Rows(w)
        /\ pc[w] \in {"idle", "pass", "pair"}
        /\ pc[w] = "idle" => todo[w] = <<>>
        /\ pc[w] = "pair" => /\ todo[w] # <<>> /\ pick[w] \in Seats
                             /\ tries[w] < MaxPairings
                             /\ Category[pick[w]] = Head(todo[w])
                             /\ Batches!Waiting(w, Head(todo[w])) > 0

\* A request that locks seats has locked the lowest of those it needs.  One that inserts
\* outbox rows has all its seats, and its keys are the categories of these: those to come
\* are not among those it has inserted, and come once each.
OrderInv ==
    \A k \in Clients :
        /\ pc[k] = "idle" => need[k] = {}
        /\ \A s \in Seats : owner[s] = k =>
             s \in need[k] /\ \A t \in Batches!Unlocked(k) : s < t
        /\ pc[k] # "signal" => keys[k] = <<>> /\ added[k] = {}
        /\ pc[k] = "signal" => Batches!Unlocked(k) = {}
        /\ \A i \in 1 .. Len(keys[k]) :
             /\ keys[k][i] \notin added[k]
             /\ keys[k][i] \in {Category[s] : s \in need[k]}
             /\ \A j \in 1 .. Len(keys[k]) : keys[k][i] = keys[k][j] => i = j
        /\ added[k] \subseteq {Category[s] : s \in need[k]}

BatchInv == Batches!TypeOK /\ Batches!PairingsStand /\ Batches!RowsApart /\ MadeInv /\ OrderInv

\* The two instances of FiniteSets count alike.
LEMMA SameCount ==
    ASSUME NEW S
    PROVE  /\ Batches!IsFiniteSet(S) <=> IsFiniteSet(S)
           /\ Batches!Cardinality(S) = Cardinality(S)
  BY DEF Batches!IsFiniteSet, IsFiniteSet, Batches!Cardinality, Cardinality

LEMMA BatchConstants ==
    /\ Seats \subseteq Nat /\ IsFiniteSet(Seats) /\ NoSeat \notin Seats
    /\ NoOne \notin Workers \cup Clients /\ Workers \cap Clients = {}
    /\ "available" \notin Clients /\ "offered" \notin Clients
    /\ BatchSize \in Nat /\ BatchSize > 0 /\ MaxPairings \in Nat
    /\ Demand \in [Batches!Categories -> Nat] /\ Baskets \subseteq SUBSET Seats
  <1>1. Batches!AllocationAssumption
    BY WorkersAssumption DEF WorkersAssumption
  <1>2. {"available", "offered"} \cap Clients = {}
    BY <1>1 DEF Batches!AllocationAssumption
  <1>3. "available" \notin Clients /\ "offered" \notin Clients
    BY <1>2
  <1>4. BatchSize \in Nat /\ BatchSize > 0 /\ MaxPairings \in Nat
    BY <1>1 DEF Batches!AllocationAssumption
  <1> QED BY <1>1, <1>3, <1>4, SameCount DEF Batches!AllocationAssumption

\* The seats of a category a batch has paired are counted by a number.
LEMMA PairedCount ==
    ASSUME NEW S \in SUBSET Seats, NEW c
    PROVE  /\ IsFiniteSet({s \in S : Category[s] = c})
           /\ Cardinality({s \in S : Category[s] = c}) \in Nat
  <1>1. {s \in S : Category[s] = c} \in SUBSET Seats
    OBVIOUS
  <1>2. IsFiniteSet({s \in S : Category[s] = c})
    BY <1>1, BatchConstants, FS_Subset
  <1> QED BY <1>2, FS_CardinalityType

LEMMA CategoriesFinite == IsFiniteSet(Batches!Categories)
  <1> DEFINE cat == [s \in Seats |-> Category[s]]
  <1>1. cat \in Surjection(Seats, Batches!Categories)
    BY DEF Surjection, Batches!Categories
  <1> QED BY <1>1, BatchConstants, FS_Surjection

\* The categories of a row a worker claims first, and of the rows it has claimed.
LEMMA RowsMove ==
    ASSUME Batches!TypeOK, NEW w \in Workers, todo[w] # <<>>
    PROVE  /\ Head(todo[w]) \in Batches!Categories /\ Tail(todo[w]) \in Seq(Batches!Categories)
           /\ Batches!ToSet(todo[w]) = {Head(todo[w])} \cup Batches!ToSet(Tail(todo[w]))
  <1>1. todo[w] \in Seq(Batches!Categories)
    BY DEF Batches!TypeOK
  <1> HIDE DEF Batches!Categories
  <1> QED BY <1>1, TailMoves DEF Batches!ToSet, Feed!Range

LEMMA BatchInit == PartsInit => BatchInv
  <1> SUFFICES ASSUME Batches!Init PROVE BatchInv
    BY DEF PartsInit
  <1>1. Batches!TypeOK
    BY BatchConstants DEF Batches!Init, Batches!TypeOK
  <1>2. Batches!PairingsStand /\ OrderInv
    BY BatchConstants DEF Batches!Init, Batches!PairingsStand, OrderInv
  <1>3. ASSUME NEW w \in Workers PROVE Batches!Rows(w) = {}
    BY DEF Batches!Init, Batches!Rows, Batches!ToSet
  <1>4. ASSUME NEW w \in Workers, NEW c \in Batches!Categories PROVE Batches!Waiting(w, c) >= 0
    <2>1. {s \in made[w] : Category[s] = c} = {}
      BY DEF Batches!Init
    <2>2. Cardinality({s \in made[w] : Category[s] = c}) = 0
      BY <2>1, FS_EmptySet
    <2>3. demand[c] \in Nat
      BY <1>1 DEF Batches!TypeOK
    <2>4. Batches!Waiting(w, c) = demand[c] - 0
      BY <2>2, SameCount DEF Batches!Waiting
    <2> QED BY <2>3, <2>4
  <1>5. MadeInv
    BY DEF Batches!Init, MadeInv
  <1> QED BY <1>1, <1>2, <1>3, <1>4, <1>5 DEF BatchInv, Batches!RowsApart

\* No lock of a request and no request moves: the order stands.
LEMMA OrderStays ==
    ASSUME BatchInv, need' = need, keys' = keys, added' = added,
           \A k \in Clients : pc'[k] = pc[k],
           \A k \in Clients : \A s \in Seats : owner'[s] = k <=> owner[s] = k
    PROVE  OrderInv'
  <1>1. \A k \in Clients : need[k] \in SUBSET Seats
    BY DEF BatchInv, Batches!TypeOK
  <1>2. ASSUME NEW k \in Clients PROVE Batches!Unlocked(k)' = Batches!Unlocked(k)
    BY <1>1 DEF Batches!Unlocked
  <1> QED BY <1>2 DEF BatchInv, OrderInv

\* claimPendingAllocations: SKIP LOCKED takes rows no other batch has.
LEMMA BatchClaims ==
    ASSUME BatchInv, NEW w \in Workers, Batches!claimPendingAllocations(w)
    PROVE  BatchInv'
  <1> DEFINE S == Batches!Claimable
  <1>1. PICK q \in Batches!SetToSeqs(S) :
          /\ q # <<>>
          /\ todo' = [todo EXCEPT ![w] = SubSeq(q, 1, IF Len(q) < BatchSize
                                                  THEN Len(q) ELSE BatchSize)]
    BY DEF Batches!claimPendingAllocations
  <1>2. /\ pc[w] = "idle" /\ pc' = [pc EXCEPT ![w] = "pass"]
        /\ seat' = seat /\ demand' = demand /\ signal' = signal /\ owner' = owner
        /\ wrote' = wrote /\ pick' = pick /\ tries' = tries /\ made' = made /\ need' = need
        /\ keys' = keys /\ added' = added
    BY DEF Batches!claimPendingAllocations, Batches!Goto, Batches!tables, Batches!request
  <1>3. S \subseteq Batches!Categories /\ \A c \in S : \A v \in Workers : c \notin Batches!Rows(v)
    BY DEF Batches!Claimable
  <1> DEFINE m == IF Len(q) < BatchSize THEN Len(q) ELSE BatchSize
             t == SubSeq(q, 1, m)
  <1>4. /\ q \in Seq(S) /\ Len(q) \in Nat
        /\ t \in Seq(S) /\ Len(t) = m /\ \A i \in 1 .. m : t[i] = q[i]
    <2>1. IsFiniteSet(S)
      BY <1>3, CategoriesFinite, FS_Subset
    <2>2. Cardinality(S) \in Nat /\ q \in [1 .. Cardinality(S) -> S]
      BY <2>1, FS_CardinalityType, SameCount DEF Batches!SetToSeqs
    <2>3. q \in Seq(S) /\ Len(q) \in Nat
      BY <2>2
    <2> QED BY <2>3, BatchConstants
  <1>5. todo' = [todo EXCEPT ![w] = t]
    BY <1>1
  <1> HIDE DEF S, t
  <1>6. todo \in [Workers -> Seq(Batches!Categories)] /\ t \in Seq(Batches!Categories)
    BY <1>3, <1>4 DEF BatchInv, Batches!TypeOK
  <1>7. Batches!TypeOK'
    BY <1>2, <1>5, <1>6 DEF BatchInv, Batches!TypeOK
  <1>8. Batches!ToSet(t) \subseteq S
    BY <1>4 DEF Batches!ToSet
  <1>9. /\ \A v \in Workers \ {w} : Batches!Rows(v)' = Batches!Rows(v)
        /\ Batches!Rows(w) \subseteq Batches!Rows(w)'
        /\ Batches!Rows(w)' \subseteq Batches!Rows(w) \cup S
    <2>1. todo[w] = <<>> /\ Batches!ToSet(<<>>) = {}
      BY <1>2 DEF BatchInv, MadeInv, Batches!ToSet
    <2>2. todo'[w] = t /\ \A v \in Workers \ {w} : todo'[v] = todo[v]
      BY <1>5, <1>6
    <2> QED BY <1>2, <1>8, <2>1, <2>2 DEF Batches!Rows
  <1>10. ASSUME NEW v \in Workers, NEW u \in Workers, v # u
         PROVE  Batches!Rows(v)' \cap Batches!Rows(u)' = {}
    BY <1>3, <1>9, <1>10 DEF BatchInv, Batches!RowsApart
  <1>11. Batches!RowsApart'
    <2>1. ASSUME NEW v \in Workers, NEW c \in Batches!Categories
          PROVE  Batches!Waiting(v, c)' >= 0
      BY <1>2 DEF BatchInv, Batches!RowsApart, Batches!Waiting
    <2> QED BY <1>10, <2>1 DEF Batches!RowsApart
  <1>12. MadeInv'
    <2>1. ASSUME NEW v \in Workers \ {w}
          PROVE  pc'[v] = pc[v] /\ todo'[v] = todo[v] /\ Batches!Rows(v)' = Batches!Rows(v)
      BY <1>2, <1>5, <1>9
    <2>2. pc'[w] = "pass"
      BY <1>2 DEF BatchInv, Batches!TypeOK
    <2> QED BY <1>2, <1>9, <2>1, <2>2 DEF BatchInv, MadeInv, Batches!Waiting
  <1>13. \A k \in Clients : pc'[k] = pc[k]
    BY <1>2, BatchConstants DEF BatchInv, Batches!TypeOK
  <1> QED BY <1>2, <1>7, <1>11, <1>12, <1>13, OrderStays DEF BatchInv, Batches!PairingsStand

\* ReadSeat: CanTry is the guard of a pairing.
LEMMA BatchReads ==
    ASSUME BatchInv, NEW w \in Workers, Batches!ReadSeat(w)
    PROVE  BatchInv'
  <1> DEFINE c == Head(todo[w])
  <1>1. /\ pc[w] = "pass" /\ todo[w] # <<>> /\ Batches!Waiting(w, c) > 0
        /\ tries[w] < MaxPairings
        /\ seat' = seat /\ demand' = demand /\ signal' = signal /\ owner' = owner
        /\ todo' = todo /\ wrote' = wrote /\ tries' = tries /\ made' = made /\ need' = need
        /\ keys' = keys /\ added' = added /\ pc' = [pc EXCEPT ![w] = "pair"]
    BY DEF Batches!ReadSeat, Batches!CanTry, Batches!Goto, Batches!tables, Batches!request
  <1>2. PICK s \in Batches!Open(w, c) : pick' = [pick EXCEPT ![w] = s]
    BY DEF Batches!ReadSeat
  <1>3. s \in Seats /\ Category[s] = c
    BY DEF Batches!Open
  <1>4. Batches!TypeOK'
    BY <1>1, <1>2, <1>3 DEF BatchInv, Batches!TypeOK
  <1>5. ASSUME NEW v \in Workers
        PROVE  /\ Batches!Rows(v)' = Batches!Rows(v)
               /\ \A d \in Batches!Categories : Batches!Waiting(v, d)' = Batches!Waiting(v, d)
    BY <1>1 DEF Batches!Rows, Batches!Waiting
  <1>6. Batches!RowsApart'
    BY <1>5 DEF BatchInv, Batches!RowsApart
  <1>7. c \in Batches!Categories
    BY <1>1, RowsMove DEF BatchInv
  <1>8. MadeInv'
    <2>1. pc'[w] = "pair" /\ pick'[w] = s
      BY <1>1, <1>2 DEF BatchInv, Batches!TypeOK
    <2>2. Batches!Waiting(w, Head(todo[w]))' > 0
      BY <1>1 DEF Batches!Waiting
    <2>3. ASSUME NEW v \in Workers \ {w}
          PROVE  /\ pc'[v] = pc[v] /\ pick'[v] = pick[v]
                 /\ Batches!Waiting(v, Head(todo[v]))' = Batches!Waiting(v, Head(todo[v]))
      BY <1>1, <1>2 DEF Batches!Waiting
    <2> QED BY <1>1, <1>3, <1>5, <2>1, <2>2, <2>3 DEF BatchInv, MadeInv
  <1>9. \A k \in Clients : pc'[k] = pc[k]
    BY <1>1, BatchConstants DEF BatchInv, Batches!TypeOK
  <1> QED BY <1>1, <1>4, <1>6, <1>8, <1>9, OrderStays DEF BatchInv, Batches!PairingsStand

\* Pair: the seat was free and its lock is the worker's now.
LEMMA BatchPairs ==
    ASSUME BatchInv, NEW w \in Workers, Batches!Pair(w)
    PROVE  BatchInv'
  <1> DEFINE s == pick[w]
             c == Head(todo[w])
  <1>1. /\ pc[w] = "pair" /\ owner[s] = NoOne /\ seat[s] = "available"
        /\ owner' = [owner EXCEPT ![s] = w] /\ made' = [made EXCEPT ![w] = made[w] \cup {s}]
        /\ tries' = [tries EXCEPT ![w] = tries[w] + 1] /\ pc' = [pc EXCEPT ![w] = "pass"]
        /\ seat' = seat /\ demand' = demand /\ signal' = signal
        /\ todo' = todo /\ wrote' = wrote /\ pick' = [pick EXCEPT ![w] = NoSeat]
        /\ need' = need /\ keys' = keys /\ added' = added
    BY DEF Batches!Pair, Batches!EndPairing, Batches!Goto, Batches!tables, Batches!request
  <1>2. /\ s \in Seats /\ Category[s] = c /\ todo[w] # <<>>
        /\ Batches!Waiting(w, c) > 0
    BY <1>1 DEF BatchInv, MadeInv
  <1>3. made[w] \in SUBSET Seats /\ c \in Batches!Categories /\ c \in Batches!Rows(w)
    BY <1>2, RowsMove DEF BatchInv, Batches!TypeOK, Batches!Rows

  <1>4. tries[w] + 1 \in 0 .. MaxPairings
    <2>1. tries[w] \in 0 .. MaxPairings /\ tries[w] < MaxPairings
      BY <1>1 DEF BatchInv, MadeInv, Batches!TypeOK
    <2> QED BY <2>1, BatchConstants
  <1>5. Batches!TypeOK'
    <2>1. pc' \in [Workers \cup Clients -> {"idle", "pass", "pair", "hold", "release", "signal"}]
      BY <1>1 DEF BatchInv, Batches!TypeOK
    <2>2. /\ owner' \in [Seats -> Workers \cup Clients \cup {NoOne}]
          /\ tries' \in [Workers -> 0 .. MaxPairings] /\ made' \in [Workers -> SUBSET Seats]
      BY <1>1, <1>2, <1>3, <1>4 DEF BatchInv, Batches!TypeOK
    <2> QED BY <1>1, <2>1, <2>2 DEF BatchInv, Batches!TypeOK
  <1>6. ASSUME NEW v \in Workers PROVE Batches!Rows(v)' = Batches!Rows(v)
    BY <1>1 DEF Batches!Rows
  <1>7. made'[w] = made[w] \cup {s} /\ \A v \in Workers \ {w} : made'[v] = made[v]
    BY <1>1 DEF BatchInv, Batches!TypeOK
  <1>8. ASSUME NEW v \in Workers \ {w}, NEW d
        PROVE  Batches!Waiting(v, d)' = Batches!Waiting(v, d)
    BY <1>1, <1>7 DEF Batches!Waiting
  <1>9. ASSUME NEW d \in Batches!Categories PROVE Batches!Waiting(w, d)' >= 0
    <2> DEFINE old == {x \in made[w] : Category[x] = d}
               new == {x \in made'[w] : Category[x] = d}
    <2>1. /\ Batches!Waiting(w, d) = demand[d] - Cardinality(old)
          /\ Batches!Waiting(w, d)' = demand[d] - Cardinality(new)
      BY <1>1, SameCount DEF Batches!Waiting
    <2>2. demand[d] \in Nat /\ IsFiniteSet(old) /\ Cardinality(old) \in Nat
      BY <1>3, PairedCount DEF BatchInv, Batches!TypeOK
    <2>3. CASE d # c
      <3>1. new = old
        BY <1>2, <1>7, <2>3
      <3>2. Batches!Waiting(w, d) >= 0
        BY DEF BatchInv, Batches!RowsApart
      <3> QED BY <2>1, <3>1, <3>2
    <2>4. CASE d = c
      <3>1. new = old \cup {s}
        BY <1>2, <1>7, <2>4
      <3>2. Cardinality(new) = Cardinality(old) \/ Cardinality(new) = Cardinality(old) + 1
        BY <2>2, <3>1, FS_AddElement
      <3>3. Batches!Waiting(w, d) > 0
        BY <1>2, <2>4
      <3> HIDE DEF old, new
      <3> QED BY <2>1, <2>2, <3>2, <3>3
    <2> QED BY <2>3, <2>4
  <1>10. Batches!RowsApart'
    BY <1>6, <1>8, <1>9 DEF BatchInv, Batches!RowsApart
  <1>11. Batches!PairingsStand'
    <2>1. owner'[s] = w /\ \A t \in Seats \ {s} : owner'[t] = owner[t]
      BY <1>1, <1>2 DEF BatchInv, Batches!TypeOK
    <2>2. ASSUME NEW v \in Workers, NEW t \in made'[v]
          PROVE  owner'[t] = v /\ seat'[t] = "available"
      <3>1. CASE t = s
        <4>1. v = w
          <5>1. CASE v # w
            <6>1. t \in made[v]
              BY <1>7, <2>2, <5>1
            <6>2. owner[s] = v
              BY <3>1, <6>1 DEF BatchInv, Batches!PairingsStand
            <6> QED BY <1>1, <6>2, BatchConstants
          <5> QED BY <5>1
        <4> QED BY <1>1, <2>1, <3>1, <4>1
      <3>2. CASE t # s
        <4>1. t \in made[v] /\ t \in Seats
          BY <1>7, <2>2, <3>2 DEF BatchInv, Batches!TypeOK
        <4> QED BY <1>1, <2>1, <3>2, <4>1 DEF BatchInv, Batches!PairingsStand
      <3> QED BY <3>1, <3>2
    <2> QED BY <2>2 DEF Batches!PairingsStand
  <1>12. MadeInv'
    <2>1. /\ pc'[w] = "pass"
          /\ \A v \in Workers \ {w} : /\ pc'[v] = pc[v] /\ tries'[v] = tries[v]
                                      /\ pick'[v] = pick[v]
      BY <1>1 DEF BatchInv, Batches!TypeOK
    <2>2. ASSUME NEW v \in Workers \ {w}
          PROVE  Batches!Waiting(v, Head(todo[v]))' = Batches!Waiting(v, Head(todo[v]))
      BY <1>1, <1>7 DEF Batches!Waiting
    <2> QED BY <1>1, <1>2, <1>3, <1>6, <1>7, <2>1, <2>2 DEF BatchInv, MadeInv
  <1>13. /\ \A k \in Clients : pc'[k] = pc[k]
         /\ \A k \in Clients : \A t \in Seats : owner'[t] = k <=> owner[t] = k
    BY <1>1, BatchConstants DEF BatchInv, Batches!TypeOK
  <1> QED BY <1>1, <1>5, <1>10, <1>11, <1>12, <1>13, OrderStays DEF BatchInv

\* RacedAway: an iteration is spent.
LEMMA BatchLosesRace ==
    ASSUME BatchInv, NEW w \in Workers, Batches!RacedAway(w)
    PROVE  BatchInv'
  <1>1. /\ pc[w] = "pair"
        /\ tries' = [tries EXCEPT ![w] = tries[w] + 1] /\ pc' = [pc EXCEPT ![w] = "pass"]
        /\ seat' = seat /\ demand' = demand /\ signal' = signal /\ owner' = owner
        /\ todo' = todo /\ wrote' = wrote /\ pick' = [pick EXCEPT ![w] = NoSeat]
        /\ made' = made /\ need' = need /\ keys' = keys /\ added' = added
    BY DEF Batches!RacedAway, Batches!EndPairing, Batches!Goto, Batches!tables, Batches!request
  <1>2. tries[w] + 1 \in 0 .. MaxPairings
    <2>1. tries[w] \in 0 .. MaxPairings /\ tries[w] < MaxPairings
      BY <1>1 DEF BatchInv, MadeInv, Batches!TypeOK
    <2> QED BY <2>1, BatchConstants
  <1>3. Batches!TypeOK'
    BY <1>1, <1>2 DEF BatchInv, Batches!TypeOK
  <1>4. ASSUME NEW v \in Workers
        PROVE  /\ Batches!Rows(v)' = Batches!Rows(v)
               /\ \A d \in Batches!Categories : Batches!Waiting(v, d)' = Batches!Waiting(v, d)
               /\ Batches!Waiting(v, Head(todo[v]))' = Batches!Waiting(v, Head(todo[v]))
    BY <1>1 DEF Batches!Rows, Batches!Waiting
  <1>5. Batches!RowsApart'
    BY <1>4 DEF BatchInv, Batches!RowsApart
  <1>6. MadeInv'
    <2>1. /\ pc'[w] = "pass"
          /\ \A v \in Workers \ {w} : /\ pc'[v] = pc[v] /\ tries'[v] = tries[v]
                                      /\ pick'[v] = pick[v]
      BY <1>1 DEF BatchInv, Batches!TypeOK
    <2> QED BY <1>1, <1>4, <2>1 DEF BatchInv, MadeInv
  <1>7. \A k \in Clients : pc'[k] = pc[k]
    BY <1>1, BatchConstants DEF BatchInv, Batches!TypeOK
  <1> QED BY <1>1, <1>3, <1>5, <1>6, <1>7, OrderStays DEF BatchInv, Batches!PairingsStand

\* EndRow: the row moves from those to do to those written, and stays the batch's.
LEMMA BatchEndsRow ==
    ASSUME BatchInv, NEW w \in Workers, NEW how \in {"processed", "failed"}, todo[w] # <<>>,
           Batches!EndRow(w, how), UNCHANGED <<Batches!tables, owner, made, Batches!request>>
    PROVE  BatchInv'
  <1> DEFINE c == Head(todo[w])
  <1>1. /\ wrote' = [wrote EXCEPT ![w] = [wrote[w] EXCEPT ![c] = how]]
        /\ todo' = [todo EXCEPT ![w] = Tail(todo[w])]
        /\ tries' = [tries EXCEPT ![w] = 0] /\ pc' = [pc EXCEPT ![w] = "pass"]
        /\ seat' = seat /\ demand' = demand /\ signal' = signal /\ owner' = owner
        /\ pick' = [pick EXCEPT ![w] = NoSeat] /\ made' = made
        /\ need' = need /\ keys' = keys /\ added' = added
    BY DEF Batches!EndRow, Batches!EndPairing, Batches!Goto, Batches!tables, Batches!request
  <1>2. /\ c \in Batches!Categories /\ Tail(todo[w]) \in Seq(Batches!Categories)
        /\ Batches!ToSet(todo[w]) = {c} \cup Batches!ToSet(Tail(todo[w]))
    BY RowsMove DEF BatchInv
  <1>3. Batches!TypeOK'
    <2>1. 0 \in 0 .. MaxPairings
      BY BatchConstants
    <2>2. wrote' \in [Workers -> [Batches!Categories -> {"no", "processed", "failed"}]]
      BY <1>1, <1>2 DEF BatchInv, Batches!TypeOK
    <2>3. todo' \in [Workers -> Seq(Batches!Categories)]
      BY <1>1, <1>2 DEF BatchInv, Batches!TypeOK
    <2>4. /\ tries' \in [Workers -> 0 .. MaxPairings]
          /\ pc' \in [Workers \cup Clients -> {"idle", "pass", "pair", "hold", "release", "signal"}]
      BY <1>1, <2>1 DEF BatchInv, Batches!TypeOK
    <2> QED BY <1>1, <2>2, <2>3, <2>4 DEF BatchInv, Batches!TypeOK
  <1>4. /\ todo'[w] = Tail(todo[w]) /\ pc'[w] = "pass"
        /\ \A d \in Batches!Categories : wrote'[w][d] = IF d = c THEN how ELSE wrote[w][d]
        /\ \A v \in Workers \ {w} : /\ todo'[v] = todo[v] /\ wrote'[v] = wrote[v]
                                    /\ tries'[v] = tries[v] /\ pc'[v] = pc[v]
                                    /\ pick'[v] = pick[v]
    BY <1>1, <1>2 DEF BatchInv, Batches!TypeOK
  <1>5. Batches!Rows(w)' = Batches!Rows(w)
    <2>1. {d \in Batches!Categories : wrote'[w][d] # "no"}
            = {c} \cup {d \in Batches!Categories : wrote[w][d] # "no"}
      BY <1>2, <1>4
    <2> QED BY <1>2, <1>4, <2>1 DEF Batches!Rows
  <1>6. \A v \in Workers \ {w} : Batches!Rows(v)' = Batches!Rows(v)
    BY <1>4 DEF Batches!Rows
  <1>7. ASSUME NEW v \in Workers
        PROVE  /\ \A d \in Batches!Categories : Batches!Waiting(v, d)' = Batches!Waiting(v, d)
               /\ Batches!Waiting(v, Head(todo[v]))' = Batches!Waiting(v, Head(todo'[v]))
    BY <1>1 DEF Batches!Waiting
  <1>8. Batches!RowsApart'
    BY <1>5, <1>6, <1>7 DEF BatchInv, Batches!RowsApart
  <1>9. MadeInv'
    BY <1>1, <1>4, <1>5, <1>6, <1>7 DEF BatchInv, MadeInv
  <1>10. \A k \in Clients : pc'[k] = pc[k]
    BY <1>1, BatchConstants DEF BatchInv, Batches!TypeOK
  <1> QED BY <1>1, <1>3, <1>8, <1>9, <1>10, OrderStays DEF BatchInv, Batches!PairingsStand

\* EndBatch, after what COMMIT or ROLLBACK leaves in the tables.
LEMMA BatchEnds ==
    ASSUME BatchInv, NEW w \in Workers, Batches!EndBatch(w),
           seat' \in [Seats -> {"available", "offered"} \cup Clients],
           demand' \in [Batches!Categories -> Nat],
           signal' \in [Batches!Categories -> {"none", "pending", "backoff"}],
           \A s \in Seats : s \in made[w] \/ seat'[s] = seat[s],
           \A c \in Batches!Categories :
             \/ demand'[c] = demand[c]
             \/ c \in Batches!Rows(w)
    PROVE  BatchInv'
  <1>1. /\ todo' = [todo EXCEPT ![w] = <<>>]
        /\ wrote' = [wrote EXCEPT ![w] = [c \in Batches!Categories |-> "no"]]
        /\ tries' = [tries EXCEPT ![w] = 0] /\ made' = [made EXCEPT ![w] = {}]
        /\ owner' = [s \in Seats |-> IF owner[s] = w THEN NoOne ELSE owner[s]]
        /\ pc' = [pc EXCEPT ![w] = "idle"] /\ pick' = [pick EXCEPT ![w] = NoSeat]
        /\ need' = need /\ keys' = keys /\ added' = added
    BY DEF Batches!EndBatch, Batches!Unlock, Batches!Goto, Batches!request
  <1>2. /\ todo'[w] = <<>> /\ pc'[w] = "idle" /\ made'[w] = {}
        /\ \A d \in Batches!Categories : wrote'[w][d] = "no"
        /\ \A v \in Workers \ {w} : /\ todo'[v] = todo[v] /\ wrote'[v] = wrote[v]
                                    /\ tries'[v] = tries[v] /\ pc'[v] = pc[v]
                                    /\ made'[v] = made[v] /\ pick'[v] = pick[v]
    BY <1>1 DEF BatchInv, Batches!TypeOK
  <1>3. Batches!TypeOK'
    <2>1. 0 \in 0 .. MaxPairings
      BY BatchConstants
    <2>2. wrote' \in [Workers -> [Batches!Categories -> {"no", "processed", "failed"}]]
      BY <1>1 DEF BatchInv, Batches!TypeOK
    <2>3. todo' \in [Workers -> Seq(Batches!Categories)]
      BY <1>1 DEF BatchInv, Batches!TypeOK
    <2>4. /\ tries' \in [Workers -> 0 .. MaxPairings] /\ made' \in [Workers -> SUBSET Seats]
          /\ owner' \in [Seats -> Workers \cup Clients \cup {NoOne}]
          /\ pc' \in [Workers \cup Clients -> {"idle", "pass", "pair", "hold", "release", "signal"}]
      BY <1>1, <2>1 DEF BatchInv, Batches!TypeOK
    <2> QED BY <1>1, <2>2, <2>3, <2>4 DEF BatchInv, Batches!TypeOK
  <1>4. Batches!Rows(w)' = {} /\ \A v \in Workers \ {w} : Batches!Rows(v)' = Batches!Rows(v)
    <2>1. Batches!ToSet(<<>>) = {}
      BY DEF Batches!ToSet
    <2> QED BY <1>2, <2>1 DEF Batches!Rows
  \* no other batch has paired seats of the rows that end
  <1>5. ASSUME NEW v \in Workers \ {w}, NEW c \in Batches!Categories
        PROVE  \/ Batches!Waiting(v, c)' = Batches!Waiting(v, c)
               \/ c \notin Batches!Rows(v) /\ Batches!Waiting(v, c)' >= 0
    <2>1. CASE demand'[c] = demand[c]
      BY <1>2, <2>1 DEF Batches!Waiting
    <2>2. CASE c \in Batches!Rows(w)
      <3>1. c \notin Batches!Rows(v)
        BY <2>2 DEF BatchInv, Batches!RowsApart
      <3>2. {s \in made'[v] : Category[s] = c} = {}
        BY <1>2, <3>1 DEF BatchInv, MadeInv
      <3>3. Batches!Waiting(v, c)' = demand'[c] - 0
        BY <3>2, FS_EmptySet, SameCount DEF Batches!Waiting
      <3>4. demand'[c] \in Nat
        OBVIOUS
      <3> QED BY <3>1, <3>3, <3>4
    <2> QED BY <2>1, <2>2
  <1>6. ASSUME NEW c \in Batches!Categories PROVE Batches!Waiting(w, c)' >= 0
    <2>1. {s \in made'[w] : Category[s] = c} = {}
      BY <1>2
    <2>2. Batches!Waiting(w, c)' = demand'[c] - 0
      BY <2>1, FS_EmptySet, SameCount DEF Batches!Waiting
    <2>3. demand'[c] \in Nat
      OBVIOUS
    <2> QED BY <2>2, <2>3
  <1>7. Batches!RowsApart'
    BY <1>4, <1>5, <1>6 DEF BatchInv, Batches!RowsApart
  <1>8. MadeInv'
    <2>1. ASSUME NEW v \in Workers \ {w}, pc[v] = "pair"
          PROVE  Batches!Waiting(v, Head(todo[v]))' > 0
      <3>1. /\ todo[v] # <<>> /\ Batches!Waiting(v, Head(todo[v])) > 0
            /\ Head(todo[v]) \in Batches!Categories /\ Head(todo[v]) \in Batches!Rows(v)
        BY <2>1, RowsMove DEF BatchInv, MadeInv, Batches!Rows
      <3>2. Head(todo'[v]) = Head(todo[v])
        BY <1>2
      <3> QED BY <1>5, <3>1, <3>2 DEF Batches!Waiting
    <2> QED BY <1>1, <1>2, <1>4, <2>1 DEF BatchInv, MadeInv
  <1>9. Batches!PairingsStand'
    <2>1. ASSUME NEW v \in Workers \ {w}, NEW s \in made[v]
          PROVE  owner'[s] = v /\ seat'[s] = "available"
      <3>1. s \in Seats /\ owner[s] = v /\ seat[s] = "available"
        BY DEF BatchInv, Batches!PairingsStand, Batches!TypeOK
      <3>2. s \notin made[w]
        BY <3>1 DEF BatchInv, Batches!PairingsStand
      <3> QED BY <1>1, <3>1, <3>2
    <2> QED BY <1>2, <2>1 DEF Batches!PairingsStand
  <1>10. /\ \A k \in Clients : pc'[k] = pc[k]
         /\ \A k \in Clients : \A t \in Seats : owner'[t] = k <=> owner[t] = k
    BY <1>1, BatchConstants DEF BatchInv, Batches!TypeOK
  <1> QED BY <1>1, <1>3, <1>7, <1>8, <1>9, <1>10, OrderStays DEF BatchInv

LEMMA BatchCommits ==
    ASSUME BatchInv, NEW w \in Workers, Batches!CommitBatch(w)
    PROVE  BatchInv'
  <1>1. /\ seat' = [s \in Seats |-> IF s \in made[w] THEN "offered" ELSE seat[s]]
        /\ demand' = [c \in Batches!Categories |-> Batches!Waiting(w, c)]
        /\ signal' = [c \in Batches!Categories |->
                        CASE wrote[w][c] = "processed" -> "none"
                          [] wrote[w][c] = "failed" -> "backoff"
                          [] OTHER -> signal[c]]
        /\ Batches!EndBatch(w)
    BY DEF Batches!CommitBatch
  <1>2. ASSUME NEW c \in Batches!Categories
        PROVE  /\ Batches!Waiting(w, c) \in Nat
               /\ Batches!Waiting(w, c) = demand[c] \/ c \in Batches!Rows(w)
    <2> DEFINE mine == {s \in made[w] : Category[s] = c}
    <2>1. made[w] \in SUBSET Seats /\ demand[c] \in Nat
      BY DEF BatchInv, Batches!TypeOK
    <2>2. Batches!Waiting(w, c) = demand[c] - Cardinality(mine) /\ Batches!Waiting(w, c) >= 0
      BY SameCount DEF Batches!Waiting, BatchInv, Batches!RowsApart
    <2>3. Cardinality(mine) \in Nat
      BY <2>1, PairedCount
    <2>4. CASE mine = {}
      <3>1. Cardinality(mine) = 0
        BY <2>4, FS_EmptySet
      <3> QED BY <2>1, <2>2, <3>1
    <2>5. CASE mine # {}
      <3>1. c \in Batches!Rows(w)
        BY <2>5 DEF BatchInv, MadeInv
      <3> QED BY <2>1, <2>2, <2>3, <3>1
    <2> QED BY <2>4, <2>5
  <1>3. /\ seat' \in [Seats -> {"available", "offered"} \cup Clients]
        /\ \A s \in Seats : s \in made[w] \/ seat'[s] = seat[s]
    BY <1>1 DEF BatchInv, Batches!TypeOK
  <1>4. /\ demand' \in [Batches!Categories -> Nat]
        /\ \A c \in Batches!Categories : demand'[c] = demand[c] \/ c \in Batches!Rows(w)
    BY <1>1, <1>2
  <1>5. signal' \in [Batches!Categories -> {"none", "pending", "backoff"}]
    BY <1>1 DEF BatchInv, Batches!TypeOK
  <1> QED BY <1>1, <1>3, <1>4, <1>5, BatchEnds

LEMMA BatchDrops ==
    ASSUME BatchInv, NEW w \in Workers, Batches!DropConnection(w)
    PROVE  BatchInv'
  <1>1. Batches!EndBatch(w) /\ seat' = seat /\ demand' = demand /\ signal' = signal
    BY DEF Batches!DropConnection, Batches!tables
  <1>2. /\ seat \in [Seats -> {"available", "offered"} \cup Clients]
        /\ demand \in [Batches!Categories -> Nat]
        /\ signal \in [Batches!Categories -> {"none", "pending", "backoff"}]
    BY DEF BatchInv, Batches!TypeOK
  <1> QED BY <1>1, <1>2, BatchEnds

\* A step that moves no batch: the seats that change are not paired, and the locks of
\* the batches stand.
LEMMA BatchesStay ==
    ASSUME BatchInv, demand' = demand, todo' = todo, wrote' = wrote, pick' = pick,
           tries' = tries, made' = made, \A w \in Workers : pc'[w] = pc[w],
           \A w \in Workers : \A s \in made[w] : owner'[s] = owner[s] /\ seat'[s] = seat[s]
    PROVE  Batches!PairingsStand' /\ Batches!RowsApart' /\ MadeInv'
  <1>1. ASSUME NEW v \in Workers
        PROVE  /\ Batches!Rows(v)' = Batches!Rows(v)
               /\ \A d \in Batches!Categories : Batches!Waiting(v, d)' = Batches!Waiting(v, d)
               /\ Batches!Waiting(v, Head(todo[v]))' = Batches!Waiting(v, Head(todo[v]))
    BY DEF Batches!Rows, Batches!Waiting
  <1>2. Batches!RowsApart'
    BY <1>1 DEF BatchInv, Batches!RowsApart
  <1>3. MadeInv'
    BY <1>1 DEF BatchInv, MadeInv
  <1> QED BY <1>2, <1>3 DEF BatchInv, Batches!PairingsStand

\* BackoffElapses and Reconcile: only the signal moves.
LEMMA SignalMoves ==
    ASSUME BatchInv, NEW c \in Batches!Categories,
           Batches!BackoffElapses(c) \/ Batches!Reconcile(c)
    PROVE  BatchInv'
  <1>1. /\ signal' = [signal EXCEPT ![c] = "pending"]
        /\ seat' = seat /\ demand' = demand /\ owner' = owner /\ pc' = pc /\ todo' = todo
        /\ wrote' = wrote /\ pick' = pick /\ tries' = tries /\ made' = made /\ need' = need
        /\ keys' = keys /\ added' = added
    BY DEF Batches!BackoffElapses, Batches!Reconcile, Batches!batch, Batches!request
  <1>2. Batches!TypeOK'
    BY <1>1 DEF BatchInv, Batches!TypeOK
  <1>3. Batches!PairingsStand' /\ Batches!RowsApart' /\ MadeInv'
    BY <1>1, BatchesStay
  <1> QED BY <1>1, <1>2, <1>3, OrderStays DEF BatchInv

\* BeginHold and BeginRelease: a request that has no lock yet.
LEMMA RequestBegins ==
    ASSUME BatchInv, NEW k \in Clients, NEW S \in SUBSET Seats,
           Batches!BeginHold(k, S) \/ Batches!BeginRelease(k, S)
    PROVE  BatchInv'
  <1>1. /\ pc[k] = "idle" /\ need' = [need EXCEPT ![k] = S]
        /\ \/ pc' = [pc EXCEPT ![k] = "hold"]
           \/ pc' = [pc EXCEPT ![k] = "release"]
        /\ seat' = seat /\ demand' = demand /\ signal' = signal /\ owner' = owner
        /\ todo' = todo /\ wrote' = wrote /\ pick' = pick /\ tries' = tries /\ made' = made
        /\ keys' = keys /\ added' = added
    BY DEF Batches!BeginHold, Batches!BeginRelease, Batches!Goto, Batches!tables, Batches!batch
  <1>2. Batches!TypeOK'
    BY <1>1 DEF BatchInv, Batches!TypeOK
  <1>3. \A w \in Workers : pc'[w] = pc[w]
    BY <1>1, BatchConstants DEF BatchInv, Batches!TypeOK
  <1>4. Batches!PairingsStand' /\ Batches!RowsApart' /\ MadeInv'
    BY <1>1, <1>3, BatchesStay
  <1>5. /\ pc'[k] \in {"hold", "release"} /\ \A s \in Seats : owner'[s] # k
        /\ keys'[k] = <<>> /\ added'[k] = {}
        /\ \A j \in Clients \ {k} : pc'[j] = pc[j] /\ need'[j] = need[j]
    BY <1>1 DEF BatchInv, Batches!TypeOK, OrderInv
  <1>6. \A j \in Clients \ {k} : Batches!Unlocked(j)' = Batches!Unlocked(j)
    BY <1>1, <1>5 DEF Batches!Unlocked
  <1>7. OrderInv'
    BY <1>1, <1>5, <1>6 DEF BatchInv, OrderInv
  <1> QED BY <1>2, <1>4, <1>7 DEF BatchInv

\* LockSeat: in id order, so what it has locked is below what is left.
LEMMA SeatLocked ==
    ASSUME BatchInv, NEW k \in Clients, Batches!LockSeat(k)
    PROVE  BatchInv'
  <1>1. PICK s \in need[k] : /\ Batches!NextSeat(k, s) /\ owner[s] = NoOne
                             /\ owner' = [owner EXCEPT ![s] = k]
    BY DEF Batches!LockSeat
  <1>2. /\ pc[k] # "idle" /\ pc' = pc /\ need' = need
        /\ seat' = seat /\ demand' = demand /\ signal' = signal
        /\ todo' = todo /\ wrote' = wrote /\ pick' = pick /\ tries' = tries /\ made' = made
        /\ keys' = keys /\ added' = added
    BY DEF Batches!LockSeat, Batches!tables, Batches!batch, Batches!request
  <1>3. s \in Seats /\ need[k] \in SUBSET Seats
    BY DEF BatchInv, Batches!TypeOK
  <1>4. Batches!TypeOK'
    BY <1>1, <1>2, <1>3 DEF BatchInv, Batches!TypeOK
  <1>5. owner'[s] = k /\ \A t \in Seats \ {s} : owner'[t] = owner[t]
    BY <1>1, <1>3 DEF BatchInv, Batches!TypeOK
  <1>6. ASSUME NEW w \in Workers, NEW t \in made[w] PROVE owner'[t] = owner[t]
    <2>1. t \in Seats /\ owner[t] = w
      BY DEF BatchInv, Batches!PairingsStand, Batches!TypeOK
    <2> QED BY <1>1, <1>5, <2>1, BatchConstants
  <1>7. Batches!PairingsStand' /\ Batches!RowsApart' /\ MadeInv'
    BY <1>2, <1>6, BatchesStay
  <1>8. ASSUME NEW j \in Clients, NEW r \in Seats, owner'[r] = j
        PROVE  r \in need'[j] /\ \A t \in Batches!Unlocked(j)' : r < t
    <2>1. CASE r = s
      <3>1. j = k
        BY <1>5, <1>8, <2>1
      <3>2. ASSUME NEW t \in Batches!Unlocked(k)' PROVE s < t
        <4>1. t \in Batches!Unlocked(k) /\ t # s
          BY <1>2, <1>3, <1>5, <3>2 DEF Batches!Unlocked
        <4>2. s <= t /\ t \in Nat /\ s \in Nat
          BY <1>1, <1>3, <4>1, BatchConstants DEF Batches!NextSeat, Batches!Unlocked
        <4> QED BY <4>1, <4>2
      <3> QED BY <1>2, <2>1, <3>1, <3>2
    <2>2. CASE r # s
      <3>1. owner[r] = j
        BY <1>5, <1>8, <2>2
      <3>2. r \in need[j] /\ \A t \in Batches!Unlocked(j) : r < t
        BY <3>1 DEF BatchInv, OrderInv
      <3>3. Batches!Unlocked(j)' \subseteq Batches!Unlocked(j)
        <4>1. need[j] \in SUBSET Seats
          BY DEF BatchInv, Batches!TypeOK
        <4>2. \A t \in Seats : owner[t] = j => owner'[t] = j
          BY <1>1, <1>5, BatchConstants
        <4> QED BY <1>2, <4>1, <4>2 DEF Batches!Unlocked
      <3> QED BY <1>2, <3>2, <3>3
    <2> QED BY <2>1, <2>2
  <1>9. ASSUME NEW j \in Clients, pc'[j] = "signal" PROVE Batches!Unlocked(j)' = {}
    <2>1. Batches!Unlocked(j) = {} /\ need[j] \in SUBSET Seats
      BY <1>2, <1>9 DEF BatchInv, OrderInv, Batches!TypeOK
    <2>2. \A t \in need[j] : owner[t] = j
      BY <2>1 DEF Batches!Unlocked
    <2>3. \A t \in need[j] : owner'[t] = j
      BY <1>1, <1>5, <2>1, <2>2, BatchConstants
    <2> QED BY <1>2, <2>3 DEF Batches!Unlocked
  <1>10. OrderInv'
    BY <1>2, <1>8, <1>9 DEF BatchInv, OrderInv
  <1> QED BY <1>4, <1>7, <1>10 DEF BatchInv

\* EndRequest, after what COMMIT or ROLLBACK leaves in the tables.
LEMMA RequestEnds ==
    ASSUME BatchInv, NEW k \in Clients, Batches!EndRequest(k), demand' = demand,
           seat' \in [Seats -> {"available", "offered"} \cup Clients],
           signal' \in [Batches!Categories -> {"none", "pending", "backoff"}],
           \A s \in Seats : seat'[s] = seat[s] \/ owner[s] = k
    PROVE  BatchInv'
  <1>1. /\ owner' = [s \in Seats |-> IF owner[s] = k THEN NoOne ELSE owner[s]]
        /\ need' = [need EXCEPT ![k] = {}] /\ pc' = [pc EXCEPT ![k] = "idle"]
        /\ keys' = [keys EXCEPT ![k] = <<>>] /\ added' = [added EXCEPT ![k] = {}]
        /\ todo' = todo /\ wrote' = wrote /\ pick' = pick /\ tries' = tries /\ made' = made
    BY DEF Batches!EndRequest, Batches!Unlock, Batches!Goto, Batches!batch
  <1>2. Batches!TypeOK'
    <2>1. owner' \in [Seats -> Workers \cup Clients \cup {NoOne}]
      BY <1>1 DEF BatchInv, Batches!TypeOK
    <2>2. /\ need' \in [Clients -> SUBSET Seats] /\ keys' \in [Clients -> Seq(Batches!Categories)]
          /\ added' \in [Clients -> SUBSET Batches!Categories]
      BY <1>1 DEF BatchInv, Batches!TypeOK
    <2>3. pc' \in [Workers \cup Clients -> {"idle", "pass", "pair", "hold", "release", "signal"}]
      BY <1>1 DEF BatchInv, Batches!TypeOK
    <2> QED BY <1>1, <2>1, <2>2, <2>3 DEF BatchInv, Batches!TypeOK
  <1>3. ASSUME NEW w \in Workers, NEW s \in made[w] PROVE owner'[s] = owner[s] /\ seat'[s] = seat[s]
    <2>1. s \in Seats /\ owner[s] = w /\ w # k
      BY BatchConstants DEF BatchInv, Batches!PairingsStand, Batches!TypeOK
    <2> QED BY <1>1, <2>1
  <1>4. \A w \in Workers : pc'[w] = pc[w]
    BY <1>1, BatchConstants DEF BatchInv, Batches!TypeOK
  <1>5. Batches!PairingsStand' /\ Batches!RowsApart' /\ MadeInv'
    BY <1>1, <1>3, <1>4, BatchesStay
  <1>6. /\ \A s \in Seats : owner'[s] # k
        /\ need'[k] = {} /\ pc'[k] = "idle" /\ keys'[k] = <<>> /\ added'[k] = {}
        /\ \A j \in Clients \ {k} :
             /\ need'[j] = need[j] /\ pc'[j] = pc[j] /\ keys'[j] = keys[j] /\ added'[j] = added[j]
             /\ \A s \in Seats : owner'[s] = j <=> owner[s] = j
    BY <1>1, BatchConstants DEF BatchInv, Batches!TypeOK
  <1>7. \A j \in Clients \ {k} : Batches!Unlocked(j)' = Batches!Unlocked(j)
    <2>1. \A j \in Clients : need[j] \in SUBSET Seats
      BY DEF BatchInv, Batches!TypeOK
    <2> QED BY <1>6, <2>1 DEF Batches!Unlocked
  <1>8. OrderInv'
    BY <1>6, <1>7 DEF BatchInv, OrderInv
  <1> QED BY <1>2, <1>5, <1>8 DEF BatchInv

LEMMA RequestSettles ==
    ASSUME BatchInv, NEW k \in Clients,
           \/ Batches!CreateHold(k) \/ Batches!HoldRefused(k) \/ Batches!CommitRelease(k)
           \/ Batches!EndRequest(k) /\ UNCHANGED Batches!tables
    PROVE  BatchInv'
  <1>1. /\ seat \in [Seats -> {"available", "offered"} \cup Clients]
        /\ signal \in [Batches!Categories -> {"none", "pending", "backoff"}]
        /\ need[k] \in SUBSET Seats
    BY DEF BatchInv, Batches!TypeOK
  <1>2. CASE Batches!CreateHold(k) \/ Batches!CommitRelease(k)
    <2>1. /\ Batches!EndRequest(k) /\ demand' = demand /\ Batches!Unlocked(k) = {}
          /\ \/ /\ seat' = [s \in Seats |-> IF s \in need[k] THEN k ELSE seat[s]]
                /\ signal' = signal
             \/ /\ seat' = [s \in Seats |-> IF s \in need[k] THEN "available" ELSE seat[s]]
                /\ signal' = [c \in Batches!Categories |->
                                IF c \in added[k] THEN "pending" ELSE signal[c]]
      BY <1>2 DEF Batches!CreateHold, Batches!CommitRelease, BatchInv, OrderInv
    <2>2. \A s \in need[k] : owner[s] = k
      BY <2>1 DEF Batches!Unlocked
    <2>3. /\ seat' \in [Seats -> {"available", "offered"} \cup Clients]
          /\ signal' \in [Batches!Categories -> {"none", "pending", "backoff"}]
      BY <1>1, <2>1
    <2>4. \A s \in Seats : seat'[s] = seat[s] \/ owner[s] = k
      BY <1>1, <2>1, <2>2
    <2> QED BY <2>1, <2>3, <2>4, RequestEnds
  <1>3. CASE Batches!HoldRefused(k) \/ (Batches!EndRequest(k) /\ UNCHANGED Batches!tables)
    <2>1. Batches!EndRequest(k) /\ seat' = seat /\ demand' = demand /\ signal' = signal
      BY <1>3 DEF Batches!HoldRefused, Batches!tables
    <2> QED BY <1>1, <2>1, RequestEnds
  <1> QED BY <1>2, <1>3

\* ReleaseSeats: the keys are the categories of the seats, each once.
LEMMA ReleaseBegins ==
    ASSUME BatchInv, NEW k \in Clients, Batches!ReleaseSeats(k)
    PROVE  BatchInv'
  <1> DEFINE S == {Category[s] : s \in need[k]}
  <1>1. PICK q \in Batches!SetToSeqs(S) : keys' = [keys EXCEPT ![k] = q]
    BY DEF Batches!ReleaseSeats
  <1>2. /\ pc[k] = "release" /\ pc' = [pc EXCEPT ![k] = "signal"] /\ Batches!Unlocked(k) = {}
        /\ seat' = seat /\ demand' = demand /\ signal' = signal /\ owner' = owner
        /\ todo' = todo /\ wrote' = wrote /\ pick' = pick /\ tries' = tries /\ made' = made
        /\ need' = need /\ added' = added
    BY DEF Batches!ReleaseSeats, Batches!Goto, Batches!tables, Batches!batch
  <1>3. need[k] \in SUBSET Seats /\ added[k] = {}
    BY <1>2 DEF BatchInv, Batches!TypeOK, OrderInv
  <1>4. S \subseteq Batches!Categories
    BY <1>3 DEF Batches!Categories
  <1>5. /\ q \in Seq(S) /\ \A i \in 1 .. Len(q) : q[i] \in S
        /\ \A i, j \in 1 .. Len(q) : q[i] = q[j] => i = j
    <2>1. IsFiniteSet(S)
      BY <1>4, CategoriesFinite, FS_Subset
    <2>2. Cardinality(S) \in Nat /\ q \in [1 .. Cardinality(S) -> S]
      BY <2>1, FS_CardinalityType, SameCount DEF Batches!SetToSeqs
    <2>3. \A i, j \in 1 .. Cardinality(S) : q[i] = q[j] => i = j
      BY <2>1, <2>2, SameCount DEF Batches!SetToSeqs, Batches!IsInjective
    <2>4. PICK n \in Nat : n = Cardinality(S)
      BY <2>2
    <2>5. q \in [1 .. n -> S]
      BY <2>2, <2>4
    <2> HIDE DEF S
    <2>6. q \in Seq(S) /\ Len(q) = n
      BY <2>5
    <2> QED BY <2>2, <2>3, <2>4, <2>6
  <1>6. q \in Seq(Batches!Categories)
    BY <1>4, <1>5
  <1> HIDE DEF S
  <1>7. Batches!TypeOK'
    BY <1>1, <1>2, <1>6 DEF BatchInv, Batches!TypeOK
  <1>8. \A w \in Workers : pc'[w] = pc[w]
    BY <1>2, BatchConstants DEF BatchInv, Batches!TypeOK
  <1>9. Batches!PairingsStand' /\ Batches!RowsApart' /\ MadeInv'
    BY <1>2, <1>8, BatchesStay
  <1>10. /\ pc'[k] = "signal" /\ keys'[k] = q
         /\ \A j \in Clients \ {k} : pc'[j] = pc[j] /\ keys'[j] = keys[j]
    BY <1>1, <1>2 DEF BatchInv, Batches!TypeOK
  <1>11. \A j \in Clients : Batches!Unlocked(j)' = Batches!Unlocked(j)
    BY <1>2 DEF Batches!Unlocked
  <1>12. OrderInv'
    BY <1>2, <1>3, <1>5, <1>10, <1>11 DEF BatchInv, OrderInv, S
  <1> QED BY <1>7, <1>9, <1>12 DEF BatchInv

\* enqueueWaitlistAllocationForSeats: the next key moves to those inserted, or is left.
LEMMA RowInserted ==
    ASSUME BatchInv, NEW k \in Clients, Batches!enqueueWaitlistAllocationForSeats(k)
    PROVE  BatchInv'
  <1> DEFINE c == Head(keys[k])
  <1>1. /\ pc[k] = "signal" /\ keys[k] # <<>> /\ keys' = [keys EXCEPT ![k] = Tail(keys[k])]
        /\ added' = [added EXCEPT ![k] = IF signal[c] = "none" THEN added[k] \cup {c}
                                                             ELSE added[k]]
        /\ seat' = seat /\ demand' = demand /\ signal' = signal /\ owner' = owner
        /\ todo' = todo /\ wrote' = wrote /\ pick' = pick /\ tries' = tries /\ made' = made
        /\ need' = need /\ pc' = pc
    BY DEF Batches!enqueueWaitlistAllocationForSeats, Batches!tables, Batches!batch
  <1>2. keys[k] \in Seq(Batches!Categories) /\ added[k] \in SUBSET Batches!Categories
    BY DEF BatchInv, Batches!TypeOK
  <1> HIDE DEF Batches!Categories
  <1>3. /\ c \in Batches!Categories /\ c = keys[k][1] /\ Len(keys[k]) \in Nat /\ Len(keys[k]) > 0
        /\ Tail(keys[k]) \in Seq(Batches!Categories) /\ Len(Tail(keys[k])) = Len(keys[k]) - 1
        /\ \A i \in 1 .. Len(Tail(keys[k])) : Tail(keys[k])[i] = keys[k][i + 1]
    BY <1>1, <1>2
  <1>4. Batches!TypeOK'
    BY <1>1, <1>2, <1>3 DEF BatchInv, Batches!TypeOK
  <1>5. Batches!PairingsStand' /\ Batches!RowsApart' /\ MadeInv'
    BY <1>1, BatchesStay
  <1>6. /\ keys'[k] = Tail(keys[k]) /\ added'[k] \subseteq added[k] \cup {c}
        /\ \A j \in Clients \ {k} : keys'[j] = keys[j] /\ added'[j] = added[j]
    BY <1>1 DEF BatchInv, Batches!TypeOK
  <1>7. \A j \in Clients : Batches!Unlocked(j)' = Batches!Unlocked(j)
    BY <1>1 DEF Batches!Unlocked
  <1>8. c \in {Category[s] : s \in need[k]}
    BY <1>3 DEF BatchInv, OrderInv
  <1>9. ASSUME NEW i \in 1 .. Len(keys'[k])
        PROVE  /\ keys'[k][i] = keys[k][i + 1] /\ i + 1 \in 1 .. Len(keys[k])
               /\ keys'[k][i] \notin added'[k]
    <2>1. i \in Nat /\ i + 1 \in 1 .. Len(keys[k]) /\ 1 \in 1 .. Len(keys[k]) /\ i + 1 # 1
      BY <1>3, <1>6
    <2>2. keys'[k][i] = keys[k][i + 1]
      BY <1>3, <1>6
    <2>3. keys[k][i + 1] # c /\ keys[k][i + 1] \notin added[k]
      BY <1>3, <2>1 DEF BatchInv, OrderInv
    <2> QED BY <1>6, <2>1, <2>2, <2>3
  <1>10. ASSUME NEW i \in 1 .. Len(keys'[k]), NEW j \in 1 .. Len(keys'[k]),
                keys'[k][i] = keys'[k][j]
         PROVE  i = j
    <2>1. i + 1 = j + 1
      BY <1>9, <1>10 DEF BatchInv, OrderInv
    <2> QED BY <2>1
  <1>11. ASSUME NEW i \in 1 .. Len(keys'[k]) PROVE keys'[k][i] \in {Category[s] : s \in need'[k]}
    BY <1>1, <1>9 DEF BatchInv, OrderInv
  <1>12. added'[k] \subseteq {Category[s] : s \in need'[k]}
    BY <1>1, <1>6, <1>8 DEF BatchInv, OrderInv
  <1>13. OrderInv'
    <2>1. ASSUME NEW j \in Clients \ {k}
          PROVE  keys'[j] = keys[j] /\ added'[j] = added[j] /\ need'[j] = need[j] /\ pc'[j] = pc[j]
      BY <1>1, <1>6
    <2> QED BY <1>1, <1>7, <1>9, <1>10, <1>11, <1>12, <2>1 DEF BatchInv, OrderInv
  <1> QED BY <1>4, <1>5, <1>13 DEF BatchInv

\* markAllocationProcessed and recordAllocationFailure each end the row of a pass.
LEMMA BatchWrites ==
    ASSUME BatchInv, NEW w \in Workers,
           Batches!markAllocationProcessed(w) \/ Batches!recordAllocationFailure(w)
    PROVE  BatchInv'
  <1>1. CASE Batches!markAllocationProcessed(w)
    <2>1. /\ todo[w] # <<>> /\ Batches!EndRow(w, "processed")
          /\ UNCHANGED <<Batches!tables, owner, made, Batches!request>>
      BY <1>1 DEF Batches!markAllocationProcessed
    <2> QED BY <2>1, BatchEndsRow
  <1>2. CASE Batches!recordAllocationFailure(w)
    <2>1. /\ pc[w] = "pair" /\ Batches!EndRow(w, "failed")
          /\ UNCHANGED <<Batches!tables, owner, made, Batches!request>>
      BY <1>2 DEF Batches!recordAllocationFailure
    <2>2. todo[w] # <<>>
      BY <2>1 DEF BatchInv, MadeInv
    <2> QED BY <2>1, <2>2, BatchEndsRow
  <1> QED BY <1>1, <1>2

LEMMA BatchKeeps ==
    BatchInv /\ [PartsNext]_<<part, signalVars, ticketVars, feedVars, batchVars>> => BatchInv'
  <1> SUFFICES ASSUME BatchInv,
                      [PartsNext]_<<part, signalVars, ticketVars, feedVars, batchVars>>
               PROVE  BatchInv'
    OBVIOUS
  <1>1. CASE UNCHANGED batchVars
    <2>1. /\ seat' = seat /\ demand' = demand /\ signal' = signal /\ owner' = owner /\ pc' = pc
          /\ todo' = todo /\ wrote' = wrote /\ pick' = pick /\ tries' = tries /\ made' = made
          /\ need' = need /\ keys' = keys /\ added' = added
      BY <1>1 DEF batchVars
    <2>2. Batches!TypeOK'
      BY <2>1 DEF BatchInv, Batches!TypeOK
    <2> QED BY <2>1, <2>2, BatchesStay, OrderStays DEF BatchInv
  <1>2. CASE Batches!Next
    <2>1. ASSUME NEW w \in Workers, Batches!WorkerStep(w) PROVE BatchInv'
      BY <2>1, BatchClaims, BatchReads, BatchPairs, BatchLosesRace, BatchWrites, BatchCommits,
         BatchDrops DEF Batches!WorkerStep
    <2>2. ASSUME NEW k \in Clients, Batches!ClientStep(k) PROVE BatchInv'
      BY <2>2, BatchConstants, RequestBegins, SeatLocked, RequestSettles, ReleaseBegins,
         RowInserted DEF Batches!ClientStep
    <2>3. ASSUME NEW p \in Workers \cup Clients, Batches!BreakDeadlock(p) PROVE BatchInv'
      BY <2>3, BatchWrites, RequestSettles DEF Batches!BreakDeadlock
    <2> QED BY <1>2, <2>1, <2>2, <2>3, SignalMoves DEF Batches!Next
  <1> QED BY <1>1, <1>2 DEF PartsNext

\* waitlist-allocation.worker.ts, allocateLoop: a pairing that is not committed still owns
\* its seat, no outbox row is in two batches, and no pass promises more seats than its
\* category has entries waiting, for any hall, any workers and any customers.
THEOREM BatchesInWorkers == PartsSpec => []BatchSound
  <1>1. BatchInv => BatchSound
    BY DEF BatchInv, BatchSound, Batches!BatchSound
  <1> QED BY <1>1, BatchInit, BatchKeeps, PTL DEF PartsSpec

\* A request that waits for a seat waits for the owner of the lowest it has not locked.
LEMMA WaitsForSeat ==
    ASSUME BatchInv, NEW k \in Clients, Batches!Unlocked(k) # {},
           NEW j \in Clients, j \in Batches!BlockedBy(k)
    PROVE  \E s \in Seats : Batches!NextSeat(k, s) /\ owner[s] = j
  <1>1. k \notin Workers
    BY BatchConstants
  <1> QED BY <1>1 DEF Batches!BlockedBy

\* A request that waits for another one's seat waits for a lower one than that one does.
LEMMA WaitsRise ==
    ASSUME BatchInv, NEW k \in Clients, NEW j \in Clients, j \in Batches!BlockedBy(k),
           NEW s \in Seats, Batches!NextSeat(k, s), NEW t \in Seats, Batches!NextSeat(j, t)
    PROVE  s < t
  <1>1. Batches!Unlocked(k) # {}
    BY DEF Batches!NextSeat
  <1>2. PICK r \in Seats : Batches!NextSeat(k, r) /\ owner[r] = j
    BY <1>1, WaitsForSeat
  <1>3. r = s
    <2>1. r \in Nat /\ s \in Nat
      BY BatchConstants
    <2>2. r <= s /\ s <= r
      BY <1>2 DEF Batches!NextSeat
    <2> QED BY <2>1, <2>2
  <1>4. t \in Batches!Unlocked(j)
    BY DEF Batches!NextSeat
  <1> QED BY <1>2, <1>3, <1>4 DEF BatchInv, OrderInv

\* A request that has its seats and waits for another one's outbox row inserts rows of
\* its own, and the other one has its seats as well.
LEMMA WaitsForRow ==
    ASSUME BatchInv, NEW k \in Clients, Batches!Unlocked(k) = {},
           NEW j \in Clients, j \in Batches!BlockedBy(k)
    PROVE  /\ keys[k] # <<>> /\ Head(keys[k]) \in added[j] /\ j # k
           /\ Batches!Unlocked(j) = {}
           /\ \E s \in need[k] : Category[s] = Head(keys[k]) /\ Head(keys[k]) \notin added[k]
  <1>1. k \notin Workers /\ j \notin Workers
    BY BatchConstants
  <1>2. keys[k] # <<>> /\ Head(keys[k]) \in added[j]
    BY <1>1 DEF Batches!BlockedBy, Batches!Writers
  <1>3. keys[k] \in Seq(Batches!Categories)
    BY DEF BatchInv, Batches!TypeOK
  <1>4. Head(keys[k]) = keys[k][1] /\ 1 \in 1 .. Len(keys[k])
    <2> HIDE DEF Batches!Categories
    <2> QED BY <1>2, <1>3
  <1>5. Head(keys[k]) \notin added[k] /\ Head(keys[k]) \in {Category[s] : s \in need[k]}
    BY <1>4 DEF BatchInv, OrderInv
  <1>6. Batches!Unlocked(j) = {}
    BY <1>2 DEF BatchInv, OrderInv
  <1> QED BY <1>2, <1>5, <1>6

\* Requests that all wait for a seat of one of them: the wait for the highest seat is for
\* nobody's.
LEMMA SeatsMakeNoCycle ==
    ASSUME BatchInv, NEW D \in Batches!Cycles, D \subseteq Clients
    PROVE  \E k \in D : Batches!Unlocked(k) = {}
  <1> DEFINE Closed(E) == E # {} /\ \A p \in E : Batches!BlockedBy(p) \cap E # {}
  <1>1. Closed(D) /\ \A E \in SUBSET D : Closed(E) => E = D
    BY DEF Batches!Cycles
  <1>2. SUFFICES ASSUME \A k \in D : Batches!Unlocked(k) # {} PROVE FALSE
    OBVIOUS
  <1>3. \A p \in D : \E s \in Seats : Batches!NextSeat(p, s)
    BY <1>1, <1>2, WaitsForSeat
  <1>4. PICK p \in D : TRUE
    BY <1>1
  <1>5. PICK s \in Seats : Batches!NextSeat(p, s)
    BY <1>3
  \* the transactions of the cycle that wait for a higher seat than p close a smaller one
  <1> DEFINE E == {q \in D : \A t \in Seats : Batches!NextSeat(q, t) => s < t}
  <1>6. p \notin E
    BY <1>5, BatchConstants
  <1>7. E # {}
    <2>1. PICK q \in D : q \in Batches!BlockedBy(p)
      BY <1>1
    <2>2. q \in E
      BY <1>5, <2>1, WaitsRise
    <2> QED BY <2>2
  <1>8. ASSUME NEW q \in E PROVE Batches!BlockedBy(q) \cap E # {}
    <2>1. PICK r \in D : r \in Batches!BlockedBy(q)
      BY <1>1
    <2>2. PICK t \in Seats : Batches!NextSeat(q, t)
      BY <1>3
    <2>3. ASSUME NEW u \in Seats, Batches!NextSeat(r, u) PROVE s < u
      <3>1. s < t
        BY <2>2
      <3>2. t < u
        BY <2>1, <2>2, <2>3, WaitsRise
      <3> QED BY <3>1, <3>2, BatchConstants
    <2> QED BY <2>1, <2>3
  <1> QED BY <1>1, <1>4, <1>6, <1>7, <1>8

\* waitlist-allocation.worker.ts, hold.repository.ts, booking.repository.ts and
\* waitlist-outbox.repository.ts: customers lock seats in id order and never deadlock over
\* them.  A cycle of waiting transactions has a batch of the worker in it, or consists of
\* releases of several categories that have all their seats, each of which has inserted
\* an outbox row and waits for another's.
THEOREM RequestsOrdered == PartsSpec => []RequestsInOrder
  <1>1. ASSUME BatchInv, NEW D \in Batches!Cycles, D \cap Workers = {}, NEW k \in D
        PROVE  /\ Batches!Unlocked(k) = {} /\ added[k] # {}
               /\ \E s, t \in need[k] : Category[s] # Category[t]
    <2> DEFINE Closed(E) == E # {} /\ \A p \in E : Batches!BlockedBy(p) \cap E # {}
    <2>1. /\ D \subseteq Workers \cup Clients /\ Closed(D)
          /\ \A E \in SUBSET D : Closed(E) => E = D
      BY <1>1 DEF Batches!Cycles
    <2>2. D \subseteq Clients
      BY <1>1, <2>1
    \* the requests of the cycle that have their seats wait for one another
    <2> DEFINE E == {q \in D : Batches!Unlocked(q) = {}}
    <2>3. E # {}
      BY <1>1, <2>2, SeatsMakeNoCycle
    <2>4. ASSUME NEW q \in E PROVE Batches!BlockedBy(q) \cap E # {}
      <3>1. PICK r \in D : r \in Batches!BlockedBy(q)
        BY <2>1
      <3>2. Batches!Unlocked(r) = {}
        BY <1>1, <2>2, <3>1, WaitsForRow
      <3> QED BY <3>1, <3>2
    <2>5. \A q \in D : Batches!Unlocked(q) = {}
      BY <2>1, <2>3, <2>4
    <2> HIDE DEF E
    \* without a request that waits for k the others would close a smaller cycle
    <2>6. PICK q \in D : k \in Batches!BlockedBy(q)
      <3>1. SUFFICES ASSUME \A q \in D : k \notin Batches!BlockedBy(q) PROVE FALSE
        OBVIOUS
      <3> DEFINE F == D \ {k}
      <3>2. F # {}
        BY <1>1, <2>1, <3>1
      <3>3. \A q \in F : Batches!BlockedBy(q) \cap F # {}
        BY <2>1, <3>1
      <3>4. F = D
        BY <2>1, <3>2, <3>3
      <3> QED BY <1>1, <3>4
    <2>7. added[k] # {} /\ added[k] \subseteq {Category[s] : s \in need[k]}
      BY <1>1, <2>2, <2>5, <2>6, WaitsForRow DEF BatchInv, OrderInv
    <2>8. PICK r \in D : r \in Batches!BlockedBy(k)
      BY <1>1, <2>1
    <2>9. PICK s \in need[k] : Category[s] \notin added[k]
      BY <1>1, <2>2, <2>5, <2>8, WaitsForRow
    <2>10. PICK t \in need[k] : Category[t] \in added[k]
      BY <2>7
    <2> QED BY <1>1, <2>5, <2>7, <2>9, <2>10
  <1>2. BatchInv => RequestsInOrder
    BY <1>1 DEF RequestsInOrder, Batches!RequestsInOrder
  <1> QED BY <1>2, BatchInit, BatchKeeps, PTL DEF PartsSpec
=============================================================================
