---------------------------- MODULE WaitlistProofs ----------------------------
(***************************************************************************)
(* Safety of Waitlist for any seats, holds, entries, users and workers.    *)
(***************************************************************************)
EXTENDS Waitlist, TLAPS

-----------------------------------------------------------------------------
(* The uncommitted pairings                                                *)

\* Staged is what some pass has staged.
LEMMA StagedMembers ==
    ASSUME TypeOK
    PROVE  /\ \A p : p \in Staged <=> \E w \in Workers : p \in staged[w]
           /\ Staged \subseteq Pairing
  BY DEF TypeOK, Staged

-----------------------------------------------------------------------------
(* Types                                                                   *)

\* Customer requests, lapses, expiry and reconciliation keep the types.
LEMMA TableType ==
    ASSUME TypeOK, OfferRows,
           \/ CustomerStep
           \/ \E h \in Holds : Lapse(h) \/ ExpireHold(h)
           \/ BackoffElapses
           \/ \E w \in Workers : ReconcileScan(w) \/ ReconcileEnqueue(w)
    PROVE  TypeOK'
  <1>. USE DEF TypeOK, inventory, queue, SeatStatus, HoldStatus, BookingStatus,
               OfferStatus, EntryStatus, pass
  <1>1. ASSUME NEW h \in Holds, NEW S \in SUBSET Seats, CreateHold(h, S) PROVE TypeOK'
    BY <1>1 DEF CreateHold
  <1>2. ASSUME NEW h \in Holds, ConfirmHold(h) PROVE TypeOK'
    BY <1>2 DEF ConfirmHold, Convert
  <1>3. ASSUME NEW h \in Holds, NEW st \in {"cancelled", "expired"}, EndHold(h, st) PROVE TypeOK'
    <2>1. signal' \in {"none", "pending", "backoff"}
      BY <1>3 DEF EndHold, EnqueueFor, Enqueue
    <2>2. offer' \in [Holds -> OfferStatus] /\ entry' \in [Entries -> EntryStatus]
      BY <1>3 DEF EndHold, ExpireOffer
    <2>. QED
      BY <1>3, <2>1, <2>2 DEF EndHold
  <1>4. ASSUME NEW h \in Holds, CancelBooking(h) PROVE TypeOK'
    BY <1>4 DEF CancelBooking, EnqueueFor, Enqueue
  <1>5. ASSUME NEW h \in Holds, AcceptOffer(h) PROVE TypeOK'
    BY <1>5 DEF AcceptOffer, Convert
  <1>6. ASSUME NEW e \in Entries, NEW u \in Users, Join(e, u) PROVE TypeOK'
    BY <1>6 DEF Join
  <1>7. ASSUME NEW e \in Entries, Leave(e) PROVE TypeOK'
    BY <1>7 DEF Leave
  <1>8. ASSUME NEW h \in Holds, Lapse(h) PROVE TypeOK'
    BY <1>8 DEF Lapse
  <1>9. ASSUME BackoffElapses PROVE TypeOK'
    BY <1>9 DEF BackoffElapses
  <1>10. ASSUME NEW w \in Workers, ReconcileScan(w) \/ ReconcileEnqueue(w) PROVE TypeOK'
    BY <1>10 DEF ReconcileScan, ReconcileEnqueue, Enqueue
  <1>. QED
    BY <1>1, <1>2, <1>3, <1>4, <1>5, <1>6, <1>7, <1>8, <1>9, <1>10
       DEF CustomerStep, CancelHold, ExpireHold

\* The steps inside a pass keep the types.
LEMMA MoveType ==
    ASSUME TypeOK, PassInv, NEW w \in Workers,
           \/ ClaimSignal(w) \/ LockEntry(w) \/ ReadSeat(w) \/ EndLoop(w) \/ Pair(w)
           \/ RacedAway(w) \/ PairFails(w) \/ MarkProcessed(w) \/ Crash(w)
    PROVE  TypeOK'
  <1>. USE DEF TypeOK, PC, Goto, PassOnly, inventory, queue
  <1>1. CASE ClaimSignal(w)
    BY <1>1 DEF ClaimSignal
  <1>2. CASE LockEntry(w)
    BY <1>2, WaitlistAssumption DEF LockEntry
  <1>3. CASE ReadSeat(w)
    BY <1>3 DEF ReadSeat
  <1>4. CASE EndLoop(w)
    BY <1>4 DEF EndLoop
  <1>5. CASE Pair(w)
    <2>1. PICK h \in Holds :
            staged' = [staged EXCEPT ![w] = @ \cup {[entry |-> candidate[w], seat |-> pick[w],
                                                     hold |-> h, gone |-> Covering({pick[w]})]}]
      BY <1>5 DEF Pair
    <2>2. [entry |-> candidate[w], seat |-> pick[w],
           hold |-> h, gone |-> Covering({pick[w]})] \in Pairing
      BY <1>5 DEF Pair, PassInv, Choosing, Covering, Pairing
    <2>3. staged' \in [Workers -> SUBSET Pairing]
      BY <2>1, <2>2
    <2>. QED
      BY <1>5, <2>3 DEF Pair
  <1>6. CASE RacedAway(w)
    BY <1>6 DEF RacedAway
  <1>7. CASE PairFails(w)
    BY <1>7 DEF PairFails
  <1>8. CASE MarkProcessed(w)
    BY <1>8 DEF MarkProcessed
  <1>9. CASE Crash(w)
    BY <1>9, WaitlistAssumption DEF Crash, Reset
  <1>. QED
    BY <1>1, <1>2, <1>3, <1>4, <1>5, <1>6, <1>7, <1>8, <1>9

LEMMA CommitType ==
    ASSUME TypeOK, NEW w \in Workers, CommitPass(w)
    PROVE  TypeOK'
  <1>1. \A p \in staged[w] : p \in Pairing
    BY DEF TypeOK
  <1>2. offerEntry' \in [Holds -> Entries \cup {NoEntry}]
    <2>1. ASSUME NEW h \in Holds, \E p \in staged[w] : p.hold = h
          PROVE  (CHOOSE p \in staged[w] : p.hold = h).entry \in Entries
      BY <1>1, <2>1 DEF Pairing
    <2>. QED
      BY <2>1 DEF CommitPass, TypeOK
  <1>3. holdSeats' \in [Holds -> SUBSET Seats]
    BY <1>1 DEF CommitPass, TypeOK, Pairing
  <1>4. lapsed' \subseteq Holds
    BY DEF CommitPass, TypeOK
  <1>. QED
    BY <1>2, <1>3, <1>4, WaitlistAssumption
       DEF CommitPass, Reset, TypeOK, SeatStatus, HoldStatus, OfferStatus, EntryStatus, PC

-----------------------------------------------------------------------------
(* Requests, expiry and reconciliation: no pass moves                      *)

\* What depends on the passes, when none moves.
LEMMA SamePass ==
    ASSUME UNCHANGED pass
    PROVE  /\ Staged' = Staged
           /\ \A w : Offered(w)' = Offered(w)
           /\ \A w : Choosing(w)' = Choosing(w)
           /\ SolePass => SolePass'
  BY DEF pass, Staged, Offered, Choosing, SolePass

\* Entries that leave 'waiting' unlocked, and stay out of it, disturb no pass.
LEMMA EntriesMove ==
    ASSUME IInv, UNCHANGED <<pass, ahead>>,
           \A e \in Entries : ~EntryFree(e) => entry'[e] = entry[e],
           \A e \in Entries : entry'[e] = "waiting" => entry[e] = "waiting",
           \A e \in Entries : entry'[e] = "none" => entry[e] = "none"
    PROVE  PassInv' /\ QueueInv'
  <1>1. PassInv'
    <2>1. \A w \in Workers : \A e \in locked[w] : e \in Entries /\ entry'[e] = entry[e]
      BY DEF IInv, TypeOK, EntryFree
    <2>. QED
      BY <2>1, SamePass DEF IInv, PassInv, pass
  <1>2. QueueInv'
    <2>1. \A e \in Entries : ahead[e] \subseteq Entries
      BY DEF IInv, TypeOK
    <2>2. ASSUME NEW w \in Workers, NEW e \in Entries, Served(w, e) PROVE Served(w, e)'
      BY <2>1, <2>2, SamePass DEF Served
    <2>3. \A w \in Workers : Offered(w) \subseteq Entries
      BY DEF IInv, TypeOK, Offered, Pairing
    <2>4. \A w \in Workers : Choosing(w) => candidate[w] \in Entries
      BY DEF IInv, TypeOK, PassInv
    <2>. QED
      BY <2>1, <2>2, <2>3, <2>4, SamePass DEF IInv, QueueInv, pass
  <1>. QED
    BY <1>1, <1>2

\* A new hold on unlocked seats, whose predecessors have all lapsed.
LEMMA CreateHoldKeeps ==
    ASSUME IInv, TypeOK', NEW h \in Holds, NEW S \in SUBSET Seats, CreateHold(h, S)
    PROVE  IInv'
  <1>. USE SamePass DEF IInv
  <1>1. UNCHANGED <<queue, pass>>
    BY DEF CreateHold
  <1>2. PassInv' /\ QueueInv'
    BY <1>1, EntriesMove DEF queue
  <1>3. \A g \in Holds : offer[g] # "none" => g # h
    BY DEF CreateHold, Fresh, OfferRows
  <1>4. OfferRows' /\ EntryFollowsOffer'
    BY <1>1, <1>3 DEF CreateHold, OfferRows, EntryFollowsOffer, LiveOffers, queue, TypeOK
  <1>5. ActiveOfferIsLive'
    BY <1>1, <1>3 DEF CreateHold, ActiveOfferIsLive, StillOffered, queue, TypeOK
  <1>6. OfferFollowsHold'
    BY <1>1, <1>3
       DEF CreateHold, OfferFollowsHold, ActiveOfferIsLive, StillOffered, Covering, queue, TypeOK
  <1>7. \A p \in Staged : p.hold \in Holds /\ p.seat \in Seats /\ p.entry \in Entries
                          /\ p.gone \subseteq Holds
    BY StagedMembers DEF Pairing
  <1>8. StagedInv'
    <2>1. \A p \in Staged : p.hold # h /\ p.hold \notin Covering(S)
      BY <1>7 DEF CreateHold, Fresh, StagedInv, Covering
    <2>2. \A p \in Staged : h \notin p.gone
      BY <1>7 DEF CreateHold, Fresh, StagedInv
    <2>. QED
      BY <1>1, <1>7, <2>1, <2>2 DEF CreateHold, StagedInv, TypeOK
  <1>9. StagedIsSound'
    <2>1. \A p \in Staged : p.seat \notin S
      BY DEF CreateHold, SeatFree
    <2>2. \A p \in Staged : Covering({p.seat})' \subseteq Covering({p.seat})
      BY <1>7, <2>1 DEF CreateHold, Covering, TypeOK
    <2>. QED
      BY <1>1, <1>7, <2>1, <2>2 DEF CreateHold, StagedIsSound, TypeOK, queue
  <1>. QED
    BY <1>1, <1>2, <1>4, <1>5, <1>6, <1>8, <1>9

\* A hold whose seats no pass has locked is none of the passes' business.
LEMMA FreeHoldMoves ==
    ASSUME IInv, TypeOK', NEW h \in Holds, holdStatus[h] \in {"active", "converted"},
           SeatsFree(h),
           UNCHANGED <<pass, holdSeats>>,
           \A e \in Entries : ~EntryFree(e) => entry'[e] = entry[e],
           holdStatus'[h] \in HoldStatus \ {"none", "active"},
           \A g \in Holds \ {h} : holdStatus'[g] = holdStatus[g],
           \A s \in Seats \ holdSeats[h] : seat'[s] = seat[s]
    PROVE  StagedInv' /\ StagedIsSound'
  <1>. USE SamePass DEF IInv
  <1>1. \A p \in Staged : p.hold \in Holds /\ p.seat \in Seats /\ p.entry \in Entries
                          /\ p.gone \subseteq Holds
    BY StagedMembers DEF Pairing
  <1>2. \A p \in Staged : p.hold # h /\ p.seat \notin holdSeats[h] /\ h \notin p.gone
    BY <1>1 DEF StagedInv, SeatsFree, SeatFree
  <1>3. StagedInv'
    BY <1>1, <1>2 DEF StagedInv
  <1>4. \A p \in Staged : Covering({p.seat})' \subseteq Covering({p.seat})
    BY <1>1, <1>2 DEF Covering
  <1>5. \A p \in Staged : ~EntryFree(p.entry)
    BY StagedMembers DEF PassInv, Offered, EntryFree
  <1>6. StagedIsSound'
    BY <1>1, <1>2, <1>4, <1>5 DEF StagedIsSound
  <1>. QED
    BY <1>3, <1>6

LEMMA ConfirmHoldKeeps ==
    ASSUME IInv, TypeOK', NEW h \in Holds, ConfirmHold(h)
    PROVE  IInv'
  <1>. USE SamePass DEF IInv
  <1>1. UNCHANGED <<queue, pass>>
    BY DEF ConfirmHold
  <1>2. PassInv' /\ QueueInv'
    BY <1>1, EntriesMove DEF queue
  <1>3. StagedInv' /\ StagedIsSound'
    BY <1>1, FreeHoldMoves DEF ConfirmHold, Convert, HoldStatus, queue, TypeOK
  <1>4. OfferRows' /\ EntryFollowsOffer'
    BY <1>1 DEF ConfirmHold, Convert, OfferRows, EntryFollowsOffer, LiveOffers, queue, TypeOK
  <1>5. ActiveOfferIsLive' /\ OfferFollowsHold'
    BY <1>1 DEF ConfirmHold, Convert, Direct, ActiveOfferIsLive, OfferFollowsHold,
                StillOffered, queue, TypeOK
  <1>. QED
    BY <1>1, <1>2, <1>3, <1>4, <1>5

\* Accepting ends the one live offer of its entry.
LEMMA AcceptOfferKeeps ==
    ASSUME IInv, TypeOK', NEW h \in Holds, AcceptOffer(h)
    PROVE  IInv'
  <1>. USE SamePass DEF IInv
  <1>. DEFINE e == offerEntry[h]
  <1>1. UNCHANGED <<offerEntry, ahead, pass>> /\ e \in Entries /\ entry[e] = "offered"
    BY DEF AcceptOffer, StillOffered, OfferRows
  <1>2. EntryFree(e)
    BY <1>1 DEF PassInv, EntryFree
  <1>3. PassInv' /\ QueueInv'
    BY <1>1, <1>2, EntriesMove DEF AcceptOffer, TypeOK
  <1>4. StagedInv' /\ StagedIsSound'
    BY <1>1, <1>2, FreeHoldMoves DEF AcceptOffer, Convert, HoldStatus, TypeOK
  <1>5. \A g \in Holds : offer[g] = "offered" /\ offerEntry[g] = e => g = h
    BY <1>1 DEF AcceptOffer, StillOffered, EntryFollowsOffer, LiveOffers
  <1>6. OfferRows'
    BY <1>1 DEF AcceptOffer, Convert, OfferRows, TypeOK
  <1>7. EntryFollowsOffer'
    BY <1>1, <1>5 DEF AcceptOffer, EntryFollowsOffer, LiveOffers, TypeOK
  <1>8. ActiveOfferIsLive'
    BY <1>1, <1>5, <1>6 DEF AcceptOffer, Convert, ActiveOfferIsLive, StillOffered, OfferRows, TypeOK
  <1>9. OfferFollowsHold'
    BY <1>1 DEF AcceptOffer, Convert, OfferFollowsHold, TypeOK
  <1>. QED
    BY <1>1, <1>3, <1>4, <1>6, <1>7, <1>8, <1>9

\* A hold that ends takes its offer, and the offer its entry, along.
LEMMA EndHoldKeeps ==
    ASSUME IInv, TypeOK', NEW h \in Holds, NEW st \in {"cancelled", "expired"},
           EndHold(h, st), st = "cancelled" => Direct(h)
    PROVE  IInv'
  <1>. USE SamePass DEF IInv
  <1>. DEFINE e == offerEntry[h]
  <1>1. UNCHANGED <<offerEntry, ahead, pass, holdSeats>>
    BY DEF EndHold
  <1>2. StagedInv' /\ StagedIsSound' /\ PassInv' /\ QueueInv'
    <2>1. \A f \in Entries : entry'[f] # entry[f] =>
                entry[f] = "offered" /\ entry'[f] = "expired"
      BY DEF EndHold, ExpireOffer, TypeOK
    <2>2. \A f \in Entries : ~EntryFree(f) => entry[f] = "waiting"
      BY DEF PassInv, EntryFree
    <2>3. PassInv' /\ QueueInv'
      BY <1>1, <2>1, <2>2, EntriesMove
    <2>. QED
      BY <1>1, <2>1, <2>2, <2>3, FreeHoldMoves DEF EndHold, HoldStatus, TypeOK
  <1>3. OfferRows'
    BY <1>1 DEF EndHold, ExpireOffer, OfferRows, TypeOK
  <1>4. CASE offer[h] = "offered"
    <2>1. e \in Entries /\ entry[e] = "offered" /\ st = "expired"
      BY <1>4 DEF EndHold, ExpireOffer, OfferRows, Direct
    <2>2. /\ offer' = [offer EXCEPT ![h] = "expired"]
          /\ entry' = [entry EXCEPT ![e] = "expired"]
          /\ holdStatus' = [holdStatus EXCEPT ![h] = "expired"]
      BY <1>4, <2>1 DEF EndHold, ExpireOffer
    <2>3. \A g \in Holds : offer[g] = "offered" /\ offerEntry[g] = e => g = h
      BY <1>4, <2>1 DEF EntryFollowsOffer, LiveOffers
    <2>4. EntryFollowsOffer'
      BY <1>1, <1>4, <2>1, <2>2, <2>3 DEF EntryFollowsOffer, LiveOffers, TypeOK
    <2>5. ActiveOfferIsLive'
      BY <1>1, <1>3, <2>1, <2>2, <2>3 DEF ActiveOfferIsLive, StillOffered, OfferRows, TypeOK
    <2>6. OfferFollowsHold'
      BY <2>2 DEF OfferFollowsHold, TypeOK
    <2>. QED
      BY <1>1, <1>2, <1>3, <2>4, <2>5, <2>6
  <1>5. CASE offer[h] # "offered"
    <2>1. offer[h] = "none" /\ UNCHANGED <<offer, entry>>
      BY <1>5 DEF EndHold, ExpireOffer, ActiveOfferIsLive, StillOffered
    <2>2. EntryFollowsOffer' /\ ActiveOfferIsLive' /\ OfferFollowsHold'
      BY <1>1, <2>1 DEF EndHold, EntryFollowsOffer, LiveOffers, ActiveOfferIsLive, StillOffered,
                        OfferFollowsHold, TypeOK
    <2>. QED
      BY <1>1, <1>2, <1>3, <2>2
  <1>. QED
    BY <1>4, <1>5

LEMMA CancelBookingKeeps ==
    ASSUME IInv, TypeOK', NEW h \in Holds, CancelBooking(h)
    PROVE  IInv'
  <1>. USE SamePass DEF IInv
  <1>1. UNCHANGED <<queue, pass, holdStatus, holdSeats>>
    BY DEF CancelBooking
  <1>2. PassInv' /\ QueueInv'
    BY <1>1, EntriesMove DEF queue
  <1>3. \A p \in Staged : p.seat \in Seats
    BY StagedMembers DEF Pairing
  <1>4. StagedInv' /\ StagedIsSound'
    BY <1>1, <1>3 DEF CancelBooking, SeatsFree, SeatFree, StagedInv, StagedIsSound, Covering,
                      queue, TypeOK
  <1>5. OfferRows' /\ EntryFollowsOffer' /\ ActiveOfferIsLive' /\ OfferFollowsHold'
    BY <1>1 DEF OfferRows, EntryFollowsOffer, LiveOffers, ActiveOfferIsLive, StillOffered,
                OfferFollowsHold, queue
  <1>. QED
    BY <1>1, <1>2, <1>4, <1>5

\* A newcomer is in nobody's way: those ahead of him are waiting, and nobody is
\* behind an entry that did not exist.
LEMMA JoinKeeps ==
    ASSUME IInv, TypeOK', NEW e \in Entries, NEW u \in Users, Join(e, u)
    PROVE  IInv'
  <1>. USE SamePass DEF IInv
  <1>1. UNCHANGED <<inventory, offer, offerEntry, pass>>
    BY DEF Join
  <1>2. \A w \in Workers : e \notin locked[w] /\ locked[w] \subseteq Entries
    BY DEF Join, PassInv, TypeOK
  <1>3. PassInv'
    BY <1>1, <1>2 DEF Join, PassInv, TypeOK, pass
  <1>4. QueueInv'
    <2>1. \A f \in Entries : ahead[f] \subseteq Entries /\ e \notin ahead[f]
      BY DEF Join, QueueInv, TypeOK
    <2>2. ASSUME NEW w \in Workers, NEW f \in Entries \ {e}, Served(w, f) PROVE Served(w, f)'
      BY <1>1, <2>1, <2>2 DEF Join, Served, TypeOK
    <2>3. \A w \in Workers : Offered(w) \subseteq Entries \ {e}
      BY <1>2 DEF PassInv
    <2>4. \A w \in Workers : Choosing(w) => candidate[w] \in Entries \ {e}
      BY <1>2 DEF PassInv
    <2>5. \A f \in Entries : \A g \in ahead'[f] : g < f /\ entry'[g] # "none"
      BY <2>1 DEF Join, QueueInv, TypeOK
    <2>. QED
      BY <1>1, <2>2, <2>3, <2>4, <2>5 DEF QueueInv, pass
  <1>5. StagedInv' /\ StagedIsSound'
    <2>1. \A p \in Staged : p.entry \in Entries \ {e}
      BY <1>2, StagedMembers DEF PassInv, Offered
    <2>. QED
      BY <1>1, <2>1 DEF Join, StagedInv, StagedIsSound, Covering, inventory, TypeOK
  <1>6. OfferRows' /\ EntryFollowsOffer' /\ ActiveOfferIsLive' /\ OfferFollowsHold'
    BY <1>1 DEF Join, OfferRows, EntryFollowsOffer, LiveOffers, ActiveOfferIsLive, StillOffered,
                OfferFollowsHold, inventory, TypeOK
  <1>. QED
    BY <1>1, <1>3, <1>4, <1>5, <1>6

LEMMA LeaveKeeps ==
    ASSUME IInv, TypeOK', NEW e \in Entries, Leave(e)
    PROVE  IInv'
  <1>. USE SamePass DEF IInv
  <1>1. UNCHANGED <<inventory, offer, offerEntry, ahead, pass>>
    BY DEF Leave
  <1>2. PassInv' /\ QueueInv'
    BY <1>1, EntriesMove DEF Leave, TypeOK
  <1>3. StagedInv' /\ StagedIsSound'
    <2>1. \A p \in Staged : p.entry # e
      BY StagedMembers DEF PassInv, Offered, Leave, EntryFree
    <2>. QED
      BY <1>1, <2>1, StagedMembers
         DEF Leave, StagedInv, StagedIsSound, Covering, inventory, Pairing, TypeOK
  <1>4. OfferRows' /\ EntryFollowsOffer' /\ ActiveOfferIsLive' /\ OfferFollowsHold'
    BY <1>1 DEF Leave, OfferRows, EntryFollowsOffer, LiveOffers, ActiveOfferIsLive, StillOffered,
                OfferFollowsHold, inventory, TypeOK
  <1>. QED
    BY <1>1, <1>2, <1>3, <1>4

\* Steps that move only the clock, the signal or the reconciler.
LEMMA QuietKeeps ==
    ASSUME IInv, TypeOK', UNCHANGED <<seat, holdStatus, holdSeats, queue, pass>>
    PROVE  IInv'
  <1>. USE SamePass DEF IInv, queue
  <1>1. PassInv' /\ QueueInv'
    BY EntriesMove
  <1>2. StagedInv' /\ StagedIsSound'
    BY DEF StagedInv, StagedIsSound, Covering
  <1>3. OfferRows' /\ EntryFollowsOffer' /\ ActiveOfferIsLive' /\ OfferFollowsHold'
    BY DEF OfferRows, EntryFollowsOffer, LiveOffers, ActiveOfferIsLive, StillOffered, OfferFollowsHold
  <1>. QED
    BY <1>1, <1>2, <1>3

-----------------------------------------------------------------------------
(* Inside a pass: no table moves                                           *)

\* A pass that makes no pairing leaves what depends on pairings alone.
LEMMA PassOnlyKeeps ==
    ASSUME IInv, TypeOK', PassOnly,
           SolePass', PassInv', QueueInv', StagedInv', StagedIsSound'
    PROVE  IInv'
  <1>1. OfferRows' /\ EntryFollowsOffer' /\ ActiveOfferIsLive' /\ OfferFollowsHold'
    BY DEF IInv, PassOnly, inventory, queue, OfferRows, EntryFollowsOffer, LiveOffers,
           ActiveOfferIsLive, StillOffered, OfferFollowsHold
  <1>. QED
    BY <1>1 DEF IInv

LEMMA SameStaged ==
    ASSUME IInv, PassOnly, UNCHANGED staged
    PROVE  /\ \A v : Offered(v)' = Offered(v)
           /\ \A v, e : Served(v, e)' = Served(v, e)
           /\ StagedInv' /\ StagedIsSound'
  <1>1. Staged' = Staged /\ \A v : Offered(v)' = Offered(v)
    BY DEF Staged, Offered
  <1>2. \A v, e : Served(v, e)' = Served(v, e)
    BY <1>1 DEF Served, PassOnly, queue
  <1>3. StagedInv' /\ StagedIsSound'
    BY <1>1 DEF IInv, StagedInv, StagedIsSound, Covering, PassOnly, inventory, queue
  <1>. QED
    BY <1>1, <1>2, <1>3

\* Moves of pc alone.
LEMMA GotoKeeps ==
    ASSUME IInv, TypeOK', PassOnly, NEW w \in Workers, NEW l \in PC \ {"idle", "seat", "pair"},
           Goto(w, l), UNCHANGED <<tries, candidate, pick, locked, staged>>,
           \A v \in Workers : pc[w] = "idle" => pc[v] = "idle"
    PROVE  IInv'
  <1>. USE DEF Goto
  <1>1. SolePass'
    BY DEF IInv, SolePass, TypeOK
  <1>2. PassInv'
    BY SameStaged DEF IInv, PassInv, Choosing, PassOnly, queue, TypeOK
  <1>3. QueueInv'
    BY SameStaged DEF IInv, QueueInv, Choosing, PassOnly, queue, TypeOK
  <1>. QED
    BY <1>1, <1>2, <1>3, SameStaged, PassOnlyKeeps

\* The lowest candidate has nobody waiting ahead of him, because no other pass is
\* under way that could have locked somebody.
LEMMA LockEntryKeeps ==
    ASSUME IInv, TypeOK', NEW w \in Workers, LockEntry(w)
    PROVE  IInv'
  <1>. USE DEF Goto
  <1>1. PassOnly /\ UNCHANGED staged /\ pc[w] = "next" /\ pc' = [pc EXCEPT ![w] = "seat"]
    BY DEF LockEntry
  <1>2. PICK e \in Entries : /\ Lowest(Candidates(w), e)
                             /\ candidate' = [candidate EXCEPT ![w] = e]
                             /\ locked' = [locked EXCEPT ![w] = @ \cup {e}]
    BY DEF LockEntry
  <1>3. entry[e] = "waiting" /\ e \notin Offered(w)
    BY <1>2 DEF Lowest, Candidates
  <1>4. SolePass'
    BY <1>1 DEF IInv, SolePass, TypeOK
  <1>5. PassInv'
    <2>1. ASSUME NEW v \in Workers
          PROVE  /\ pc'[v] = "idle" => locked'[v] = {} /\ staged'[v] = {}
                 /\ \A f \in locked'[v] : entry'[f] = "waiting"
                 /\ Offered(v)' \subseteq locked'[v]
                 /\ Choosing(v)' => candidate'[v] \in locked'[v] \ Offered(v)'
                 /\ pc'[v] = "pair" => pick'[v] \in Seats
      BY <1>1, <1>2, <1>3, SameStaged
         DEF IInv, PassInv, Choosing, PassOnly, queue, TypeOK, LockEntry
    <2>. QED
      BY <2>1 DEF PassInv
  <1>6. Served(w, e)
    <2>1. \A v \in Workers \ {w} : locked[v] = {}
      BY <1>1 DEF IInv, SolePass, PassInv
    <2>2. ASSUME NEW f \in ahead[e], entry[f] = "waiting", f \notin Offered(w) PROVE FALSE
      <3>1. f \in Entries /\ f < e
        BY DEF IInv, TypeOK, QueueInv
      <3>2. f \in Candidates(w)
        BY <2>1, <2>2, <3>1 DEF Candidates
      <3>. QED
        BY <1>2, <3>1, <3>2, WaitlistAssumption DEF Lowest
    <2>. QED
      BY <2>2 DEF Served
  <1>7. QueueInv'
    BY <1>1, <1>2, <1>6, SameStaged DEF IInv, QueueInv, Choosing, PassOnly, queue, TypeOK
  <1>. QED
    BY <1>1, <1>4, <1>5, <1>7, SameStaged, PassOnlyKeeps

LEMMA ReadSeatKeeps ==
    ASSUME IInv, TypeOK', NEW w \in Workers, ReadSeat(w)
    PROVE  IInv'
  <1>1. /\ PassOnly /\ UNCHANGED <<candidate, locked, staged>>
        /\ pc[w] = "seat" /\ pc' = [pc EXCEPT ![w] = "pair"]
    BY DEF ReadSeat, Goto
  <1>2. PICK s \in Seats : pick' = [pick EXCEPT ![w] = s]
    BY DEF ReadSeat
  <1>3. SolePass'
    BY <1>1 DEF IInv, SolePass, TypeOK
  <1>4. PassInv'
    BY <1>1, <1>2, SameStaged DEF IInv, PassInv, Choosing, PassOnly, queue, TypeOK
  <1>5. QueueInv'
    BY <1>1, SameStaged DEF IInv, QueueInv, Choosing, PassOnly, queue, TypeOK
  <1>. QED
    BY <1>1, <1>3, <1>4, <1>5, SameStaged, PassOnlyKeeps

\* A pairing is made of a locked candidate, an unlocked seat and a fresh hold.
LEMMA PairKeeps ==
    ASSUME IInv, TypeOK', NEW w \in Workers, Pair(w)
    PROVE  IInv'
  <1>. DEFINE e == candidate[w]  s == pick[w]
  <1>1. /\ PassOnly /\ UNCHANGED <<candidate, pick, locked>>
        /\ pc[w] = "pair" /\ pc' = [pc EXCEPT ![w] = "next"]
        /\ CanHold(s)
    BY DEF Pair, Goto
  <1>2. PICK h \in Holds :
          /\ Fresh(h)
          /\ staged' = [staged EXCEPT ![w] = @ \cup {[entry |-> e, seat |-> s, hold |-> h,
                                                      gone |-> Covering({s})]}]
    BY DEF Pair
  <1>. DEFINE new == [entry |-> e, seat |-> s, hold |-> h, gone |-> Covering({s})]
  <1>3. /\ e \in Entries /\ s \in Seats /\ e \in locked[w] /\ e \notin Offered(w)
        /\ entry[e] = "waiting"
    BY <1>1 DEF IInv, PassInv, Choosing, TypeOK
  <1>4. /\ staged'[w] = staged[w] \cup {new}
        /\ \A v \in Workers \ {w} : staged'[v] = staged[v]
    BY <1>2 DEF IInv, TypeOK
  <1>5. /\ Offered(w)' = Offered(w) \cup {e}
        /\ \A v \in Workers \ {w} : Offered(v)' = Offered(v)
    <2>1. new.entry = e
      OBVIOUS
    <2>. HIDE DEF new
    <2>. QED
      BY <1>4, <2>1 DEF Offered
  <1>6. \A p : p \in Staged' <=> p \in Staged \/ p = new
    BY <1>4, StagedMembers DEF Staged
  <1>7. SolePass'
    BY <1>1 DEF IInv, SolePass, TypeOK
  <1>8. PassInv'
    <2>1. ASSUME NEW v \in Workers
          PROVE  /\ pc'[v] = "idle" => locked'[v] = {} /\ staged'[v] = {}
                 /\ \A f \in locked'[v] : entry'[f] = "waiting"
                 /\ Offered(v)' \subseteq locked'[v]
                 /\ Choosing(v)' => candidate'[v] \in locked'[v] \ Offered(v)'
                 /\ pc'[v] = "pair" => pick'[v] \in Seats
      BY <1>1, <1>3, <1>4, <1>5 DEF IInv, PassInv, Choosing, PassOnly, queue, TypeOK
    <2>. QED
      BY <2>1 DEF PassInv
  <1>9. QueueInv'
    <2>1. \A v \in Workers : Offered(v) \subseteq Offered(v)'
      BY <1>5
    <2>2. ASSUME NEW v \in Workers, NEW f, Served(v, f) PROVE Served(v, f)'
      BY <1>1, <2>1, <2>2 DEF Served, PassOnly, queue
    <2>3. Served(w, e)
      BY <1>1 DEF IInv, QueueInv, Choosing
    <2>4. \A v \in Workers : \A f \in Offered(v)' : Served(v, f)
      BY <1>5, <2>3 DEF IInv, QueueInv
    <2>5. \A v \in Workers : Choosing(v)' => Choosing(v) /\ candidate'[v] = candidate[v]
      BY <1>1 DEF Choosing, IInv, TypeOK
    <2>. QED
      BY <1>1, <2>2, <2>4, <2>5 DEF IInv, QueueInv, PassOnly, queue
  <1>10. StagedInv'
    <2>1. holdStatus[h] = "none"
      BY <1>2 DEF Fresh
    <2>2. \A g \in Covering({s}) : holdStatus[g] = "active" /\ s \in holdSeats[g]
      BY DEF Covering
    <2>. QED
      BY <1>1, <1>6, <2>1, <2>2 DEF IInv, StagedInv, PassOnly, inventory
  <1>11. StagedIsSound'
    <2>1. \A p \in Staged : p.seat # s /\ p.hold # h
      BY <1>1, <1>2 DEF CanHold, SeatFree, Fresh
    <2>2. \A p \in Staged : p.entry # e
      <3>1. \A v \in Workers \ {w} : staged[v] = {}
        BY <1>1 DEF IInv, SolePass, PassInv
      <3>2. Staged \subseteq staged[w]
        BY <3>1, StagedMembers DEF IInv
      <3>. QED
        BY <1>3, <3>2 DEF Offered
    <2>3. seat[s] # "booked"
      BY <1>1 DEF CanHold
    <2>4. new.entry = e /\ new.seat = s /\ new.hold = h /\ new.gone = Covering({s})
      OBVIOUS
    <2>. HIDE DEF new
    <2>5. ASSUME NEW p \in Staged', NEW q \in Staged', p # q
          PROVE  p.seat # q.seat /\ p.entry # q.entry /\ p.hold # q.hold
      BY <1>6, <2>1, <2>2, <2>4, <2>5 DEF IInv, StagedIsSound
    <2>6. ASSUME NEW p \in Staged'
          PROVE  /\ entry[p.entry] = "waiting"
                 /\ Covering({p.seat}) \subseteq p.gone
                 /\ seat[p.seat] # "booked"
      BY <1>3, <1>6, <2>3, <2>4 DEF IInv, StagedIsSound
    <2>7. \A S : Covering(S)' = Covering(S)
      BY <1>1 DEF Covering, PassOnly, inventory
    <2>. QED
      BY <1>1, <2>5, <2>6, <2>7 DEF StagedIsSound, PassOnly, inventory, queue
  <1>. QED
    BY <1>1, <1>7, <1>8, <1>9, <1>10, <1>11, PassOnlyKeeps

\* After a pass has ended, its locks and pairings are gone.
LEMMA ResetPass ==
    ASSUME IInv, NEW w \in Workers, Reset(w), pc[w] # "idle"
    PROVE  /\ SolePass'
           /\ Staged' = {}
           /\ \A v \in Workers : /\ locked'[v] = {} /\ staged'[v] = {}
                                 /\ Offered(v)' = {} /\ pc'[v] = "idle"
  <1>1. \A v \in Workers : v # w => pc[v] = "idle" /\ locked[v] = {} /\ staged[v] = {}
    BY DEF IInv, SolePass, PassInv
  <1>2. \A v \in Workers : locked'[v] = {} /\ staged'[v] = {} /\ pc'[v] = "idle"
    BY <1>1 DEF Reset, IInv, TypeOK
  <1>. QED
    BY <1>2 DEF SolePass, Staged, Offered

LEMMA CrashKeeps ==
    ASSUME IInv, TypeOK', NEW w \in Workers, Crash(w)
    PROVE  IInv'
  <1>1. PassOnly /\ Reset(w) /\ pc[w] # "idle"
    BY DEF Crash
  <1>2. PassInv' /\ StagedInv' /\ StagedIsSound'
    BY <1>1, ResetPass DEF PassInv, Choosing, StagedInv, StagedIsSound
  <1>3. QueueInv'
    BY <1>1, ResetPass DEF IInv, QueueInv, Choosing, PassOnly, queue
  <1>. QED
    BY <1>1, <1>2, <1>3, ResetPass, PassOnlyKeeps

\* What a commit does to the rows.
LEMMA CommitRows ==
    ASSUME IInv, NEW w \in Workers, CommitPass(w)
    PROVE  /\ \A p \in staged[w] :
                /\ p \in Pairing /\ p \in Staged
                /\ entry[p.entry] = "waiting" /\ entry'[p.entry] = "offered"
                /\ offer[p.hold] = "none" /\ offer'[p.hold] = "offered"
                /\ offerEntry'[p.hold] = p.entry /\ holdStatus'[p.hold] = "active"
           /\ \A h \in Holds : (\A p \in staged[w] : p.hold # h) =>
                /\ offer'[h] = offer[h] /\ offerEntry'[h] = offerEntry[h]
                /\ \/ holdStatus'[h] = holdStatus[h]
                   \/ holdStatus[h] = "active" /\ holdStatus'[h] = "expired"
           /\ \A e \in Entries : (\A p \in staged[w] : p.entry # e) => entry'[e] = entry[e]
  <1>1. \A p \in staged[w] : p \in Pairing /\ p \in Staged
    BY StagedMembers DEF IInv
  <1>2. ASSUME NEW p \in staged[w]
        PROVE  /\ entry[p.entry] = "waiting" /\ entry'[p.entry] = "offered"
               /\ offer[p.hold] = "none" /\ offer'[p.hold] = "offered"
               /\ holdStatus'[p.hold] = "active"
    <2>1. p.entry \in Entries /\ p.hold \in Holds
      BY <1>1 DEF Pairing
    <2>2. entry[p.entry] = "waiting" /\ holdStatus[p.hold] = "none"
      BY <1>1 DEF IInv, StagedIsSound, StagedInv
    <2>3. offer[p.hold] = "none"
      BY <2>1, <2>2 DEF IInv, OfferRows
    <2>. QED
      BY <2>1, <2>2, <2>3 DEF CommitPass
  <1>3. ASSUME NEW p \in staged[w] PROVE offerEntry'[p.hold] = p.entry
    <2>1. p.hold \in Holds
      BY <1>1 DEF Pairing
    <2>. DEFINE q == CHOOSE r \in staged[w] : r.hold = p.hold
    <2>2. q \in staged[w] /\ q.hold = p.hold
      OBVIOUS
    <2>3. q = p
      BY <1>1, <2>2 DEF IInv, StagedIsSound
    <2>4. offerEntry'[p.hold] = q.entry
      BY <2>1 DEF CommitPass
    <2>. QED
      BY <2>3, <2>4
  <1>4. ASSUME NEW h \in Holds, \A p \in staged[w] : p.hold # h
        PROVE  /\ offer'[h] = offer[h] /\ offerEntry'[h] = offerEntry[h]
               /\ \/ holdStatus'[h] = holdStatus[h]
                  \/ holdStatus[h] = "active" /\ holdStatus'[h] = "expired"
    <2>1. offer'[h] = offer[h] /\ offerEntry'[h] = offerEntry[h]
      BY <1>4 DEF CommitPass
    <2>2. \A p \in staged[w] : h \in p.gone => holdStatus[h] \in {"active", "expired"}
      BY <1>1 DEF IInv, StagedInv
    <2>3. holdStatus'[h] = IF \E p \in staged[w] : h \in p.gone THEN "expired" ELSE holdStatus[h]
      BY <1>4 DEF CommitPass
    <2>. QED
      BY <2>1, <2>2, <2>3
  <1>5. \A e \in Entries : (\A p \in staged[w] : p.entry # e) => entry'[e] = entry[e]
    BY DEF CommitPass
  <1>. QED
    BY <1>1, <1>2, <1>3, <1>4, <1>5

\* A commit makes one offer for each entry it has served.
LEMMA CommitPassKeeps ==
    ASSUME IInv, TypeOK', NEW w \in Workers, CommitPass(w)
    PROVE  IInv'
  <1>. USE CommitRows
  <1>1. Reset(w) /\ pc[w] # "idle" /\ UNCHANGED ahead
    BY DEF CommitPass
  <1>2. PassInv' /\ StagedInv' /\ StagedIsSound'
    BY <1>1, ResetPass DEF PassInv, Choosing, StagedInv, StagedIsSound
  <1>3. \A p \in staged[w] : p.entry \in Entries /\ p.hold \in Holds
    BY DEF Pairing
  <1>4. QueueInv'
    <2>1. \A e \in Entries : entry[e] # "none" => entry'[e] # "none"
      BY <1>3
    <2>2. \A e \in Entries : ahead[e] \subseteq Entries
      BY DEF IInv, TypeOK
    <2>. QED
      BY <1>1, <2>1, <2>2, ResetPass DEF IInv, QueueInv, Choosing
  <1>5. OfferRows'
    <2>1. ASSUME NEW h \in Holds, offer'[h] # "none"
          PROVE  offerEntry'[h] \in Entries /\ holdStatus'[h] # "none"
      <3>1. CASE \E p \in staged[w] : p.hold = h
        BY <1>3, <3>1
      <3>2. CASE \A p \in staged[w] : p.hold # h
        BY <2>1, <3>2 DEF IInv, OfferRows
      <3>. QED
        BY <3>1, <3>2
    <2>. QED
      BY <2>1 DEF OfferRows
  <1>6. ASSUME NEW h \in Holds, offer[h] = "offered"
        PROVE  \A p \in staged[w] : p.hold # h /\ p.entry # offerEntry[h]
    <2>1. entry[offerEntry[h]] = "offered"
      BY <1>6 DEF IInv, OfferRows, EntryFollowsOffer, LiveOffers
    <2>. QED
      BY <1>6, <2>1
  <1>7. EntryFollowsOffer'
    <2>1. ASSUME NEW e \in Entries, NEW p \in staged[w], p.entry = e
          PROVE  entry'[e] = "offered" /\ LiveOffers(e)' = {p.hold}
      <3>1. ASSUME NEW h \in Holds, offer'[h] = "offered", offerEntry'[h] = e PROVE h = p.hold
        <4>1. CASE \E q \in staged[w] : q.hold = h
          <5>1. PICK q \in staged[w] : q.hold = h
            BY <4>1
          <5>2. q.entry = p.entry
            BY <2>1, <3>1, <5>1
          <5>. QED
            BY <5>1, <5>2 DEF IInv, StagedIsSound
        <4>2. CASE \A q \in staged[w] : q.hold # h
          BY <1>6, <2>1, <3>1, <4>2
        <4>. QED
          BY <4>1, <4>2
      <3>. QED
        BY <1>3, <2>1, <3>1 DEF LiveOffers
    <2>2. ASSUME NEW e \in Entries, \A p \in staged[w] : p.entry # e
          PROVE  entry'[e] = entry[e] /\ LiveOffers(e)' = LiveOffers(e)
      <3>1. ASSUME NEW h \in Holds
            PROVE  (offer'[h] = "offered" /\ offerEntry'[h] = e)
                      <=> (offer[h] = "offered" /\ offerEntry[h] = e)
        <4>1. CASE \E q \in staged[w] : q.hold = h
          BY <2>2, <4>1
        <4>2. CASE \A q \in staged[w] : q.hold # h
          BY <4>2
        <4>. QED
          BY <4>1, <4>2
      <3>. QED
        BY <2>2, <3>1 DEF LiveOffers
    <2>3. ASSUME NEW e \in Entries
          PROVE  /\ entry'[e] = "offered" <=> LiveOffers(e)' # {}
                 /\ \A g, h \in LiveOffers(e)' : g = h
      <3>1. CASE \E p \in staged[w] : p.entry = e
        BY <2>1, <3>1
      <3>2. CASE \A p \in staged[w] : p.entry # e
        BY <2>2, <3>2 DEF IInv, EntryFollowsOffer
      <3>. QED
        BY <3>1, <3>2
    <2>. QED
      BY <2>3 DEF EntryFollowsOffer
  <1>8. ActiveOfferIsLive' /\ OfferFollowsHold'
    <2>1. ASSUME NEW h \in Holds, offer'[h] # "none"
          PROVE  /\ holdStatus'[h] = "active" =>
                       offer'[h] = "offered" /\ entry'[offerEntry'[h]] = "offered"
                 /\ offer'[h] = "accepted" <=> holdStatus'[h] = "converted"
                 /\ offer'[h] = "expired" => holdStatus'[h] = "expired"
      <3>1. CASE \E p \in staged[w] : p.hold = h
        BY <3>1
      <3>2. CASE \A p \in staged[w] : p.hold # h
        <4>1. /\ offer'[h] = offer[h] /\ offerEntry'[h] = offerEntry[h]
              /\ \/ holdStatus'[h] = holdStatus[h]
                 \/ holdStatus[h] = "active" /\ holdStatus'[h] = "expired"
          BY <3>2
        <4>2. holdStatus[h] = "active" => offer[h] = "offered" /\ entry[offerEntry[h]] = "offered"
          BY <2>1, <4>1 DEF IInv, ActiveOfferIsLive, StillOffered
        <4>3. offer[h] = "offered" => entry'[offerEntry[h]] = entry[offerEntry[h]]
          BY <1>6 DEF IInv, OfferRows
        <4>. QED
          BY <2>1, <4>1, <4>2, <4>3 DEF IInv, OfferFollowsHold
      <3>. QED
        BY <3>1, <3>2
    <2>. QED
      BY <2>1 DEF ActiveOfferIsLive, OfferFollowsHold, StillOffered
  <1>. QED
    BY <1>1, <1>2, <1>4, <1>5, <1>7, <1>8, ResetPass DEF IInv

-----------------------------------------------------------------------------
(* The seats behind the offers                                             *)

\* Steps that move no seat, hold or booking, end no live offer's row but their own, and
\* stage nothing.
LEMMA SeatsRest ==
    ASSUME SeatInv, UNCHANGED <<seat, holdStatus, holdSeats, booking>>, Staged' \subseteq Staged,
           \A h \in Holds : offer'[h] = "offered" => offer[h] = "offered"
    PROVE  SeatInv'
  BY DEF SeatInv, ClaimsInv, OffersInv, OffersApart

\* createHold takes seats whose claims have lapsed: it expires those holds, and their
\* offers stand as they are.
LEMMA CreateHoldSeats ==
    ASSUME IInv, SeatInv, NEW h \in Holds, NEW S \in SUBSET Seats, CreateHold(h, S)
    PROVE  SeatInv'
  <1>1. /\ holdStatus[h] = "none" /\ \A s \in S : seat[s] # "booked" /\ SeatFree(s)
        /\ UNCHANGED <<booking, offer>> /\ Staged' = Staged
    BY DEF CreateHold, Fresh, queue, pass, Staged
  <1>2. /\ holdStatus'[h] = "active" /\ holdSeats'[h] = S
        /\ \A g \in Holds \ {h} :
             /\ holdSeats'[g] = holdSeats[g]
             /\ holdStatus'[g] = IF holdStatus[g] = "active" /\ holdSeats[g] \cap S # {}
                                 THEN "expired" ELSE holdStatus[g]
        /\ \A s \in Seats : seat'[s] = IF s \in S THEN "held" ELSE seat[s]
    BY DEF CreateHold, Covering, IInv, TypeOK
  <1>3. \A g \in Holds : holdSeats[g] \subseteq Seats
    BY DEF IInv, TypeOK
  <1>4. ClaimsInv'
    <2>1. ASSUME NEW g \in Holds
          PROVE  /\ booking'[g] # "none" => g # h /\ holdStatus'[g] = "converted"
                 /\ booking'[g] = "confirmed" => \A s \in holdSeats'[g] : seat'[s] = "booked"
      BY <1>1, <1>2, <1>3 DEF SeatInv, ClaimsInv
    <2>2. ASSUME NEW g \in Holds, holdStatus'[g] = "active", NEW s \in holdSeats'[g]
          PROVE  seat'[s] = "held"
      BY <1>1, <1>2, <1>3, <2>2 DEF SeatInv, ClaimsInv
    <2>3. ASSUME NEW g \in Holds, NEW f \in Holds \ {g}, holdStatus'[g] = "active",
                 holdStatus'[f] = "active", NEW s \in holdSeats'[g]
          PROVE  s \notin holdSeats'[f]
      BY <1>2, <2>3 DEF SeatInv, ClaimsInv
    <2>4. ASSUME NEW g \in Holds, NEW f \in Holds \ {g}, booking'[g] = "confirmed",
                 booking'[f] = "confirmed", NEW s \in holdSeats'[g]
          PROVE  s \notin holdSeats'[f]
      BY <1>1, <1>2, <2>1, <2>4 DEF SeatInv, ClaimsInv
    <2>. QED
      BY <2>1, <2>2, <2>3, <2>4 DEF ClaimsInv
  <1>5. OffersInv'
    <2>1. \A g \in Holds : offer[g] = "offered" => g # h
      BY <1>1 DEF IInv, OfferRows
    <2>. QED
      BY <1>1, <1>2, <2>1 DEF SeatInv, OffersInv, OffersApart
  <1>. QED
    BY <1>4, <1>5 DEF SeatInv

\* A hold becomes a booking: its seats were held for it alone.
LEMMA ConvertSeats ==
    ASSUME IInv, SeatInv, NEW h \in Holds, Convert(h), UNCHANGED pass,
           offer'[h] # "offered",
           \A g \in Holds \ {h} : offer'[g] = offer[g]
    PROVE  SeatInv'
  <1>1. /\ holdStatus[h] = "active" /\ Staged' = Staged /\ holdSeats' = holdSeats
        /\ holdStatus'[h] = "converted" /\ booking'[h] = "confirmed"
        /\ \A g \in Holds \ {h} : holdStatus'[g] = holdStatus[g] /\ booking'[g] = booking[g]
        /\ \A s \in Seats : seat'[s] = IF s \in holdSeats[h] THEN "booked" ELSE seat[s]
        /\ \A g \in Holds : holdSeats[g] \subseteq Seats
    BY DEF Convert, IInv, TypeOK, pass, Staged
  <1>2. ClaimsInv'
    BY <1>1 DEF SeatInv, ClaimsInv
  <1>3. OffersInv'
    BY <1>1 DEF SeatInv, OffersInv, OffersApart
  <1>. QED
    BY <1>2, <1>3 DEF SeatInv

\* A hold ends: its offer, if it has one, is expired with it.
LEMMA EndHoldSeats ==
    ASSUME IInv, SeatInv, NEW h \in Holds, NEW st \in {"cancelled", "expired"}, EndHold(h, st)
    PROVE  SeatInv'
  <1>1. /\ holdStatus[h] = "active" /\ Staged' = Staged
        /\ holdSeats' = holdSeats /\ booking' = booking
        /\ holdStatus'[h] = st /\ \A g \in Holds \ {h} : holdStatus'[g] = holdStatus[g]
        /\ \A s \in Seats : seat'[s] = IF s \in holdSeats[h] /\ seat[s] = "held"
                                       THEN "available" ELSE seat[s]
        /\ \A g \in Holds : holdSeats[g] \subseteq Seats
    BY DEF EndHold, IInv, TypeOK, pass, Staged
  <1>2. offer'[h] # "offered" /\ \A g \in Holds \ {h} : offer'[g] = offer[g]
    BY DEF EndHold, ExpireOffer, IInv, TypeOK
  <1>3. ClaimsInv'
    BY <1>1 DEF SeatInv, ClaimsInv
  <1>4. OffersInv'
    BY <1>1, <1>2 DEF SeatInv, OffersInv, OffersApart
  <1>. QED
    BY <1>3, <1>4 DEF SeatInv

LEMMA CancelBookingSeats ==
    ASSUME IInv, SeatInv, NEW h \in Holds, CancelBooking(h)
    PROVE  SeatInv'
  <1>1. /\ booking[h] = "confirmed" /\ Staged' = Staged /\ UNCHANGED <<holdStatus, holdSeats, offer>>
        /\ booking'[h] = "cancelled" /\ \A g \in Holds \ {h} : booking'[g] = booking[g]
        /\ \A s \in Seats : seat'[s] = IF s \in holdSeats[h] THEN "available" ELSE seat[s]
        /\ \A g \in Holds : holdSeats[g] \subseteq Seats
    BY DEF CancelBooking, IInv, TypeOK, pass, queue, Staged
  <1>2. \A g \in Holds : holdStatus[g] = "active" => holdSeats[g] \cap holdSeats[h] = {}
    BY <1>1 DEF SeatInv, ClaimsInv
  <1>3. ClaimsInv'
    BY <1>1, <1>2 DEF SeatInv, ClaimsInv
  <1>4. OffersInv'
    BY <1>1 DEF SeatInv, OffersInv, OffersApart
  <1>. QED
    BY <1>3, <1>4 DEF SeatInv

\* Pair: waitlist_offers_active_seat_key keeps the new offer's seat apart from the others'.
LEMMA PairSeats ==
    ASSUME IInv, SeatInv, NEW w \in Workers, Pair(w)
    PROVE  SeatInv'
  <1>1. UNCHANGED <<seat, holdStatus, holdSeats, booking, offer, offerEntry>>
    BY DEF Pair, PassOnly, inventory, queue
  <1>2. ASSUME NEW p \in Staged' PROVE p \in Staged \/ p.seat = pick[w]
    <2>1. PICK h \in Holds :
            staged' = [staged EXCEPT ![w] = staged[w] \cup
                         {[entry |-> candidate[w], seat |-> pick[w],
                           hold |-> h, gone |-> Covering({pick[w]})]}]
      BY DEF Pair
    <2>2. PICK v \in Workers : p \in staged'[v]
      BY DEF Staged
    <2>3. p \in staged[v] \/ p.seat = pick[w]
      BY <2>1, <2>2 DEF IInv, TypeOK
    <2>. QED
      BY <2>3 DEF Staged
  <1>3. \A h \in Holds : offer[h] = "offered" => pick[w] \notin holdSeats[h]
    BY DEF Pair, DuplicateOffer
  <1>4. ClaimsInv'
    BY <1>1 DEF SeatInv, ClaimsInv
  <1>5. OffersInv'
    BY <1>1, <1>2, <1>3 DEF SeatInv, OffersInv, OffersApart
  <1>. QED
    BY <1>4, <1>5 DEF SeatInv

\* CommitPass: each new hold has the one seat it was staged with, and the claims that seat
\* had are gone.
LEMMA CommitPassSeats ==
    ASSUME IInv, SeatInv, NEW w \in Workers, CommitPass(w)
    PROVE  SeatInv'
  <1>1. /\ Reset(w) /\ pc[w] # "idle" /\ booking' = booking
        /\ \A s \in Seats : seat'[s] = IF \E p \in staged[w] : p.seat = s THEN "held" ELSE seat[s]
    BY DEF CommitPass
  <1>2. Staged' = {}
    BY <1>1, ResetPass
  <1>3. ASSUME NEW p \in staged[w]
        PROVE  /\ p \in Staged /\ p.hold \in Holds /\ p.seat \in Seats
               /\ holdStatus[p.hold] = "none" /\ seat[p.seat] # "booked"
               /\ holdStatus'[p.hold] = "active"
               /\ \A g \in Holds : holdStatus[g] = "active" /\ p.seat \in holdSeats[g] => g \in p.gone
               /\ \A g \in p.gone : holdStatus[g] \in {"active", "expired"}
    BY CommitRows DEF Pairing, IInv, StagedInv, StagedIsSound, Covering
  <1>4. ASSUME NEW p \in staged[w] PROVE holdSeats'[p.hold] = {p.seat}
    <2>1. \A q \in staged[w] : q.hold = p.hold => q = p
      BY <1>3 DEF IInv, StagedIsSound
    <2>2. holdSeats'[p.hold] = {r.seat : r \in {q \in staged[w] : q.hold = p.hold}}
      BY <1>3 DEF CommitPass
    <2>. QED
      BY <2>1, <2>2
  <1>5. ASSUME NEW h \in Holds, \A p \in staged[w] : p.hold # h
        PROVE  /\ offer'[h] = offer[h] /\ holdSeats'[h] = holdSeats[h]
               /\ holdStatus'[h] = IF \E p \in staged[w] : h \in p.gone
                                   THEN "expired" ELSE holdStatus[h]
    BY <1>5 DEF CommitPass
  <1>6. \A p, q \in staged[w] : p # q => p.seat # q.seat
    BY <1>3 DEF IInv, StagedIsSound
  <1>7. \A h \in Holds : holdSeats[h] \subseteq Seats
    BY DEF IInv, TypeOK
  \* who has a claim afterwards is new, or had it and none of its seats was paired
  <1>8. ASSUME NEW h \in Holds, holdStatus'[h] = "active"
        PROVE  \/ \E p \in staged[w] : p.hold = h
               \/ /\ holdStatus[h] = "active" /\ holdSeats'[h] = holdSeats[h]
                  /\ \A p \in staged[w] : p.seat \notin holdSeats[h]
    <2>1. CASE \A p \in staged[w] : p.hold # h
      <3>1. \A p \in staged[w] : h \notin p.gone
        BY <1>5, <1>8, <2>1
      <3>. QED
        BY <1>3, <1>5, <1>8, <2>1, <3>1
    <2>. QED
      BY <2>1
  <1>9. ASSUME NEW h \in Holds, booking[h] # "none"
        PROVE  holdStatus'[h] = "converted" /\ holdSeats'[h] = holdSeats[h]
    <2>1. holdStatus[h] = "converted"
      BY <1>9 DEF SeatInv, ClaimsInv
    <2>. QED
      BY <1>3, <1>5, <2>1
  <1>10. ClaimsInv'
    <2>1. ASSUME NEW h \in Holds, holdStatus'[h] = "active", NEW s \in holdSeats'[h]
          PROVE  seat'[s] = "held"
      <3>1. CASE \E p \in staged[w] : p.hold = h
        BY <1>1, <1>3, <1>4, <2>1, <3>1
      <3>2. CASE holdStatus[h] = "active" /\ holdSeats'[h] = holdSeats[h]
        <4>1. s \in Seats /\ seat[s] = "held"
          BY <1>7, <2>1, <3>2 DEF SeatInv, ClaimsInv
        <4>. QED
          BY <1>1, <4>1
      <3>. QED
        BY <1>8, <2>1, <3>1, <3>2
    <2>2. ASSUME NEW g \in Holds, NEW h \in Holds \ {g}, holdStatus'[g] = "active",
                 holdStatus'[h] = "active", NEW s \in holdSeats'[g]
          PROVE  s \notin holdSeats'[h]
      <3>1. CASE /\ \A p \in staged[w] : p.hold # g
                 /\ \A p \in staged[w] : p.hold # h
        BY <1>8, <2>2, <3>1 DEF SeatInv, ClaimsInv
      <3>2. ASSUME NEW p \in staged[w], p.hold = g PROVE s \notin holdSeats'[h]
        <4>1. s = p.seat
          BY <1>4, <2>2, <3>2
        <4>2. CASE \E q \in staged[w] : q.hold = h
          BY <1>4, <1>6, <2>2, <3>2, <4>1, <4>2
        <4>3. CASE \A q \in staged[w] : q.hold # h
          BY <1>8, <2>2, <4>1, <4>3
        <4>. QED
          BY <4>2, <4>3
      <3>3. ASSUME NEW p \in staged[w], p.hold = h, \A q \in staged[w] : q.hold # g
            PROVE  s \notin holdSeats'[h]
        BY <1>4, <1>8, <2>2, <3>3
      <3>. QED
        BY <3>1, <3>2, <3>3
    <2>3. ASSUME NEW h \in Holds, booking[h] = "confirmed", NEW s \in holdSeats'[h]
          PROVE  /\ seat'[s] = "booked"
                 /\ \A g \in Holds \ {h} : booking[g] = "confirmed" => s \notin holdSeats'[g]
      <3>1. s \in holdSeats[h] /\ s \in Seats /\ seat[s] = "booked"
        BY <1>7, <1>9, <2>3 DEF SeatInv, ClaimsInv
      <3>2. seat'[s] = "booked"
        BY <1>1, <1>3, <3>1
      <3>. QED
        BY <1>9, <2>3, <3>1, <3>2 DEF SeatInv, ClaimsInv
    <2>. QED
      BY <1>1, <1>9, <2>1, <2>2, <2>3 DEF ClaimsInv
  <1>11. OffersInv'
    <2>1. ASSUME NEW h \in Holds, offer'[h] = "offered", \A p \in staged[w] : p.hold # h
          PROVE  /\ offer[h] = "offered" /\ holdSeats'[h] = holdSeats[h]
                 /\ holdStatus'[h] \in {"active", "expired"}
                 /\ \A p \in staged[w] : p.seat \notin holdSeats[h]
      BY <1>3, <1>5, <2>1 DEF SeatInv, OffersInv
    <2>2. ASSUME NEW h \in Holds, offer'[h] = "offered"
          PROVE  holdStatus'[h] \in {"active", "expired"}
      BY <1>3, <2>1, <2>2
    <2>3. ASSUME NEW g \in Holds, NEW h \in Holds \ {g}, offer'[g] = "offered", offer'[h] = "offered"
          PROVE  holdSeats'[g] \cap holdSeats'[h] = {}
      <3>1. CASE /\ \A p \in staged[w] : p.hold # g
                 /\ \A p \in staged[w] : p.hold # h
        BY <2>1, <2>3, <3>1 DEF SeatInv, OffersInv, OffersApart
      <3>2. ASSUME NEW p \in staged[w], p.hold = g PROVE holdSeats'[g] \cap holdSeats'[h] = {}
        <4>1. CASE \E q \in staged[w] : q.hold = h
          BY <1>4, <1>6, <2>3, <3>2, <4>1
        <4>2. CASE \A q \in staged[w] : q.hold # h
          BY <1>4, <2>1, <2>3, <3>2, <4>2
        <4>. QED
          BY <4>1, <4>2
      <3>3. ASSUME NEW p \in staged[w], p.hold = h, \A q \in staged[w] : q.hold # g
            PROVE  holdSeats'[g] \cap holdSeats'[h] = {}
        BY <1>4, <2>1, <2>3, <3>3
      <3>. QED
        BY <3>1, <3>2, <3>3
    <2>. QED
      BY <1>2, <2>2, <2>3 DEF OffersInv, OffersApart
  <1>. QED
    BY <1>10, <1>11 DEF SeatInv

LEMMA SeatsInit ==
    ASSUME Init
    PROVE  SeatInv
  BY DEF Init, SeatInv, ClaimsInv, OffersInv, OffersApart

LEMMA SeatsKeep ==
    ASSUME IInv, SeatInv, [Next]_vars
    PROVE  SeatInv'
  <1>1. CASE CustomerStep
    <2>1. ASSUME NEW h \in Holds, ConfirmHold(h) PROVE SeatInv'
      <3>1. Convert(h) /\ UNCHANGED <<pass, offer>> /\ offer[h] = "none"
        BY <2>1 DEF ConfirmHold, Direct, queue
      <3>. QED
        BY <3>1, ConvertSeats
    <2>2. ASSUME NEW h \in Holds, AcceptOffer(h) PROVE SeatInv'
      <3>1. /\ Convert(h) /\ UNCHANGED pass /\ offer'[h] # "offered"
            /\ \A g \in Holds \ {h} : offer'[g] = offer[g]
        BY <2>2 DEF AcceptOffer, IInv, TypeOK
      <3>. QED
        BY <3>1, ConvertSeats
    <2>3. ASSUME NEW e \in Entries, NEW u \in Users, Join(e, u) PROVE SeatInv'
      <3>1. UNCHANGED <<seat, holdStatus, holdSeats, booking, offer>> /\ Staged' = Staged
        BY <2>3 DEF Join, inventory, pass, Staged
      <3>. QED
        BY <3>1, SeatsRest
    <2>4. ASSUME NEW e \in Entries, Leave(e) PROVE SeatInv'
      <3>1. UNCHANGED <<seat, holdStatus, holdSeats, booking, offer>> /\ Staged' = Staged
        BY <2>4 DEF Leave, inventory, pass, Staged
      <3>. QED
        BY <3>1, SeatsRest
    <2>. QED
      BY <1>1, <2>1, <2>2, <2>3, <2>4, CreateHoldSeats, EndHoldSeats, CancelBookingSeats
         DEF CustomerStep, CancelHold
  <1>2. ASSUME NEW h \in Holds, Lapse(h) \/ ExpireHold(h) PROVE SeatInv'
    <2>1. CASE Lapse(h)
      <3>1. UNCHANGED <<seat, holdStatus, holdSeats, booking, offer>> /\ Staged' = Staged
        BY <2>1 DEF Lapse, queue, pass, Staged
      <3>. QED
        BY <3>1, SeatsRest
    <2>. QED
      BY <1>2, <2>1, EndHoldSeats DEF ExpireHold
  <1>3. ASSUME NEW w \in Workers, WorkerStep(w) PROVE SeatInv'
    <2>1. CASE Crash(w)
      <3>1. Staged' = {} /\ UNCHANGED <<seat, holdStatus, holdSeats, booking, offer>>
        BY <2>1, ResetPass DEF Crash, PassOnly, inventory, queue
      <3>. QED
        BY <3>1, SeatsRest
    <2>2. CASE \/ ClaimSignal(w) \/ LockEntry(w) \/ ReadSeat(w) \/ EndLoop(w)
               \/ RacedAway(w) \/ PairFails(w) \/ MarkProcessed(w)
               \/ ReconcileScan(w) \/ ReconcileEnqueue(w)
      <3>1. UNCHANGED <<seat, holdStatus, holdSeats, booking, offer, staged>>
        BY <2>2 DEF ClaimSignal, LockEntry, ReadSeat, EndLoop, RacedAway, PairFails,
                    MarkProcessed, ReconcileScan, ReconcileEnqueue, PassOnly, inventory,
                    queue, pass
      <3>2. Staged' = Staged
        BY <3>1 DEF Staged
      <3>. QED
        BY <3>1, <3>2, SeatsRest
    <2>. QED
      BY <1>3, <2>1, <2>2, PairSeats, CommitPassSeats DEF WorkerStep, PassAdvance
  <1>4. CASE BackoffElapses \/ UNCHANGED vars
    <2>1. UNCHANGED <<seat, holdStatus, holdSeats, booking, offer>> /\ Staged' = Staged
      BY <1>4 DEF BackoffElapses, vars, inventory, queue, pass, Staged
    <2>. QED
      BY <2>1, SeatsRest
  <1>. QED
    BY <1>1, <1>2, <1>3, <1>4 DEF Next

-----------------------------------------------------------------------------
(* The theorems                                                            *)

LEMMA InitIInv ==
    ASSUME Init
    PROVE  IInv
  <1>1. TypeOK
    BY WaitlistAssumption
       DEF Init, TypeOK, SeatStatus, HoldStatus, BookingStatus, OfferStatus, EntryStatus, PC
  <1>2. Staged = {} /\ \A w \in Workers : Offered(w) = {}
    BY DEF Init, Staged, Offered
  <1>3. SolePass /\ PassInv /\ QueueInv
    BY <1>2 DEF Init, SolePass, PassInv, QueueInv, Choosing
  <1>4. StagedInv /\ StagedIsSound
    BY <1>2 DEF StagedInv, StagedIsSound
  <1>5. OfferRows /\ EntryFollowsOffer /\ ActiveOfferIsLive /\ OfferFollowsHold
    BY DEF Init, OfferRows, EntryFollowsOffer, LiveOffers, ActiveOfferIsLive, OfferFollowsHold
  <1>. QED
    BY <1>1, <1>3, <1>4, <1>5 DEF IInv

LEMMA CustomerKeeps ==
    ASSUME IInv, CustomerStep
    PROVE  IInv'
  <1>1. TypeOK'
    BY TableType DEF IInv
  <1>. QED
    BY <1>1, CreateHoldKeeps, ConfirmHoldKeeps, EndHoldKeeps, CancelBookingKeeps,
       AcceptOfferKeeps, JoinKeeps, LeaveKeeps DEF CustomerStep, CancelHold

LEMMA WorkerKeeps ==
    ASSUME IInv, NEW w \in Workers, WorkerStep(w)
    PROVE  IInv'
  <1>1. CASE CommitPass(w)
    BY <1>1, CommitType, CommitPassKeeps DEF IInv
  <1>2. CASE Crash(w)
    BY <1>2, MoveType, CrashKeeps DEF IInv
  <1>3. CASE LockEntry(w)
    BY <1>3, MoveType, LockEntryKeeps DEF IInv
  <1>4. CASE ReadSeat(w)
    BY <1>4, MoveType, ReadSeatKeeps DEF IInv
  <1>5. CASE Pair(w)
    BY <1>5, MoveType, PairKeeps DEF IInv
  <1>6. CASE ClaimSignal(w) \/ EndLoop(w) \/ RacedAway(w) \/ PairFails(w) \/ MarkProcessed(w)
    <2>1. TypeOK'
      BY <1>6, MoveType DEF IInv
    <2>2. PICK l \in PC \ {"idle", "seat", "pair"} : Goto(w, l)
      BY <1>6 DEF ClaimSignal, EndLoop, RacedAway, PairFails, MarkProcessed, PC
    <2>3. /\ PassOnly /\ UNCHANGED <<tries, candidate, pick, locked, staged>>
          /\ \A v \in Workers : pc[w] = "idle" => pc[v] = "idle"
      BY <1>6 DEF ClaimSignal, EndLoop, RacedAway, PairFails, MarkProcessed
    <2>. QED
      BY <2>1, <2>2, <2>3, GotoKeeps
  <1>7. CASE ReconcileScan(w) \/ ReconcileEnqueue(w)
    <2>1. TypeOK'
      BY <1>7, TableType DEF IInv
    <2>2. UNCHANGED <<seat, holdStatus, holdSeats, queue, pass>>
      BY <1>7 DEF ReconcileScan, ReconcileEnqueue, inventory
    <2>. QED
      BY <2>1, <2>2, QuietKeeps
  <1>. QED
    BY <1>1, <1>2, <1>3, <1>4, <1>5, <1>6, <1>7 DEF WorkerStep, PassAdvance

LEMMA NextKeeps ==
    ASSUME IInv, [Next]_vars
    PROVE  IInv'
  <1>1. CASE CustomerStep
    BY <1>1, CustomerKeeps
  <1>2. ASSUME NEW h \in Holds, Lapse(h) PROVE IInv'
    <2>1. TypeOK'
      BY <1>2, TableType DEF IInv
    <2>. QED
      BY <1>2, <2>1, QuietKeeps DEF Lapse
  <1>3. ASSUME NEW h \in Holds, ExpireHold(h) PROVE IInv'
    <2>1. TypeOK'
      BY <1>3, TableType DEF IInv
    <2>. QED
      BY <1>3, <2>1, EndHoldKeeps DEF ExpireHold
  <1>4. CASE BackoffElapses
    <2>1. TypeOK'
      BY <1>4, TableType DEF IInv
    <2>. QED
      BY <1>4, <2>1, QuietKeeps DEF BackoffElapses, inventory
  <1>5. ASSUME NEW w \in Workers, WorkerStep(w) PROVE IInv'
    BY <1>5, WorkerKeeps
  <1>6. CASE UNCHANGED vars
    <2>1. TypeOK'
      BY <1>6 DEF vars, inventory, queue, pass, IInv, TypeOK
    <2>. QED
      BY <1>6, <2>1, QuietKeeps DEF vars, inventory
  <1>. QED
    BY <1>1, <1>2, <1>3, <1>4, <1>5, <1>6 DEF Next

\* Every reachable state satisfies the inductive invariant, whatever the number of
\* seats, customers and allocation workers.
THEOREM WaitlistInvariance == Spec => []IInv
  BY InitIInv, NextKeeps, PTL DEF Spec

\* The waitlist tables and the passes keep their types; the loop of a pass never
\* exceeds MAX_PAIRINGS_PER_PASS.
THEOREM WaitlistTypes == Spec => []TypeOK
  BY WaitlistInvariance, PTL DEF IInv

\* Every seat is claimed once, and every live offer has a seat of its own.
LEMMA SeatsInvariance == Spec => []SeatInv
  BY WaitlistInvariance, SeatsInit, SeatsKeep, PTL DEF Spec

\* An entry is 'offered' exactly when one live offer names it, no seat is in two live
\* offers, and as long as the offer's hold has not expired the seat is held for it alone.
THEOREM WaitlistOfferedOnce == Spec => []OfferedOnce
  <1>1. IInv /\ SeatInv => OfferedOnce
    <2>1. SUFFICES ASSUME IInv, SeatInv PROVE OfferKeepsSeat
      BY DEF IInv, SeatInv, OffersInv, OfferedOnce
    <2>2. ASSUME NEW h \in Holds, holdStatus[h] = "active", NEW s \in holdSeats[h]
          PROVE  seat[s] = "held" /\ Covering({s}) = {h}
      BY <2>1, <2>2 DEF SeatInv, ClaimsInv, Covering
    <2>. QED
      BY <2>1, <2>2 DEF OfferKeepsSeat, SeatInv, OffersInv
  <1>. QED
    BY <1>1, WaitlistInvariance, SeatsInvariance, PTL

\* The throws that guard markEntryAccepted and markEntryExpired are unreachable
\* while the hold behind the offer is active.
THEOREM WaitlistActiveOfferIsLive == Spec => []ActiveOfferIsLive
  BY WaitlistInvariance, PTL DEF IInv

\* An accepted offer has a booking, and only time ends an offer.
THEOREM WaitlistOfferFollowsHold == Spec => []OfferFollowsHold
  BY WaitlistInvariance, PTL DEF IInv

\* No allocation pass pairs a seat, an entry or a hold twice, or a seat that
\* somebody else holds or has booked by then.
THEOREM WaitlistStagedIsSound == Spec => []StagedIsSound
  BY WaitlistInvariance, PTL DEF IInv

\* Only CommitPass offers, and the entries it offers to have all been served.
LEMMA CommitServes ==
    ASSUME IInv, [Next]_vars, NEW e \in Entries, entry[e] = "waiting", entry'[e] = "offered"
    PROVE  \A f \in ahead[e] : entry'[f] # "waiting"
  <1>1. PICK w \in Workers : CommitPass(w)
    <2>1. TypeOK /\ OfferRows
      BY DEF IInv
    <2>2. ~CustomerStep
      BY <2>1 DEF CustomerStep, CreateHold, ConfirmHold, CancelHold, EndHold, ExpireOffer,
                  CancelBooking, AcceptOffer, Join, Leave, queue, TypeOK
    <2>3. ~ \E h \in Holds : Lapse(h) \/ ExpireHold(h)
      BY <2>1 DEF Lapse, ExpireHold, EndHold, ExpireOffer, queue, TypeOK
    <2>4. ~BackoffElapses /\ ~UNCHANGED vars
      BY DEF BackoffElapses, queue, vars
    <2>5. \A w \in Workers : WorkerStep(w) => CommitPass(w)
      BY DEF WorkerStep, PassAdvance, ClaimSignal, LockEntry, ReadSeat, EndLoop, Pair,
             RacedAway, PairFails, MarkProcessed, Crash, ReconcileScan, ReconcileEnqueue,
             PassOnly, queue
    <2>. QED
      BY <2>2, <2>3, <2>4, <2>5 DEF Next
  <1>2. e \in Offered(w)
    BY <1>1, CommitRows DEF Offered
  <1>3. Served(w, e)
    BY <1>2 DEF IInv, QueueInv
  <1>4. ahead[e] \subseteq Entries
    BY DEF IInv, TypeOK
  <1>5. \A f \in Entries : f \in Offered(w) => entry'[f] = "offered"
    BY <1>1, CommitRows DEF Offered
  <1>6. \A f \in Entries : entry'[f] = "waiting" => entry[f] = "waiting"
    BY <1>1, CommitRows
  <1>. QED
    BY <1>3, <1>4, <1>5, <1>6 DEF Served

\* The allocation worker serves the queue in order: nobody is offered a seat while
\* somebody ahead of him, who was visible when he joined, is left waiting.
THEOREM WaitlistNobodySkipped == Spec => NobodySkipped
  <1>1. IInv /\ [Next]_vars =>
           [\A e \in Entries : entry[e] = "waiting" /\ entry'[e] = "offered" =>
               \A f \in ahead[e] : entry'[f] # "waiting"]_vars
    BY CommitServes
  <1>. QED
    BY <1>1, WaitlistInvariance, PTL DEF Spec, NobodySkipped
=============================================================================
