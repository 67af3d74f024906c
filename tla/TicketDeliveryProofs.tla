------------------------- MODULE TicketDeliveryProofs -------------------------
(***************************************************************************)
(* Any number of bookings, seats, doors and mailers: a ticket lets one     *)
(* person in, nobody enters on a cancelled booking, and every copy of the  *)
(* e-mail is accounted for.                                                *)
(***************************************************************************)
EXTENDS TicketDelivery, FiniteSetTheorems, TLAPS

\* A ticket has let somebody in exactly if it is used.
Counted ==
    \A b \in Bookings, s \in Seats :
        entered[b][s] = IF ticket[b][s] = "used" THEN 1 ELSE 0

\* Before its confirmation a booking has neither tickets nor an e-mail.
NothingEarly ==
    \A b \in Bookings : booking[b] = "none" => Unissued(b) /\ mail[b] = "none"

\* A request that was allowed has the booking's lock, and its verdict still holds.
Decided(r) ==
    pc[r] = "judged" => lock[on[r]] = r /\ Allowed(op[r], on[r])

\* A row is in the hands of one mailer, once, and pending.
Exclusive ==
    /\ \A m \in Mailers :
         /\ \A b \in Attempted(m) : mail[b] = "pending"
         /\ claimed[m] \cap sent[m] = {} /\ claimed[m] \cap failed[m] = {}
         /\ sent[m] \cap failed[m] = {}
    /\ \A m, n \in Mailers : m # n => Attempted(m) \cap Attempted(n) = {}

\* CopiesAccountedFor, without counting mailers.
Owed(b) == IF \E m \in Mailers : b \in sent[m] THEN 1 ELSE 0
Recorded(b) == IF mail[b] = "processed" THEN 1 ELSE 0
Copies == \A b \in Bookings : inbox[b] = wasted[b] + Owed(b) + Recorded(b)

DoorInv ==
    /\ Counted /\ NothingEarly /\ NoEntryOnCancelled /\ MailHasTickets
    /\ \A r \in Requests : Decided(r)

MailInv == Exclusive /\ Copies

IInv == TypeOK /\ DoorInv /\ MailInv

doors == <<booking, ticket, lock, requests, entered, scans>>

LEMMA InitInv == DeliveryAssumption /\ Init => IInv
  <1> SUFFICES ASSUME DeliveryAssumption, Init PROVE IInv
    OBVIOUS
  <1>1. TypeOK
    BY DEF DeliveryAssumption, Init, TypeOK, BookingStatus, TicketStatus, Kind, PC
  <1>2. DoorInv
    BY DEF Init, DoorInv, Counted, NothingEarly, NoEntryOnCancelled, MailHasTickets, Decided,
           Unissued
  <1>3. MailInv
    BY DEF Init, MailInv, Exclusive, Copies, Attempted, Owed, Recorded
  <1> QED BY <1>1, <1>2, <1>3 DEF IInv

-----------------------------------------------------------------------------
(* The booking and its tickets *)

\* A step of the mailers that only closes pending rows leaves the doors' invariant alone.
LEMMA DoorsUntouched ==
    ASSUME DoorInv, UNCHANGED doors,
           \A b \in Bookings : mail'[b] = mail[b] \/ mail[b] = "pending"
    PROVE  DoorInv'
  BY DEF DoorInv, Counted, NothingEarly, NoEntryOnCancelled, MailHasTickets, Decided, Allowed,
         Unissued, hasUsedTickets, doors, requests

\* A step of a request leaves the mailers' invariant alone.
LEMMA MailUntouched ==
    ASSUME MailInv, UNCHANGED mailing PROVE MailInv'
  BY DEF MailInv, Exclusive, Copies, Attempted, Owed, Recorded, mailing

LEMMA confirmKeeps ==
    ASSUME IInv, NEW b \in Bookings, confirm(b) PROVE IInv'
  <1> USE DEF IInv
  <1>1. booking[b] = "none" /\ mail[b] = "none" /\ Unissued(b)
    BY DEF confirm, DoorInv, NothingEarly
  <1>2. /\ booking'[b] = "confirmed" /\ mail'[b] = "pending"
        /\ \A s \in Seats : ticket'[b][s] = "issued"
        /\ \A c \in Bookings \ {b} :
               booking'[c] = booking[c] /\ mail'[c] = mail[c] /\ ticket'[c] = ticket[c]
        /\ UNCHANGED <<lock, requests, entered, claimed, sent, failed, inbox, wasted>>
    BY DEF confirm, TypeOK, AllIssued
  <1>3. TypeOK'
    BY DEF confirm, TypeOK, AllIssued, BookingStatus, TicketStatus, requests
  <1>4. Counted' /\ NothingEarly' /\ NoEntryOnCancelled' /\ MailHasTickets'
    BY <1>1, <1>2 DEF DoorInv, Counted, NothingEarly, NoEntryOnCancelled, MailHasTickets,
                      Unissued
  <1>5. ASSUME NEW r \in Requests PROVE Decided(r)'
    <2>1. on[r] \in Bookings /\ on'[r] = on[r] /\ op'[r] = op[r] /\ pc'[r] = pc[r]
      BY <1>2 DEF TypeOK, requests
    <2>2. pc[r] = "judged" => on[r] # b
      BY <1>1 DEF DoorInv, Decided, Allowed
    <2>3. pc[r] = "judged" =>
              booking'[on[r]] = booking[on[r]] /\ ticket'[on[r]] = ticket[on[r]]
      BY <1>2, <2>1, <2>2
    <2>4. Decided(r) /\ UNCHANGED lock
      BY <1>2 DEF DoorInv
    <2> QED BY <2>1, <2>3, <2>4 DEF Decided, Allowed, Unissued, hasUsedTickets
  <1>6. MailInv'
    <2>1. \A m \in Mailers : b \notin Attempted(m)
      BY <1>1 DEF MailInv, Exclusive
    <2>2. Exclusive'
      BY <1>2, <2>1 DEF MailInv, Exclusive, Attempted, TypeOK
    <2>3. Copies'
      BY <1>1, <1>2 DEF MailInv, Copies, Owed, Recorded
    <2> QED BY <2>2, <2>3 DEF MailInv
  <1> QED BY <1>3, <1>4, <1>5, <1>6 DEF DoorInv

\* A request that begins knows nothing yet.
LEMMA BeginKeeps ==
    ASSUME DeliveryAssumption, IInv, NEW r \in Requests, NEW b \in Bookings, NEW s \in Seats,
           NEW kind \in Kind, Begin(r, kind, b, s), scans' \in 0..MaxScans
    PROVE  IInv'
  <1> USE DEF IInv
  <1>1. TypeOK'
    BY DEF Begin, TypeOK, PC, mailing
  <1>2. /\ UNCHANGED <<booking, ticket, lock, entered, mail>> /\ pc'[r] = "begun"
        /\ \A q \in Requests \ {r} : pc'[q] = pc[q] /\ op'[q] = op[q] /\ on'[q] = on[q]
    BY DEF Begin, TypeOK, mailing
  <1>3. DoorInv'
    BY <1>2 DEF DoorInv, Counted, NothingEarly, NoEntryOnCancelled, MailHasTickets, Decided,
                Allowed, Unissued, hasUsedTickets
  <1> QED BY <1>1, <1>3, MailUntouched DEF Begin

\* Nobody else has the lock, so the verdict is the only one there is.
LEMMA JudgeKeeps ==
    ASSUME DeliveryAssumption, IInv, NEW r \in Requests, Judge(r) PROVE IInv'
  <1> USE DEF IInv
  <1>1. TypeOK'
    BY DEF Judge, lockBookingForTickets, TypeOK, PC, mailing
  <1>2. /\ UNCHANGED <<booking, ticket, op, on, entered, mail>> /\ lock[on[r]] = NoRequest
        /\ on[r] \in Bookings
        /\ lock'[on[r]] = r /\ \A b \in Bookings \ {on[r]} : lock'[b] = lock[b]
        /\ pc'[r] = "judged" => Allowed(op[r], on[r])
        /\ \A q \in Requests \ {r} : pc'[q] = pc[q]
    BY DEF Judge, lockBookingForTickets, TypeOK, mailing
  <1>3. ASSUME NEW q \in Requests PROVE Decided(q)'
    <2>1. on[q] \in Bookings /\ q # NoRequest
      BY DEF TypeOK, DeliveryAssumption
    <2> QED BY <1>2, <2>1 DEF DoorInv, Decided, Allowed, Unissued, hasUsedTickets
  <1>4. DoorInv'
    BY <1>2, <1>3 DEF DoorInv, Counted, NothingEarly, NoEntryOnCancelled, MailHasTickets,
                      Unissued
  <1> QED BY <1>1, <1>4, MailUntouched DEF Judge

\* A request ends, having written at most its own booking: nobody else's verdict moves.
LEMMA FinishKeeps ==
    ASSUME DeliveryAssumption, IInv, NEW r \in Requests, Finish(r), UNCHANGED mailing,
           \/ UNCHANGED <<booking, ticket>>
           \/ /\ pc[r] = "judged"
              /\ \A b \in Bookings \ {on[r]} : booking'[b] = booking[b] /\ ticket'[b] = ticket[b]
    PROVE  \A q \in Requests : Decided(q)'
  <1> SUFFICES ASSUME NEW q \in Requests, pc'[q] = "judged" PROVE Decided(q)'
    BY DEF Decided
  <1>1. q # r /\ pc[q] = "judged" /\ op'[q] = op[q] /\ on'[q] = on[q] /\ on[q] \in Bookings
    BY DEF Finish, IInv, TypeOK
  <1>2. lock[on[q]] = q /\ Allowed(op[q], on[q])
    BY <1>1 DEF IInv, DoorInv, Decided
  <1>3. lock'[on[q]] = q
    BY <1>1, <1>2 DEF Finish, IInv, TypeOK
  <1>4. pc[r] = "judged" => on[q] # on[r]
    BY <1>1, <1>2 DEF IInv, DoorInv, Decided
  <1>5. booking'[on[q]] = booking[on[q]] /\ ticket'[on[q]] = ticket[on[q]]
    BY <1>1, <1>4
  <1> QED BY <1>1, <1>2, <1>3, <1>5 DEF Decided, Allowed, Unissued, hasUsedTickets

LEMMA CommitIssueKeeps ==
    ASSUME DeliveryAssumption, IInv, NEW r \in Requests, CommitIssue(r) PROVE IInv'
  <1> USE DEF IInv
  <1>1. TypeOK'
    BY DEF CommitIssue, Finish, TypeOK, PC, Kind, TicketStatus, AllIssued, mailing
  <1>2. /\ UNCHANGED <<booking, entered, mail>> /\ Finish(r) /\ UNCHANGED mailing
        /\ pc[r] = "judged" /\ Unissued(on[r]) /\ booking[on[r]] = "confirmed"
        /\ on[r] \in Bookings
        /\ \A s \in Seats : ticket'[on[r]][s] = "issued"
        /\ \A b \in Bookings \ {on[r]} : ticket'[b] = ticket[b]
    BY DEF CommitIssue, TypeOK, AllIssued, mailing, DoorInv, Decided, Allowed
  <1>3. \A q \in Requests : Decided(q)'
    BY <1>2, FinishKeeps
  <1>4. Counted' /\ NothingEarly' /\ NoEntryOnCancelled' /\ MailHasTickets'
    BY <1>2 DEF DoorInv, Counted, NothingEarly, NoEntryOnCancelled, MailHasTickets, Unissued
  <1> QED BY <1>1, <1>2, <1>3, <1>4, MailUntouched DEF DoorInv

\* The booking is confirmed, and its ticket is used for the first time.
LEMMA markTicketUsedKeeps ==
    ASSUME DeliveryAssumption, IInv, NEW r \in Requests, markTicketUsed(r) PROVE IInv'
  <1> DEFINE b == on[r]
             s == at[r]
  <1> USE DEF IInv
  <1>1. /\ UNCHANGED <<booking, mail>> /\ Finish(r) /\ UNCHANGED mailing
        /\ pc[r] = "judged" /\ b \in Bookings /\ s \in Seats
    BY DEF markTicketUsed, TypeOK, mailing
  <1>2. CASE UNCHANGED <<ticket, entered>>
    <2>1. TypeOK'
      BY <1>2 DEF markTicketUsed, Finish, TypeOK, PC, Kind, mailing
    <2>2. \A q \in Requests : Decided(q)'
      BY <1>1, <1>2, FinishKeeps
    <2> QED BY <1>1, <1>2, <2>1, <2>2, MailUntouched
            DEF DoorInv, Counted, NothingEarly, NoEntryOnCancelled, MailHasTickets, Unissued
  <1>3. CASE /\ Usable(b, s)
             /\ ticket' = [ticket EXCEPT ![b][s] = "used"]
             /\ entered' = [entered EXCEPT ![b][s] = @ + 1]
    <2>1. TypeOK'
      BY <1>3 DEF markTicketUsed, Finish, TypeOK, PC, Kind, TicketStatus, mailing
    <2>2. /\ booking[b] = "confirmed"
          /\ ticket[b][s] = "issued" /\ ticket'[b][s] = "used"
          /\ entered'[b][s] = entered[b][s] + 1
          /\ \A u \in Seats \ {s} : ticket'[b][u] = ticket[b][u] /\ entered'[b][u] = entered[b][u]
          /\ \A c \in Bookings \ {b} : ticket'[c] = ticket[c] /\ entered'[c] = entered[c]
      BY <1>1, <1>3 DEF TypeOK, Usable, DoorInv, Decided, Allowed
    <2>3. \A q \in Requests : Decided(q)'
      BY <1>1, <2>2, FinishKeeps
    <2>4. Counted' /\ NothingEarly' /\ NoEntryOnCancelled' /\ MailHasTickets'
      BY <1>1, <2>2 DEF DoorInv, Counted, NothingEarly, NoEntryOnCancelled, MailHasTickets,
                        Unissued
    <2> QED BY <1>1, <2>1, <2>3, <2>4, MailUntouched DEF DoorInv
  <1> QED BY <1>2, <1>3 DEF markTicketUsed

\* None of its tickets has been used, and none is being used: the lock is the canceller's.
LEMMA CommitCancelKeeps ==
    ASSUME DeliveryAssumption, IInv, NEW r \in Requests, CommitCancel(r) PROVE IInv'
  <1> USE DEF IInv
  <1>1. TypeOK'
    BY DEF CommitCancel, Finish, TypeOK, PC, Kind, BookingStatus, mailing
  <1>2. /\ UNCHANGED <<ticket, entered, mail>> /\ Finish(r) /\ UNCHANGED mailing
        /\ pc[r] = "judged" /\ ~hasUsedTickets(on[r]) /\ on[r] \in Bookings
        /\ booking'[on[r]] = "cancelled"
        /\ \A b \in Bookings \ {on[r]} : booking'[b] = booking[b]
    BY DEF CommitCancel, TypeOK, mailing, DoorInv, Decided, Allowed
  <1>3. \A q \in Requests : Decided(q)'
    BY <1>2, FinishKeeps
  <1>4. Counted' /\ NothingEarly' /\ NoEntryOnCancelled' /\ MailHasTickets'
    BY <1>2 DEF DoorInv, Counted, NothingEarly, NoEntryOnCancelled, MailHasTickets, Unissued,
                hasUsedTickets
  <1> QED BY <1>1, <1>2, <1>3, <1>4, MailUntouched DEF DoorInv

LEMMA RollbackKeeps ==
    ASSUME DeliveryAssumption, IInv, NEW r \in Requests, Rollback(r) PROVE IInv'
  <1> USE DEF IInv
  <1>1. TypeOK'
    BY DEF Rollback, Finish, TypeOK, PC, Kind, mailing
  <1>2. UNCHANGED <<booking, ticket, entered, mail, mailing>> /\ Finish(r)
    BY DEF Rollback, mailing
  <1>3. \A q \in Requests : Decided(q)'
    BY <1>2, FinishKeeps
  <1> QED BY <1>1, <1>2, <1>3, MailUntouched
          DEF DoorInv, Counted, NothingEarly, NoEntryOnCancelled, MailHasTickets, Unissued

-----------------------------------------------------------------------------
(* The e-mail *)

\* What is claimed is pending and in nobody's hands.
LEMMA claimKeeps ==
    ASSUME IInv, NEW m \in Mailers, claimPendingTicketEmails(m) PROVE IInv'
  <1> USE DEF IInv
  <1>1. PICK B \in SUBSET Claimable : claimed' = [claimed EXCEPT ![m] = B]
    BY DEF claimPendingTicketEmails
  <1>2. B \subseteq Bookings /\ \A b \in B : mail[b] = "pending" /\ \A n \in Mailers : b \notin Attempted(n)
    BY DEF Claimable
  <1>3. UNCHANGED <<doors, mail, resting, sent, failed, inbox, wasted>> /\ Attempted(m) = {}
    BY DEF claimPendingTicketEmails, doors
  <1>4. TypeOK'
    BY <1>1, <1>2, <1>3 DEF TypeOK, doors, requests
  <1>5. claimed'[m] = B /\ \A n \in Mailers \ {m} : claimed'[n] = claimed[n]
    BY <1>1 DEF TypeOK
  <1>6. Attempted(m)' = B /\ sent[m] = {} /\ failed[m] = {}
        /\ \A n \in Mailers \ {m} : Attempted(n)' = Attempted(n)
    BY <1>3, <1>5 DEF Attempted
  <1>7. Exclusive'
    BY <1>2, <1>3, <1>5, <1>6 DEF MailInv, Exclusive
  <1>8. Copies'
    BY <1>3 DEF MailInv, Copies, Owed, Recorded
  <1>9. DoorInv'
    BY <1>3, DoorsUntouched
  <1> QED BY <1>4, <1>7, <1>8, <1>9 DEF MailInv

\* The copy is owed until the transaction commits or is lost.
LEMMA sendKeeps ==
    ASSUME IInv, NEW m \in Mailers, NEW b \in Bookings, sendTicketEmail(m, b) PROVE IInv'
  <1> USE DEF IInv
  <1>1. /\ b \in claimed[m] /\ b \in Attempted(m) /\ mail[b] = "pending"
        /\ \A n \in Mailers : b \notin sent[n]
    BY DEF sendTicketEmail, MailInv, Exclusive, Attempted
  <1>2. /\ UNCHANGED <<doors, mail, failed, wasted, resting>>
        /\ claimed'[m] = claimed[m] \ {b} /\ sent'[m] = sent[m] \cup {b}
        /\ \A n \in Mailers \ {m} : claimed'[n] = claimed[n] /\ sent'[n] = sent[n]
        /\ inbox'[b] = inbox[b] + 1 /\ \A c \in Bookings \ {b} : inbox'[c] = inbox[c]
    BY DEF sendTicketEmail, TypeOK, doors
  <1>3. TypeOK'
    BY <1>2 DEF sendTicketEmail, TypeOK, doors, requests
  <1>4. \A n \in Mailers : Attempted(n)' = Attempted(n)
    BY <1>1, <1>2 DEF Attempted
  <1>5. Exclusive'
    BY <1>1, <1>2, <1>4 DEF MailInv, Exclusive
  <1>6. Copies'
    <2> SUFFICES ASSUME NEW c \in Bookings
                 PROVE  inbox'[c] = wasted'[c] + Owed(c)' + Recorded(c)'
      BY DEF Copies
    <2>1. Recorded(c)' = Recorded(c) /\ wasted'[c] = wasted[c]
      BY <1>2 DEF Recorded
    <2>2. CASE c = b
      <3>1. Owed(c) = 0 /\ Owed(c)' = 1 /\ Recorded(c) = 0
        BY <2>2, <1>1, <1>2 DEF Owed, Recorded
      <3> QED BY <2>1, <2>2, <3>1, <1>2 DEF MailInv, Copies, TypeOK
    <2>3. CASE c # b
      <3>1. Owed(c)' = Owed(c)
        BY <2>3, <1>2 DEF Owed
      <3> QED BY <2>1, <2>3, <3>1, <1>2 DEF MailInv, Copies
    <2> QED BY <2>2, <2>3
  <1>7. DoorInv'
    BY <1>2, DoorsUntouched
  <1> QED BY <1>3, <1>5, <1>6, <1>7 DEF MailInv

LEMMA SendFailsKeeps ==
    ASSUME DeliveryAssumption, IInv, NEW m \in Mailers, NEW b \in Bookings, SendFails(m, b)
    PROVE  IInv'
  <1> USE DEF IInv
  <1>1. b \in claimed[m] /\ b \in Attempted(m)
    BY DEF SendFails, Attempted
  <1>2. /\ UNCHANGED <<doors, mail, sent, resting>>
        /\ claimed'[m] = claimed[m] \ {b} /\ failed'[m] = failed[m] \cup {b}
        /\ \A n \in Mailers \ {m} : claimed'[n] = claimed[n] /\ failed'[n] = failed[n]
    BY DEF SendFails, TypeOK, doors
  <1>3. TypeOK'
    <2>1. UNCHANGED doors /\ UNCHANGED <<mail, sent, resting>>
      BY <1>2
    <2>2. CASE UNCHANGED <<inbox, wasted>>
      BY <2>1, <2>2 DEF SendFails, TypeOK, doors, requests
    <2>3. CASE /\ inbox' = [inbox EXCEPT ![b] = @ + 1]
               /\ wasted' = [wasted EXCEPT ![b] = @ + 1]
      <3>1. wasted[b] + 1 \in 0..MaxTries
        BY DEF SendFails, TypeOK, DeliveryAssumption
      <3>2. inbox' \in [Bookings -> Nat] /\ wasted' \in [Bookings -> 0..MaxTries]
        BY <2>3, <3>1 DEF TypeOK
      <3> QED BY <2>1, <3>2 DEF SendFails, TypeOK, doors, requests
    <2> QED BY <2>2, <2>3 DEF SendFails
  <1>4. \A n \in Mailers : Attempted(n)' = Attempted(n)
    BY <1>1, <1>2 DEF Attempted
  <1>5. Exclusive'
    BY <1>1, <1>2, <1>4 DEF MailInv, Exclusive
  <1>6. Copies'
    <2> SUFFICES ASSUME NEW c \in Bookings
                 PROVE  inbox'[c] = wasted'[c] + Owed(c)' + Recorded(c)'
      BY DEF Copies
    <2>1. /\ Owed(c)' = Owed(c) /\ Owed(c) \in {0, 1}
          /\ Recorded(c)' = Recorded(c) /\ Recorded(c) \in {0, 1}
      BY <1>2 DEF Owed, Recorded
    <2>2. inbox[c] = wasted[c] + Owed(c) + Recorded(c)
      BY DEF MailInv, Copies
    <2>3. \/ inbox'[c] = inbox[c] /\ wasted'[c] = wasted[c]
          \/ inbox'[c] = inbox[c] + 1 /\ wasted'[c] = wasted[c] + 1
      BY DEF SendFails, TypeOK
    <2>4. wasted[c] \in Nat
      BY DEF TypeOK
    <2> QED BY <2>1, <2>2, <2>3, <2>4
  <1>7. DoorInv'
    BY <1>2, DoorsUntouched
  <1> QED BY <1>3, <1>5, <1>6, <1>7 DEF MailInv

\* COMMIT: what this mailer owed is recorded, and nobody else owed it.
LEMMA CommitMailsKeeps ==
    ASSUME IInv, NEW m \in Mailers, CommitMails(m) PROVE IInv'
  <1> USE DEF IInv
  <1>1. /\ UNCHANGED <<doors, claimed, inbox, wasted>>
        /\ claimed[m] = {} /\ sent'[m] = {} /\ failed'[m] = {}
        /\ \A n \in Mailers \ {m} : sent'[n] = sent[n] /\ failed'[n] = failed[n]
        /\ \A b \in Bookings : mail'[b] = IF b \in sent[m] THEN "processed" ELSE mail[b]
    BY DEF CommitMails, TypeOK, doors
  <1>2. \A b \in sent[m] : mail[b] = "pending" /\ \A n \in Mailers \ {m} : b \notin Attempted(n)
    BY DEF MailInv, Exclusive, Attempted
  <1>3. TypeOK'
    BY <1>1 DEF CommitMails, TypeOK, doors, requests
  <1>4. Attempted(m)' = {} /\ \A n \in Mailers \ {m} : Attempted(n)' = Attempted(n)
    BY <1>1 DEF Attempted
  <1>5. Exclusive'
    <2>1. \A n \in Mailers : Attempted(n) \subseteq Bookings
      BY DEF TypeOK, Attempted
    <2> QED BY <1>1, <1>2, <1>4, <2>1 DEF MailInv, Exclusive
  <1>6. Copies'
    <2> SUFFICES ASSUME NEW b \in Bookings
                 PROVE  inbox'[b] = wasted'[b] + Owed(b)' + Recorded(b)'
      BY DEF Copies
    <2>1. CASE b \in sent[m]
      <3>1. Owed(b) = 1 /\ Recorded(b) = 0 /\ Owed(b)' = 0 /\ Recorded(b)' = 1
        BY <2>1, <1>1, <1>2 DEF Owed, Recorded, Attempted
      <3> QED BY <3>1, <1>1 DEF MailInv, Copies, TypeOK
    <2>2. CASE b \notin sent[m]
      <3>1. Owed(b)' = Owed(b) /\ Recorded(b)' = Recorded(b)
        BY <2>2, <1>1 DEF Owed, Recorded
      <3> QED BY <3>1, <1>1 DEF MailInv, Copies
    <2> QED BY <2>1, <2>2
  <1>7. DoorInv'
    BY <1>1, <1>2, DoorsUntouched
  <1> QED BY <1>3, <1>5, <1>6, <1>7 DEF MailInv

\* What a dead mailer owed is written off.
LEMMA CrashMailerKeeps ==
    ASSUME DeliveryAssumption, IInv, NEW m \in Mailers, CrashMailer(m) PROVE IInv'
  <1> USE DEF IInv
  <1>1. /\ UNCHANGED <<doors, mail, resting, inbox>>
        /\ claimed'[m] = {} /\ sent'[m] = {} /\ failed'[m] = {}
        /\ \A n \in Mailers \ {m} :
               claimed'[n] = claimed[n] /\ sent'[n] = sent[n] /\ failed'[n] = failed[n]
        /\ \A b \in Bookings : wasted'[b] = IF b \in sent[m] THEN wasted[b] + 1 ELSE wasted[b]
    BY DEF CrashMailer, TypeOK, doors
  <1>2. \A b \in sent[m] : \A n \in Mailers \ {m} : b \notin Attempted(n)
    BY DEF MailInv, Exclusive, Attempted
  <1>3. TypeOK'
    BY <1>1 DEF CrashMailer, TypeOK, DeliveryAssumption, doors, requests
  <1>4. Attempted(m)' = {} /\ \A n \in Mailers \ {m} : Attempted(n)' = Attempted(n)
    BY <1>1 DEF Attempted
  <1>5. Exclusive'
    BY <1>1, <1>4 DEF MailInv, Exclusive
  <1>6. Copies'
    <2> SUFFICES ASSUME NEW b \in Bookings
                 PROVE  inbox'[b] = wasted'[b] + Owed(b)' + Recorded(b)'
      BY DEF Copies
    <2>0. Recorded(b)' = Recorded(b) /\ Recorded(b) \in {0, 1}
      BY <1>1 DEF Recorded
    <2>1. CASE b \in sent[m]
      <3>1. Owed(b) = 1 /\ Owed(b)' = 0
        BY <2>1, <1>1, <1>2 DEF Owed, Attempted
      <3> QED BY <2>0, <2>1, <3>1, <1>1 DEF MailInv, Copies, TypeOK
    <2>2. CASE b \notin sent[m]
      <3>1. Owed(b)' = Owed(b)
        BY <2>2, <1>1 DEF Owed
      <3> QED BY <2>0, <2>2, <3>1, <1>1 DEF MailInv, Copies
    <2> QED BY <2>1, <2>2
  <1>7. DoorInv'
    BY <1>1, DoorsUntouched
  <1> QED BY <1>3, <1>5, <1>6, <1>7 DEF MailInv

LEMMA RetryKeeps ==
    ASSUME IInv, NEW b \in Bookings, Retry(b) PROVE IInv'
  <1>1. UNCHANGED <<doors, mail, claimed, sent, failed, inbox, wasted>>
    BY DEF Retry, doors
  <1>2. TypeOK'
    BY DEF IInv, Retry, TypeOK, requests
  <1>3. DoorInv'
    BY <1>1, DoorsUntouched DEF IInv
  <1>4. MailInv'
    BY <1>1 DEF IInv, MailInv, Exclusive, Copies, Attempted, Owed, Recorded
  <1> QED BY <1>2, <1>3, <1>4 DEF IInv

-----------------------------------------------------------------------------

LEMMA NextKeeps == DeliveryAssumption /\ IInv /\ [Next]_vars => IInv'
  <1> SUFFICES ASSUME DeliveryAssumption, IInv, [Next]_vars PROVE IInv'
    OBVIOUS
  <1>1. CASE UNCHANGED vars
    <2>1. DoorInv' /\ MailInv'
      BY <1>1, DoorsUntouched, MailUntouched DEF vars, doors, mailing, IInv
    <2>2. TypeOK'
      BY <1>1 DEF vars, requests, mailing, IInv, TypeOK
    <2> QED BY <2>1, <2>2 DEF IInv
  <1>2. ASSUME NEW b \in Bookings, confirm(b) \/ Retry(b) PROVE IInv'
    BY <1>2, confirmKeeps, RetryKeeps
  <1>3. ASSUME NEW r \in Requests, RequestStep(r) PROVE IInv'
    BY <1>3, JudgeKeeps, CommitIssueKeeps, markTicketUsedKeeps, CommitCancelKeeps,
       RollbackKeeps DEF RequestStep
  <1>4. ASSUME NEW r \in Requests, NEW b \in Bookings,
               \/ issueTickets(r, b) \/ cancelBooking(r, b)
               \/ \E s \in Seats : verifyTicket(r, b, s)
        PROVE  IInv'
    <2>1. PICK s \in Seats, kind \in Kind : Begin(r, kind, b, s) /\ scans' \in 0..MaxScans
      <3>1. scans \in 0..MaxScans /\ MaxScans \in Nat
        BY DEF IInv, TypeOK, DeliveryAssumption
      <3> QED BY <1>4, <3>1 DEF issueTickets, cancelBooking, verifyTicket, Kind
    <2> QED BY <2>1, BeginKeeps
  <1>5. ASSUME NEW m \in Mailers, MailerStep(m) \/ CrashMailer(m) PROVE IInv'
    BY <1>5, claimKeeps, sendKeeps, CommitMailsKeeps, CrashMailerKeeps DEF MailerStep
  <1>6. ASSUME NEW m \in Mailers, NEW b \in Bookings, SendFails(m, b) PROVE IInv'
    BY <1>6, SendFailsKeeps
  <1> QED BY <1>1, <1>2, <1>3, <1>4, <1>5, <1>6 DEF Next

\* One mailer at most has sent a copy it has not recorded.
LEMMA OwedIsCounted ==
    ASSUME Exclusive, NEW b \in Bookings
    PROVE  Cardinality({m \in Mailers : b \in sent[m]}) = Owed(b)
  <1> DEFINE M == {m \in Mailers : b \in sent[m]}
  <1>1. CASE M = {}
    BY <1>1, FS_EmptySet DEF Owed
  <1>2. ASSUME NEW m \in M PROVE Cardinality(M) = Owed(b)
    <2>1. M = {m}
      BY DEF Exclusive, Attempted
    <2>2. Cardinality({m}) = 1
      BY FS_Singleton
    <2> QED BY <2>1, <2>2 DEF Owed
  <1> QED BY <1>1, <1>2

LEMMA InvSound == IInv => TicketSound
  <1> SUFFICES ASSUME IInv PROVE TicketSound
    OBVIOUS
  <1> USE DEF IInv, DoorInv, MailInv
  <1>1. AcceptedOnce
    BY DEF Counted, AcceptedOnce
  <1>2. BackstopUnreached
    BY DEF Decided, Allowed, BackstopUnreached
  <1>3. CopiesAccountedFor
    BY OwedIsCounted DEF Copies, Recorded, CopiesAccountedFor
  <1> QED BY <1>1, <1>2, <1>3 DEF TicketSound

\* ticket.service.ts and ticket-email.service.ts: whatever the number of bookings, doors and
\* mailers, a ticket lets one person in, none on a cancelled booking; no two issuances meet;
\* and the copies a customer is sent are the recorded one and those a crash or a lost
\* answer has cost.
THEOREM TicketsAreSound == DeliveryAssumption => (Spec => []TicketSound)
  <1> SUFFICES ASSUME DeliveryAssumption PROVE Spec => []TicketSound
    OBVIOUS
  <1>1. Init => IInv
    BY InitInv
  <1>2. IInv /\ [Next]_vars => IInv'
    BY NextKeeps
  <1>3. IInv => TicketSound
    BY InvSound
  <1> QED BY <1>1, <1>2, <1>3, PTL DEF Spec
===============================================================================
