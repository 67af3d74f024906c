---------------------------- MODULE TicketDelivery ----------------------------
(***************************************************************************)
(* Tickets of bookings: their issuance with the booking or on request,     *)
(* their acceptance at the door, the cancellation of the booking, and the  *)
(* e-mail that delivers them.                                              *)
(*                                                                         *)
(* A request is a PostgreSQL transaction: an unlocked read, the booking's  *)
(* row lock, a verdict on what the lock showed, one write, COMMIT.  A      *)
(* mailer's pass is a transaction with a call to the e-mail provider       *)
(* between its statements; what the provider has accepted stays accepted.  *)
(* The seats of a booking are 1..N; a ticket is named by booking and seat. *)
(***************************************************************************)
EXTENDS Integers, FiniteSets

CONSTANTS Bookings,
          Legacy,          \* bookings confirmed before tickets were issued with them
          Seats,           \* the seats of each booking
          Requests,
          Mailers,         \* the ticket-email loops of the workers
          BatchSize,       \* NOTIFICATIONS_OUTBOX_BATCH_SIZE
          NoRequest,
          MaxScans,        \* bound: scans of the doors
          MaxTries         \* bound: attempts to mail a booking that do not count

DeliveryAssumption ==
    /\ Legacy \subseteq Bookings
    /\ NoRequest \notin Requests
    /\ Seats # {} /\ BatchSize \in Nat \ {0} /\ {MaxScans, MaxTries} \subseteq Nat

VARIABLES booking,         \* bookings.status
          ticket,          \* tickets.status by booking and seat
          lock,            \* who has the booking's row
          pc, op, on, at,  \* each request: its step, its kind, its booking, its seat
          entered,         \* history: how often a ticket was accepted at the door
          scans,           \* scans so far
          mail,            \* ticket_email_outbox: "none", "pending" or "processed"
          resting,         \* rows whose available_at is in the future
          claimed,         \* rows a mailer has locked and not attempted
          sent, failed,    \* what its transaction has recorded and not committed
          inbox,           \* history: copies of the e-mail the customer was sent
          wasted           \* history: accepted copies whose record was lost

requests == <<pc, op, on, at>>
mailing  == <<mail, resting, claimed, sent, failed, inbox, wasted>>
vars     == <<booking, ticket, lock, requests, entered, scans, mailing>>

BookingStatus == {"none", "confirmed", "cancelled"}
TicketStatus  == {"none", "issued", "used"}
Kind          == {"none", "issue", "verify", "cancel"}
PC            == {"idle", "begun", "judged", "refused"}

TypeOK ==
    /\ booking \in [Bookings -> BookingStatus]
    /\ ticket \in [Bookings -> [Seats -> TicketStatus]]
    /\ lock \in [Bookings -> Requests \cup {NoRequest}]
    /\ pc \in [Requests -> PC] /\ op \in [Requests -> Kind]
    /\ on \in [Requests -> Bookings] /\ at \in [Requests -> Seats]
    /\ entered \in [Bookings -> [Seats -> Nat]] /\ scans \in 0..MaxScans
    /\ mail \in [Bookings -> {"none", "pending", "processed"}]
    /\ resting \subseteq Bookings
    /\ {claimed, sent, failed} \subseteq [Mailers -> SUBSET Bookings]
    /\ inbox \in [Bookings -> Nat] /\ wasted \in [Bookings -> 0..MaxTries]

Init ==
    /\ booking = [b \in Bookings |-> IF b \in Legacy THEN "confirmed" ELSE "none"]
    /\ ticket = [b \in Bookings |-> [s \in Seats |-> "none"]]
    /\ lock = [b \in Bookings |-> NoRequest]
    /\ pc = [r \in Requests |-> "idle"] /\ op = [r \in Requests |-> "none"]
    /\ on \in {[r \in Requests |-> b] : b \in Bookings}
    /\ at \in {[r \in Requests |-> s] : s \in Seats}
    /\ entered = [b \in Bookings |-> [s \in Seats |-> 0]]
    /\ scans = 0
    /\ mail = [b \in Bookings |-> "none"]
    /\ resting = {}
    /\ claimed = [m \in Mailers |-> {}]
    /\ sent = [m \in Mailers |-> {}] /\ failed = [m \in Mailers |-> {}]
    /\ inbox = [b \in Bookings |-> 0] /\ wasted = [b \in Bookings |-> 0]

-----------------------------------------------------------------------------
(* Issuance *)

\* findTicketsForBooking and findLiveBookingSeatIds: nothing there yet.
Unissued(b) == \A s \in Seats : ticket[b][s] = "none"

AllIssued == [s \in Seats |-> "issued"]

\* For the mutants: the request for the e-mail follows in a transaction of its own,
\* which may come first.
confirmMailedApart(b) ==
    /\ booking[b] = "none"
    /\ mail[b] = "none"
    /\ mail' = [mail EXCEPT ![b] = "pending"]
    /\ UNCHANGED <<booking, ticket, lock, requests, entered, scans, resting, claimed, sent,
                   failed, inbox, wasted>>

\* confirmHoldInTransaction: the booking, its tickets and the request for their
\* e-mail commit together.
confirm(b) ==
    /\ booking[b] = "none"
    /\ booking' = [booking EXCEPT ![b] = "confirmed"]
    /\ ticket' = [ticket EXCEPT ![b] = AllIssued]
    /\ mail' = [mail EXCEPT ![b] = "pending"]
    /\ UNCHANGED <<lock, requests, entered, scans, resting, claimed, sent, failed, inbox, wasted>>

-----------------------------------------------------------------------------
(* Requests about a booking *)

Begin(r, kind, b, s) ==
    /\ pc[r] = "idle"
    /\ booking[b] # "none"
    /\ pc' = [pc EXCEPT ![r] = "begun"]
    /\ op' = [op EXCEPT ![r] = kind]
    /\ on' = [on EXCEPT ![r] = b] /\ at' = [at EXCEPT ![r] = s]
    /\ UNCHANGED <<booking, ticket, lock, entered, mailing>>

issueTickets(r, b) ==
    /\ \E s \in Seats : Begin(r, "issue", b, s)
    /\ UNCHANGED scans

cancelBooking(r, b) ==
    /\ \E s \in Seats : Begin(r, "cancel", b, s)
    /\ UNCHANGED scans

\* findTicketBookingId: a ticket that does not exist is refused before any lock.
verifyTicket(r, b, s) ==
    /\ ticket[b][s] # "none"
    /\ scans < MaxScans
    /\ Begin(r, "verify", b, s)
    /\ scans' = scans + 1

\* For the mutants: the booking is read without FOR UPDATE.
readBookingForTickets(r, b) == UNCHANGED lock

\* SELECT ... FOR UPDATE OF b.
lockBookingForTickets(r, b) ==
    /\ lock[b] = NoRequest
    /\ lock' = [lock EXCEPT ![b] = r]

\* For the mutants: only a booking all of whose tickets are used counts as used.
hasOnlyUsedTickets(b) == \A s \in Seats : ticket[b][s] = "used"

hasUsedTickets(b) == \E s \in Seats : ticket[b][s] = "used"

\* The checks made under the lock, by kind of request.  Somebody without standing over
\* the booking is refused as well.
Allowed(kind, b) ==
    /\ booking[b] = "confirmed"
    /\ kind = "issue" => Unissued(b)
    /\ kind = "cancel" => ~hasUsedTickets(b)

Judge(r) ==
    /\ pc[r] = "begun"
    /\ lockBookingForTickets(r, on[r])
    /\ \/ /\ Allowed(op[r], on[r])
          /\ pc' = [pc EXCEPT ![r] = "judged"]
       \/ pc' = [pc EXCEPT ![r] = "refused"]
    /\ UNCHANGED <<booking, ticket, op, on, at, entered, scans, mailing>>

\* The end of a transaction.
Finish(r) ==
    /\ pc' = [pc EXCEPT ![r] = "idle"]
    /\ op' = [op EXCEPT ![r] = "none"]
    /\ lock' = [b \in Bookings |-> IF lock[b] = r THEN NoRequest ELSE lock[b]]
    /\ UNCHANGED <<on, at>>

\* insertTicketsForSeats and COMMIT.  The retry for a unique key that is taken is not here:
\* BackstopUnreached says that it never comes to that.
CommitIssue(r) ==
    /\ pc[r] = "judged" /\ op[r] = "issue"
    /\ Unissued(on[r])
    /\ ticket' = [ticket EXCEPT ![on[r]] = AllIssued]
    /\ Finish(r)
    /\ UNCHANGED <<booking, entered, scans, mailing>>

\* For the mutants: UPDATE without AND status = 'issued'.
UsableAgain(b, s) == ticket[b][s] # "none"

\* WHERE id = $1 AND status = 'issued'.
Usable(b, s) == ticket[b][s] = "issued"

\* The guarded UPDATE, and COMMIT; zero rows is a refusal.
markTicketUsed(r) ==
    /\ pc[r] = "judged" /\ op[r] = "verify"
    /\ LET b == on[r]
           s == at[r]
       IN  \/ /\ Usable(b, s)
              /\ ticket' = [ticket EXCEPT ![b][s] = "used"]
              /\ entered' = [entered EXCEPT ![b][s] = @ + 1]
           \/ /\ ~Usable(b, s)
              /\ UNCHANGED <<ticket, entered>>
    /\ Finish(r)
    /\ UNCHANGED <<booking, scans, mailing>>

\* markBookingCancelled and the release of the seats; the tickets keep their status.
CommitCancel(r) ==
    /\ pc[r] = "judged" /\ op[r] = "cancel"
    /\ booking' = [booking EXCEPT ![on[r]] = "cancelled"]
    /\ Finish(r)
    /\ UNCHANGED <<ticket, entered, scans, mailing>>

\* A refusal, a unique violation, or a failure of PostgreSQL: ROLLBACK.
Rollback(r) ==
    /\ pc[r] # "idle"
    /\ Finish(r)
    /\ UNCHANGED <<booking, ticket, entered, scans, mailing>>

-----------------------------------------------------------------------------
(* The ticket-email loop *)

Attempted(m) == claimed[m] \cup sent[m] \cup failed[m]

\* For the mutants: without SKIP LOCKED, and without a lock either.
ClaimableByAll == {b \in Bookings : mail[b] = "pending" /\ b \notin resting}

\* processed_at IS NULL AND available_at <= now() ... FOR UPDATE SKIP LOCKED.
Claimable ==
    {b \in Bookings : mail[b] = "pending" /\ b \notin resting}
        \ UNION {Attempted(m) : m \in Mailers}

claimPendingTicketEmails(m) ==
    /\ Attempted(m) = {}
    /\ \E B \in SUBSET Claimable :
         /\ B # {} /\ Cardinality(B) <= BatchSize
         /\ Cardinality(B) = BatchSize \/ B = Claimable
         /\ claimed' = [claimed EXCEPT ![m] = B]
    /\ UNCHANGED <<booking, ticket, lock, requests, entered, scans, mail, resting, sent, failed,
                   inbox, wasted>>

\* The provider accepts the message and markTicketEmailProcessed is executed.
sendTicketEmail(m, b) ==
    /\ b \in claimed[m]
    /\ claimed' = [claimed EXCEPT ![m] = @ \ {b}]
    /\ sent' = [sent EXCEPT ![m] = @ \cup {b}]
    /\ inbox' = [inbox EXCEPT ![b] = @ + 1]
    /\ UNCHANGED <<booking, ticket, lock, requests, entered, scans, mail, resting, failed, wasted>>

\* The provider refuses, or accepts and its answer is lost: recordTicketEmailFailure.
SendFails(m, b) ==
    /\ b \in claimed[m]
    /\ wasted[b] < MaxTries
    /\ claimed' = [claimed EXCEPT ![m] = @ \ {b}]
    /\ failed' = [failed EXCEPT ![m] = @ \cup {b}]
    /\ \/ /\ inbox' = [inbox EXCEPT ![b] = @ + 1]
          /\ wasted' = [wasted EXCEPT ![b] = @ + 1]
       \/ UNCHANGED <<inbox, wasted>>
    /\ UNCHANGED <<booking, ticket, lock, requests, entered, scans, mail, resting, sent>>

\* For the mutants: the failure is recorded and the row marked all the same.
CommitMailsAll(m) ==
    /\ claimed[m] = {} /\ sent[m] \cup failed[m] # {}
    /\ mail' = [b \in Bookings |-> IF b \in sent[m] \cup failed[m] THEN "processed" ELSE mail[b]]
    /\ sent' = [sent EXCEPT ![m] = {}] /\ failed' = [failed EXCEPT ![m] = {}]
    /\ UNCHANGED <<booking, ticket, lock, requests, entered, scans, resting, claimed, inbox, wasted>>

CommitMails(m) ==
    /\ claimed[m] = {} /\ sent[m] \cup failed[m] # {}
    /\ mail' = [b \in Bookings |-> IF b \in sent[m] THEN "processed" ELSE mail[b]]
    /\ resting' = resting \cup failed[m]
    /\ sent' = [sent EXCEPT ![m] = {}] /\ failed' = [failed EXCEPT ![m] = {}]
    /\ UNCHANGED <<booking, ticket, lock, requests, entered, scans, claimed, inbox, wasted>>

\* The worker dies or its connection does: the whole batch is pending again.
CrashMailer(m) ==
    /\ Attempted(m) # {}
    /\ \A b \in sent[m] : wasted[b] < MaxTries
    /\ wasted' = [b \in Bookings |-> IF b \in sent[m] THEN wasted[b] + 1 ELSE wasted[b]]
    /\ claimed' = [claimed EXCEPT ![m] = {}]
    /\ sent' = [sent EXCEPT ![m] = {}] /\ failed' = [failed EXCEPT ![m] = {}]
    /\ UNCHANGED <<booking, ticket, lock, requests, entered, scans, mail, resting, inbox>>

\* The back-off of recordTicketEmailFailure has passed.
Retry(b) ==
    /\ b \in resting
    /\ resting' = resting \ {b}
    /\ UNCHANGED <<booking, ticket, lock, requests, entered, scans, mail, claimed, sent, failed,
                   inbox, wasted>>

-----------------------------------------------------------------------------

RequestStep(r) == Judge(r) \/ CommitIssue(r) \/ markTicketUsed(r) \/ CommitCancel(r) \/ Rollback(r)

MailerStep(m) ==
    \/ claimPendingTicketEmails(m) \/ CommitMails(m)
    \/ \E b \in Bookings : sendTicketEmail(m, b)

Next ==
    \/ \E b \in Bookings : confirm(b) \/ Retry(b)
    \/ \E r \in Requests :
         \/ RequestStep(r)
         \/ \E b \in Bookings :
              \/ issueTickets(r, b) \/ cancelBooking(r, b)
              \/ \E s \in Seats : verifyTicket(r, b, s)
    \/ \E m \in Mailers :
         \/ MailerStep(m) \/ CrashMailer(m)
         \/ \E b \in Bookings : SendFails(m, b)

Spec == Init /\ [][Next]_vars

\* The loop keeps running and back-off ends; the provider does not refuse for ever.
Fairness ==
    /\ \A b \in Bookings : WF_vars(Retry(b))
    /\ \A m \in Mailers :
         /\ WF_vars(MailerStep(m)) /\ SF_vars(CommitMails(m))
         /\ \A b \in Bookings : SF_vars(sendTicketEmail(m, b))

-----------------------------------------------------------------------------
(* Properties *)

\* ticket.service.ts, "THE DOUBLE-SCAN GUARANTEE": however many doors scan one ticket
\* at once, one of them lets its holder in.
AcceptedOnce == \A b \in Bookings, s \in Seats : entered[b][s] <= 1

\* ticket.service.ts, insertTicketsWithRetry: "the booking lock held for this whole
\* transaction should make this unreachable": two issuances never meet at the unique key.
BackstopUnreached ==
    \A r \in Requests : pc[r] = "judged" /\ op[r] = "issue" => Unissued(on[r])

\* ticket.service.ts, verifyTicketInTransaction: "bookings.status = 'cancelled' AND
\* tickets.status = 'used' is unreachable", with several tickets to a booking.
NoEntryOnCancelled ==
    \A b \in Bookings, s \in Seats : booking[b] = "cancelled" => ticket[b][s] # "used"

\* ticket-email.service.ts: a row without ticket context is "unreachable": whatever is
\* mailed is the whole set of tickets.
MailHasTickets ==
    \A b \in Bookings : mail[b] # "none" => \A s \in Seats : ticket[b][s] # "none"

\* "No second worker can duplicate the send in flight": a customer gets a second copy
\* only for a crash or a lost answer after the first.
CopiesAccountedFor ==
    \A b \in Bookings :
        inbox[b] = wasted[b] + Cardinality({m \in Mailers : b \in sent[m]})
                             + (IF mail[b] = "processed" THEN 1 ELSE 0)

\* From the booking to the door: one entry to a ticket, none on a booking that was
\* cancelled, tickets issued once, and mailed completely and without unaccounted copies.
TicketSound ==
    /\ TypeOK /\ AcceptedOnce /\ BackstopUnreached /\ NoEntryOnCancelled
    /\ MailHasTickets /\ CopiesAccountedFor

\* "DELIVERY IS AT-LEAST-ONCE": every confirmed booking's e-mail is accepted by the
\* provider and recorded, over crashes, refusals and lost answers.
MailArrives ==
    \A b \in Bookings : mail[b] = "pending" ~> mail[b] = "processed" /\ inbox[b] > 0
=============================================================================
