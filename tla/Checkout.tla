------------------------------- MODULE Checkout -------------------------------
(***************************************************************************)
(* One customer's tab, from the seat map to the booking: EventDetailPage,  *)
(* CheckoutPage, the useBookingFlow store and apiRequest, over a network   *)
(* that loses requests and answers.                                        *)
(*                                                                         *)
(* A handler goes on after its await even when its page has been left: the *)
(* page's own state is gone then, but the store and the address bar are    *)
(* not.  A hard reload ends the handlers, not the requests.  The server is *)
(* one step per request (SeatRefinement shows that it may be), and the     *)
(* browser's clock agrees with its clock.                                  *)
(***************************************************************************)
EXTENDS Integers

CONSTANTS Holds,         \* bound: the hold ids the server can hand out
          Seats,         \* what the customer may select; one seat stands for a selection
          MaxCalls,      \* bound: requests in flight at once
          MaxKeys,       \* bound: idempotency keys made for confirmations
          NoHold, NoSeat

CheckoutAssumption ==
    /\ NoHold \notin Holds /\ NoSeat \notin Seats
    /\ MaxCalls \in Nat \ {0} /\ MaxKeys \in Nat \ {0}

VARIABLES hold,          \* reservation_holds.status of this customer's holds
          seatOf,        \* ... and their seat
          due,           \* the holds whose expires_at has passed
          doneKey,       \* the idempotency key the booking of a hold was made with
          taken,         \* the seats other customers have
          page,          \* what is on screen
          store,         \* useBookingFlow: the hold of the checkout flow
          key,           \* CheckoutPage: the memoised idempotency key
          expired,       \* CheckoutPage: the hold is shown as gone
          busy,          \* the buttons that show a spinner
          calls,         \* the requests under way, with the handler that awaits each
          keys,          \* the keys made so far
          tried,         \* history: the keys a hold's confirmation was sent with
          mounts,        \* history: how often CheckoutPage was mounted for a hold (2: or more)
          told           \* history: the holds an answer has told the page of

server  == <<hold, seatOf, due, doneKey, taken>>
tab     == <<page, store, key, expired, busy>>
history == <<tried, mounts, told>>
vars    == <<server, tab, calls, keys, history>>

NoCall == [kind |-> "none", hold |-> NoHold, seat |-> NoSeat, key |-> 0,
           mount |-> "live", state |-> "sent"]

\* "live": the page that sent it is on screen.  "lost": no answer will come.
Call == [kind : {"none", "reserve", "confirm", "release"}, hold : Holds \cup {NoHold},
         seat : Seats \cup {NoSeat}, key : 0 .. MaxKeys,
         mount : {"live", "left", "reloaded"}, state : {"sent", "ok", "refused", "lost"}]

TypeOK ==
    /\ hold \in [Holds -> {"none", "active", "expired", "cancelled", "converted"}]
    /\ seatOf \in [Holds -> Seats \cup {NoSeat}]
    /\ due \subseteq Holds
    /\ doneKey \in [Holds -> 0 .. MaxKeys]
    /\ taken \subseteq Seats
    /\ page \in {"event", "checkout", "booking"}
    /\ store \in Holds \cup {NoHold}
    /\ key \in 0 .. MaxKeys /\ keys \in 0 .. MaxKeys
    /\ expired \in BOOLEAN
    /\ busy \subseteq {"reserve", "confirm", "release"}
    /\ calls \in [1 .. MaxCalls -> Call]
    /\ tried \in [Holds -> SUBSET (1 .. MaxKeys)]
    /\ mounts \in [Holds -> 0 .. 2]
    /\ told \subseteq Holds

Init ==
    /\ hold = [h \in Holds |-> "none"]
    /\ seatOf = [h \in Holds |-> NoSeat]
    /\ due = {} /\ taken = {}
    /\ doneKey = [h \in Holds |-> 0]
    /\ page = "event" /\ store = NoHold /\ key = 0 /\ expired = FALSE /\ busy = {}
    /\ calls = [c \in 1 .. MaxCalls |-> NoCall]
    /\ keys = 0
    /\ tried = [h \in Holds |-> {}] /\ mounts = [h \in Holds |-> 0] /\ told = {}

-----------------------------------------------------------------------------
(* The server                                                              *)

\* Seats are free when nobody has them, or has them on a hold whose time is up.
Free(s) == /\ s \notin taken
           /\ \A h \in Holds : seatOf[h] = s => \/ hold[h] \in {"none", "expired", "cancelled"}
                                                \/ hold[h] = "active" /\ h \in due

Answer(c, a) == calls' = [calls EXCEPT ![c].state = a]

createHold(c) ==
    /\ calls[c].kind = "reserve" /\ calls[c].state = "sent"
    /\ \/ /\ Free(calls[c].seat)
          /\ \E h \in Holds :
              /\ hold[h] = "none"
              /\ hold' = [g \in Holds |-> IF g = h THEN "active"
                                          ELSE IF hold[g] = "active" /\ seatOf[g] = calls[c].seat
                                          THEN "expired" ELSE hold[g]]
              /\ seatOf' = [seatOf EXCEPT ![h] = calls[c].seat]
              /\ calls' = [calls EXCEPT ![c].state = "ok", ![c].hold = h]
       \/ /\ ~Free(calls[c].seat)
          /\ Answer(c, "refused")
          /\ UNCHANGED <<hold, seatOf>>
    /\ UNCHANGED <<due, doneKey, taken, tab, keys, history>>

\* The stored answer of the key, or the one booking a hold can become, or 409.
confirmHold(c) ==
    LET h == calls[c].hold
    IN  /\ calls[c].kind = "confirm" /\ calls[c].state = "sent"
        /\ \/ /\ doneKey[h] = calls[c].key
              /\ Answer(c, "ok") /\ UNCHANGED <<hold, doneKey>>
           \/ /\ doneKey[h] # calls[c].key
              /\ hold[h] = "active" /\ h \notin due
              /\ hold' = [hold EXCEPT ![h] = "converted"]
              /\ doneKey' = [doneKey EXCEPT ![h] = calls[c].key]
              /\ Answer(c, "ok")
           \/ /\ doneKey[h] # calls[c].key
              /\ ~(hold[h] = "active" /\ h \notin due)
              /\ Answer(c, "refused") /\ UNCHANGED <<hold, doneKey>>
        /\ UNCHANGED <<seatOf, due, taken, tab, keys, history>>

releaseHold(c) ==
    LET h == calls[c].hold
    IN  /\ calls[c].kind = "release" /\ calls[c].state = "sent"
        /\ IF hold[h] = "active"
           THEN hold' = [hold EXCEPT ![h] = "cancelled"] /\ Answer(c, "ok")
           ELSE Answer(c, "refused") /\ UNCHANGED hold
        /\ UNCHANGED <<seatOf, due, doneKey, taken, tab, keys, history>>

\* fetch rejects: the request never arrived, or its answer did not.
Lose(c) ==
    /\ calls[c].kind # "none" /\ calls[c].state # "lost"
    /\ Answer(c, "lost")
    /\ UNCHANGED <<server, tab, keys, history>>

\* expires_at passes; the browser knows the moment too.
Lapse(h) ==
    /\ hold[h] # "none" /\ h \notin due
    /\ due' = due \cup {h}
    /\ UNCHANGED <<hold, seatOf, doneKey, taken, tab, calls, keys, history>>

expireHold(h) ==
    /\ hold[h] = "active" /\ h \in due
    /\ hold' = [hold EXCEPT ![h] = "expired"]
    /\ UNCHANGED <<seatOf, due, doneKey, taken, tab, calls, keys, history>>

OtherTakes(s) ==
    /\ Free(s)
    /\ taken' = taken \cup {s}
    /\ hold' = [h \in Holds |-> IF hold[h] = "active" /\ seatOf[h] = s THEN "expired" ELSE hold[h]]
    /\ UNCHANGED <<seatOf, due, doneKey, tab, calls, keys, history>>

-----------------------------------------------------------------------------
(* The pages                                                               *)

Send(r) == \E c \in 1 .. MaxCalls :
            calls[c].kind = "none" /\ calls' = [calls EXCEPT ![c] = [NoCall EXCEPT !.kind = r.kind,
                                        !.hold = r.hold, !.seat = r.seat, !.key = r.key]]

\* The handlers of a page that goes off screen go on without it.
Leave(p) == [c \in 1 .. MaxCalls |->
                IF p # page /\ calls[c].kind # "none" /\ calls[c].mount = "live"
                THEN [calls[c] EXCEPT !.mount = "left"] ELSE calls[c]]

\* CheckoutPage makes a key when it is mounted and when the hold changes (useMemo).
NewKey(h) ==
    /\ keys < MaxKeys
    /\ keys' = keys + 1 /\ key' = keys + 1
    /\ mounts' = [mounts EXCEPT ![h] = IF @ = 2 THEN 2 ELSE @ + 1]

\* What is on screen becomes p, with h in the store.  A page that is mounted anew starts
\* with no flags set; one that was on screen already keeps them.
Show(p, h) ==
    /\ page' = p /\ store' = h
    /\ expired' = (expired /\ p = page)
    /\ busy' = IF p = page THEN busy ELSE {}
    /\ IF p = "checkout" /\ h # NoHold /\ (p # page \/ h # store)
       THEN NewKey(h) ELSE UNCHANGED <<keys, key, mounts>>

\* The same, at the end of the handler of call c.
ShowAfter(c, p, h) ==
    /\ Show(p, h)
    /\ calls' = [Leave(p) EXCEPT ![c] = NoCall]

\* Each click makes a key of its own, so no hold request is ever replayed.
handleReserve(s) ==
    /\ page = "event" /\ "reserve" \notin busy
    /\ Send([kind |-> "reserve", hold |-> NoHold, seat |-> s, key |-> 0])
    /\ busy' = busy \cup {"reserve"}
    /\ UNCHANGED <<server, page, store, key, expired, keys, history>>

\* setHold and navigate act whatever page is on screen by now.
ReserveAnswered(c) ==
    /\ calls[c].kind = "reserve" /\ calls[c].state = "ok" /\ calls[c].mount # "reloaded"
    /\ ShowAfter(c, "checkout", calls[c].hold)
    /\ told' = told \cup {calls[c].hold}
    /\ UNCHANGED <<server, tried>>

\* The spinner of a failed handler stops in its finally, if its page is still there.
Finally(c) ==
    /\ calls' = [calls EXCEPT ![c] = NoCall]
    /\ busy' = IF calls[c].mount = "live" THEN busy \ {calls[c].kind} ELSE busy

ReserveFailed(c) ==
    /\ calls[c].kind = "reserve" /\ calls[c].state \in {"refused", "lost"}
    /\ calls[c].mount # "reloaded"
    /\ Finally(c)
    /\ UNCHANGED <<server, page, store, key, expired, keys, history>>

\* Mutant of handleConfirm: a key per click.
handleConfirmFresh ==
    /\ page = "checkout" /\ store # NoHold /\ ~expired /\ "confirm" \notin busy
    /\ keys < MaxKeys /\ keys' = keys + 1
    /\ Send([kind |-> "confirm", hold |-> store, seat |-> NoSeat, key |-> keys + 1])
    /\ busy' = busy \cup {"confirm"}
    /\ tried' = [tried EXCEPT ![store] = @ \cup {keys + 1}]
    /\ UNCHANGED <<server, page, store, key, expired, mounts, told>>

handleConfirm ==
    /\ page = "checkout" /\ store # NoHold /\ ~expired /\ "confirm" \notin busy
    /\ Send([kind |-> "confirm", hold |-> store, seat |-> NoSeat, key |-> key])
    /\ busy' = busy \cup {"confirm"}
    /\ tried' = [tried EXCEPT ![store] = @ \cup {key}]
    /\ UNCHANGED <<server, page, store, key, expired, keys, mounts, told>>

\* clearHold clears whatever hold the store has by now.
ConfirmAnswered(c) ==
    /\ calls[c].kind = "confirm" /\ calls[c].state = "ok" /\ calls[c].mount # "reloaded"
    /\ ShowAfter(c, "booking", NoHold)
    /\ UNCHANGED <<server, tried, told>>

\* 409 or 404: the page says that the hold has expired.  Anything else can be retried.
ConfirmFailed(c) ==
    /\ calls[c].kind = "confirm" /\ calls[c].state \in {"refused", "lost"}
    /\ calls[c].mount # "reloaded"
    /\ expired' = (expired \/ (calls[c].mount = "live" /\ calls[c].state = "refused"))
    /\ Finally(c)
    /\ UNCHANGED <<server, page, store, key, keys, history>>

\* The button works while a confirmation is under way, and the other way round.
handleRelease ==
    /\ page = "checkout" /\ store # NoHold /\ ~expired /\ "release" \notin busy
    /\ Send([kind |-> "release", hold |-> store, seat |-> NoSeat, key |-> 0])
    /\ busy' = busy \cup {"release"}
    /\ UNCHANGED <<server, page, store, key, expired, keys, history>>

\* Best effort: whatever the answer, the store is cleared and the event page shown.
ReleaseAnswered(c) ==
    /\ calls[c].kind = "release" /\ calls[c].state # "sent" /\ calls[c].mount # "reloaded"
    /\ ShowAfter(c, "event", NoHold)
    /\ UNCHANGED <<server, tried, told>>

\* Countdown reaches zero.
onExpire ==
    /\ page = "checkout" /\ store # NoHold /\ ~expired
    /\ store \in due
    /\ expired' = TRUE
    /\ UNCHANGED <<server, page, store, key, busy, calls, keys, history>>

PickSeatsAgain ==
    /\ page = "checkout" /\ store # NoHold /\ expired
    /\ Show("event", NoHold)
    /\ calls' = Leave("event")
    /\ UNCHANGED <<server, tried, told>>

\* Links and the back button: the store stays, the page's own state does not.
Navigate(p) ==
    /\ page # p /\ p # "booking"
    /\ Show(p, store)
    /\ calls' = Leave(p)
    /\ UNCHANGED <<server, tried, told>>

\* A hard refresh: the store is in memory only, and no handler is left.
Reload ==
    /\ store' = NoHold /\ expired' = FALSE /\ busy' = {}
    /\ calls' = [c \in 1 .. MaxCalls |-> IF calls[c].kind = "none" THEN NoCall
                                         ELSE [calls[c] EXCEPT !.mount = "reloaded"]]
    /\ UNCHANGED <<server, page, key, keys, history>>

\* Nobody is waiting for the answer any more.
Ignored(c) ==
    /\ calls[c].kind # "none" /\ calls[c].mount = "reloaded" /\ calls[c].state # "sent"
    /\ calls' = [calls EXCEPT ![c] = NoCall]
    /\ UNCHANGED <<server, tab, keys, history>>

Network(c) == createHold(c) \/ confirmHold(c) \/ releaseHold(c) \/ Lose(c)

Handler(c) == \/ ReserveAnswered(c) \/ ReserveFailed(c) \/ ConfirmAnswered(c)
              \/ ConfirmFailed(c) \/ ReleaseAnswered(c) \/ Ignored(c)

Next ==
    \/ \E c \in 1 .. MaxCalls : Network(c) \/ Handler(c)
    \/ \E h \in Holds : Lapse(h) \/ expireHold(h)
    \/ \E s \in Seats : OtherTakes(s) \/ handleReserve(s)
    \/ handleConfirm \/ handleRelease \/ onExpire \/ PickSeatsAgain
    \/ \E p \in {"event", "checkout"} : Navigate(p)
    \/ Reload

Spec == Init /\ [][Next]_vars

-----------------------------------------------------------------------------
(* Properties                                                              *)

\* A click on Confirm that is repeated after a lost answer is answered with the booking:
\* a customer who has one is told that the hold is gone only when the countdown has run
\* out, or when CheckoutPage was mounted a second time for the hold.
RetryReplays ==
    page = "checkout" /\ store # NoHold /\ expired /\ hold[store] = "converted"
        => store \in due \/ mounts[store] > 1

\* What the expired page says: "The seats have been released."
ExpiredMeansReleased ==
    page = "checkout" /\ store # NoHold /\ expired => hold[store] # "converted"

\* What the same page says: "Your seat hold expired before checkout finished."
ExpiredIsOver ==
    page = "checkout" /\ store # NoHold /\ expired => hold[store] # "active" \/ store \in due

\* What the comment on the key says: it is stable for the lifetime of the hold.
StableKey == \A h \in Holds : \A j, k \in tried[h] : j = k

\* What SYSTEM_DESIGN.md says of a client that retries after a timeout: the key makes the
\* retry replay the first answer, so nobody is refused seats on account of a hold of their
\* own that they never heard of.
RetryNotRefused ==
    \A c \in 1 .. MaxCalls : calls[c].kind = "reserve" /\ calls[c].state = "refused" =>
        \A h \in Holds : hold[h] = "active" /\ h \notin due /\ seatOf[h] = calls[c].seat
            => h \in told
================================================================================
