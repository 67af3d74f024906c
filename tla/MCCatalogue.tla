------------------------------ MODULE MCCatalogue ------------------------------
(***************************************************************************)
(* What organisers, admins and customers do through the pages, on small    *)
(* instances: roles, the life of an event, the public list and the         *)
(* checkout.  The parts share no variable, so a behaviour moves the part   *)
(* it was begun for and leaves the others in their initial state: every    *)
(* state of each is reached, and no product of them.                       *)
(***************************************************************************)
EXTENDS UserRoles, TLC

CONSTANTS Events, VenueSeats, Schedules, Requests, NoEventRequest, NoEvent, NoSeat,
          Keep,
          Ids, Keys, Filters, Matching, Limit, NoCursor, MaxSearches, MaxWrites, MaxItems,
          Holds, Seats, MaxCalls, MaxKeys, NoHold

VARIABLES part,
          status, schedule, layout, category, seat, price, sold, eventLock, keyShare,
          seatLock, eventReq, reading,
          visible, sortKey, filter, sort, items, cursor, hasMore, loading, loadingMore, error,
          searches, began, steady, overlapped, mixed, writes,
          hold, seatOf, due, doneKey, taken, page, store, key, expired, busy, calls, keys,
          tried, mounts, told

Lifecycle == INSTANCE EventLifecycleProofs
             WITH req <- eventReq, NoRequest <- NoEventRequest

Listing == INSTANCE EventFeed WITH key <- sortKey

\* An empty form, a text that finds the first event, and the category of what has the
\* second key.
FormStates == {[text |-> "", category |-> ""], [text |-> "jazz", category |-> ""],
               [text |-> "", category |-> "music"]}

ByTextAndKey ==
    [f \in FormStates |->
        {p \in Ids \X Keys : (f.text # "" => p[1] = 1) /\ (f.category # "" => p[2] = 2)}]

Buying == INSTANCE Checkout

ASSUME CatalogueAssumption ==
    /\ Lifecycle!EventsAssumption /\ Listing!FeedAssumption /\ Buying!CheckoutAssumption

\* Requests are interchangeable, and so are the seats of a venue.
CatalogueSymmetry == Permutations(Requests) \cup Permutations(VenueSeats)

roleVars     == vars
eventVars    == <<status, schedule, layout, category, seat, price, sold, eventLock, keyShare,
                  seatLock, eventReq, reading>>
listVars     == <<visible, sortKey, filter, sort, items, cursor, hasMore, loading, loadingMore,
                  error, searches, began, steady, overlapped, mixed, writes>>
checkoutVars == <<hold, seatOf, due, doneKey, taken, page, store, key, expired, busy, calls,
                  keys, tried, mounts, told>>

PartsInit ==
    /\ part \in {"roles", "events", "list", "checkout"}
    /\ Init /\ Lifecycle!Init /\ Listing!Init /\ Buying!Init
    \* one initial state of a part that is not to move
    /\ part # "list" => visible = {} /\ \A i, j \in Ids : sortKey[i] = sortKey[j]
    /\ part # "list" => \A i \in Ids : sortKey[i] = (CHOOSE k \in Keys : TRUE)

PartsNext ==
    \/ part = "roles" /\ Next /\ UNCHANGED <<part, eventVars, listVars, checkoutVars>>
    \/ part = "events" /\ Lifecycle!Next /\ UNCHANGED <<part, roleVars, listVars, checkoutVars>>
    \/ part = "list" /\ Listing!Next /\ UNCHANGED <<part, roleVars, eventVars, checkoutVars>>
    \/ part = "checkout" /\ Buying!Next /\ UNCHANGED <<part, roleVars, eventVars, listVars>>

PartsSpec ==
    PartsInit /\ [][PartsNext]_<<part, roleVars, eventVars, listVars, checkoutVars>>

-----------------------------------------------------------------------------
(* Properties of the parts                                                 *)

\* event.service.ts and venue.service.ts: no deletion, update or change of a venue's seats
\* takes a reservation, its showtime, its seat or a page in view away from a customer.
ReservationsKept == part = "events" => Lifecycle!ReservationsKept

\* event.service.ts, listPublicEvents, and EventsPage.tsx: the list shows every event once
\* and comes to an end.
ListingSound == part = "list" => Listing!ListingSound

\* CheckoutPage.tsx: a Confirm repeated after a lost answer is answered with the booking.
RetryReplays == part = "checkout" => Buying!RetryReplays
=============================================================================
