------------------------------- MODULE EventFeed -------------------------------
(***************************************************************************)
(* Public discovery: GET /api/v1/events, keyset pages over events that are *)
(* published, renamed and rescheduled meanwhile, and the events page that  *)
(* asks for them.                                                          *)
(*                                                                         *)
(* A search is sent with what the page knew when it was started, read by   *)
(* the server in one statement at any later moment, and answered in any    *)
(* order.  It carries the filters of the form as they stand, submitted or  *)
(* not.  The id of an event breaks ties, so ids are numbers; key is the    *)
(* column the sort mode names (starts_at or title).                        *)
(***************************************************************************)
EXTENDS Integers, FiniteSets, SequencesExt

CONSTANTS Ids,             \* event ids, ordered
          Keys,            \* values of the sort column, ordered
          Filters,         \* what the form may say: [text |-> q and city, category |-> ...]
          Matching,        \* the events that pass each filter, by the value of their column
          Limit,           \* page size
          NoCursor,
          MaxSearches,     \* bound: searches in flight
          MaxWrites,       \* bound: writes of organisers
          MaxItems         \* bound: length of the list the page shows

\* Nothing typed, and "All categories".
NoFilter == [text |-> "", category |-> ""]

FeedAssumption ==
    /\ NoFilter \in Filters /\ Matching \in [Filters -> SUBSET (Ids \X Keys)]
    /\ Ids \subseteq Nat /\ Keys \subseteq Nat
    /\ IsFiniteSet(Ids)
    /\ Limit \in Nat \ {0} /\ {MaxSearches, MaxWrites, MaxItems} \subseteq Nat
    /\ NoCursor \notin [sort : {"asc", "desc"}, key : Keys, id : Ids]

VARIABLES visible,         \* events whose status is not 'draft'
          key,             \* the sort column
          filter, sort,    \* the page's state: q and city, category, sort mode ...
          items, cursor, hasMore, loading, loadingMore, error,
          searches,        \* searches in flight, oldest first
          began,           \* history: the filter the list began with
          steady,          \* history: events it matched then, unedited since
          overlapped,      \* history: a search of this list ran beside another one
          mixed,           \* history: a page of it was asked for with another filter
          writes

page    == <<filter, sort, items, cursor, hasMore, loading, loadingMore, error>>
history == <<began, steady, overlapped, mixed>>
vars    == <<visible, key, page, searches, history, writes>>

SortMode == {"asc", "desc"}
Cursor   == [sort : SortMode, key : Keys, id : Ids] \cup {NoCursor}
Search   == [reset : BOOLEAN, filter : Filters, sort : SortMode, cursor : Cursor,
             state : {"sent", "answered", "refused"}, items : Seq(Ids), next : Cursor,
             seen : SUBSET Ids]   \* seen: history, what matched and is unedited since

TypeOK ==
    /\ visible \subseteq Ids /\ key \in [Ids -> Keys]
    /\ filter \in Filters /\ sort \in SortMode /\ items \in Seq(Ids) /\ cursor \in Cursor
    /\ {hasMore, loading, loadingMore, error, overlapped, mixed} \subseteq BOOLEAN
    /\ searches \in Seq(Search)
    /\ began \in Filters /\ steady \subseteq Ids /\ writes \in 0..MaxWrites

\* The page opens with a search of its own.
Init ==
    /\ visible \in SUBSET Ids
    /\ key \in [Ids -> Keys]
    /\ filter = NoFilter /\ sort = "asc" /\ items = <<>> /\ cursor = NoCursor
    /\ hasMore = FALSE /\ loading = TRUE /\ loadingMore = FALSE /\ error = FALSE
    /\ searches = <<[reset |-> TRUE, filter |-> NoFilter, sort |-> "asc", cursor |-> NoCursor,
                     state |-> "sent", items |-> <<>>, next |-> NoCursor, seen |-> {}]>>
    /\ began = NoFilter /\ steady = {} /\ overlapped = FALSE /\ mixed = FALSE /\ writes = 0

-----------------------------------------------------------------------------
(* The server *)

\* ORDER BY key, id in the direction of the sort mode.
Precedes(mode, k1, i1, k2, i2) ==
    LET before(x, y) == IF mode = "asc" THEN x < y ELSE x > y
    IN  before(k1, k2) \/ (k1 = k2 /\ before(i1, i2))

\* For the mutants: from the position on, the position included.
PastOrAt(mode, c, e) ==
    c = NoCursor \/ ~Precedes(mode, key[e], e, c.key, c.id)

\* The keyset predicate: strictly past the cursor.
Past(mode, c, e) == c = NoCursor \/ Precedes(mode, c.key, c.id, key[e], e)

\* One row more than a page tells whether there is a next one.
fetchLimit == Limit + 1

\* ORDER BY over a set of events: its enumeration in which each row precedes the next.
Sorted(mode, S) ==
    CHOOSE q \in [1..Cardinality(S) -> S] :
        \A i, j \in 1..Cardinality(S) :
            i < j => Precedes(mode, key[q[i]], q[i], key[q[j]], q[j])

\* LIMIT n, and slice(0, n).
First(rows, n) == [i \in 1..Min({Len(rows), n}) |-> rows[i]]

\* WHERE: the visible events that pass a filter.
Matched(f) == {e \in visible : <<e, key[e]>> \in Matching[f]}

findPublicEventsPage(f, mode, c) ==
    First(Sorted(mode, {e \in Matched(f) : Past(mode, c, e)}), fetchLimit)

sortKeyFor(mode, e) == [sort |-> mode, key |-> key[e], id |-> e]

\* For the mutants: the cursor points past the row that told of a next page.
nextCursorPeeked(mode, rows) ==
    IF Len(rows) > Limit THEN sortKeyFor(mode, rows[Limit + 1]) ELSE NoCursor

nextCursor(mode, rows) ==
    IF Len(rows) > Limit THEN sortKeyFor(mode, rows[Limit]) ELSE NoCursor

\* publicEventListQuerySchema: a cursor of another sort mode is refused; it says nothing of
\* the filters it was made under.
decodedCursor(s) == s.cursor = NoCursor \/ s.cursor.sort = s.sort

listPublicEvents(i) ==
    /\ searches[i].state = "sent"
    /\ LET s    == searches[i]
           rows == findPublicEventsPage(s.filter, s.sort, s.cursor)
       IN  /\ searches' = [searches EXCEPT ![i] =
                  IF decodedCursor(s)
                  THEN [s EXCEPT !.state = "answered",
                                 !.items = First(rows, Limit),
                                 !.next = nextCursor(s.sort, rows), !.seen = Matched(s.filter)]
                  ELSE [s EXCEPT !.state = "refused"]]
    /\ UNCHANGED <<visible, key, page, history, writes>>

\* insertEvent and markEventPublished: an event becomes visible, and stays so.
Publish(e) ==
    /\ e \notin visible
    /\ writes < MaxWrites /\ writes' = writes + 1
    /\ visible' = visible \cup {e}
    /\ UNCHANGED <<key, page, searches, history>>

\* updateEventFields: a title, or the schedule of an event nobody has reserved.
Edit(e, k) ==
    /\ key[e] # k
    /\ writes < MaxWrites /\ writes' = writes + 1
    /\ key' = [key EXCEPT ![e] = k]
    /\ steady' = steady \ {e}
    /\ searches' = [i \in DOMAIN searches |-> [searches[i] EXCEPT !.seen = @ \ {e}]]
    /\ UNCHANGED <<visible, page, began, overlapped, mixed>>

-----------------------------------------------------------------------------
(* The page *)

\* runSearch up to its await.
runSearch(reset, f, mode) ==
    /\ Len(searches) < MaxSearches
    /\ searches' = Append(searches,
                          [reset |-> reset, filter |-> f, sort |-> mode,
                           cursor |-> IF reset THEN NoCursor ELSE cursor,
                           state |-> "sent", items |-> <<>>, next |-> NoCursor, seen |-> {}])
    /\ overlapped' = (overlapped \/ searches # <<>>)
    /\ loading' = (loading \/ reset) /\ loadingMore' = (loadingMore \/ ~reset)
    /\ error' = (error /\ ~reset)
    /\ UNCHANGED <<visible, key, items, cursor, hasMore, began, steady, mixed, writes>>

\* setQ and setCity: nothing is asked for yet.
Type(f) ==
    /\ f # filter /\ f.category = filter.category /\ filter' = f
    /\ UNCHANGED <<visible, key, sort, items, cursor, hasMore, loading, loadingMore, error,
                   searches, history, writes>>

\* Search is submitted, or retried after an error.
handleFilterSubmit == runSearch(TRUE, filter, sort) /\ UNCHANGED <<filter, sort>>

\* The effect on [sort, category] asks again, with the text as it stands.
setSort(mode) ==
    mode # sort /\ sort' = mode /\ runSearch(TRUE, filter, mode) /\ UNCHANGED filter

toggleCategory(f) ==
    /\ f # filter /\ f.text = filter.text /\ filter' = f
    /\ runSearch(TRUE, f, sort) /\ UNCHANGED sort

\* The button is there under a list that has more, and disabled while it loads.  It asks for
\* what comes after the cursor under the filter as it stands.
loadMore ==
    /\ hasMore /\ ~loading /\ ~loadingMore /\ ~error
    /\ Len(items) < MaxItems
    /\ runSearch(FALSE, filter, sort) /\ UNCHANGED <<filter, sort>>

\* For the mutants: the flags are cleared after a success only.
FinallyOnSuccess(s) ==
    IF s.state = "answered" THEN loading' = FALSE /\ loadingMore' = FALSE
    ELSE UNCHANGED <<loading, loadingMore>>

Finally(s) == loading' = FALSE /\ loadingMore' = FALSE

\* setItems(prev => ...).
shown(s) == IF s.reset THEN s.items ELSE items \o s.items

\* The answer, whichever search it is of.
Receive(i) ==
    LET s == searches[i] IN
    /\ s.state = "answered"
    /\ items' = shown(s)
    /\ cursor' = s.next /\ hasMore' = (s.next # NoCursor)
    /\ searches' = RemoveAt(searches, i)
    /\ Finally(s)
    /\ began' = IF s.reset THEN s.filter ELSE began
    /\ steady' = IF s.reset THEN s.seen ELSE steady
    /\ overlapped' = IF s.reset THEN Len(searches) > 1 ELSE overlapped
    /\ mixed' = (~s.reset /\ (mixed \/ s.filter # began))
    /\ UNCHANGED <<visible, key, filter, sort, error, writes>>

\* A refusal, or a request that fails.
Fail(i) ==
    LET s == searches[i] IN
    /\ searches' = RemoveAt(searches, i)
    /\ Finally([s EXCEPT !.state = "refused"]) /\ error' = TRUE
    /\ UNCHANGED <<visible, key, filter, sort, items, cursor, hasMore, history, writes>>

-----------------------------------------------------------------------------

Answer == \E i \in 1..Len(searches) : listPublicEvents(i) \/ Receive(i) \/ Fail(i)

Next ==
    \/ Answer
    \/ handleFilterSubmit \/ loadMore
    \/ \E mode \in SortMode : setSort(mode)
    \/ \E f \in Filters : Type(f) \/ toggleCategory(f)
    \/ \E e \in Ids : Publish(e) \/ \E k \in Keys : Edit(e, k)

Spec == Init /\ [][Next]_vars

-----------------------------------------------------------------------------
(* Properties *)

\* How often the list shows an event.
Times(e) == Cardinality({i \in DOMAIN items : items[i] = e})

\* A list whose searches came one after the other and under one filter.
OneList == ~overlapped /\ ~mixed

\* findPublicEventsPage, "strictly past the last row of the previous page": an event that
\* nobody edits is shown once, whatever is published around it, in a list whose searches do
\* not overlap and whose pages were asked for with one filter.
ShownOnce == OneList => \A e \in steady : Times(e) <= 1

\* listPublicEvents: nothing is skipped either: at the end of such a list every event that
\* matched its filter when it began, and was not edited, is in it.
NothingSkipped ==
    (OneList /\ ~loading /\ ~hasMore /\ searches = <<>>)
        => \A e \in steady : Times(e) >= 1

\* A failed or refused search gives the page back: it never shows its skeletons, or a
\* disabled button, with nothing under way.
NeverStuckLoading == searches = <<>> => ~loading /\ ~loadingMore

\* What the list shows is each event of its filter once, none missing, and no end of
\* loading.
ListingSound == TypeOK /\ ShownOnce /\ NothingSkipped /\ NeverStuckLoading

\* listPublicEvents: with OFFSET "a page can silently skip or repeat rows when the
\* underlying set changes between requests"; keyset pagination "is stable under concurrent
\* writes".
StableUnderWrites == OneList => \A e \in Ids : Times(e) <= 1

\* EventsPage.tsx:59, "free-text search and city wait for submit": a further page is one of
\* the list on screen.  It is asked for with what is typed by then, so that events of the
\* list are left out of it and others are put behind it.
TextWaitsForSubmit ==
    ~overlapped => \A i \in DOMAIN searches :
        ~searches[i].reset => searches[i].filter.text = began.text
=============================================================================
