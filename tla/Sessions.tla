------------------------------- MODULE Sessions -------------------------------
(***************************************************************************)
(* The sessions of one user: the refresh_tokens table, the server's        *)
(* refresh and logout transactions, and the browser that presents the      *)
(* tokens.  The browser's tabs are pages of their own that share one       *)
(* localStorage; each reads it only when it loads.                         *)
(*                                                                         *)
(* A handler is one HTTP request inside the server.  Its rotation is       *)
(* BEGIN; SELECT FOR UPDATE; UPDATE; INSERT; COMMIT, each statement a step *)
(* here.  What a transaction has written is kept in the handler until it   *)
(* commits.  A request outlives the page that sent it.                     *)
(***************************************************************************)
EXTENDS Integers, FiniteSets

CONSTANTS Tokens,        \* bound: the refresh tokens that can ever be issued
          Lapsing,       \* bound: the tokens left unused long enough to expire
          Tabs,
          Handlers,      \* bound: requests in the server at one time
          NoToken, NoHandler

SessionsAssumption ==
    /\ Tokens \subseteq Nat /\ Lapsing \subseteq Tokens
    /\ NoToken \notin Tokens /\ NoHandler \notin Handlers

VARIABLES row,           \* refresh_tokens: "none", "live" or "revoked"
          expired,       \* the rows past expires_at
          rotatedFrom,   \* refresh_tokens.rotated_from
          locks,         \* who holds the row lock FOR UPDATE
          pc,            \* where each handler is
          token,         \* the token it was given
          minted,        \* the token it has inserted and not yet committed
          todo,          \* the rows revokeAllUserRefreshTokens still has to visit
          session,       \* useAuthStore.refreshToken of each tab
          storage,       \* the same in localStorage
          refreshing,    \* the request behind the tab's refreshPromise
          leaving,       \* the tab's request to log out
          presented,     \* history: the tokens this page has sent to /auth/refresh
          ended          \* history: rows revoked by a logout or by reuse detection

table   == <<row, expired, rotatedFrom>>
server  == <<locks, pc, token, minted, todo>>
browser == <<session, storage, refreshing, leaving, presented>>
vars    == <<table, server, browser, ended>>

TokenOrNone == Tokens \cup {NoToken}

\* revoked_at: NULL while the token is live, set once and for all.
RowStatus == {"none", "live", "revoked"}

\* A rotation goes through "refresh", "rotate", "revoked", "inserted"; reuse through
\* "reused", "sweep".  "granted" and "refused" are the answers on their way back.
PC == {"idle", "refresh", "rotate", "revoked", "inserted", "reused", "sweep",
       "granted", "refused", "logout", "revoking", "done", "failed"}

TypeOK ==
    /\ row \in [Tokens -> RowStatus]
    /\ expired \subseteq Tokens
    /\ rotatedFrom \in [Tokens -> TokenOrNone]
    /\ locks \in [Tokens -> Handlers \cup {NoHandler}]
    /\ pc \in [Handlers -> PC]
    /\ token \in [Handlers -> TokenOrNone]
    /\ minted \in [Handlers -> TokenOrNone]
    /\ todo \in [Handlers -> SUBSET Tokens]
    /\ session \in [Tabs -> TokenOrNone]
    /\ storage \in TokenOrNone
    /\ refreshing \in [Tabs -> Handlers \cup {NoHandler}]
    /\ leaving \in [Tabs -> Handlers \cup {NoHandler}]
    /\ presented \in [Tabs -> SUBSET Tokens]
    /\ ended \subseteq Tokens

Init ==
    /\ row = [t \in Tokens |-> "none"]
    /\ expired = {}
    /\ rotatedFrom = [t \in Tokens |-> NoToken]
    /\ locks = [t \in Tokens |-> NoHandler]
    /\ pc = [h \in Handlers |-> "idle"]
    /\ token = [h \in Handlers |-> NoToken]
    /\ minted = [h \in Handlers |-> NoToken]
    /\ todo = [h \in Handlers |-> {}]
    /\ session = [b \in Tabs |-> NoToken]
    /\ storage = NoToken
    /\ refreshing = [b \in Tabs |-> NoHandler]
    /\ leaving = [b \in Tabs |-> NoHandler]
    /\ presented = [b \in Tabs |-> {}]
    /\ ended = {}

-----------------------------------------------------------------------------
(* The token table *)

\* The least unused token: tokens are numbered in the order they are generated.
Fresh(t) ==
    /\ row[t] = "none"
    /\ \A h \in Handlers : minted[h] # t
    /\ \A u \in Tokens : u < t => row[u] # "none" \/ \E h \in Handlers : minted[h] = u

\* For the mutants: a plain SELECT waits for nobody.
ReadsUnlocked(h, t) == TRUE

\* SELECT ... FOR UPDATE waits for whoever holds the row.
CanLock(h, t) == locks[t] \in {h, NoHandler}

lockRefreshTokenByHash(h, t) ==
    /\ CanLock(h, t)
    /\ locks' = [locks EXCEPT ![t] = h]

\* For the mutants: the connection goes back to the pool inside its transaction.
StillLocked(h) == locks

\* The locks left once h's transaction has ended.
Unlocked(h) == [t \in Tokens |-> IF locks[t] = h THEN NoHandler ELSE locks[t]]

\* Bound: a token is left for every login and every rotation that has begun.
TokensLeft ==
    Cardinality({h \in Handlers : pc[h] \in {"refresh", "rotate", "revoked", "inserted"}})
        < Cardinality({t \in Tokens : row[t] = "none"})

-----------------------------------------------------------------------------
(* The browser *)

persist(t) == storage' = t

\* setSession and clearSession write the store and localStorage together.
SetSession(b, t) ==
    /\ session' = [session EXCEPT ![b] = t]
    /\ persist(t)

clearSession(b) == SetSession(b, NoToken)

\* The credentials are right and the token is inserted, by one autocommitted statement.
login(t) ==
    /\ Fresh(t)
    /\ row' = [row EXCEPT ![t] = "live"]

\* LoginPage.  A lost answer leaves a live row no page knows of.
handleSubmit(b) ==
    /\ session[b] = NoToken /\ refreshing[b] = NoHandler /\ leaving[b] = NoHandler
    /\ TokensLeft
    /\ \E t \in Tokens :
         /\ login(t)
         /\ \/ SetSession(b, t)
            \/ UNCHANGED <<session, storage>>
    /\ UNCHANGED <<expired, rotatedFrom, server, refreshing, leaving, presented, ended>>

\* For the mutants: every 401 starts a refresh of its own.
NoFlight(b) == TRUE

\* refreshPromise === null: a 401 that finds a refresh under way joins it.
SingleFlight(b) == refreshing[b] = NoHandler

\* A request of the page is answered 401 and the page holds a refresh token.
refreshAccessToken(b) ==
    /\ session[b] # NoToken
    /\ SingleFlight(b)
    /\ TokensLeft
    /\ \E h \in Handlers :
         /\ pc[h] = "idle"
         /\ pc' = [pc EXCEPT ![h] = "refresh"]
         /\ token' = [token EXCEPT ![h] = session[b]]
         /\ refreshing' = [refreshing EXCEPT ![b] = h]
    /\ presented' = [presented EXCEPT ![b] = @ \cup {session[b]}]
    /\ UNCHANGED <<table, locks, minted, todo, session, storage, leaving, ended>>

\* The answer reaches the page: setSession on 200, clearSession on anything else.
\* A page that has gone takes no notice.
RefreshAnswered(h) ==
    /\ pc[h] \in {"granted", "refused"}
    /\ pc' = [pc EXCEPT ![h] = "idle"]
    /\ token' = [token EXCEPT ![h] = NoToken]
    /\ minted' = [minted EXCEPT ![h] = NoToken]
    /\ \/ \E b \in Tabs :
            /\ refreshing[b] = h
            /\ refreshing' = [refreshing EXCEPT ![b] = NoHandler]
            /\ SetSession(b, minted[h])
       \/ /\ \A b \in Tabs : refreshing[b] # h
          /\ UNCHANGED <<session, storage, refreshing>>
    /\ UNCHANGED <<table, locks, todo, leaving, presented, ended>>

\* fetch rejects, whatever the server is doing: the page clears its session.
Drop(b) ==
    /\ refreshing[b] # NoHandler
    /\ refreshing' = [refreshing EXCEPT ![b] = NoHandler]
    /\ clearSession(b)
    /\ UNCHANGED <<table, server, leaving, presented, ended>>

\* The page is loaded again, its requests forgotten, its store read from localStorage.
loadInitial(b) ==
    /\ session' = [session EXCEPT ![b] = storage]
    /\ refreshing' = [refreshing EXCEPT ![b] = NoHandler]
    /\ leaving' = [leaving EXCEPT ![b] = NoHandler]
    /\ presented' = [presented EXCEPT ![b] = {}]
    /\ UNCHANGED <<table, server, storage, ended>>

\* The log-out button sends the token the page held when it was drawn.
handleLogout(b) ==
    /\ session[b] # NoToken /\ leaving[b] = NoHandler
    /\ \E h \in Handlers :
         /\ pc[h] = "idle"
         /\ pc' = [pc EXCEPT ![h] = "logout"]
         /\ token' = [token EXCEPT ![h] = session[b]]
         /\ leaving' = [leaving EXCEPT ![b] = h]
    /\ UNCHANGED <<table, locks, minted, todo, session, storage, refreshing,
                   presented, ended>>

\* The answer to the log-out, or its failure: the session is cleared either way.
LogoutAnswered(b) ==
    /\ leaving[b] # NoHandler
    /\ leaving' = [leaving EXCEPT ![b] = NoHandler]
    /\ clearSession(b)
    /\ UNCHANGED <<table, server, refreshing, presented, ended>>

-----------------------------------------------------------------------------
(* The server: refresh *)

\* The row as lockRefreshTokenByHash returned it, and the outcome it leads to.  Both
\* refusals commit, and release the lock.
RefreshLock(h) ==
    /\ pc[h] = "refresh"
    /\ LET t == token[h]
           live == row[t] = "live" /\ t \notin expired
       IN  \/ /\ live
              /\ lockRefreshTokenByHash(h, t)
              /\ pc' = [pc EXCEPT ![h] = "rotate"]
           \/ /\ ~live
              /\ CanLock(h, t)
              /\ locks' = Unlocked(h)
              /\ pc' = [pc EXCEPT ![h] = IF row[t] = "revoked" THEN "reused" ELSE "refused"]
    /\ UNCHANGED <<table, token, minted, todo, browser, ended>>

\* For the mutants: the revocation is committed by itself.
RefreshRevokeAutocommit(h) ==
    /\ pc[h] = "rotate"
    /\ pc' = [pc EXCEPT ![h] = "revoked"]
    /\ row' = [row EXCEPT ![token[h]] = "revoked"]
    /\ UNCHANGED <<expired, rotatedFrom, locks, token, minted, todo, browser, ended>>

\* revokeRefreshToken, inside the transaction.
RefreshRevoke(h) ==
    /\ pc[h] = "rotate"
    /\ pc' = [pc EXCEPT ![h] = "revoked"]
    /\ UNCHANGED <<table, locks, token, minted, todo, browser, ended>>

\* issueTokens: the replacement is inserted, then the access token is signed.
insertRefreshToken(h) ==
    /\ pc[h] = "revoked"
    /\ \E t \in Tokens : Fresh(t) /\ minted' = [minted EXCEPT ![h] = t]
    /\ pc' = [pc EXCEPT ![h] = "inserted"]
    /\ UNCHANGED <<table, locks, token, todo, browser, ended>>

\* For the mutants: the old token is left as it was.
RefreshCommitUnrevoked(h) ==
    /\ pc[h] = "inserted"
    /\ row' = [row EXCEPT ![minted[h]] = "live"]
    /\ rotatedFrom' = [rotatedFrom EXCEPT ![minted[h]] = token[h]]
    /\ locks' = Unlocked(h)
    /\ pc' = [pc EXCEPT ![h] = "granted"]
    /\ UNCHANGED <<expired, token, minted, todo, browser, ended>>

\* COMMIT: the revocation and the replacement become visible together.
RefreshCommit(h) ==
    /\ pc[h] = "inserted"
    /\ row' = [row EXCEPT ![token[h]] = "revoked", ![minted[h]] = "live"]
    /\ rotatedFrom' = [rotatedFrom EXCEPT ![minted[h]] = token[h]]
    /\ locks' = Unlocked(h)
    /\ pc' = [pc EXCEPT ![h] = "granted"]
    /\ UNCHANGED <<expired, token, minted, todo, browser, ended>>

\* Any statement fails, or the process dies: ROLLBACK, and a 500 or no answer.
RefreshFail(h) ==
    /\ pc[h] \in {"refresh", "rotate", "revoked", "inserted", "reused", "sweep"}
    /\ locks' = Unlocked(h)
    /\ minted' = [minted EXCEPT ![h] = NoToken]
    /\ todo' = [todo EXCEPT ![h] = {}]
    /\ pc' = [pc EXCEPT ![h] = "refused"]
    /\ UNCHANGED <<table, token, browser, ended>>

\* revokeAllUserRefreshTokens begins: the rows live in the statement's snapshot.
RevokeAll(h) ==
    /\ pc[h] = "reused"
    /\ pc' = [pc EXCEPT ![h] = "sweep"]
    /\ todo' = [todo EXCEPT ![h] = {t \in Tokens : row[t] = "live"}]
    /\ UNCHANGED <<table, locks, token, minted, browser, ended>>

\* It visits them in order, waits for each, and checks revoked_at again: a row
\* rotated meanwhile is passed over.
RevokeNext(h) ==
    /\ pc[h] = "sweep"
    /\ \E t \in todo[h] :
         /\ \A u \in todo[h] : t <= u
         /\ \/ row[t] = "live" /\ lockRefreshTokenByHash(h, t)
            \/ row[t] = "revoked" /\ CanLock(h, t) /\ UNCHANGED locks
         /\ todo' = [todo EXCEPT ![h] = @ \ {t}]
    /\ UNCHANGED <<table, pc, token, minted, browser, ended>>

RevokeAllCommit(h) ==
    /\ pc[h] = "sweep" /\ todo[h] = {}
    /\ LET mine == {t \in Tokens : locks[t] = h}
       IN  /\ row' = [t \in Tokens |-> IF t \in mine THEN "revoked" ELSE row[t]]
           /\ ended' = ended \cup mine
    /\ locks' = Unlocked(h)
    /\ pc' = [pc EXCEPT ![h] = "refused"]
    /\ UNCHANGED <<expired, rotatedFrom, token, minted, todo, browser>>

-----------------------------------------------------------------------------
(* The server: logout *)

LogoutLock(h) ==
    /\ pc[h] = "logout"
    /\ lockRefreshTokenByHash(h, token[h])
    /\ pc' = [pc EXCEPT ![h] = "revoking"]
    /\ UNCHANGED <<table, token, minted, todo, browser, ended>>

\* revokeRefreshToken and COMMIT; nothing is written for a row revoked already.
LogoutCommit(h) ==
    /\ pc[h] = "revoking"
    /\ \/ /\ row[token[h]] = "live"
          /\ row' = [row EXCEPT ![token[h]] = "revoked"]
          /\ ended' = ended \cup {token[h]}
       \/ /\ row[token[h]] # "live"
          /\ UNCHANGED <<row, ended>>
    /\ locks' = Unlocked(h)
    /\ pc' = [pc EXCEPT ![h] = "done"]
    /\ UNCHANGED <<expired, rotatedFrom, token, minted, todo, browser>>

\* A statement fails: ROLLBACK and a 500.
LogoutFail(h) ==
    /\ pc[h] \in {"logout", "revoking"}
    /\ locks' = Unlocked(h)
    /\ pc' = [pc EXCEPT ![h] = "failed"]
    /\ UNCHANGED <<table, token, minted, todo, browser, ended>>

\* The server has answered and forgets the request.
LogoutDone(h) ==
    /\ pc[h] \in {"done", "failed"}
    /\ \A b \in Tabs : leaving[b] # h
    /\ pc' = [pc EXCEPT ![h] = "idle"]
    /\ token' = [token EXCEPT ![h] = NoToken]
    /\ UNCHANGED <<table, locks, minted, todo, browser, ended>>

\* expires_at passes.  An expired row can still be revoked by a logout.
Expire(t) ==
    /\ row[t] = "live" /\ t \notin expired
    /\ locks[t] = NoHandler
    /\ expired' = expired \cup {t}
    /\ UNCHANGED <<row, rotatedFrom, server, browser, ended>>

-----------------------------------------------------------------------------

ServerStep(h) ==
    \/ RefreshLock(h) \/ RefreshRevoke(h) \/ insertRefreshToken(h) \/ RefreshCommit(h)
    \/ RevokeAll(h) \/ RevokeNext(h) \/ RevokeAllCommit(h)
    \/ LogoutLock(h) \/ LogoutCommit(h) \/ LogoutDone(h) \/ RefreshAnswered(h)

Failure(h) == RefreshFail(h) \/ LogoutFail(h)

TabStep(b) ==
    \/ handleSubmit(b) \/ refreshAccessToken(b) \/ Drop(b) \/ loadInitial(b)
    \/ handleLogout(b) \/ LogoutAnswered(b)

Next ==
    \/ \E h \in Handlers : ServerStep(h) \/ Failure(h)
    \/ \E b \in Tabs : TabStep(b)
    \/ \E t \in Lapsing : Expire(t)

Spec == Init /\ [][Next]_vars

\* Node serves every request, and PostgreSQL's lock queues are first come, first
\* served.  No failure is assumed to happen, and no page to do anything.
Fairness ==
    /\ \A h \in Handlers :
         /\ WF_vars(ServerStep(h))
         /\ SF_vars(RefreshLock(h) \/ RevokeNext(h) \/ LogoutLock(h))

-----------------------------------------------------------------------------
(* Properties *)

\* auth.service.ts, refresh: "a refresh token works exactly once": whatever the
\* number of simultaneous refreshes, one token has at most one replacement.
OneSuccessor ==
    \A t, u \in Tokens :
        rotatedFrom[t] # NoToken /\ rotatedFrom[t] = rotatedFrom[u] => t = u

\* Of a token and its replacement never both are live: a session is carried by one
\* token at a time, although the two rows are written by different statements.
OneLivePerRotation ==
    \A t \in Tokens :
        rotatedFrom[t] # NoToken /\ row[t] = "live" => row[rotatedFrom[t]] = "revoked"

\* "On any failure the ROLLBACK leaves the original live": a row is revoked only
\* together with the insertion of its replacement, by a logout, or by reuse detection.
NobodyStranded ==
    \A t \in Tokens :
        row[t] = "revoked" => t \in ended \/ \E u \in Tokens : rotatedFrom[u] = t

\* A session is carried from token to token: one successor, one of the two live, and
\* never neither.
RotationSound == TypeOK /\ OneSuccessor /\ OneLivePerRotation /\ NobodyStranded

\* api/client.ts, refreshPromise: one page never sends one token to /auth/refresh
\* twice, however many of its requests fail with 401 and however its answers are lost,
\* so it never makes the server take its own retry for a reuse.
PresentedOnce ==
    [][\A b \in Tabs : refreshAccessToken(b) => session[b] \notin presented[b]]_vars

\* A page's refresh is always answered, and its waiting requests go on: no refresh,
\* sweep or logout waits for a row lock for ever.
RefreshSettles ==
    \A h \in Handlers : pc[h] = "refresh" ~> pc[h] = "idle"

Descends(t, u) == t = u \/ rotatedFrom[t] = u

\* auth.service.ts, logout: "the refresh chain dies at once".  Once the server has
\* answered a logout, neither the token that was presented nor its replacement is live.
LogoutEndsChain ==
    \A h \in Handlers :
        pc[h] = "done" => \A t \in Tokens : Descends(t, token[h]) => row[t] # "live"
=============================================================================
