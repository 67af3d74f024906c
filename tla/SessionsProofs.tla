---------------------------- MODULE SessionsProofs ----------------------------
(***************************************************************************)
(* Any number of tokens, tabs and requests: a token is exchanged at most   *)
(* once, a session is carried by one live token, and no rotation leaves    *)
(* its caller without one.                                                 *)
(***************************************************************************)
EXTENDS Sessions, TLAPS

\* Only rows that exist are replaced, and the replaced one is revoked for good.
Replaced ==
    \A t \in Tokens :
        rotatedFrom[t] # NoToken => row[t] # "none" /\ row[rotatedFrom[t]] = "revoked"

\* A page and a request only know tokens whose row has been committed, and only such a
\* row is ever locked.
Known ==
    /\ \A b \in Tabs : session[b] # NoToken => row[session[b]] # "none"
    /\ storage # NoToken => row[storage] # "none"
    /\ \A h \in Handlers : token[h] # NoToken => row[token[h]] # "none"
    /\ \A t \in Tokens : locks[t] # NoHandler => row[t] # "none"

\* A rotation owns the row it is to revoke until it commits, and that row stays live; the
\* token it has minted is no row before it commits, and one afterwards.
Owns(h) ==
    /\ pc[h] # "idle" => token[h] \in Tokens
    /\ pc[h] \in {"rotate", "revoked", "inserted"} =>
           row[token[h]] = "live" /\ locks[token[h]] = h
    /\ pc[h] = "revoking" => locks[token[h]] = h
    /\ pc[h] \notin {"inserted", "granted"} => minted[h] = NoToken
    /\ pc[h] = "inserted" => minted[h] \in Tokens /\ row[minted[h]] = "none"
    /\ pc[h] = "granted" => minted[h] \in Tokens /\ row[minted[h]] # "none"

\* Two rotations never mint one token.
Apart ==
    \A g, h \in Handlers :
        g # h /\ pc[g] = "inserted" /\ pc[h] = "inserted" => minted[g] # minted[h]

IInv ==
    /\ TypeOK /\ OneSuccessor /\ NobodyStranded
    /\ Replaced /\ Known /\ Apart
    /\ \A h \in Handlers : Owns(h)

\* The parts of the invariant that a step leaves alone when it writes no row.
LEMMA NoWrite ==
    ASSUME IInv, UNCHANGED <<row, rotatedFrom>>, ended' = ended
    PROVE  OneSuccessor' /\ NobodyStranded' /\ Replaced'
  BY DEF IInv, OneSuccessor, NobodyStranded, Replaced

LEMMA InitInv == SessionsAssumption /\ Init => IInv
  BY DEF SessionsAssumption, Init, IInv, TypeOK, OneSuccessor, NobodyStranded, Replaced,
         Known, Owns, Apart, TokenOrNone, RowStatus, PC

\* Refused or not, the locks a request gives back are its own.
LEMMA RefreshLockKeeps ==
    ASSUME SessionsAssumption, IInv, NEW h \in Handlers, RefreshLock(h) PROVE IInv'
  <1> USE DEF SessionsAssumption, IInv, table, browser
  <1>1. UNCHANGED <<row, rotatedFrom, ended>> /\ token[h] \in Tokens
    BY DEF RefreshLock, Owns
  <1>2. OneSuccessor' /\ NobodyStranded' /\ Replaced'
    BY <1>1, NoWrite
  <1>3. pc' \in [Handlers -> PC] /\ \A g \in Handlers \ {h} : pc'[g] = pc[g]
    BY DEF RefreshLock, TypeOK, PC
  <1>4. CASE locks' = [locks EXCEPT ![token[h]] = h] /\ pc'[h] = "rotate"
    <2>1. CanLock(h, token[h]) /\ row[token[h]] = "live"
      BY <1>4, <1>3 DEF RefreshLock, lockRefreshTokenByHash, TypeOK
    <2> QED BY <1>1, <1>2, <1>3, <1>4, <2>1
            DEF RefreshLock, TypeOK, Known, Owns, Apart, CanLock, TokenOrNone
  <1>5. CASE locks' = Unlocked(h) /\ pc'[h] \in {"reused", "refused"}
    BY <1>1, <1>2, <1>3, <1>5
       DEF RefreshLock, TypeOK, Known, Owns, Apart, Unlocked, TokenOrNone
  <1> QED BY <1>4, <1>5 DEF RefreshLock, lockRefreshTokenByHash, TypeOK

LEMMA RefreshRevokeKeeps ==
    ASSUME SessionsAssumption, IInv, NEW h \in Handlers, RefreshRevoke(h) PROVE IInv'
  BY DEF SessionsAssumption, IInv, TypeOK, OneSuccessor, NobodyStranded, Replaced,
         Known, Owns, Apart, TokenOrNone, RowStatus, PC,
         RefreshRevoke, table, browser

LEMMA insertRefreshTokenKeeps ==
    ASSUME SessionsAssumption, IInv, NEW h \in Handlers, insertRefreshToken(h) PROVE IInv'
  BY DEF SessionsAssumption, IInv, TypeOK, OneSuccessor, NobodyStranded, Replaced,
         Known, Owns, Apart, TokenOrNone, RowStatus, PC,
         insertRefreshToken, Fresh, table, browser

\* COMMIT of a rotation: its token was live until now, so nothing has replaced it, and the
\* minted one was no row, so nothing has been replaced by it.
LEMMA RefreshCommitKeeps ==
    ASSUME SessionsAssumption, IInv, NEW h \in Handlers, RefreshCommit(h) PROVE IInv'
  <1> DEFINE old == token[h]
             new == minted[h]
  <1> USE DEF SessionsAssumption, IInv, browser
  <1>1. /\ old \in Tokens /\ new \in Tokens /\ old # new
        /\ row[old] = "live" /\ row[new] = "none" /\ locks[old] = h
        /\ pc[h] = "inserted"
    BY DEF RefreshCommit, Owns
  <1>2. \A t \in Tokens :
            /\ row'[t] = IF t = new THEN "live" ELSE IF t = old THEN "revoked" ELSE row[t]
            /\ rotatedFrom'[t] = IF t = new THEN old ELSE rotatedFrom[t]
            /\ locks'[t] = IF locks[t] = h THEN NoHandler ELSE locks[t]
    BY <1>1 DEF RefreshCommit, TypeOK, Unlocked
  <1>3. \A t \in Tokens : rotatedFrom[t] # old
    BY <1>1 DEF Replaced
  <1>4. rotatedFrom[new] = NoToken
    BY <1>1 DEF Replaced
  <1>5. pc'[h] = "granted" /\ \A g \in Handlers \ {h} : pc'[g] = pc[g]
    BY DEF RefreshCommit, TypeOK
  <1>6. TypeOK'
    BY <1>1 DEF RefreshCommit, TypeOK, Unlocked, RowStatus, PC, TokenOrNone
  <1>7. OneSuccessor'
    <2> SUFFICES ASSUME NEW t \in Tokens, NEW u \in Tokens, rotatedFrom'[t] # NoToken,
                        rotatedFrom'[t] = rotatedFrom'[u]
                 PROVE  t = u
      BY DEF OneSuccessor
    <2>1. CASE t = new
      BY <2>1, <1>2, <1>3
    <2>2. CASE u = new
      BY <2>2, <1>2, <1>3
    <2>3. CASE t # new /\ u # new
      <3>1. rotatedFrom'[t] = rotatedFrom[t] /\ rotatedFrom'[u] = rotatedFrom[u]
        BY <2>3, <1>2
      <3> QED BY <3>1 DEF OneSuccessor
    <2> QED BY <2>1, <2>2, <2>3
  <1>8. NobodyStranded'
    <2> SUFFICES ASSUME NEW t \in Tokens, row'[t] = "revoked", t \notin ended
                 PROVE  \E u \in Tokens : rotatedFrom'[u] = t
      BY DEF NobodyStranded, RefreshCommit
    <2>1. CASE t = old
      BY <2>1, <1>1, <1>2
    <2>2. CASE t # old
      <3>1. PICK u \in Tokens : rotatedFrom[u] = t
        BY <2>2, <1>2 DEF NobodyStranded
      <3> QED BY <3>1, <1>2, <1>4
    <2> QED BY <2>1, <2>2
  <1>9. Replaced'
    <2> SUFFICES ASSUME NEW t \in Tokens, rotatedFrom'[t] # NoToken
                 PROVE  row'[t] # "none" /\ row'[rotatedFrom'[t]] = "revoked"
      BY DEF Replaced
    <2>1. CASE t = new
      BY <2>1, <1>1, <1>2
    <2>2. CASE t # new
      <3>1. rotatedFrom[t] \in Tokens /\ row[t] # "none" /\ row[rotatedFrom[t]] = "revoked"
        BY <2>2, <1>2 DEF Replaced, TypeOK, TokenOrNone
      <3> QED BY <3>1, <2>2, <1>1, <1>2
    <2> QED BY <2>1, <2>2
  <1>10. Known'
    BY <1>1, <1>2 DEF Known, RefreshCommit, TypeOK, TokenOrNone
  <1>11. ASSUME NEW g \in Handlers PROVE Owns(g)'
    <2>1. CASE g = h
      <3>1. UNCHANGED <<token, minted>>
        BY DEF RefreshCommit
      <3>2. row'[new] = "live"
        BY <1>1, <1>2
      <3> QED BY <2>1, <3>1, <3>2, <1>1, <1>5 DEF Owns
    <2>2. CASE g # h
      <3>1. UNCHANGED <<token, minted>> /\ pc'[g] = pc[g]
        BY <2>2, <1>5 DEF RefreshCommit
      <3>2. pc[g] = "inserted" => minted[g] # new
        BY <2>2, <1>1 DEF Apart
      <3>3. Owns(g) /\ \A t \in Tokens : row[t] # "none" => row'[t] # "none"
        BY <1>1, <1>2
      <3>4. \A t \in Tokens : locks[t] = g => locks'[t] = g /\ row'[t] = row[t]
        <4>1. locks[new] # g
          BY <1>1 DEF Known
        <4> QED BY <4>1, <2>2, <1>1, <1>2
      <3>5. pc[g] # "idle" => token[g] \in Tokens
        BY <3>3 DEF Owns
      <3>6. pc[g] \in {"rotate", "revoked", "inserted"} =>
                row'[token[g]] = "live" /\ locks'[token[g]] = g
        BY <3>3, <3>4, <3>5 DEF Owns
      <3>7. pc[g] = "revoking" => locks'[token[g]] = g
        BY <3>3, <3>4, <3>5 DEF Owns
      <3>8. pc[g] = "inserted" =>
                minted[g] \in Tokens /\ row[minted[g]] = "none" /\ row'[minted[g]] = "none"
        BY <3>2, <3>3, <1>1, <1>2 DEF Owns
      <3>9. /\ pc[g] \notin {"inserted", "granted"} => minted[g] = NoToken
            /\ pc[g] = "granted" => minted[g] \in Tokens /\ row'[minted[g]] # "none"
        BY <3>3 DEF Owns
      <3> QED BY <3>1, <3>5, <3>6, <3>7, <3>8, <3>9 DEF Owns
    <2> QED BY <2>1, <2>2
  <1>12. Apart'
    BY <1>5 DEF Apart, RefreshCommit
  <1> QED BY <1>6, <1>7, <1>8, <1>9, <1>10, <1>11, <1>12

LEMMA RevokeAllKeeps ==
    ASSUME SessionsAssumption, IInv, NEW h \in Handlers, RevokeAll(h) PROVE IInv'
  BY DEF SessionsAssumption, IInv, TypeOK, OneSuccessor, NobodyStranded, Replaced,
         Known, Owns, Apart, TokenOrNone, RowStatus, PC,
         RevokeAll, table, browser

\* A sweep visits one more row, and locks it if it is still live.
LEMMA RevokeNextKeeps ==
    ASSUME SessionsAssumption, IInv, NEW h \in Handlers, RevokeNext(h) PROVE IInv'
  <1> USE DEF SessionsAssumption, IInv, table, browser
  <1>1. PICK t \in todo[h] :
            /\ \/ row[t] = "live" /\ lockRefreshTokenByHash(h, t)
               \/ row[t] = "revoked" /\ CanLock(h, t) /\ UNCHANGED locks
            /\ todo' = [todo EXCEPT ![h] = @ \ {t}]
    BY DEF RevokeNext
  <1>2. t \in Tokens
    BY <1>1 DEF TypeOK
  <1>3. UNCHANGED <<row, rotatedFrom, expired, pc, token, minted, session, storage,
                    refreshing, leaving, presented, ended>>
    BY DEF RevokeNext
  <1>4. OneSuccessor' /\ NobodyStranded' /\ Replaced' /\ Apart'
    BY <1>3, NoWrite DEF Apart
  <1>5. /\ row[t] \in {"live", "revoked"} /\ locks[t] \in {h, NoHandler}
        /\ \A u \in Tokens \ {t} : locks'[u] = locks[u]
        /\ locks'[t] \in {h, NoHandler} /\ (locks[t] = h => locks'[t] = h)
    BY <1>1, <1>2 DEF lockRefreshTokenByHash, CanLock, TypeOK
  <1>6. TypeOK'
    BY <1>1, <1>2, <1>3 DEF TypeOK, lockRefreshTokenByHash
  <1>7. Known'
    BY <1>3, <1>5 DEF Known
  <1>8. ASSUME NEW g \in Handlers PROVE Owns(g)'
    <2>1. pc[g] # "idle" => token[g] \in Tokens
      BY DEF Owns
    <2>2. token[g] \in Tokens /\ locks[token[g]] = g => locks'[token[g]] = g
      BY <1>2, <1>5
    <2> QED BY <1>3, <2>1, <2>2 DEF Owns
  <1> QED BY <1>4, <1>6, <1>7, <1>8

\* COMMIT of a sweep: it revokes the rows it has locked, which no rotation owns.
LEMMA RevokeAllCommitKeeps ==
    ASSUME SessionsAssumption, IInv, NEW h \in Handlers, RevokeAllCommit(h) PROVE IInv'
  <1> USE DEF SessionsAssumption, IInv, browser
  <1>1. /\ \A t \in Tokens : row'[t] = IF locks[t] = h THEN "revoked" ELSE row[t]
        /\ \A t \in Tokens : locks'[t] = IF locks[t] = h THEN NoHandler ELSE locks[t]
        /\ ended' = ended \cup {t \in Tokens : locks[t] = h}
        /\ pc[h] = "sweep" /\ pc'[h] = "refused"
        /\ \A g \in Handlers \ {h} : pc'[g] = pc[g]
        /\ UNCHANGED <<expired, rotatedFrom, token, minted, todo, session, storage,
                       refreshing, leaving, presented>>
    BY DEF RevokeAllCommit, Unlocked, TypeOK
  <1>2. TypeOK'
    BY <1>1 DEF RevokeAllCommit, TypeOK, Unlocked, RowStatus, PC
  <1>3. OneSuccessor' /\ NobodyStranded'
    BY <1>1 DEF OneSuccessor, NobodyStranded
  <1>4. \A t \in Tokens : row[t] = "revoked" => row'[t] = "revoked"
    BY <1>1
  <1>5. \A t \in Tokens : row[t] # "none" <=> row'[t] # "none"
    BY <1>1 DEF Known
  <1>6. Replaced' /\ Known'
    <2>1. \A t \in Tokens : rotatedFrom[t] # NoToken => rotatedFrom[t] \in Tokens
      BY DEF TypeOK, TokenOrNone
    <2>2. Replaced'
      BY <2>1, <1>1, <1>4, <1>5 DEF Replaced
    <2>3. /\ \A s \in Tabs : session[s] # NoToken => session[s] \in Tokens
          /\ storage # NoToken => storage \in Tokens
          /\ \A g \in Handlers : token[g] # NoToken => token[g] \in Tokens
      BY DEF TypeOK, TokenOrNone
    <2>4. Known'
      BY <2>3, <1>1, <1>5 DEF Known
    <2> QED BY <2>2, <2>4
  <1>7. ASSUME NEW g \in Handlers PROVE Owns(g)'
    <2>1. Owns(g)
      OBVIOUS
    <2>2. CASE g = h
      BY <2>1, <2>2, <1>1 DEF Owns
    <2>3. CASE g # h
      <3>1. pc'[g] = pc[g] /\ token'[g] = token[g] /\ minted'[g] = minted[g]
        BY <2>3, <1>1
      <3>2. \A t \in Tokens : locks[t] = g => locks'[t] = g /\ row'[t] = row[t]
        BY <2>3, <1>1
      <3>3. pc[g] # "idle" => token[g] \in Tokens
        BY DEF Owns
      <3>4. pc[g] \in {"rotate", "revoked", "inserted"} =>
                row'[token[g]] = "live" /\ locks'[token[g]] = g
        BY <3>2, <3>3 DEF Owns
      <3>5. pc[g] = "revoking" => locks'[token[g]] = g
        BY <3>2, <3>3 DEF Owns
      <3>6. /\ pc[g] \notin {"inserted", "granted"} => minted[g] = NoToken
            /\ pc[g] = "inserted" => minted[g] \in Tokens /\ row'[minted[g]] = "none"
            /\ pc[g] = "granted" => minted[g] \in Tokens /\ row'[minted[g]] # "none"
        BY <2>1, <1>5 DEF Owns
      <3> QED BY <3>1, <3>3, <3>4, <3>5, <3>6 DEF Owns
    <2> QED BY <2>2, <2>3
  <1>8. Apart'
    BY <1>1 DEF Apart
  <1> QED BY <1>2, <1>3, <1>6, <1>7, <1>8

LEMMA LogoutLockKeeps ==
    ASSUME SessionsAssumption, IInv, NEW h \in Handlers, LogoutLock(h) PROVE IInv'
  BY DEF SessionsAssumption, IInv, TypeOK, OneSuccessor, NobodyStranded, Replaced,
         Known, Owns, Apart, TokenOrNone, RowStatus, PC,
         LogoutLock, lockRefreshTokenByHash, CanLock, table, browser

\* COMMIT of a logout: it revokes its token, whose lock it has, or nothing.
LEMMA LogoutCommitKeeps ==
    ASSUME SessionsAssumption, IInv, NEW h \in Handlers, LogoutCommit(h) PROVE IInv'
  <1> USE DEF SessionsAssumption, IInv, browser
  <1>1. /\ token[h] \in Tokens /\ locks[token[h]] = h /\ pc[h] = "revoking"
        /\ pc'[h] = "done" /\ \A g \in Handlers \ {h} : pc'[g] = pc[g]
        /\ \A t \in Tokens : locks'[t] = IF locks[t] = h THEN NoHandler ELSE locks[t]
        /\ UNCHANGED <<expired, rotatedFrom, token, minted, todo, session, storage,
                       refreshing, leaving, presented>>
    BY DEF LogoutCommit, Owns, Unlocked, TypeOK
  <1>2. /\ \A t \in Tokens \ {token[h]} : row'[t] = row[t]
        /\ row[token[h]] = "live" => row'[token[h]] = "revoked" /\ token[h] \in ended'
        /\ row[token[h]] # "live" => row'[token[h]] = row[token[h]]
        /\ ended \subseteq ended'
    BY <1>1 DEF LogoutCommit, TypeOK
  <1>3. TypeOK'
    BY <1>1, ZenonT(60) DEF LogoutCommit, TypeOK, Unlocked, RowStatus, PC
  <1>4. OneSuccessor' /\ NobodyStranded'
    BY <1>1, <1>2 DEF OneSuccessor, NobodyStranded
  <1>5. \A t \in Tokens : /\ row[t] = "revoked" => row'[t] = "revoked"
                          /\ row[t] # "none" <=> row'[t] # "none"
    BY <1>1, <1>2
  <1>6. Replaced' /\ Known'
    <2>1. \A t \in Tokens : rotatedFrom[t] # NoToken => rotatedFrom[t] \in Tokens
      BY DEF TypeOK, TokenOrNone
    <2>2. Replaced'
      BY <2>1, <1>1, <1>5 DEF Replaced
    <2>3. /\ \A s \in Tabs : session[s] # NoToken => session[s] \in Tokens
          /\ storage # NoToken => storage \in Tokens
          /\ \A g \in Handlers : token[g] # NoToken => token[g] \in Tokens
      BY DEF TypeOK, TokenOrNone
    <2>4. Known'
      BY <2>3, <1>1, <1>5 DEF Known
    <2> QED BY <2>2, <2>4
  <1>7. ASSUME NEW g \in Handlers PROVE Owns(g)'
    <2>1. Owns(g)
      OBVIOUS
    <2>2. CASE g = h
      BY <2>1, <2>2, <1>1 DEF Owns
    <2>3. CASE g # h
      <3>1. pc'[g] = pc[g] /\ token'[g] = token[g] /\ minted'[g] = minted[g]
        BY <2>3, <1>1
      <3>2. \A t \in Tokens : locks[t] = g => locks'[t] = g /\ row'[t] = row[t]
        BY <2>3, <1>1, <1>2
      <3>3. pc[g] # "idle" => token[g] \in Tokens
        BY DEF Owns
      <3>4. pc[g] \in {"rotate", "revoked", "inserted"} =>
                row'[token[g]] = "live" /\ locks'[token[g]] = g
        BY <3>2, <3>3 DEF Owns
      <3>5. pc[g] = "revoking" => locks'[token[g]] = g
        BY <3>2, <3>3 DEF Owns
      <3>6. /\ pc[g] \notin {"inserted", "granted"} => minted[g] = NoToken
            /\ pc[g] = "inserted" => minted[g] \in Tokens /\ row'[minted[g]] = "none"
            /\ pc[g] = "granted" => minted[g] \in Tokens /\ row'[minted[g]] # "none"
        BY <2>1, <1>5 DEF Owns
      <3> QED BY <3>1, <3>3, <3>4, <3>5, <3>6 DEF Owns
    <2> QED BY <2>2, <2>3
  <1>8. Apart'
    BY <1>1 DEF Apart
  <1> QED BY <1>3, <1>4, <1>6, <1>7, <1>8

LEMMA LogoutDoneKeeps ==
    ASSUME SessionsAssumption, IInv, NEW h \in Handlers, LogoutDone(h) PROVE IInv'
  BY DEF SessionsAssumption, IInv, TypeOK, OneSuccessor, NobodyStranded, Replaced,
         Known, Owns, Apart, TokenOrNone, RowStatus, PC,
         LogoutDone, table, browser

LEMMA RefreshAnsweredKeeps ==
    ASSUME SessionsAssumption, IInv, NEW h \in Handlers, RefreshAnswered(h) PROVE IInv'
  BY DEF SessionsAssumption, IInv, TypeOK, OneSuccessor, NobodyStranded, Replaced,
         Known, Owns, Apart, TokenOrNone, RowStatus, PC,
         RefreshAnswered, SetSession, persist, table

LEMMA RefreshFailKeeps ==
    ASSUME SessionsAssumption, IInv, NEW h \in Handlers, RefreshFail(h) PROVE IInv'
  BY DEF SessionsAssumption, IInv, TypeOK, OneSuccessor, NobodyStranded, Replaced,
         Known, Owns, Apart, TokenOrNone, RowStatus, PC,
         RefreshFail, Unlocked, table, browser

LEMMA LogoutFailKeeps ==
    ASSUME SessionsAssumption, IInv, NEW h \in Handlers, LogoutFail(h) PROVE IInv'
  BY DEF SessionsAssumption, IInv, TypeOK, OneSuccessor, NobodyStranded, Replaced,
         Known, Owns, Apart, TokenOrNone, RowStatus, PC,
         LogoutFail, Unlocked, table, browser

LEMMA handleSubmitKeeps ==
    ASSUME SessionsAssumption, IInv, NEW b \in Tabs, handleSubmit(b) PROVE IInv'
  BY DEF SessionsAssumption, IInv, TypeOK, OneSuccessor, NobodyStranded, Replaced,
         Known, Owns, Apart, TokenOrNone, RowStatus, PC,
         handleSubmit, login, Fresh, SetSession, persist, server

LEMMA refreshAccessTokenKeeps ==
    ASSUME SessionsAssumption, IInv, NEW b \in Tabs, refreshAccessToken(b) PROVE IInv'
  BY DEF SessionsAssumption, IInv, TypeOK, OneSuccessor, NobodyStranded, Replaced,
         Known, Owns, Apart, TokenOrNone, RowStatus, PC,
         refreshAccessToken, table

LEMMA DropKeeps ==
    ASSUME SessionsAssumption, IInv, NEW b \in Tabs, Drop(b) PROVE IInv'
  BY DEF SessionsAssumption, IInv, TypeOK, OneSuccessor, NobodyStranded, Replaced,
         Known, Owns, Apart, TokenOrNone, RowStatus, PC,
         Drop, clearSession, SetSession, persist, table, server

LEMMA loadInitialKeeps ==
    ASSUME SessionsAssumption, IInv, NEW b \in Tabs, loadInitial(b) PROVE IInv'
  BY DEF SessionsAssumption, IInv, TypeOK, OneSuccessor, NobodyStranded, Replaced,
         Known, Owns, Apart, TokenOrNone, RowStatus, PC,
         loadInitial, table, server

LEMMA handleLogoutKeeps ==
    ASSUME SessionsAssumption, IInv, NEW b \in Tabs, handleLogout(b) PROVE IInv'
  BY DEF SessionsAssumption, IInv, TypeOK, OneSuccessor, NobodyStranded, Replaced,
         Known, Owns, Apart, TokenOrNone, RowStatus, PC,
         handleLogout, table

LEMMA LogoutAnsweredKeeps ==
    ASSUME SessionsAssumption, IInv, NEW b \in Tabs, LogoutAnswered(b) PROVE IInv'
  BY DEF SessionsAssumption, IInv, TypeOK, OneSuccessor, NobodyStranded, Replaced,
         Known, Owns, Apart, TokenOrNone, RowStatus, PC,
         LogoutAnswered, clearSession, SetSession, persist, table, server

LEMMA ExpireKeeps ==
    ASSUME SessionsAssumption, IInv, NEW t \in Tokens, Expire(t) PROVE IInv'
  BY DEF SessionsAssumption, IInv, TypeOK, OneSuccessor, NobodyStranded, Replaced,
         Known, Owns, Apart, TokenOrNone, RowStatus, PC,
         Expire, server, browser

LEMMA NextKeeps == SessionsAssumption /\ IInv /\ [Next]_vars => IInv'
  <1> SUFFICES ASSUME SessionsAssumption, IInv, [Next]_vars PROVE IInv'
    OBVIOUS
  <1>1. CASE UNCHANGED vars
    BY <1>1 DEF vars, table, server, browser, IInv, TypeOK, OneSuccessor, NobodyStranded,
                Replaced, Known, Owns, Apart
  <1>2. ASSUME NEW h \in Handlers, ServerStep(h) PROVE IInv'
    BY <1>2, RefreshLockKeeps, RefreshRevokeKeeps, insertRefreshTokenKeeps,
       RefreshCommitKeeps, RevokeAllKeeps, RevokeNextKeeps, RevokeAllCommitKeeps,
       LogoutLockKeeps, LogoutCommitKeeps, LogoutDoneKeeps, RefreshAnsweredKeeps
    DEF ServerStep
  <1>3. ASSUME NEW h \in Handlers, Failure(h) PROVE IInv'
    BY <1>3, RefreshFailKeeps, LogoutFailKeeps DEF Failure
  <1>4. ASSUME NEW b \in Tabs, TabStep(b) PROVE IInv'
    BY <1>4, handleSubmitKeeps, refreshAccessTokenKeeps, DropKeeps, loadInitialKeeps,
       handleLogoutKeeps, LogoutAnsweredKeeps DEF TabStep
  <1>5. ASSUME NEW t \in Lapsing, Expire(t) PROVE IInv'
    BY <1>5, ExpireKeeps DEF SessionsAssumption
  <1> QED BY <1>1, <1>2, <1>3, <1>4, <1>5 DEF Next

\* A token and its replacement are never both live: the replaced one is revoked.
LEMMA InvSound == IInv => RotationSound
  BY DEF IInv, RotationSound, OneLivePerRotation, Replaced

\* auth.service.ts, refresh: whatever the number of tokens, tabs and simultaneous requests,
\* a token is exchanged at most once, of a token and its replacement one is live at most,
\* and nobody's token is revoked without a replacement, a logout or a detected reuse.
THEOREM Rotation == SessionsAssumption => (Spec => []RotationSound)
  <1> SUFFICES ASSUME SessionsAssumption PROVE Spec => []RotationSound
    OBVIOUS
  <1>1. Init => IInv
    BY InitInv
  <1>2. IInv /\ [Next]_vars => IInv'
    BY NextKeeps
  <1>3. IInv => RotationSound
    BY InvSound
  <1> QED BY <1>1, <1>2, <1>3, PTL DEF Spec

-----------------------------------------------------------------------------
\* What a page has presented are rows, and the token it holds is not among them unless a
\* refresh is under way.
Once ==
    \A b \in Tabs :
        /\ \A t \in presented[b] : row[t] # "none"
        /\ refreshing[b] = NoHandler => session[b] \notin presented[b]

\* Nobody but the request itself knows a token that is granted and not yet delivered.
Secret ==
    \A h \in Handlers : pc[h] = "granted" =>
        /\ storage # minted[h]
        /\ \A b \in Tabs : session[b] # minted[h] /\ minted[h] \notin presented[b]
        /\ \A g \in Handlers \ {h} : minted[g] # minted[h]

PInv == Once /\ Secret

LEMMA InitPresented == SessionsAssumption /\ Init => PInv
  BY DEF SessionsAssumption, Init, PInv, Once, Secret

LEMMA NextPresented == SessionsAssumption /\ IInv /\ PInv /\ [Next]_vars => PInv'
  <1> SUFFICES ASSUME SessionsAssumption, IInv, PInv, [Next]_vars PROVE PInv'
    OBVIOUS
  <1> USE DEF SessionsAssumption, IInv, PInv
  <1>1. \A h \in Handlers : pc[h] = "granted" => minted[h] \in Tokens /\ row[minted[h]] # "none"
    BY DEF Owns
  <1>2. NoToken \notin Tokens /\ \A b \in Tabs : presented[b] \subseteq Tokens
    BY DEF TypeOK
  <1>3. CASE UNCHANGED vars
    BY <1>3 DEF Once, Secret, vars, table, server, browser
  \* The server's steps that hand out no token.
  <1>4. ASSUME NEW h \in Handlers,
               \/ RefreshLock(h) \/ RefreshRevoke(h) \/ RevokeAll(h) \/ RevokeNext(h)
               \/ LogoutLock(h) \/ LogoutDone(h) \/ LogoutFail(h)
        PROVE  PInv'
    <2>1. /\ UNCHANGED <<row, minted, session, storage, refreshing, presented>>
          /\ \A g \in Handlers : pc'[g] = "granted" => pc[g] = "granted"
      BY <1>4 DEF RefreshLock, RefreshRevoke, RevokeAll, RevokeNext, LogoutLock, LogoutDone,
                  LogoutFail, TypeOK, table, browser
    <2> QED BY <2>1 DEF Once, Secret
  <1>5. ASSUME NEW h \in Handlers, RevokeAllCommit(h) \/ LogoutCommit(h) PROVE PInv'
    <2>1. /\ UNCHANGED <<minted, session, storage, refreshing, presented>>
          /\ \A g \in Handlers : pc'[g] = "granted" => pc[g] = "granted"
          /\ \A t \in Tokens : row[t] # "none" => row'[t] # "none"
      BY <1>5 DEF RevokeAllCommit, LogoutCommit, TypeOK, browser
    <2> QED BY <2>1, <1>2 DEF Once, Secret
  <1>6. ASSUME NEW h \in Handlers, RefreshFail(h) PROVE PInv'
    <2>1. /\ UNCHANGED <<row, session, storage, refreshing, presented>>
          /\ pc'[h] = "refused" /\ minted'[h] = NoToken
          /\ \A g \in Handlers \ {h} : pc'[g] = pc[g] /\ minted'[g] = minted[g]
      BY <1>6 DEF RefreshFail, TypeOK, table, browser
    <2> QED BY <2>1, <1>1, <1>2 DEF Once, Secret
  <1>7. ASSUME NEW h \in Handlers, insertRefreshToken(h) PROVE PInv'
    <2>1. /\ UNCHANGED <<row, session, storage, refreshing, presented>>
          /\ pc'[h] = "inserted" /\ \A g \in Handlers : minted[g] # minted'[h]
          /\ \A g \in Handlers \ {h} : pc'[g] = pc[g] /\ minted'[g] = minted[g]
      BY <1>7 DEF insertRefreshToken, Fresh, TypeOK, table, browser
    <2> QED BY <2>1 DEF Once, Secret
  \* The token of a rotation is no row until it commits, so nobody has seen it.
  <1>8. ASSUME NEW h \in Handlers, RefreshCommit(h) PROVE PInv'
    <2>1. /\ UNCHANGED <<minted, session, storage, refreshing, presented>>
          /\ \A g \in Handlers \ {h} : pc'[g] = pc[g]
          /\ \A t \in Tokens : row[t] # "none" => row'[t] # "none"
      BY <1>8 DEF RefreshCommit, TypeOK, browser
    <2>2. minted[h] \in Tokens /\ row[minted[h]] = "none" /\ pc[h] = "inserted"
      BY <1>8 DEF RefreshCommit, Owns
    <2>3. \A g \in Handlers \ {h} : minted[g] # minted[h]
      BY <2>2, <1>1 DEF Owns, Apart
    <2>4. storage # minted[h] /\ \A b \in Tabs : session[b] # minted[h] /\ minted[h] \notin presented[b]
      BY <2>2, <1>2 DEF Known, Once
    <2> QED BY <2>1, <2>3, <2>4, <1>2 DEF Once, Secret
  \* The page that takes the answer has never sent the token in it.
  <1>9. ASSUME NEW h \in Handlers, RefreshAnswered(h) PROVE PInv'
    <2>1. /\ UNCHANGED <<row, presented>>
          /\ pc'[h] = "idle" /\ minted'[h] = NoToken
          /\ \A g \in Handlers \ {h} : pc'[g] = pc[g] /\ minted'[g] = minted[g]
      BY <1>9 DEF RefreshAnswered, TypeOK, table
    <2>2. \A b \in Tabs : minted[h] \notin presented[b]
      BY <1>9, <1>2 DEF RefreshAnswered, Secret, Owns
    <2>3. \A g \in Handlers \ {h} : pc[g] = "granted" => minted[g] # minted[h]
      BY DEF Secret
    <2>4. CASE UNCHANGED <<session, storage, refreshing>>
      BY <2>1, <2>4, <1>1, <1>2 DEF Once, Secret
    <2>5. ASSUME NEW b \in Tabs, SetSession(b, minted[h]),
                 refreshing' = [refreshing EXCEPT ![b] = NoHandler]
          PROVE  PInv'
      <3>1. /\ storage' = minted[h] /\ session'[b] = minted[h]
            /\ \A a \in Tabs \ {b} :
                   session'[a] = session[a] /\ refreshing'[a] = refreshing[a]
        BY <2>5 DEF SetSession, persist, TypeOK
      <3> QED BY <3>1, <2>1, <2>2, <2>3, <1>1, <1>2 DEF Once, Secret
    <2> QED BY <1>9, <2>4, <2>5 DEF RefreshAnswered
  \* A login inserts a row nobody has seen and nobody has minted.
  <1>10. ASSUME NEW b \in Tabs, handleSubmit(b) PROVE PInv'
    <2>1. PICK t \in Tokens : login(t) /\ (SetSession(b, t) \/ UNCHANGED <<session, storage>>)
      BY <1>10 DEF handleSubmit
    <2>2. /\ UNCHANGED <<pc, minted, refreshing, presented>>
          /\ \A u \in Tokens : row[u] # "none" => row'[u] # "none"
      BY <1>10, <2>1 DEF handleSubmit, login, Fresh, TypeOK, server
    <2>3. row[t] = "none" /\ (\A h \in Handlers : minted[h] # t)
          /\ \A a \in Tabs : t \notin presented[a]
      BY <2>1 DEF login, Fresh, Once
    <2>4. CASE UNCHANGED <<session, storage>>
      BY <2>2, <2>4, <1>2 DEF Once, Secret
    <2>5. CASE SetSession(b, t)
      <3>1. storage' = t /\ session'[b] = t /\ \A a \in Tabs \ {b} : session'[a] = session[a]
        BY <2>5 DEF SetSession, persist, TypeOK
      <3> QED BY <3>1, <2>2, <2>3, <1>2 DEF Once, Secret
    <2> QED BY <2>1, <2>4, <2>5
  <1>11. ASSUME NEW b \in Tabs, refreshAccessToken(b) PROVE PInv'
    <2>1. PICK h \in Handlers : /\ pc[h] = "idle" /\ pc' = [pc EXCEPT ![h] = "refresh"]
                               /\ refreshing' = [refreshing EXCEPT ![b] = h]
      BY <1>11 DEF refreshAccessToken
    <2>2. /\ UNCHANGED <<row, minted, session, storage>>
          /\ presented'[b] = presented[b] \cup {session[b]} /\ refreshing'[b] = h
          /\ \A a \in Tabs \ {b} : presented'[a] = presented[a] /\ refreshing'[a] = refreshing[a]
          /\ \A g \in Handlers : pc'[g] = "granted" => pc[g] = "granted"
      BY <1>11, <2>1 DEF refreshAccessToken, TypeOK, table
    <2>3. row[session[b]] # "none" /\ h # NoHandler
      BY <1>11 DEF refreshAccessToken, Known
    <2> QED BY <2>2, <2>3 DEF Once, Secret
  <1>12. ASSUME NEW b \in Tabs, Drop(b) \/ handleLogout(b) \/ LogoutAnswered(b) PROVE PInv'
    <2>1. /\ UNCHANGED <<row, minted, presented>>
          /\ \A g \in Handlers : pc'[g] = "granted" => pc[g] = "granted"
          /\ storage' = storage \/ storage' = NoToken
          /\ \A a \in Tabs :
                 \/ session'[a] = NoToken
                 \/ session'[a] = session[a] /\ refreshing'[a] = refreshing[a]
      BY <1>12 DEF Drop, handleLogout, LogoutAnswered, clearSession, SetSession, persist, TypeOK,
                   table, server
    <2>2. Once'
      BY <2>1, <1>2 DEF Once
    <2>3. Secret'
      BY <2>1, <1>1, <1>2 DEF Secret
    <2> QED BY <2>2, <2>3
  <1>13. ASSUME NEW b \in Tabs, loadInitial(b) PROVE PInv'
    <2>1. /\ UNCHANGED <<row, pc, minted, storage>>
          /\ session'[b] = storage /\ presented'[b] = {}
          /\ \A a \in Tabs \ {b} : /\ session'[a] = session[a] /\ refreshing'[a] = refreshing[a]
                                   /\ presented'[a] = presented[a]
      BY <1>13 DEF loadInitial, TypeOK, table, server
    <2> QED BY <2>1 DEF Once, Secret
  <1>14. ASSUME NEW t \in Lapsing, Expire(t) PROVE PInv'
    BY <1>14 DEF Expire, Once, Secret, server, browser
  <1> QED BY <1>3, <1>4, <1>5, <1>6, <1>7, <1>8, <1>9, <1>10, <1>11, <1>12, <1>13, <1>14
          DEF Next, ServerStep, Failure, TabStep


\* api/client.ts, refreshPromise: however many tabs and requests there are, a page sends a
\* token to /auth/refresh once.
THEOREM Presentation == SessionsAssumption => (Spec => PresentedOnce)
  <1> SUFFICES ASSUME SessionsAssumption PROVE Spec => PresentedOnce
    OBVIOUS
  <1>1. Init => IInv /\ PInv
    BY InitInv, InitPresented
  <1>2. IInv /\ PInv /\ [Next]_vars => (IInv /\ PInv)'
    BY NextKeeps, NextPresented
  <1>3. PInv => \A b \in Tabs : refreshAccessToken(b) => session[b] \notin presented[b]
    BY DEF PInv, Once, refreshAccessToken, SingleFlight
  <1>4. PInv => [\A b \in Tabs : refreshAccessToken(b) => session[b] \notin presented[b]]_vars
    BY <1>3
  <1> QED BY <1>1, <1>2, <1>4, PTL DEF Spec, PresentedOnce
===============================================================================
