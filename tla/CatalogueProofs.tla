--------------------------- MODULE CatalogueProofs ---------------------------
(***************************************************************************)
(* The parts of MCCatalogue for any number of users, events, seats and     *)
(* calls.  First the types of UserRoles, when a deployment can run out of  *)
(* admins, and that a demotion binds the next request; then reservations,  *)
(* the checkout and the public list, which PartsSpec implements.           *)
(***************************************************************************)
EXTENDS MCCatalogue, Integers, Sequences, FiniteSetTheorems, TLAPS

\* Every constructor of a request has the request's type.
Request == [pc : {"idle", "sent", "allowed"}, target : Users \cup {NoUser},
            role : Roles \cup {"none"}, heldAdmin : BOOLEAN]

\* What TypeOK does not say of a request in flight: it names an account and a role, and
\* once it has been let in its sender has been an admin since it was sent.
Sound ==
    \A u \in Users :
        /\ req[u].pc # "idle" => req[u].target \in Users /\ req[u].role \in Roles
        /\ req[u].pc = "sent" /\ role[u] = "admin" => req[u].heldAdmin
        /\ req[u].pc = "allowed" => req[u].heldAdmin

IInv == TypeOK /\ Sound /\ OnlyByCrossing

LEMMA InitInv == Init => IInv
  <1> SUFFICES ASSUME Init PROVE IInv
    OBVIOUS
  <1>1. NoRequest \in Request /\ NoRequest.pc = "idle"
    BY DEF NoRequest, Request
  <1>2. role \in [Users -> Roles \cup {"none"}]
    BY DEF Init, Roles
  <1>3. req \in [Users -> Request]
    BY <1>1 DEF Init
  <1>4. crossed \in BOOLEAN /\ claim \in [Users -> Roles \cup {"none"}]
    BY DEF Init
  <1>5. TypeOK
    BY <1>2, <1>3, <1>4 DEF TypeOK, Request
  <1>6. Sound
    BY <1>1 DEF Init, Sound
  <1>7. OnlyByCrossing
    BY RolesAssumption DEF Init, OnlyByCrossing, Admins
  <1> QED BY <1>5, <1>6, <1>7 DEF IInv

\* The record setUserRole leaves behind for every other user is a request again.
LEMMA ChangeTypes ==
    ASSUME TypeOK, NEW u \in Users, NEW t \in Users, NEW r \in Roles, updateUserRole(u, t, r)
    PROVE  /\ role' \in [Users -> Roles \cup {"none"}]
           /\ req' \in [Users -> Request]
  <1>1. role' \in [Users -> Roles \cup {"none"}]
    BY DEF TypeOK, updateUserRole
  <1>2. ASSUME NEW v \in Users
        PROVE  /\ NoRequest \in Request
               /\ req[v] \in Request
               /\ [req[v] EXCEPT !.heldAdmin = req[v].pc # "idle"] \in Request
    BY DEF TypeOK, NoRequest, Request
  <1>3. req' \in [Users -> Request]
    BY <1>2 DEF updateUserRole
  <1> QED BY <1>1, <1>3

LEMMA NextTypes == TypeOK /\ Sound /\ [Next]_vars => TypeOK'
  <1> SUFFICES ASSUME TypeOK, Sound, [Next]_vars PROVE TypeOK'
    OBVIOUS
  <1>1. ASSUME NEW u \in Users, register(u) PROVE TypeOK'
    BY <1>1 DEF TypeOK, register, Roles
  <1>2. ASSUME NEW u \in Users, login(u) PROVE TypeOK'
    BY <1>2 DEF TypeOK, login
  <1>3. ASSUME NEW u \in Users, Authorize(u) PROVE TypeOK'
    <2>1. NoRequest \in Request /\ [req[u] EXCEPT !.pc = "allowed"] \in Request
      BY DEF TypeOK, NoRequest, Request
    <2>2. req' \in [Users -> Request]
      BY <1>3, <2>1 DEF TypeOK, Authorize, Request
    <2> QED BY <1>3, <2>2 DEF TypeOK, Authorize, Request
  <1>4. ASSUME NEW u \in Users, setUserRole(u) PROVE TypeOK'
    <2> DEFINE t == req[u].target
    <2>0. UNCHANGED <<claim>>
      BY <1>4 DEF setUserRole
    <2>1. CASE t = u \/ role[t] = "none"
      <3>1. NoRequest \in Request
        BY DEF NoRequest, Request
      <3>2. req' \in [Users -> Request] /\ UNCHANGED <<role, crossed>>
        BY <1>4, <2>1, <3>1 DEF setUserRole, TypeOK, Request
      <3> QED BY <2>0, <3>2 DEF TypeOK, Request
    <2>2. CASE ~(t = u \/ role[t] = "none")
      <3>1. updateUserRole(u, t, req[u].role) /\ crossed' \in BOOLEAN
        BY <1>4, <2>2 DEF setUserRole
      <3>2. t \in Users /\ req[u].role \in Roles
        BY <1>4 DEF setUserRole, Sound
      <3> QED BY <2>0, <3>1, <3>2, ChangeTypes DEF TypeOK, Request
    <2> QED BY <2>1, <2>2
  <1>5. ASSUME NEW u \in Users, NEW t \in Users, NEW r \in Roles, SendChange(u, t, r) PROVE TypeOK'
    <2>1. [pc |-> "sent", target |-> t, role |-> r, heldAdmin |-> role[u] = "admin"] \in Request
      BY DEF Request
    <2>2. req' \in [Users -> Request]
      BY <1>5, <2>1 DEF TypeOK, SendChange, Request
    <2> QED BY <1>5, <2>2 DEF TypeOK, SendChange, Request
  <1>6. CASE UNCHANGED vars
    BY <1>6 DEF TypeOK, vars
  <1> QED BY <1>1, <1>2, <1>3, <1>4, <1>5, <1>6 DEF Next

\* Only a change of role, or a new request, can disturb Sound.
LEMMA NextSound == TypeOK /\ Sound /\ [Next]_vars => Sound'
  <1> SUFFICES ASSUME TypeOK, Sound, [Next]_vars PROVE Sound'
    OBVIOUS
  <1> USE DEF TypeOK
  <1>1. ASSUME NEW u \in Users, register(u) PROVE Sound'
    BY <1>1 DEF Sound, register
  <1>2. ASSUME NEW u \in Users, Authorize(u) PROVE Sound'
    BY <1>2 DEF Sound, Authorize, requireAuth, NoRequest
  <1>3. ASSUME NEW u \in Users, setUserRole(u) PROVE Sound'
    <2> DEFINE t == req[u].target
    <2>1. CASE t = u \/ role[t] = "none"
      BY <1>3, <2>1 DEF Sound, setUserRole, NoRequest
    <2>2. CASE ~(t = u \/ role[t] = "none")
      <3>1. updateUserRole(u, t, req[u].role) /\ t \in Users /\ t # u
        BY <1>3, <2>2 DEF setUserRole, Sound
      <3> HIDE DEF t
      <3> SUFFICES ASSUME NEW v \in Users
                   PROVE  /\ req'[v].pc # "idle" => req'[v].target \in Users /\ req'[v].role \in Roles
                          /\ req'[v].pc = "sent" /\ role'[v] = "admin" => req'[v].heldAdmin
                          /\ req'[v].pc = "allowed" => req'[v].heldAdmin
        BY DEF Sound
      <3>2. CASE v = u
        BY <3>1, <3>2 DEF updateUserRole, NoRequest
      <3>3. CASE v # u /\ v = t
        <4>1. CASE req[u].role = "admin"
          <5>1. req'[v] = [req[v] EXCEPT !.heldAdmin = req[v].pc # "idle"]
            BY <3>1, <3>3, <4>1 DEF updateUserRole
          <5>2. /\ req'[v].pc = req[v].pc /\ req'[v].target = req[v].target
                /\ req'[v].role = req[v].role
            BY <5>1
          <5>3. req[v].pc # "idle" => req'[v].heldAdmin
            <6>1. SUFFICES ASSUME req[v].pc # "idle" PROVE req'[v].heldAdmin = TRUE
              OBVIOUS
            <6>2. req'[v] = [req[v] EXCEPT !.heldAdmin = TRUE]
              BY <5>1, <6>1
            <6> QED BY <6>2
          <5> QED BY <5>2, <5>3 DEF Sound
        <4>2. CASE req[u].role # "admin"
          <5>1. req'[v] = req[v] /\ role'[v] = req[u].role
            BY <3>1, <3>3, <4>2 DEF updateUserRole
          <5> QED BY <5>1, <4>2 DEF Sound
        <4> QED BY <4>1, <4>2
      <3>4. CASE v # u /\ v # t
        BY <3>1, <3>4 DEF updateUserRole, Sound
      <3> QED BY <3>2, <3>3, <3>4
    <2> QED BY <2>1, <2>2
  <1>4. ASSUME NEW u \in Users, NEW t \in Users, NEW r \in Roles, SendChange(u, t, r) PROVE Sound'
    BY <1>4 DEF Sound, SendChange
  <1>5. CASE UNCHANGED <<req, role>>
    BY <1>5 DEF Sound
  <1>6. ASSUME NEW u \in Users, login(u) PROVE Sound'
    BY <1>6, <1>5 DEF login
  <1>7. CASE UNCHANGED vars
    BY <1>7, <1>5 DEF vars
  <1> QED BY <1>1, <1>2, <1>3, <1>4, <1>6, <1>7 DEF Next

\* The sender of a change is not its target, so a sender who is still an admin is one
\* after it too.
LEMMA NextCrossing == TypeOK /\ Sound /\ OnlyByCrossing /\ [Next]_vars => OnlyByCrossing'
  <1> SUFFICES ASSUME TypeOK, Sound, OnlyByCrossing, [Next]_vars PROVE OnlyByCrossing'
    OBVIOUS
  <1> USE DEF TypeOK
  <1>1. ASSUME NEW u \in Users, register(u) PROVE OnlyByCrossing'
    BY <1>1 DEF OnlyByCrossing, Admins, register
  <1>2. ASSUME NEW u \in Users, setUserRole(u) PROVE OnlyByCrossing'
    <2> DEFINE t == req[u].target
    <2>1. CASE t = u \/ role[t] = "none"
      BY <1>2, <2>1 DEF OnlyByCrossing, Admins, setUserRole
    <2>2. CASE ~(t = u \/ role[t] = "none")
      <3>1. t # u /\ role' = [role EXCEPT ![t] = req[u].role] /\ crossed' = (crossed \/ role[u] # "admin")
        BY <1>2, <2>2 DEF setUserRole, updateUserRole
      <3>2. role'[u] = role[u]
        BY <3>1
      <3> QED BY <3>1, <3>2 DEF OnlyByCrossing, Admins
    <2> QED BY <2>1, <2>2
  <1>3. CASE UNCHANGED <<role, crossed>>
    BY <1>3 DEF OnlyByCrossing, Admins
  <1>4. ASSUME NEW u \in Users, login(u) \/ Authorize(u) PROVE OnlyByCrossing'
    BY <1>3, <1>4 DEF login, Authorize
  <1>5. ASSUME NEW u \in Users, NEW t \in Users, NEW r \in Roles, SendChange(u, t, r) PROVE OnlyByCrossing'
    BY <1>3, <1>5 DEF SendChange
  <1>6. CASE UNCHANGED vars
    BY <1>3, <1>6 DEF vars
  <1> QED BY <1>1, <1>2, <1>4, <1>5, <1>6 DEF Next

LEMMA RolesInvariant == Spec => []IInv
  <1>1. IInv /\ [Next]_vars => IInv'
    BY NextTypes, NextSound, NextCrossing DEF IInv
  <1> QED BY InitInv, <1>1, PTL DEF Spec

\* Every state has the declared types: updateUserRole writes one of the schema's roles,
\* for any set of users.
THEOREM RolesTypes == Spec => []TypeOK
  <1>1. IInv => TypeOK
    BY DEF IInv
  <1> QED BY RolesInvariant, <1>1, PTL

\* setUserRole's rule against changing one's own role keeps an admin as long as no
\* change lands from somebody demoted after requireAuth let the request in.
THEOREM AdminsByCrossing == Spec => []OnlyByCrossing
  <1>1. IInv => OnlyByCrossing
    BY DEF IInv
  <1> QED BY RolesInvariant, <1>1, PTL

\* requireAuth re-reads the role on every request: whatever an access token claims, no
\* request changes a role unless its sender has been an admin since it was sent.
THEOREM DemotionBinds == Spec => NoLateChange
  <1> DEFINE Allowed == role' # role =>
                 \/ \E u \in Users : role[u] = "none" /\ role'[u] = "customer"
                 \/ \E u \in Users : req[u].heldAdmin /\ ~req'[u].heldAdmin
  <1>1. IInv /\ [Next]_vars => [Allowed]_vars
    <2> SUFFICES ASSUME IInv, Next, role' # role PROVE Allowed
      OBVIOUS
    <2> USE DEF IInv, TypeOK
    <2>1. ASSUME NEW u \in Users, register(u) PROVE Allowed
      BY <2>1 DEF register
    <2>2. ASSUME NEW u \in Users, setUserRole(u) PROVE Allowed
      <3>1. ~(req[u].target = u \/ role[req[u].target] = "none")
        BY <2>2 DEF setUserRole
      <3>2. req'[u] = NoRequest
        BY <2>2, <3>1 DEF setUserRole, updateUserRole
      <3>3. req[u].heldAdmin /\ ~req'[u].heldAdmin
        BY <2>2, <3>2 DEF setUserRole, Sound, NoRequest
      <3> QED BY <3>3
    <2> QED BY <2>1, <2>2 DEF Next, login, Authorize, SendChange
  <1> QED BY RolesInvariant, <1>1, PTL DEF Spec, NoLateChange

-----------------------------------------------------------------------------
(* Events: the theorem of EventLifecycleProofs, carried over                *)

\* While another part moves, no event does.
LEMMA EventSpec == PartsSpec => Lifecycle!Spec
  <1>1. PartsInit => Lifecycle!Init
    BY DEF PartsInit
  <1>2. [PartsNext]_<<part, roleVars, eventVars, listVars, checkoutVars>>
          => [Lifecycle!Next]_(Lifecycle!vars)
    BY DEF PartsNext, eventVars, Lifecycle!vars, Lifecycle!tables, Lifecycle!venue,
           Lifecycle!locks
  <1> QED BY <1>1, <1>2, PTL DEF PartsSpec, Lifecycle!Spec

\* event.service.ts and venue.service.ts: in the run's own specification too, no
\* reservation, showtime or seat is taken away from a customer.
THEOREM ReservationsInCatalogue == PartsSpec => []ReservationsKept
  <1>1. Lifecycle!Spec => []Lifecycle!ReservationsKept
    BY CatalogueAssumption, Lifecycle!ReservationsAreKept DEF CatalogueAssumption
  <1>2. Lifecycle!ReservationsKept => ReservationsKept
    BY DEF ReservationsKept
  <1> QED BY EventSpec, <1>1, <1>2, PTL

-----------------------------------------------------------------------------
(* The checkout                                                             *)

Confirming(c) == calls[c].kind = "confirm"

\* The page that confirms is still there for the answer.
Awaiting(c) == Confirming(c) /\ calls[c].mount = "live"

\* What a call asks for, and a button that is busy as long as its page waits for it.
CallInv ==
    /\ \A c \in 1 .. MaxCalls :
        /\ calls[c].kind \in {"confirm", "release"} => calls[c].hold \in Holds
        /\ calls[c].kind = "reserve" /\ calls[c].state = "ok" => calls[c].hold \in Holds
        /\ calls[c].hold \in Holds => hold[calls[c].hold] # "none"
        /\ Confirming(c) => calls[c].key \in tried[calls[c].hold]
        /\ Awaiting(c) => page = "checkout" /\ "confirm" \in busy
    /\ \A c, d \in 1 .. MaxCalls : Awaiting(c) /\ Awaiting(d) => c = d

\* A hold has been tried with the key of every mount of the page it was confirmed from,
\* and with no other; it is converted with one of them.
KeyInv ==
    /\ \A h \in Holds : /\ mounts[h] = 0 => tried[h] = {}
                        /\ mounts[h] = 1 => \A i, j \in tried[h] : i = j
                        /\ hold[h] = "converted" => doneKey[h] \in tried[h]
                        /\ hold[h] = "none" => mounts[h] = 0
    /\ store # NoHold => hold[store] # "none"
    /\ page = "checkout" /\ store # NoHold =>
        /\ key \in 1 .. MaxKeys /\ mounts[store] > 0
        /\ mounts[store] = 1 => tried[store] \subseteq {key}

\* The hold is beyond confirming, but for a confirmation with another key than k.
Settled(h, k) == \/ hold[h] \in {"expired", "cancelled"} \/ h \in due
                 \/ hold[h] = "converted" /\ doneKey[h] # k

\* A refusal is final.  While the page waits for the answer about one hold, a hold it has
\* been given since is not confirmed.
RefusalInv ==
    \A c \in 1 .. MaxCalls :
        /\ Confirming(c) /\ calls[c].state = "refused" => Settled(calls[c].hold, calls[c].key)
        /\ Awaiting(c) /\ calls[c].hold # store /\ store # NoHold
             => tried[store] = {} \/ mounts[store] > 1

\* Why the page may say that the hold is gone.
ExpiredInv ==
    page = "checkout" /\ store # NoHold /\ expired =>
        \/ store \in due \/ mounts[store] > 1 \/ tried[store] = {}
        \/ hold[store] \in {"expired", "cancelled"}

CheckoutInv == Buying!TypeOK /\ CallInv /\ KeyInv /\ RefusalInv /\ ExpiredInv

LEMMA CheckoutInit == PartsInit => CheckoutInv
  <1> SUFFICES ASSUME Buying!Init PROVE CheckoutInv
    BY DEF PartsInit
  <1> USE DEF Buying!Init
  <1>1. MaxKeys \in Nat /\ NoHold \notin Holds
    BY CatalogueAssumption DEF CatalogueAssumption, Buying!CheckoutAssumption
  <1>2. Buying!NoCall \in Buying!Call /\ Buying!NoCall.kind = "none" /\ Buying!NoCall.hold = NoHold
    BY <1>1 DEF Buying!NoCall, Buying!Call
  <1>3. Buying!TypeOK
    <2>1. calls \in [1 .. MaxCalls -> Buying!Call] /\ key \in 0 .. MaxKeys /\ keys \in 0 .. MaxKeys
      BY <1>1, <1>2
    <2>2. doneKey \in [Holds -> 0 .. MaxKeys] /\ mounts \in [Holds -> 0 .. 2]
      BY <1>1
    <2> QED BY <2>1, <2>2 DEF Buying!TypeOK
  <1>4. CallInv /\ RefusalInv
    BY <1>1, <1>2 DEF CallInv, RefusalInv, Confirming, Awaiting
  <1>5. KeyInv /\ ExpiredInv
    BY DEF KeyInv, ExpiredInv
  <1> QED BY <1>3, <1>4, <1>5 DEF CheckoutInv

\* A step of the server is seen by the page only through the answers: what a hold has
\* become stays, and calls keep what they ask for.
ServerStep ==
    /\ \A h \in Holds :
        /\ hold'[h] = "none" => hold[h] = "none"
        /\ hold[h] \in {"expired", "cancelled"} => hold'[h] = hold[h]
        /\ hold[h] = "converted" => hold'[h] = "converted" /\ doneKey'[h] = doneKey[h]
        /\ hold'[h] = "converted" => doneKey'[h] \in tried[h]
    /\ due \subseteq due'
    /\ UNCHANGED <<page, store, key, expired, busy, tried, mounts>>
    /\ \A c \in 1 .. MaxCalls :
        /\ calls'[c].kind = calls[c].kind /\ calls'[c].key = calls[c].key
        /\ calls'[c].mount = calls[c].mount
        /\ \/ calls'[c].hold = calls[c].hold
              /\ (calls[c].kind = "reserve" /\ calls'[c].state = "ok" => calls[c].state = "ok")
           \/ /\ calls[c].kind = "reserve"
              /\ calls'[c].hold \in Holds => hold'[calls'[c].hold] # "none"
              /\ calls'[c].state = "ok" => calls'[c].hold \in Holds
        /\ Confirming(c) /\ calls'[c].state = "refused" =>
             calls[c].state = "refused" \/ Settled(calls[c].hold, calls[c].key)'

LEMMA ServerKeeps ==
    ASSUME CheckoutInv, Buying!TypeOK', ServerStep
    PROVE  CheckoutInv'
  <1>1. ASSUME NEW h \in Holds, NEW k, Settled(h, k) PROVE Settled(h, k)'
    BY <1>1 DEF ServerStep, Settled
  <1>2. CallInv'
    BY DEF CheckoutInv, CallInv, ServerStep, Confirming, Awaiting
  <1>3. KeyInv'
    BY DEF CheckoutInv, KeyInv, ServerStep, Buying!TypeOK
  <1>4. ASSUME NEW c \in 1 .. MaxCalls, Confirming(c)'
        PROVE  /\ Confirming(c)
               /\ calls'[c].hold = calls[c].hold /\ calls'[c].key = calls[c].key
               /\ calls'[c].mount = calls[c].mount
    BY <1>4 DEF ServerStep, Confirming
  <1>5. RefusalInv'
    <2> SUFFICES ASSUME NEW c \in 1 .. MaxCalls, Confirming(c)'
                 PROVE  /\ calls'[c].state = "refused" => Settled(calls[c].hold, calls[c].key)'
                        /\ Awaiting(c)' /\ (calls[c].hold # store)' /\ store # NoHold
                             => tried[store] = {} \/ mounts[store] > 1
      BY <1>4 DEF RefusalInv, ServerStep, Awaiting
    <2>1. calls[c].hold \in Holds
      BY <1>4 DEF CheckoutInv, CallInv, Confirming
    <2>2. calls'[c].state = "refused" => Settled(calls[c].hold, calls[c].key)'
      <3>1. calls[c].state = "refused" => Settled(calls[c].hold, calls[c].key)
        BY <1>4 DEF CheckoutInv, RefusalInv
      <3>2. CASE calls[c].state = "refused"
        BY <1>1, <1>4, <2>1, <3>1, <3>2
      <3> QED BY <1>4, <3>2 DEF ServerStep
    <2>3. Awaiting(c)' /\ (calls[c].hold # store)' => Awaiting(c) /\ calls[c].hold # store
      BY <1>4 DEF Awaiting, ServerStep
    <2> QED BY <2>2, <2>3, <1>4 DEF CheckoutInv, RefusalInv
  <1>6. ExpiredInv'
    BY DEF CheckoutInv, ExpiredInv, ServerStep, Buying!TypeOK
  <1> QED BY <1>2, <1>3, <1>5, <1>6 DEF CheckoutInv

\* An answer changes nothing else about a call.
LEMMA AnswerMoves ==
    ASSUME Buying!TypeOK, NEW c \in 1 .. MaxCalls, NEW a \in {"ok", "refused", "lost"},
           Buying!Answer(c, a)
    PROVE  /\ calls' \in [1 .. MaxCalls -> Buying!Call]
           /\ \A d \in 1 .. MaxCalls :
                /\ calls'[d].kind = calls[d].kind /\ calls'[d].key = calls[d].key
                /\ calls'[d].mount = calls[d].mount /\ calls'[d].hold = calls[d].hold
                /\ calls'[d].state = IF d = c THEN a ELSE calls[d].state
  <1> DEFINE answered == [calls[c] EXCEPT !.state = a]
  <1>1. calls' = [calls EXCEPT ![c] = answered]
    BY DEF Buying!Answer
  <1>2. calls \in [1 .. MaxCalls -> Buying!Call]
    BY DEF Buying!TypeOK
  <1>3. /\ answered \in Buying!Call
        /\ answered.kind = calls[c].kind /\ answered.key = calls[c].key
        /\ answered.mount = calls[c].mount /\ answered.hold = calls[c].hold
        /\ answered.state = a
    BY <1>2 DEF Buying!Call
  <1> QED BY <1>1, <1>2, <1>3

\* What the answer to a reservation leaves as it was.
LEMMA HoldGiven ==
    ASSUME NEW k \in Buying!Call, NEW h \in Holds
    PROVE  /\ [k EXCEPT !.state = "ok", !.hold = h] \in Buying!Call
           /\ [k EXCEPT !.state = "ok", !.hold = h].kind = k.kind
           /\ [k EXCEPT !.state = "ok", !.hold = h].key = k.key
           /\ [k EXCEPT !.state = "ok", !.hold = h].mount = k.mount
           /\ [k EXCEPT !.state = "ok", !.hold = h].hold = h
           /\ [k EXCEPT !.state = "ok", !.hold = h].state = "ok"
  BY DEF Buying!Call

LEMMA createHoldKeeps ==
    ASSUME CheckoutInv, NEW c \in 1 .. MaxCalls, Buying!createHold(c)
    PROVE  CheckoutInv'
  <1> USE DEF CheckoutInv, KeyInv, Buying!TypeOK, Buying!createHold, Buying!tab, Buying!history
  <1>1. CASE ~Buying!Free(calls[c].seat)
    <2>1. Buying!Answer(c, "refused") /\ UNCHANGED <<hold, seatOf>>
      BY <1>1
    <2>2. Buying!TypeOK' /\ ServerStep
      BY <2>1, AnswerMoves DEF ServerStep, Confirming
    <2> QED BY <2>2, ServerKeeps
  <1>2. CASE Buying!Free(calls[c].seat)
    <2>1. PICK h \in Holds :
            /\ hold[h] = "none"
            /\ hold' = [g \in Holds |-> IF g = h THEN "active"
                                        ELSE IF hold[g] = "active" /\ seatOf[g] = calls[c].seat
                                        THEN "expired" ELSE hold[g]]
            /\ seatOf' = [seatOf EXCEPT ![h] = calls[c].seat]
            /\ calls' = [calls EXCEPT ![c].state = "ok", ![c].hold = h]
      BY <1>2
    <2>2. /\ calls' \in [1 .. MaxCalls -> Buying!Call]
          /\ \A d \in 1 .. MaxCalls :
               /\ calls'[d].kind = calls[d].kind /\ calls'[d].key = calls[d].key
               /\ calls'[d].mount = calls[d].mount
               /\ calls'[d].hold = IF d = c THEN h ELSE calls[d].hold
               /\ calls'[d].state = IF d = c THEN "ok" ELSE calls[d].state
      <3> DEFINE answered == [calls[c] EXCEPT !.state = "ok", !.hold = h]
      <3>1. calls' = [calls EXCEPT ![c] = answered]
        BY <2>1
      <3> HIDE DEF CheckoutInv, KeyInv, Buying!createHold, Buying!tab, Buying!history
      <3>2. calls \in [1 .. MaxCalls -> Buying!Call] /\ calls[c] \in Buying!Call
        BY DEF CheckoutInv
      <3>3. /\ answered \in Buying!Call
            /\ answered.kind = calls[c].kind /\ answered.key = calls[c].key
            /\ answered.mount = calls[c].mount /\ answered.hold = h
            /\ answered.state = "ok"
        BY <3>2, HoldGiven
      <3> QED BY <3>1, <3>2, <3>3
    <2>3. hold' \in [Holds -> {"none", "active", "expired", "cancelled", "converted"}]
      BY <2>1
    <2>4. seatOf' \in [Holds -> Seats \cup {NoSeat}]
      BY <2>1 DEF Buying!Call
    <2>5. Buying!TypeOK'
      BY <2>2, <2>3, <2>4
    <2>6. \A g \in Holds : /\ hold'[g] = "none" => hold[g] = "none"
                           /\ hold[g] \in {"expired", "cancelled"} => hold'[g] = hold[g]
                           /\ hold[g] = "converted" <=> hold'[g] = "converted"
                           /\ g = h => hold'[g] = "active"
      BY <2>1
    <2>7. ServerStep
      BY <2>2, <2>6 DEF ServerStep, Confirming
    <2> QED BY <2>5, <2>7, ServerKeeps
  <1> QED BY <1>1, <1>2

LEMMA confirmHoldKeeps ==
    ASSUME CheckoutInv, NEW c \in 1 .. MaxCalls, Buying!confirmHold(c)
    PROVE  CheckoutInv'
  <1> DEFINE h == calls[c].hold
  <1> USE DEF Buying!confirmHold, Buying!tab, Buying!history
  <1>1. h \in Holds /\ hold[h] # "none" /\ calls[c].key \in tried[h] /\ calls[c].key \in 0 .. MaxKeys
    BY DEF CheckoutInv, CallInv, Confirming, Buying!TypeOK, Buying!Call
  <1>2. PICK a \in {"ok", "refused"} : Buying!Answer(c, a)
    OBVIOUS
  <1>3. \/ UNCHANGED <<hold, doneKey>>
        \/ /\ hold[h] = "active"
           /\ hold' = [hold EXCEPT ![h] = "converted"]
           /\ doneKey' = [doneKey EXCEPT ![h] = calls[c].key]
    OBVIOUS
  <1>4. Buying!TypeOK'
    BY <1>1, <1>2, <1>3, AnswerMoves DEF CheckoutInv, Buying!TypeOK
  <1>5. calls'[c].state = "refused" => Settled(h, calls[c].key)'
    <2>1. CASE a = "ok"
      BY <1>2, <2>1, AnswerMoves DEF CheckoutInv
    <2>2. CASE a = "refused"
      <3>1. /\ doneKey[h] # calls[c].key /\ ~(hold[h] = "active" /\ h \notin due)
            /\ UNCHANGED <<hold, doneKey, due>>
        BY <1>1, <1>2, <2>2, AnswerMoves DEF CheckoutInv, Buying!Answer, Buying!TypeOK, Buying!Call
      <3>2. calls'[c].key = calls[c].key /\ calls'[c].hold = h
        BY <1>2, AnswerMoves DEF CheckoutInv
      <3> QED BY <1>1, <3>1, <3>2 DEF Settled, CheckoutInv, Buying!TypeOK
    <2> QED BY <2>1, <2>2
  <1>6. \A g \in Holds : /\ hold'[g] = "none" => hold[g] = "none"
                         /\ hold[g] \in {"expired", "cancelled"} => hold'[g] = hold[g]
                         /\ hold[g] = "converted" => hold'[g] = "converted" /\ doneKey'[g] = doneKey[g]
                         /\ hold'[g] = "converted" => doneKey'[g] \in tried[g]
    BY <1>1, <1>3 DEF CheckoutInv, KeyInv, Buying!TypeOK
  <1>7. \A d \in 1 .. MaxCalls :
          Confirming(d) /\ calls'[d].state = "refused" =>
             calls[d].state = "refused" \/ Settled(calls[d].hold, calls[d].key)'
    <2> SUFFICES ASSUME NEW d \in 1 .. MaxCalls, calls'[d].state = "refused"
                 PROVE  calls[d].state = "refused" \/ Settled(calls[d].hold, calls[d].key)'
      OBVIOUS
    <2>1. CASE d = c
      BY <1>2, <1>5, <2>1, AnswerMoves DEF CheckoutInv, Settled
    <2>2. CASE d # c
      BY <1>2, <2>2, AnswerMoves DEF CheckoutInv
    <2> QED BY <2>1, <2>2
  <1>8. /\ due' = due /\ page' = page /\ store' = store /\ key' = key /\ expired' = expired
        /\ busy' = busy /\ tried' = tried /\ mounts' = mounts
    OBVIOUS
  <1>9. \A d \in 1 .. MaxCalls :
          /\ calls'[d].kind = calls[d].kind /\ calls'[d].key = calls[d].key
          /\ calls'[d].mount = calls[d].mount /\ calls'[d].hold = calls[d].hold
          /\ calls[d].kind = "reserve" => calls'[d].state = calls[d].state
    <2>1. calls[c].kind = "confirm"
      OBVIOUS
    <2> QED BY <1>2, <2>1, AnswerMoves DEF CheckoutInv
  <1>10. ServerStep
    BY <1>6, <1>7, <1>8, <1>9 DEF ServerStep
  <1> QED BY <1>4, <1>10, ServerKeeps

LEMMA releaseHoldKeeps ==
    ASSUME CheckoutInv, NEW c \in 1 .. MaxCalls, Buying!releaseHold(c)
    PROVE  CheckoutInv'
  <1>1. calls[c].hold \in Holds /\ calls[c].kind = "release"
    BY DEF CheckoutInv, CallInv, Buying!releaseHold
  <1>2. PICK a \in {"ok", "refused"} : Buying!Answer(c, a)
    BY DEF Buying!releaseHold
  <1>3. \/ hold' = hold
        \/ hold[calls[c].hold] = "active" /\ hold' = [hold EXCEPT ![calls[c].hold] = "cancelled"]
    <2>1. CASE hold[calls[c].hold] = "active"
      BY <2>1 DEF Buying!releaseHold
    <2>2. CASE hold[calls[c].hold] # "active"
      BY <2>2 DEF Buying!releaseHold
    <2> QED BY <2>1, <2>2
  <1>4. /\ due' = due /\ page' = page /\ store' = store /\ key' = key /\ expired' = expired
        /\ busy' = busy /\ tried' = tried /\ mounts' = mounts /\ doneKey' = doneKey
        /\ taken' = taken /\ seatOf' = seatOf /\ keys' = keys /\ told' = told
    BY DEF Buying!releaseHold, Buying!tab, Buying!history
  <1>5. Buying!TypeOK'
    <2>1. hold' \in [Holds -> {"none", "active", "expired", "cancelled", "converted"}]
      BY <1>1, <1>3 DEF CheckoutInv, Buying!TypeOK
    <2>2. calls' \in [1 .. MaxCalls -> Buying!Call]
      BY <1>2, AnswerMoves DEF CheckoutInv
    <2> QED BY <1>4, <2>1, <2>2 DEF CheckoutInv, Buying!TypeOK
  <1>6. \A g \in Holds : /\ hold'[g] = "none" => hold[g] = "none"
                         /\ hold[g] \in {"expired", "cancelled"} => hold'[g] = hold[g]
                         /\ hold[g] = "converted" <=> hold'[g] = "converted"
    BY <1>1, <1>3 DEF CheckoutInv, Buying!TypeOK
  <1>7. \A d \in 1 .. MaxCalls :
          /\ calls'[d].kind = calls[d].kind /\ calls'[d].key = calls[d].key
          /\ calls'[d].mount = calls[d].mount /\ calls'[d].hold = calls[d].hold
          /\ calls[d].kind # "release" => calls'[d].state = calls[d].state
    BY <1>1, <1>2, AnswerMoves DEF CheckoutInv
  <1>8. ServerStep
    BY <1>1, <1>4, <1>6, <1>7 DEF ServerStep, Confirming, CheckoutInv, KeyInv
  <1> QED BY <1>5, <1>8, ServerKeeps

\* The network, other customers and the clock.
LEMMA WorldKeeps ==
    ASSUME CheckoutInv,
           \/ \E c \in 1 .. MaxCalls : Buying!Lose(c)
           \/ \E h \in Holds : Buying!Lapse(h) \/ Buying!expireHold(h)
           \/ \E s \in Seats : Buying!OtherTakes(s)
    PROVE  CheckoutInv'
  <1> USE DEF CheckoutInv, KeyInv, Buying!TypeOK, Buying!server, Buying!tab, Buying!history, ServerStep,
              Confirming
  <1>1. ASSUME NEW c \in 1 .. MaxCalls, Buying!Lose(c) PROVE CheckoutInv'
    <2>1. Buying!TypeOK' /\ ServerStep
      BY <1>1, AnswerMoves DEF Buying!Lose
    <2> QED BY <2>1, ServerKeeps
  <1>2. ASSUME NEW h \in Holds, Buying!Lapse(h) PROVE CheckoutInv'
    <2>1. Buying!TypeOK' /\ ServerStep
      BY <1>2 DEF Buying!Lapse
    <2> QED BY <2>1, ServerKeeps
  <1>3. ASSUME NEW h \in Holds, Buying!expireHold(h) PROVE CheckoutInv'
    <2>1. Buying!TypeOK' /\ ServerStep
      BY <1>3 DEF Buying!expireHold
    <2> QED BY <2>1, ServerKeeps
  <1>4. ASSUME NEW s \in Seats, Buying!OtherTakes(s) PROVE CheckoutInv'
    <2>1. Buying!TypeOK' /\ ServerStep
      BY <1>4 DEF Buying!OtherTakes
    <2> QED BY <2>1, ServerKeeps
  <1> QED BY <1>1, <1>2, <1>3, <1>4

\* The page goes, its handlers stay.
LEMMA LeaveMoves ==
    ASSUME Buying!TypeOK, NEW p
    PROVE  /\ Buying!Leave(p) \in [1 .. MaxCalls -> Buying!Call]
           /\ \A d \in 1 .. MaxCalls :
                /\ Buying!Leave(p)[d].kind = calls[d].kind /\ Buying!Leave(p)[d].key = calls[d].key
                /\ Buying!Leave(p)[d].hold = calls[d].hold
                /\ Buying!Leave(p)[d].state = calls[d].state
                /\ calls[d].kind # "none" /\ Buying!Leave(p)[d].mount = "live" =>
                     calls[d].mount = "live" /\ p = page
  <1>1. calls \in [1 .. MaxCalls -> Buying!Call]
    BY DEF Buying!TypeOK
  <1>2. ASSUME NEW k \in Buying!Call
        PROVE  /\ [k EXCEPT !.mount = "left"] \in Buying!Call
               /\ [k EXCEPT !.mount = "left"].kind = k.kind
               /\ [k EXCEPT !.mount = "left"].key = k.key
               /\ [k EXCEPT !.mount = "left"].hold = k.hold
               /\ [k EXCEPT !.mount = "left"].state = k.state
               /\ [k EXCEPT !.mount = "left"].mount = "left"
    BY DEF Buying!Call
  <1>3. ASSUME NEW d \in 1 .. MaxCalls
        PROVE  /\ Buying!Leave(p)[d] \in Buying!Call
               /\ Buying!Leave(p)[d].kind = calls[d].kind /\ Buying!Leave(p)[d].key = calls[d].key
               /\ Buying!Leave(p)[d].hold = calls[d].hold
               /\ Buying!Leave(p)[d].state = calls[d].state
               /\ calls[d].kind # "none" /\ Buying!Leave(p)[d].mount = "live" =>
                    calls[d].mount = "live" /\ p = page
    <2>1. Buying!Leave(p)[d] = IF p # page /\ calls[d].kind # "none" /\ calls[d].mount = "live"
                               THEN [calls[d] EXCEPT !.mount = "left"] ELSE calls[d]
      BY DEF Buying!Leave
    <2>2. calls[d] \in Buying!Call
      BY <1>1
    <2>3. CASE p # page /\ calls[d].kind # "none" /\ calls[d].mount = "live"
      BY <1>2, <2>1, <2>2, <2>3
    <2>4. CASE ~(p # page /\ calls[d].kind # "none" /\ calls[d].mount = "live")
      BY <2>1, <2>2, <2>4
    <2> QED BY <2>3, <2>4
  <1>4. Buying!Leave(p) = [d \in 1 .. MaxCalls |-> Buying!Leave(p)[d]]
    BY DEF Buying!Leave
  <1> QED BY <1>3, <1>4

LEMMA NoCallMoves == /\ Buying!NoCall \in Buying!Call /\ Buying!NoCall.kind = "none"
                     /\ Buying!NoCall.hold = NoHold /\ NoHold \notin Holds
  BY CatalogueAssumption DEF CatalogueAssumption, Buying!CheckoutAssumption, Buying!NoCall, Buying!Call

\* What every step of a page does to the calls: some end, one is sent, and the others are
\* left alone, or by their page.
CallStep(new) ==
    \A d \in 1 .. MaxCalls :
        \/ calls'[d].kind = "none" /\ calls'[d].hold = NoHold
        \/ /\ calls'[d].kind = calls[d].kind /\ calls'[d].key = calls[d].key
           /\ calls'[d].hold = calls[d].hold /\ calls'[d].state = calls[d].state
           /\ Awaiting(d)' => Awaiting(d)
        \/ /\ d = new /\ calls'[d].state = "sent" /\ calls[d].kind = "none"
           /\ calls'[d].hold \in Holds => calls'[d].hold = store /\ page = "checkout"
           /\ calls'[d].kind \in {"confirm", "release"} => calls'[d].hold \in Holds
           /\ calls'[d].kind = "confirm" => "confirm" \notin busy

\* While the server, and what was tried, stay as they are.
LEMMA ShowKeeps ==
    ASSUME CheckoutInv, Buying!TypeOK', CallStep(0), NEW p, NEW g \in Holds \cup {NoHold},
           g # NoHold => hold[g] # "none",
           hold' = hold, due' = due, doneKey' = doneKey, tried' = tried,
           Buying!Show(p, g),
           \A d \in 1 .. MaxCalls : Awaiting(d)' => p = page
    PROVE  CheckoutInv'
  <1>0. \A d \in 1 .. MaxCalls :
          \/ calls'[d].kind = "none" /\ calls'[d].hold = NoHold
          \/ /\ calls'[d].kind = calls[d].kind /\ calls'[d].key = calls[d].key
             /\ calls'[d].hold = calls[d].hold /\ calls'[d].state = calls[d].state
    <2>1. \A d \in 1 .. MaxCalls : d # 0
      OBVIOUS
    <2> QED BY <2>1 DEF CallStep
  <1>1. page' = p /\ store' = g /\ expired' = (expired /\ p = page)
        /\ busy' = (IF p = page THEN busy ELSE {})
    BY DEF Buying!Show
  <1>2. \/ mounts' = mounts /\ key' = key
           /\ (p = "checkout" /\ g # NoHold => p = page /\ g = store)
        \/ /\ p = "checkout" /\ g \in Holds /\ g # NoHold /\ (p # page \/ g # store)
           /\ key' = keys + 1 /\ keys < MaxKeys
           /\ mounts' = [mounts EXCEPT ![g] = IF @ = 2 THEN 2 ELSE @ + 1]
    BY DEF Buying!Show, Buying!NewKey
  <1>3. \A d \in 1 .. MaxCalls : Awaiting(d)' => Awaiting(d) /\ p = page /\ p = "checkout"
    <2> SUFFICES ASSUME NEW d \in 1 .. MaxCalls, Awaiting(d)'
                 PROVE  Awaiting(d) /\ p = page /\ p = "checkout"
      OBVIOUS
    <2>1. Awaiting(d)
      BY DEF CallStep, Awaiting, Confirming
    <2> QED BY <2>1 DEF CheckoutInv, CallInv
  <1>4. mounts \in [Holds -> 0 .. 2] /\ keys \in Nat /\ MaxKeys \in Nat /\ MaxKeys > 0
    BY CatalogueAssumption DEF CheckoutInv, Buying!TypeOK, CatalogueAssumption, Buying!CheckoutAssumption
  <1>5. \A h \in Holds :
          /\ mounts'[h] = 0 => mounts[h] = 0
          /\ mounts'[h] = 1 => mounts[h] = 1 \/ (h = g /\ mounts[h] = 0)
          /\ mounts[h] > 1 => mounts'[h] > 1
          /\ mounts'[h] # mounts[h] => h = g
    BY <1>2, <1>4
  <1>6. CallInv'
    <2>1. ASSUME NEW d \in 1 .. MaxCalls
          PROVE  /\ calls'[d].kind \in {"confirm", "release"} => calls'[d].hold \in Holds
                 /\ calls'[d].kind = "reserve" /\ calls'[d].state = "ok" => calls'[d].hold \in Holds
                 /\ calls'[d].hold \in Holds => hold[calls'[d].hold] # "none"
                 /\ Confirming(d)' => calls'[d].key \in tried[calls'[d].hold]
      <3>1. CASE calls'[d].kind = "none" /\ calls'[d].hold = NoHold
        BY <3>1, NoCallMoves DEF Confirming
      <3>2. CASE /\ calls'[d].kind = calls[d].kind /\ calls'[d].key = calls[d].key
                 /\ calls'[d].hold = calls[d].hold /\ calls'[d].state = calls[d].state
        BY <3>2 DEF CheckoutInv, CallInv, Confirming
      <3> QED BY <1>0, <3>1, <3>2
    <2>2. ASSUME NEW d \in 1 .. MaxCalls, Awaiting(d)'
          PROVE  page' = "checkout" /\ "confirm" \in busy'
      BY <1>1, <1>3, <2>2 DEF CheckoutInv, CallInv
    <2>3. \A c, d \in 1 .. MaxCalls : Awaiting(c)' /\ Awaiting(d)' => c = d
      BY <1>3 DEF CheckoutInv, CallInv
    <2> QED BY <2>1, <2>2, <2>3 DEF CallInv
  <1>7. KeyInv'
    <2>1. ASSUME NEW h \in Holds
          PROVE  /\ mounts'[h] = 0 => tried[h] = {}
                 /\ mounts'[h] = 1 => \A i, j \in tried[h] : i = j
                 /\ hold[h] = "converted" => doneKey[h] \in tried[h]
                 /\ hold[h] = "none" => mounts'[h] = 0
      <3>1. h = g => hold[h] # "none"
        BY NoCallMoves
      <3> QED BY <1>5, <1>4, <3>1 DEF CheckoutInv, KeyInv
    <2>2. ASSUME p = "checkout", g # NoHold
          PROVE  /\ key' \in 1 .. MaxKeys /\ mounts'[g] > 0
                 /\ mounts'[g] = 1 => tried[g] \subseteq {key'}
      <3>1. CASE mounts' = mounts /\ key' = key
        BY <1>2, <1>4, <2>2, <3>1 DEF CheckoutInv, KeyInv
      <3>2. CASE key' = keys + 1 /\ keys < MaxKeys /\ g \in Holds
                 /\ mounts' = [mounts EXCEPT ![g] = IF @ = 2 THEN 2 ELSE @ + 1]
        <4>1. mounts'[g] > 0 /\ (mounts'[g] = 1 => mounts[g] = 0) /\ key' \in 1 .. MaxKeys
          BY <1>4, <3>2
        <4> QED BY <4>1, <3>2 DEF CheckoutInv, KeyInv
      <3> QED BY <1>2, <3>1, <3>2
    <2> QED BY <1>1, <2>1, <2>2 DEF KeyInv
  <1>8. ASSUME g # NoHold, p = "checkout", p = page
        PROVE  g = store \/ tried[g] = {} \/ mounts'[g] > 1
    <2> SUFFICES ASSUME g # store PROVE tried[g] = {} \/ mounts'[g] > 1
      OBVIOUS
    <2>1. g \in Holds /\ mounts' = [mounts EXCEPT ![g] = IF @ = 2 THEN 2 ELSE @ + 1]
      BY <1>2, <1>8
    <2>2. mounts[g] = 0 \/ mounts'[g] > 1
      BY <1>4, <2>1
    <2> QED BY <2>1, <2>2 DEF CheckoutInv, KeyInv
  <1>9. RefusalInv'
    <2> SUFFICES ASSUME NEW d \in 1 .. MaxCalls, Confirming(d)'
                 PROVE  /\ calls'[d].state = "refused" => Settled(calls[d].hold, calls[d].key)'
                        /\ Awaiting(d)' /\ calls'[d].hold # g /\ g # NoHold
                             => tried[g] = {} \/ mounts'[g] > 1
      BY <1>1 DEF RefusalInv, Awaiting
    <2>1. /\ Confirming(d) /\ calls'[d].hold = calls[d].hold /\ calls'[d].key = calls[d].key
          /\ calls'[d].state = calls[d].state
      BY <1>0 DEF Confirming
    <2>2. ASSUME Awaiting(d)', calls[d].hold # g, g # NoHold
          PROVE  tried[g] = {} \/ mounts'[g] > 1
      <3>1. Awaiting(d) /\ p = page /\ p = "checkout"
        BY <1>3, <2>2
      <3>2. CASE g = store
        <4>1. tried[g] = {} \/ mounts[g] > 1
          BY <2>1, <2>2, <3>1, <3>2 DEF CheckoutInv, RefusalInv
        <4> QED BY <4>1, <1>5, <2>2
      <3> QED BY <1>8, <2>2, <3>1, <3>2
    <2>3. calls'[d].state = "refused" => Settled(calls[d].hold, calls[d].key)'
      BY <2>1 DEF CheckoutInv, RefusalInv, Settled
    <2> QED BY <2>1, <2>2, <2>3
  <1>10. ExpiredInv'
    <2> SUFFICES ASSUME p = "checkout", g # NoHold, expired, p = page
                 PROVE  \/ g \in due \/ mounts'[g] > 1 \/ tried[g] = {}
                        \/ hold[g] \in {"expired", "cancelled"}
      BY <1>1 DEF ExpiredInv
    <2>1. CASE g = store
      <3>1. \/ g \in due \/ mounts[g] > 1 \/ tried[g] = {}
            \/ hold[g] \in {"expired", "cancelled"}
        BY <2>1 DEF CheckoutInv, ExpiredInv
      <3> QED BY <3>1, <1>5
    <2> QED BY <1>8, <2>1
  <1> QED BY <1>6, <1>7, <1>9, <1>10 DEF CheckoutInv

\* What does not change what is on screen, but for a flag or a button.
LEMMA StayKeeps ==
    ASSUME CheckoutInv, Buying!TypeOK', NEW n \in 0 .. MaxCalls, CallStep(n),
           hold' = hold, due' = due, doneKey' = doneKey, mounts' = mounts,
           page' = page, key' = key, store' \in {store, NoHold},
           \/ tried' = tried
           \/ /\ page = "checkout" /\ store \in Holds /\ store # NoHold
              /\ tried' = [tried EXCEPT ![store] = @ \cup {key}]
              /\ calls[n].kind = "none" /\ \A d \in 1 .. MaxCalls : Awaiting(d)' => d = n,
           Confirming(n)' /\ n # 0 /\ calls[n].kind = "none" =>
             calls'[n].hold = store /\ store' = store /\ calls'[n].key \in tried'[store],
           \A d \in 1 .. MaxCalls : Awaiting(d)' => "confirm" \in busy',
           ExpiredInv'
    PROVE  CheckoutInv'
  <1>1. /\ tried \in [Holds -> SUBSET (1 .. MaxKeys)]
        /\ \A h \in Holds : tried[h] \subseteq tried'[h]
        /\ \A h \in Holds : h # store => tried'[h] = tried[h]
    <2>1. tried \in [Holds -> SUBSET (1 .. MaxKeys)]
      BY DEF CheckoutInv, Buying!TypeOK
    <2>2. tried' = tried \/ tried' = [tried EXCEPT ![store] = @ \cup {key}]
      OBVIOUS
    <2> QED BY <2>1, <2>2
  <1>2. \A d \in 1 .. MaxCalls :
          calls[d].kind = "none" => /\ Confirming(d)' => d = n /\ n # 0
                                    /\ ~Awaiting(d)
    BY DEF CallStep, Confirming, Awaiting
  <1>3. \A c, d \in 1 .. MaxCalls : Awaiting(c)' /\ Awaiting(d)' => c = d
    <2> SUFFICES ASSUME NEW c \in 1 .. MaxCalls, NEW d \in 1 .. MaxCalls,
                        Awaiting(c)', Awaiting(d)', c # d
                 PROVE  FALSE
      OBVIOUS
    <2>1. ASSUME NEW e \in 1 .. MaxCalls, Awaiting(e)'
          PROVE  Awaiting(e) \/ (e = n /\ "confirm" \notin busy)
      BY <2>1 DEF CallStep, Awaiting, Confirming
    <2> QED BY <2>1 DEF CheckoutInv, CallInv
  <1>4. ASSUME NEW d \in 1 .. MaxCalls
        PROVE  \/ calls'[d].kind = "none" /\ calls'[d].hold = NoHold
               \/ /\ calls'[d].kind = calls[d].kind /\ calls'[d].key = calls[d].key
                  /\ calls'[d].hold = calls[d].hold /\ calls'[d].state = calls[d].state
                  /\ Awaiting(d)' => Awaiting(d)
               \/ /\ d = n /\ calls'[d].state = "sent" /\ calls[d].kind = "none"
                  /\ calls'[d].hold \in Holds => calls'[d].hold = store /\ page = "checkout"
                  /\ calls'[d].kind \in {"confirm", "release"} => calls'[d].hold \in Holds
                  /\ Confirming(d)' => /\ calls'[d].hold = store /\ store' = store
                                       /\ calls'[d].key \in tried'[store] /\ n # 0
    <2>1. d # 0
      OBVIOUS
    <2> QED BY <2>1 DEF CallStep, Confirming
  <1>5. CallInv'
    <2>1. ASSUME NEW d \in 1 .. MaxCalls
          PROVE  /\ calls'[d].kind \in {"confirm", "release"} => calls'[d].hold \in Holds
                 /\ calls'[d].kind = "reserve" /\ calls'[d].state = "ok" => calls'[d].hold \in Holds
                 /\ calls'[d].hold \in Holds => hold[calls'[d].hold] # "none"
                 /\ Confirming(d)' => calls'[d].key \in tried'[calls'[d].hold]
                 /\ Awaiting(d)' => page = "checkout"
      <3>1. CASE calls'[d].kind = "none" /\ calls'[d].hold = NoHold
        BY <3>1, NoCallMoves DEF Confirming, Awaiting
      <3>2. CASE /\ calls'[d].kind = calls[d].kind /\ calls'[d].key = calls[d].key
                 /\ calls'[d].hold = calls[d].hold /\ calls'[d].state = calls[d].state
                 /\ Awaiting(d)' => Awaiting(d)
        BY <1>1, <3>2 DEF CheckoutInv, CallInv, Confirming
      <3>3. CASE /\ d = n /\ calls'[d].state = "sent" /\ calls[d].kind = "none"
                 /\ calls'[d].hold \in Holds => calls'[d].hold = store /\ page = "checkout"
                 /\ calls'[d].kind \in {"confirm", "release"} => calls'[d].hold \in Holds
                 /\ Confirming(d)' => /\ calls'[d].hold = store /\ store' = store
                                      /\ calls'[d].key \in tried'[store] /\ n # 0
        <4>1. store \in Holds => hold[store] # "none"
          BY NoCallMoves DEF CheckoutInv, KeyInv
        <4> QED BY <3>3, <4>1 DEF Confirming, Awaiting
      <3> QED BY <1>4, <3>1, <3>2, <3>3
    <2> QED BY <1>3, <2>1 DEF CallInv
  <1>6. KeyInv'
    <2>1. page = "checkout" /\ store # NoHold =>
            /\ key \in 1 .. MaxKeys /\ mounts[store] > 0
            /\ mounts[store] = 1 => tried[store] \subseteq {key}
      BY DEF CheckoutInv, KeyInv
    <2>2. CASE tried' = tried
      BY <2>1, <2>2 DEF CheckoutInv, KeyInv
    <2>3. CASE /\ page = "checkout" /\ store \in Holds /\ store # NoHold
               /\ tried' = [tried EXCEPT ![store] = @ \cup {key}]
      <3>1. tried'[store] = tried[store] \cup {key}
        BY <1>1, <2>3
      <3>2. ASSUME NEW h \in Holds
            PROVE  /\ mounts[h] = 0 => tried'[h] = {}
                   /\ mounts[h] = 1 => \A i, j \in tried'[h] : i = j
                   /\ hold[h] = "converted" => doneKey[h] \in tried'[h]
                   /\ hold[h] = "none" => mounts[h] = 0
        <4>1. CASE h = store
          BY <2>1, <2>3, <3>1, <4>1 DEF CheckoutInv, KeyInv
        <4>2. CASE h # store
          BY <1>1, <4>2 DEF CheckoutInv, KeyInv
        <4> QED BY <4>1, <4>2
      <3>3. mounts[store] = 1 => tried'[store] \subseteq {key}
        BY <2>1, <2>3, <3>1
      <3> QED BY <2>1, <2>3, <3>2, <3>3 DEF CheckoutInv, KeyInv
    <2> QED BY <2>2, <2>3
  <1>7. RefusalInv'
    <2> SUFFICES ASSUME NEW d \in 1 .. MaxCalls, Confirming(d)'
                 PROVE  /\ calls'[d].state = "refused" => Settled(calls[d].hold, calls[d].key)'
                        /\ Awaiting(d)' /\ calls'[d].hold # store' /\ store' # NoHold
                             => tried'[store] = {} \/ mounts[store] > 1
      BY DEF RefusalInv, Awaiting
    <2>1. CASE /\ calls'[d].kind = calls[d].kind /\ calls'[d].key = calls[d].key
               /\ calls'[d].hold = calls[d].hold /\ calls'[d].state = calls[d].state
               /\ Awaiting(d)' => Awaiting(d)
      <3>1. Confirming(d)
        BY <2>1 DEF Confirming
      <3>2. calls'[d].state = "refused" => Settled(calls[d].hold, calls[d].key)'
        BY <2>1, <3>1 DEF CheckoutInv, RefusalInv, Settled
      <3>3. ASSUME Awaiting(d)', calls'[d].hold # store', store' # NoHold
            PROVE  tried'[store] = {} \/ mounts[store] > 1
        <4>1. Awaiting(d) /\ calls[d].hold # store /\ store # NoHold
          BY <2>1, <3>3
        <4>2. tried[store] = {} \/ mounts[store] > 1
          BY <4>1, <3>1 DEF CheckoutInv, RefusalInv
        <4>3. tried' = tried
          <5>1. calls[d].kind # "none"
            BY <3>1 DEF Confirming
          <5> QED BY <5>1, <3>3
        <4> QED BY <4>2, <4>3
      <3> QED BY <3>2, <3>3
    <2>2. CASE /\ d = n /\ calls'[d].state = "sent" /\ calls[d].kind = "none"
               /\ Confirming(d)' => /\ calls'[d].hold = store /\ store' = store
      BY <2>2
    <2> QED BY <1>4, <2>1, <2>2 DEF Confirming
  <1> QED BY <1>5, <1>6, <1>7 DEF CheckoutInv

LEMMA SendMoves ==
    ASSUME Buying!TypeOK, NEW k \in {"reserve", "confirm", "release"},
           NEW h \in Holds \cup {NoHold}, NEW s \in Seats \cup {NoSeat}, NEW n \in 0 .. MaxKeys,
           Buying!Send([kind |-> k, hold |-> h, seat |-> s, key |-> n])
    PROVE  \E c \in 1 .. MaxCalls :
             /\ calls[c].kind = "none" /\ calls' \in [1 .. MaxCalls -> Buying!Call]
             /\ calls'[c].kind = k /\ calls'[c].hold = h /\ calls'[c].key = n
             /\ calls'[c].state = "sent"
             /\ \A d \in 1 .. MaxCalls : d # c => calls'[d] = calls[d]
  <1> DEFINE sent == [Buying!NoCall EXCEPT !.kind = k, !.hold = h, !.seat = s, !.key = n]
  <1>1. PICK c \in 1 .. MaxCalls : calls[c].kind = "none" /\ calls' = [calls EXCEPT ![c] = sent]
    BY DEF Buying!Send
  <1>2. /\ sent \in Buying!Call /\ sent.kind = k /\ sent.hold = h /\ sent.key = n
        /\ sent.state = "sent"
    BY DEF Buying!NoCall, Buying!Call
  <1>3. calls \in [1 .. MaxCalls -> Buying!Call]
    BY DEF Buying!TypeOK
  <1> HIDE DEF sent
  <1>4. /\ calls' \in [1 .. MaxCalls -> Buying!Call] /\ calls'[c] = sent
        /\ \A d \in 1 .. MaxCalls : d # c => calls'[d] = calls[d]
    BY <1>1, <1>2, <1>3
  <1> QED BY <1>1, <1>2, <1>4

\* A call is answered for good.
LEMMA EndMoves ==
    ASSUME Buying!TypeOK, NEW c \in 1 .. MaxCalls, calls' = [calls EXCEPT ![c] = Buying!NoCall]
    PROVE  /\ calls' \in [1 .. MaxCalls -> Buying!Call] /\ CallStep(0)
           /\ calls'[c].kind = "none" /\ ~Awaiting(c)'
           /\ \A d \in 1 .. MaxCalls : d # c => calls'[d] = calls[d]
  <1>1. /\ calls' \in [1 .. MaxCalls -> Buying!Call] /\ calls'[c] = Buying!NoCall
        /\ \A d \in 1 .. MaxCalls : d # c => calls'[d] = calls[d]
    BY NoCallMoves DEF Buying!TypeOK
  <1> QED BY <1>1, NoCallMoves DEF CallStep, Awaiting, Confirming

LEMMA ShowMoves ==
    ASSUME CheckoutInv, NEW p \in {"event", "checkout", "booking"},
           NEW g \in Holds \cup {NoHold}, Buying!Show(p, g)
    PROVE  /\ page' \in {"event", "checkout", "booking"} /\ store' \in Holds \cup {NoHold}
           /\ key' \in 0 .. MaxKeys /\ keys' \in 0 .. MaxKeys /\ expired' \in BOOLEAN
           /\ busy' \subseteq {"reserve", "confirm", "release"}
           /\ mounts' \in [Holds -> 0 .. 2]
  <1>1. /\ page' = p /\ store' = g /\ expired' = (expired /\ p = page)
        /\ busy' = (IF p = page THEN busy ELSE {})
        /\ \/ keys' = keys /\ key' = key /\ mounts' = mounts
           \/ Buying!NewKey(g)
    BY DEF Buying!Show
  <1>2. MaxKeys \in Nat /\ keys \in 0 .. MaxKeys /\ key \in 0 .. MaxKeys /\ expired \in BOOLEAN
        /\ busy \subseteq {"reserve", "confirm", "release"} /\ mounts \in [Holds -> 0 .. 2]
    BY CatalogueAssumption
    DEF CatalogueAssumption, Buying!CheckoutAssumption, CheckoutInv, Buying!TypeOK
  <1>3. expired' \in BOOLEAN
    BY <1>1
  <1>4. busy' \subseteq {"reserve", "confirm", "release"}
    BY <1>1, <1>2
  <1>5. key' \in 0 .. MaxKeys /\ keys' \in 0 .. MaxKeys /\ mounts' \in [Holds -> 0 .. 2]
    <2>1. CASE keys' = keys /\ key' = key /\ mounts' = mounts
      BY <1>2, <2>1
    <2>2. CASE Buying!NewKey(g)
      <3>1. keys < MaxKeys /\ keys' = keys + 1 /\ key' = keys + 1
            /\ mounts' = [mounts EXCEPT ![g] = IF @ = 2 THEN 2 ELSE @ + 1]
        BY <2>2 DEF Buying!NewKey
      <3>2. key' \in 0 .. MaxKeys /\ keys' \in 0 .. MaxKeys
        BY <1>2, <3>1
      <3>3. \A h \in Holds : (IF mounts[h] = 2 THEN 2 ELSE mounts[h] + 1) \in 0 .. 2
        BY <1>2
      <3>4. mounts' \in [Holds -> 0 .. 2]
        BY <1>2, <3>1, <3>3
      <3> QED BY <3>2, <3>4
    <2> QED BY <1>1, <2>1, <2>2
  <1> QED BY <1>1, <1>3, <1>4, <1>5

\* The handlers that end with another page on screen.
LEMMA ShowAfterKeeps ==
    ASSUME CheckoutInv, NEW c \in 1 .. MaxCalls, NEW p \in {"event", "checkout", "booking"},
           NEW g \in Holds \cup {NoHold}, g # NoHold => hold[g] # "none",
           Buying!ShowAfter(c, p, g), UNCHANGED <<Buying!server, tried>>, told' \subseteq Holds
    PROVE  CheckoutInv'
  <1>1. /\ hold' = hold /\ seatOf' = seatOf /\ due' = due /\ doneKey' = doneKey /\ taken' = taken
        /\ tried' = tried /\ Buying!Show(p, g)
        /\ calls' = [Buying!Leave(p) EXCEPT ![c] = Buying!NoCall]
    BY DEF Buying!server, Buying!ShowAfter
  <1>2. Buying!TypeOK
    BY DEF CheckoutInv
  <1>3. /\ calls' \in [1 .. MaxCalls -> Buying!Call] /\ calls'[c] = Buying!NoCall
        /\ \A d \in 1 .. MaxCalls : d # c => calls'[d] = Buying!Leave(p)[d]
    BY <1>1, <1>2, LeaveMoves, NoCallMoves
  <1>4. CallStep(0) /\ \A d \in 1 .. MaxCalls : Awaiting(d)' => p = page
    BY <1>2, <1>3, LeaveMoves, NoCallMoves DEF CallStep, Awaiting, Confirming
  <1>5. Buying!TypeOK'
    BY <1>1, <1>2, <1>3, ShowMoves DEF Buying!TypeOK
  <1> QED BY <1>1, <1>4, <1>5, ShowKeeps

\* ... and the clicks that do.
LEMMA ShowLeaveKeeps ==
    ASSUME CheckoutInv, NEW p \in {"event", "checkout", "booking"},
           NEW g \in {store, NoHold}, Buying!Show(p, g), calls' = Buying!Leave(p),
           UNCHANGED <<Buying!server, tried, told>>
    PROVE  CheckoutInv'
  <1>1. /\ hold' = hold /\ seatOf' = seatOf /\ due' = due /\ doneKey' = doneKey /\ taken' = taken
        /\ tried' = tried /\ told' = told
    BY DEF Buying!server
  <1>2. Buying!TypeOK /\ g \in Holds \cup {NoHold} /\ (g # NoHold => hold[g] # "none")
    BY DEF CheckoutInv, Buying!TypeOK, KeyInv
  <1>3. CallStep(0) /\ \A d \in 1 .. MaxCalls : Awaiting(d)' => p = page
    BY <1>2, LeaveMoves DEF CallStep, Awaiting, Confirming
  <1>4. calls' \in [1 .. MaxCalls -> Buying!Call]
    BY <1>2, LeaveMoves
  <1>5. Buying!TypeOK'
    BY <1>1, <1>2, <1>4, ShowMoves DEF Buying!TypeOK
  <1> QED BY <1>1, <1>2, <1>3, <1>5, ShowKeeps

\* The clicks that send a request.
LEMMA ClickKeeps ==
    ASSUME CheckoutInv,
           (\E s \in Seats : Buying!handleReserve(s)) \/ Buying!handleConfirm \/ Buying!handleRelease
    PROVE  CheckoutInv'
  <1>1. Buying!TypeOK /\ MaxKeys \in Nat /\ 0 \in 0 .. MaxKeys /\ NoSeat \in Seats \cup {NoSeat}
    BY CatalogueAssumption DEF CheckoutInv, CatalogueAssumption, Buying!CheckoutAssumption
  <1>2. CASE \E s \in Seats : Buying!handleReserve(s)
    <2>1. PICK s \in Seats : Buying!handleReserve(s)
      BY <1>2
    <2>2. /\ Buying!Send([kind |-> "reserve", hold |-> NoHold, seat |-> s, key |-> 0])
          /\ busy' = busy \cup {"reserve"} /\ page' = page /\ store' = store /\ key' = key
          /\ expired' = expired /\ keys' = keys /\ tried' = tried /\ mounts' = mounts
          /\ told' = told /\ hold' = hold /\ seatOf' = seatOf /\ due' = due
          /\ doneKey' = doneKey /\ taken' = taken
      BY <2>1 DEF Buying!handleReserve, Buying!server, Buying!history
    <2>3. PICK c \in 1 .. MaxCalls :
             /\ calls[c].kind = "none" /\ calls' \in [1 .. MaxCalls -> Buying!Call]
             /\ calls'[c].kind = "reserve" /\ calls'[c].hold = NoHold
             /\ calls'[c].state = "sent"
             /\ \A d \in 1 .. MaxCalls : d # c => calls'[d] = calls[d]
      BY <1>1, <2>2, SendMoves
    <2>4. CallStep(c) /\ ~Confirming(c)' /\ \A d \in 1 .. MaxCalls : Awaiting(d)' => Awaiting(d)
      BY <2>3, NoCallMoves DEF CallStep, Awaiting, Confirming
    <2>5. \A d \in 1 .. MaxCalls : Awaiting(d)' => "confirm" \in busy'
      BY <2>2, <2>4 DEF CheckoutInv, CallInv
    <2>6. Buying!TypeOK' /\ ExpiredInv'
      BY <1>1, <2>2, <2>3 DEF Buying!TypeOK, CheckoutInv, ExpiredInv
    <2> QED BY <2>2, <2>4, <2>5, <2>6, StayKeeps
  <1>3. CASE Buying!handleConfirm
    <2>1. /\ page = "checkout" /\ store # NoHold /\ ~expired /\ "confirm" \notin busy
          /\ Buying!Send([kind |-> "confirm", hold |-> store, seat |-> NoSeat, key |-> key])
          /\ busy' = busy \cup {"confirm"} /\ page' = page /\ store' = store /\ key' = key
          /\ expired' = expired /\ keys' = keys /\ mounts' = mounts
          /\ tried' = [tried EXCEPT ![store] = @ \cup {key}]
          /\ told' = told /\ hold' = hold /\ seatOf' = seatOf /\ due' = due
          /\ doneKey' = doneKey /\ taken' = taken
      BY <1>3 DEF Buying!handleConfirm, Buying!server
    <2>2. store \in Holds /\ key \in 1 .. MaxKeys /\ key \in 0 .. MaxKeys
      BY <1>1, <2>1 DEF CheckoutInv, KeyInv, Buying!TypeOK
    <2>3. PICK c \in 1 .. MaxCalls :
             /\ calls[c].kind = "none" /\ calls' \in [1 .. MaxCalls -> Buying!Call]
             /\ calls'[c].kind = "confirm" /\ calls'[c].hold = store /\ calls'[c].key = key
             /\ calls'[c].state = "sent"
             /\ \A d \in 1 .. MaxCalls : d # c => calls'[d] = calls[d]
      <3>1. "confirm" \in {"reserve", "confirm", "release"} /\ store \in Holds \cup {NoHold}
        BY <2>2
      <3> QED BY <1>1, <2>1, <2>2, <3>1, SendMoves
    <2>4. tried \in [Holds -> SUBSET (1 .. MaxKeys)] /\ key \in tried'[store]
      BY <1>1, <2>1, <2>2 DEF Buying!TypeOK
    <2>5. \A d \in 1 .. MaxCalls : Awaiting(d)' => d = c
      <3>1. \A d \in 1 .. MaxCalls : ~Awaiting(d)
        BY <2>1 DEF CheckoutInv, CallInv
      <3> QED BY <2>3, <3>1 DEF Awaiting, Confirming
    <2>6. CallStep(c)
      BY <2>1, <2>2, <2>3 DEF CallStep, Awaiting, Confirming
    <2>7. ExpiredInv'
      BY <2>1 DEF ExpiredInv
    <2>8. tried' \in [Holds -> SUBSET (1 .. MaxKeys)]
      BY <2>1, <2>2, <2>4
    <2>9. Buying!TypeOK'
      BY <1>1, <2>1, <2>3, <2>8 DEF Buying!TypeOK
    <2>10. c \in 0 .. MaxCalls /\ "confirm" \in busy' /\ store' \in {store, NoHold}
      BY <2>1
    <2> QED BY <2>1, <2>2, <2>3, <2>4, <2>5, <2>6, <2>7, <2>9, <2>10, StayKeeps
  <1>4. CASE Buying!handleRelease
    <2>1. /\ page = "checkout" /\ store # NoHold
          /\ Buying!Send([kind |-> "release", hold |-> store, seat |-> NoSeat, key |-> 0])
          /\ busy' = busy \cup {"release"} /\ page' = page /\ store' = store /\ key' = key
          /\ expired' = expired /\ keys' = keys /\ tried' = tried /\ mounts' = mounts
          /\ told' = told /\ hold' = hold /\ seatOf' = seatOf /\ due' = due
          /\ doneKey' = doneKey /\ taken' = taken
      BY <1>4 DEF Buying!handleRelease, Buying!server, Buying!history
    <2>2. store \in Holds
      BY <1>1, <2>1 DEF Buying!TypeOK
    <2>3. PICK c \in 1 .. MaxCalls :
             /\ calls[c].kind = "none" /\ calls' \in [1 .. MaxCalls -> Buying!Call]
             /\ calls'[c].kind = "release" /\ calls'[c].hold = store
             /\ calls'[c].state = "sent"
             /\ \A d \in 1 .. MaxCalls : d # c => calls'[d] = calls[d]
      BY <1>1, <2>1, <2>2, SendMoves
    <2>4. CallStep(c) /\ ~Confirming(c)' /\ \A d \in 1 .. MaxCalls : Awaiting(d)' => Awaiting(d)
      BY <2>1, <2>2, <2>3 DEF CallStep, Awaiting, Confirming
    <2>5. \A d \in 1 .. MaxCalls : Awaiting(d)' => "confirm" \in busy'
      BY <2>1, <2>4 DEF CheckoutInv, CallInv
    <2>6. Buying!TypeOK' /\ ExpiredInv'
      BY <1>1, <2>1, <2>3 DEF Buying!TypeOK, CheckoutInv, ExpiredInv
    <2> QED BY <2>1, <2>4, <2>5, <2>6, StayKeeps
  <1> QED BY <1>2, <1>3, <1>4

\* The handlers that fail, and the answers nobody waits for.
LEMMA FailedKeeps ==
    ASSUME CheckoutInv, NEW c \in 1 .. MaxCalls,
           Buying!ReserveFailed(c) \/ Buying!ConfirmFailed(c) \/ Buying!Ignored(c)
    PROVE  CheckoutInv'
  <1>1. Buying!TypeOK
    BY DEF CheckoutInv
  <1>2. /\ calls' = [calls EXCEPT ![c] = Buying!NoCall]
        /\ page' = page /\ store' = store /\ key' = key /\ keys' = keys
        /\ tried' = tried /\ mounts' = mounts /\ told' = told /\ hold' = hold
        /\ seatOf' = seatOf /\ due' = due /\ doneKey' = doneKey /\ taken' = taken
    BY DEF Buying!ReserveFailed, Buying!ConfirmFailed, Buying!Ignored, Buying!Finally,
           Buying!server, Buying!tab, Buying!history
  <1>3. /\ calls' \in [1 .. MaxCalls -> Buying!Call] /\ CallStep(0)
        /\ calls'[c].kind = "none" /\ ~Awaiting(c)'
        /\ \A d \in 1 .. MaxCalls : d # c => calls'[d] = calls[d]
    BY <1>1, <1>2, EndMoves
  <1>4. \A d \in 1 .. MaxCalls : Awaiting(d)' => Awaiting(d) /\ d # c
    BY <1>3 DEF Awaiting, Confirming
  <1>5. /\ busy' \in {busy, busy \ {calls[c].kind}}
        /\ busy' # busy => calls[c].kind \in {"reserve", "confirm"} /\ calls[c].mount = "live"
    BY DEF Buying!ReserveFailed, Buying!ConfirmFailed, Buying!Ignored, Buying!Finally, Buying!tab
  <1>6. \A d \in 1 .. MaxCalls : Awaiting(d)' => "confirm" \in busy'
    <2> SUFFICES ASSUME NEW d \in 1 .. MaxCalls, Awaiting(d)' PROVE "confirm" \in busy'
      OBVIOUS
    <2>1. Awaiting(d) /\ d # c /\ "confirm" \in busy
      BY <1>4 DEF CheckoutInv, CallInv
    <2>2. ~Awaiting(c)
      BY <2>1 DEF CheckoutInv, CallInv
    <2> QED BY <1>5, <2>1, <2>2 DEF Awaiting, Confirming
  <1>7. expired' \in BOOLEAN
    BY <1>1 DEF Buying!ReserveFailed, Buying!ConfirmFailed, Buying!Ignored, Buying!tab, Buying!TypeOK
  <1>8. Buying!TypeOK'
    BY <1>1, <1>2, <1>3, <1>5, <1>7 DEF Buying!TypeOK
  <1>9. ExpiredInv'
    <2>1. CASE expired' = expired
      BY <1>2, <2>1 DEF CheckoutInv, ExpiredInv
    <2>2. CASE Confirming(c) /\ calls[c].mount = "live" /\ calls[c].state = "refused"
      <3>1. /\ Awaiting(c) /\ calls[c].hold \in Holds
            /\ calls[c].key \in tried[calls[c].hold]
            /\ Settled(calls[c].hold, calls[c].key)
        BY <2>2 DEF Awaiting, Confirming, CheckoutInv, CallInv, RefusalInv
      <3>2. CASE calls[c].hold # store
        BY <1>2, <3>1, <3>2 DEF CheckoutInv, RefusalInv, ExpiredInv
      <3>3. CASE calls[c].hold = store
        <4>1. ASSUME hold[store] = "converted", doneKey[store] # calls[c].key
              PROVE  mounts[store] > 1
          <5>1. doneKey[store] \in tried[store] /\ calls[c].key \in tried[store]
            BY <3>1, <3>3, <4>1 DEF CheckoutInv, KeyInv
          <5>2. mounts[store] # 0 /\ mounts[store] # 1
            BY <3>1, <3>3, <4>1, <5>1 DEF CheckoutInv, KeyInv
          <5>3. mounts[store] \in 0 .. 2
            BY <1>1, <3>1, <3>3 DEF Buying!TypeOK
          <5> QED BY <5>2, <5>3
        <4> QED BY <1>2, <3>1, <3>3, <4>1 DEF Settled, ExpiredInv
      <3> QED BY <3>2, <3>3
    <2>3. expired' = expired \/ (Confirming(c) /\ calls[c].mount = "live" /\ calls[c].state = "refused")
      <3>1. ASSUME Buying!ConfirmFailed(c), ~(calls[c].mount = "live" /\ calls[c].state = "refused")
            PROVE  expired' = expired
        BY <1>1, <3>1 DEF Buying!ConfirmFailed, Buying!TypeOK
      <3> QED BY <3>1 DEF Buying!ReserveFailed, Buying!ConfirmFailed, Buying!Ignored, Buying!tab, Confirming
    <2> QED BY <2>1, <2>2, <2>3
  <1>10. 0 \in 0 .. MaxCalls
    BY CatalogueAssumption DEF CatalogueAssumption, Buying!CheckoutAssumption
  <1> QED BY <1>2, <1>3, <1>6, <1>8, <1>9, <1>10, StayKeeps

\* The rest of what happens on the pages.
LEMMA PageKeeps ==
    ASSUME CheckoutInv,
           \/ \E c \in 1 .. MaxCalls : \/ Buying!ReserveAnswered(c) \/ Buying!ConfirmAnswered(c)
                                       \/ Buying!ReleaseAnswered(c)
           \/ Buying!onExpire \/ Buying!PickSeatsAgain \/ Buying!Reload
           \/ \E p \in {"event", "checkout"} : Buying!Navigate(p)
    PROVE  CheckoutInv'
  <1>1. Buying!TypeOK /\ 0 \in 0 .. MaxCalls /\ store \in {store, NoHold}
    BY CatalogueAssumption
    DEF CheckoutInv, CatalogueAssumption, Buying!CheckoutAssumption
  <1>2. ASSUME NEW c \in 1 .. MaxCalls, Buying!ReserveAnswered(c)
        PROVE  CheckoutInv'
    <2>1. calls[c].hold \in Holds /\ hold[calls[c].hold] # "none"
      BY <1>2 DEF CheckoutInv, CallInv, Buying!ReserveAnswered
    <2>2. /\ Buying!ShowAfter(c, "checkout", calls[c].hold) /\ UNCHANGED <<Buying!server, tried>>
          /\ told' \subseteq Holds
      BY <1>1, <1>2, <2>1 DEF Buying!ReserveAnswered, Buying!TypeOK
    <2> QED BY <2>1, <2>2, ShowAfterKeeps
  <1>3. ASSUME NEW c \in 1 .. MaxCalls, Buying!ConfirmAnswered(c) \/ Buying!ReleaseAnswered(c)
        PROVE  CheckoutInv'
    <2>1. PICK p \in {"event", "booking"} :
            Buying!ShowAfter(c, p, NoHold) /\ UNCHANGED <<Buying!server, tried, told>>
      BY <1>3 DEF Buying!ConfirmAnswered, Buying!ReleaseAnswered
    <2>2. told' \subseteq Holds /\ UNCHANGED <<Buying!server, tried>>
          /\ p \in {"event", "checkout", "booking"} /\ NoHold \in Holds \cup {NoHold}
      BY <1>1, <2>1 DEF Buying!TypeOK
    <2> QED BY <2>1, <2>2, ShowAfterKeeps
  <1>4. ASSUME Buying!onExpire PROVE CheckoutInv'
    <2>1. /\ store \in due /\ expired' = TRUE
          /\ page' = page /\ store' = store /\ key' = key /\ keys' = keys /\ busy' = busy
          /\ tried' = tried /\ mounts' = mounts /\ told' = told /\ hold' = hold
          /\ seatOf' = seatOf /\ due' = due /\ doneKey' = doneKey /\ taken' = taken
          /\ calls' = calls
      BY <1>4 DEF Buying!onExpire, Buying!server, Buying!history
    <2>2. CallStep(0) /\ \A d \in 1 .. MaxCalls : Awaiting(d)' => "confirm" \in busy'
      BY <2>1 DEF CallStep, Awaiting, Confirming, CheckoutInv, CallInv
    <2>3. Buying!TypeOK' /\ ExpiredInv'
      BY <1>1, <2>1 DEF Buying!TypeOK, ExpiredInv
    <2> QED BY <1>1, <2>1, <2>2, <2>3, StayKeeps
  <1>5. ASSUME Buying!PickSeatsAgain PROVE CheckoutInv'
    BY <1>5, ShowLeaveKeeps DEF Buying!PickSeatsAgain
  <1>6. ASSUME NEW p \in {"event", "checkout"}, Buying!Navigate(p) PROVE CheckoutInv'
    BY <1>6, ShowLeaveKeeps DEF Buying!Navigate
  <1>7. ASSUME Buying!Reload PROVE CheckoutInv'
    <2>1. /\ store' = NoHold /\ expired' = FALSE /\ busy' = {}
          /\ calls' = [d \in 1 .. MaxCalls |-> IF calls[d].kind = "none" THEN Buying!NoCall
                                               ELSE [calls[d] EXCEPT !.mount = "reloaded"]]
          /\ page' = page /\ key' = key /\ keys' = keys
          /\ tried' = tried /\ mounts' = mounts /\ told' = told /\ hold' = hold
          /\ seatOf' = seatOf /\ due' = due /\ doneKey' = doneKey /\ taken' = taken
      BY <1>7 DEF Buying!Reload, Buying!server, Buying!history
    <2>2. ASSUME NEW k \in Buying!Call
          PROVE  /\ [k EXCEPT !.mount = "reloaded"] \in Buying!Call
                 /\ [k EXCEPT !.mount = "reloaded"].kind = k.kind
                 /\ [k EXCEPT !.mount = "reloaded"].key = k.key
                 /\ [k EXCEPT !.mount = "reloaded"].hold = k.hold
                 /\ [k EXCEPT !.mount = "reloaded"].state = k.state
                 /\ [k EXCEPT !.mount = "reloaded"].mount = "reloaded"
      BY DEF Buying!Call
    <2>3. ASSUME NEW d \in 1 .. MaxCalls
          PROVE  /\ calls'[d] \in Buying!Call
                 /\ \/ calls'[d].kind = "none" /\ calls'[d].hold = NoHold
                    \/ /\ calls'[d].kind = calls[d].kind /\ calls'[d].key = calls[d].key
                       /\ calls'[d].hold = calls[d].hold /\ calls'[d].state = calls[d].state
                       /\ calls'[d].mount = "reloaded"
      <3>1. calls[d] \in Buying!Call
        BY <1>1 DEF Buying!TypeOK
      <3>2. calls'[d] = IF calls[d].kind = "none" THEN Buying!NoCall
                        ELSE [calls[d] EXCEPT !.mount = "reloaded"]
        BY <2>1
      <3>3. CASE calls[d].kind = "none"
        BY <3>2, <3>3, NoCallMoves
      <3>4. CASE calls[d].kind # "none"
        BY <2>2, <3>1, <3>2, <3>4
      <3> QED BY <3>3, <3>4
    <2>4. calls' \in [1 .. MaxCalls -> Buying!Call]
      BY <2>1, <2>3
    <2>5. \A d \in 1 .. MaxCalls : ~Awaiting(d)'
      BY <2>3 DEF Awaiting, Confirming
    <2>6. CallStep(0)
      BY <2>3, <2>5 DEF CallStep
    <2>7. Buying!TypeOK' /\ ExpiredInv'
      BY <1>1, <2>1, <2>4 DEF Buying!TypeOK, ExpiredInv
    <2> QED BY <1>1, <2>1, <2>5, <2>6, <2>7, StayKeeps
  <1> QED BY <1>2, <1>3, <1>4, <1>5, <1>6, <1>7

LEMMA CheckoutKeeps ==
    ASSUME CheckoutInv,
           [PartsNext]_<<part, roleVars, eventVars, listVars, checkoutVars>>
    PROVE  CheckoutInv'
  <1>1. CASE UNCHANGED checkoutVars
    BY <1>1
    DEF checkoutVars, CheckoutInv, CallInv, KeyInv, RefusalInv, ExpiredInv, Settled, Awaiting,
        Confirming, Buying!TypeOK
  <1>2. CASE Buying!Next
    BY <1>2, createHoldKeeps, confirmHoldKeeps, releaseHoldKeeps, WorldKeeps, ClickKeeps,
       FailedKeeps, PageKeeps
    DEF Buying!Next, Buying!Network, Buying!Handler
  <1> QED BY <1>1, <1>2 DEF PartsNext

\* CheckoutPage.tsx and booking.service.ts, confirmBooking: whatever requests and answers
\* are lost, and whatever the customer clicks meanwhile, a Confirm that is repeated gets
\* the booking that was made; one who has a booking is told that the hold is gone only
\* when its time was up, or when the page has been mounted again and made another key.
THEOREM RetryReplaysInCatalogue == PartsSpec => []RetryReplays
  <1>1. CheckoutInv => RetryReplays
    <2> SUFFICES ASSUME CheckoutInv, page = "checkout", store # NoHold, expired,
                        hold[store] = "converted"
                 PROVE  store \in due \/ mounts[store] > 1
      BY DEF RetryReplays, Buying!RetryReplays
    <2>1. store \in Holds
      BY DEF CheckoutInv, Buying!TypeOK
    <2>2. tried[store] # {}
      BY <2>1 DEF CheckoutInv, KeyInv
    <2> QED BY <2>2 DEF CheckoutInv, ExpiredInv
  <1> QED BY <1>1, CheckoutInit, CheckoutKeeps, PTL DEF PartsSpec

-----------------------------------------------------------------------------
(* The public list                                                         *)

\* A strict total order on a finite set enumerates it: an element's place is the number of
\* those up to it.
LEMMA Enumerates ==
    ASSUME NEW S, IsFiniteSet(S), NEW R,
           \A x \in S : <<x, x>> \notin R,
           \A x, y, z \in S : <<x, y>> \in R /\ <<y, z>> \in R => <<x, z>> \in R,
           \A x, y \in S : x = y \/ <<x, y>> \in R \/ <<y, x>> \in R
    PROVE  \E q \in [1 .. Cardinality(S) -> S] :
             \A i, j \in 1 .. Cardinality(S) : i < j => <<q[i], q[j]>> \in R
  <1> DEFINE n == Cardinality(S)
             Upto(x) == {y \in S : y = x \/ <<y, x>> \in R}
             place == [x \in S |-> Cardinality(Upto(x))]
  <1>1. n \in Nat
    BY FS_CardinalityType
  <1>2. ASSUME NEW x \in S PROVE place[x] \in 1 .. n
    <2>1. Upto(x) \in SUBSET S /\ x \in Upto(x)
      OBVIOUS
    <2> HIDE DEF Upto
    <2>2. IsFiniteSet(Upto(x)) /\ Cardinality(Upto(x)) <= n /\ Cardinality(Upto(x)) \in Nat
      BY <2>1, FS_Subset, FS_CardinalityType
    <2>3. Cardinality(Upto(x)) # 0
      BY <2>1, <2>2, FS_EmptySet
    <2> QED BY <1>1, <2>2, <2>3
  <1>3. ASSUME NEW x \in S, NEW y \in S, <<x, y>> \in R PROVE place[x] < place[y]
    <2>1. Upto(x) \in SUBSET Upto(y) /\ Upto(y) \in SUBSET S /\ y \in Upto(y) /\ y \notin Upto(x)
      BY <1>3
    <2>2. place[x] = Cardinality(Upto(x)) /\ place[y] = Cardinality(Upto(y))
      OBVIOUS
    <2>3. place[x] \in 1 .. n /\ place[y] \in 1 .. n
      BY <1>2
    <2> HIDE DEF Upto, place
    <2>4. IsFiniteSet(Upto(y))
      BY <2>1, FS_Subset
    <2>5. Cardinality(Upto(x)) <= Cardinality(Upto(y)) /\ Cardinality(Upto(x)) # Cardinality(Upto(y))
      BY <2>1, <2>4, FS_Subset
    <2> QED BY <1>1, <2>2, <2>3, <2>5
  <1>4. \A x, y \in S : place[x] = place[y] => x = y
    <2>1. ASSUME NEW x \in S, NEW y \in S, place[x] = place[y], x # y PROVE FALSE
      <3>1. place[x] < place[y] \/ place[y] < place[x]
        BY <1>3, <2>1
      <3>2. place[x] \in Nat /\ place[y] \in Nat
        BY <1>1, <1>2
      <3> HIDE DEF place
      <3> QED BY <2>1, <3>1, <3>2
    <2> QED BY <2>1
  <1>5. \A i \in 1 .. n : \E x \in S : place[x] = i
    <2>1. place \in Injection(S, 1 .. n)
      <3>1. place \in [S -> 1 .. n]
        BY <1>2
      <3> HIDE DEF place
      <3> QED BY <1>4, <3>1 DEF Injection, IsInjective
    <2>2. IsFiniteSet(1 .. n) /\ Cardinality(1 .. n) = n
      BY <1>1, FS_Interval
    <2> HIDE DEF place
    <2>3. place \in Surjection(S, 1 .. n)
      BY <2>1, <2>2, FS_Injection
    <2> QED BY <2>3 DEF Surjection
  <1> DEFINE q == [i \in 1 .. n |-> CHOOSE x \in S : place[x] = i]
  <1>6. \A i \in 1 .. n : q[i] \in S /\ place[q[i]] = i
    BY <1>5
  <1>7. q \in [1 .. n -> S]
    BY <1>6
  <1>8. ASSUME NEW i \in 1 .. n, NEW j \in 1 .. n, i < j PROVE <<q[i], q[j]>> \in R
    <2>1. q[i] \in S /\ q[j] \in S /\ place[q[i]] = i /\ place[q[j]] = j
      BY <1>6
    <2> HIDE DEF q, place
    <2>2. q[i] # q[j]
      BY <1>1, <1>8, <2>1
    <2>3. ~ (<<q[j], q[i]>> \in R)
      BY <1>1, <1>3, <1>8, <2>1
    <2> QED BY <2>1, <2>2, <2>3
  <1> HIDE DEF q
  <1> QED BY <1>7, <1>8

\* The order of a sort mode is strict and total: the id breaks every tie.
LEMMA OrderOfEvents ==
    ASSUME Listing!TypeOK, NEW m \in Listing!SortMode
    PROVE  /\ \A e \in Ids : ~ Listing!Precedes(m, sortKey[e], e, sortKey[e], e)
           /\ \A e, f, g \in Ids : /\ Listing!Precedes(m, sortKey[e], e, sortKey[f], f)
                                   /\ Listing!Precedes(m, sortKey[f], f, sortKey[g], g)
                => Listing!Precedes(m, sortKey[e], e, sortKey[g], g)
           /\ \A e, f \in Ids : \/ e = f
                                \/ Listing!Precedes(m, sortKey[e], e, sortKey[f], f)
                                \/ Listing!Precedes(m, sortKey[f], f, sortKey[e], e)
  <1>1. \A e \in Ids : e \in Nat /\ sortKey[e] \in Nat
    BY CatalogueAssumption DEF CatalogueAssumption, Listing!FeedAssumption, Listing!TypeOK
  <1> DEFINE k(e) == sortKey[e]
  <1> HIDE DEF k
  <1>2. \A e \in Ids : e \in Nat /\ k(e) \in Nat
    BY <1>1 DEF k
  <1>3. m = "asc" \/ m = "desc"
    BY DEF Listing!SortMode
  <1>4. \A e, f : Listing!Precedes(m, k(e), e, k(f), f)
                    <=> IF m = "asc" THEN k(e) < k(f) \/ (k(e) = k(f) /\ e < f)
                                     ELSE k(e) > k(f) \/ (k(e) = k(f) /\ e > f)
    BY DEF Listing!Precedes
  <1>5. /\ \A e \in Ids : ~ Listing!Precedes(m, k(e), e, k(e), e)
        /\ \A e, f \in Ids : \/ e = f
                             \/ Listing!Precedes(m, k(e), e, k(f), f)
                             \/ Listing!Precedes(m, k(f), f, k(e), e)
    BY <1>2, <1>3, <1>4
  <1>6. ASSUME NEW e \in Ids, NEW f \in Ids, NEW g \in Ids,
               Listing!Precedes(m, k(e), e, k(f), f), Listing!Precedes(m, k(f), f, k(g), g)
        PROVE  Listing!Precedes(m, k(e), e, k(g), g)
    <2>1. CASE m = "asc"
      BY <1>2, <1>4, <1>6, <2>1
    <2>2. CASE m # "asc"
      BY <1>2, <1>4, <1>6, <2>2
    <2> QED BY <2>1, <2>2
  <1> QED BY <1>5, <1>6 DEF k

\* ORDER BY: every event once, each before the next.
LEMMA SortedRows ==
    ASSUME Listing!TypeOK, NEW m \in Listing!SortMode, NEW S \in SUBSET Ids
    PROVE  LET q == Listing!Sorted(m, S)
               n == Cardinality(S)
           IN  /\ n \in Nat /\ q \in [1 .. n -> S]
               /\ \A i, j \in 1 .. n :
                    i < j => Listing!Precedes(m, sortKey[q[i]], q[i], sortKey[q[j]], q[j])
               /\ \A e \in S : \E i \in 1 .. n : q[i] = e
  <1> DEFINE n == Cardinality(S)
             R == {p \in Ids \X Ids : Listing!Precedes(m, sortKey[p[1]], p[1], sortKey[p[2]], p[2])}
             Orders(q) == \A i, j \in 1 .. n :
                            i < j => Listing!Precedes(m, sortKey[q[i]], q[i], sortKey[q[j]], q[j])
             q == Listing!Sorted(m, S)
  <1>1. IsFiniteSet(S) /\ n \in Nat
    <2>1. Listing!IsFiniteSet(Ids) <=> IsFiniteSet(Ids)
      BY DEF Listing!IsFiniteSet, IsFiniteSet
    <2>2. IsFiniteSet(Ids)
      BY <2>1, CatalogueAssumption DEF CatalogueAssumption, Listing!FeedAssumption
    <2> QED BY <2>2, FS_Subset, FS_CardinalityType
  <1>2. Listing!Cardinality(S) = n
    BY DEF Listing!Cardinality, Cardinality
  <1>3. q = CHOOSE f \in [1 .. n -> S] : Orders(f)
    BY <1>2 DEF Listing!Sorted
  <1>4. \A e, f \in Ids : <<e, f>> \in R <=> Listing!Precedes(m, sortKey[e], e, sortKey[f], f)
    OBVIOUS
  <1> HIDE DEF R
  <1>5. \E f \in [1 .. n -> S] : \A i, j \in 1 .. n : i < j => <<f[i], f[j]>> \in R
    <2>1. \A x \in S : <<x, x>> \notin R
      BY <1>4, OrderOfEvents
    <2>2. \A x, y, z \in S : <<x, y>> \in R /\ <<y, z>> \in R => <<x, z>> \in R
      <3>1. ASSUME NEW x \in S, NEW y \in S, NEW z \in S, <<x, y>> \in R, <<y, z>> \in R
            PROVE  <<x, z>> \in R
        <4>1. x \in Ids /\ y \in Ids /\ z \in Ids
          OBVIOUS
        <4> QED BY <1>4, <3>1, <4>1, OrderOfEvents
      <3> QED BY <3>1
    <2>3. \A x, y \in S : x = y \/ <<x, y>> \in R \/ <<y, x>> \in R
      BY <1>4, OrderOfEvents
    <2> QED BY ONLY <1>1, <2>1, <2>2, <2>3, Enumerates
  <1>6. \E f \in [1 .. n -> S] : Orders(f)
    <2>1. PICK f \in [1 .. n -> S] : \A i, j \in 1 .. n : i < j => <<f[i], f[j]>> \in R
      BY <1>5
    <2>2. \A i \in 1 .. n : f[i] \in Ids
      BY <2>1
    <2> QED BY <1>4, <2>1, <2>2
  <1> HIDE DEF Orders
  <1>7. q \in [1 .. n -> S] /\ Orders(q)
    BY <1>3, <1>6
  <1> HIDE DEF q
  <1>8. \A e \in S : \E i \in 1 .. n : q[i] = e
    <2>1. \A i, j \in 1 .. n : q[i] = q[j] => i = j
      <3>1. ASSUME NEW i \in 1 .. n, NEW j \in 1 .. n, q[i] = q[j], i < j PROVE FALSE
        <4>1. q[i] \in Ids /\ Listing!Precedes(m, sortKey[q[i]], q[i], sortKey[q[j]], q[j])
          BY <1>7, <3>1 DEF Orders
        <4> QED BY <3>1, <4>1, OrderOfEvents
      <3> QED BY <1>1, <3>1
    <2>2. q \in Injection(1 .. n, S)
      BY <1>7, <2>1 DEF Injection, IsInjective
    <2>3. IsFiniteSet(1 .. n) /\ Cardinality(1 .. n) = n
      BY <1>1, FS_Interval
    <2>4. q \in Surjection(1 .. n, S)
      BY <1>1, <2>2, <2>3, FS_Injection
    <2> QED BY <2>4 DEF Surjection
  <1> QED BY <1>1, <1>7, <1>8 DEF Orders, q, n

\* A page of rows: the first of those past the cursor, and no gap before what it leaves out.
LEMMA PageRows ==
    ASSUME Listing!TypeOK, NEW F \in Filters, NEW m \in Listing!SortMode, NEW c
    PROVE  LET rows == Listing!findPublicEventsPage(F, m, c)
           IN  /\ rows \in Seq(Ids) /\ Len(rows) \in 0 .. (Limit + 1)
               /\ \A i \in 1 .. Len(rows) : rows[i] \in Listing!Matched(F) /\ Listing!Past(m, c, rows[i])
               /\ \A i, j \in 1 .. Len(rows) : i < j =>
                    Listing!Precedes(m, sortKey[rows[i]], rows[i], sortKey[rows[j]], rows[j])
               /\ \A e \in Listing!Matched(F) :
                    Listing!Past(m, c, e) /\ (\A i \in 1 .. Len(rows) : rows[i] # e) =>
                      /\ Len(rows) = Limit + 1
                      /\ \A i \in 1 .. Len(rows) :
                           Listing!Precedes(m, sortKey[rows[i]], rows[i], sortKey[e], e)
  <1> DEFINE S == {e \in Listing!Matched(F) : Listing!Past(m, c, e)}
             q == Listing!Sorted(m, S)
             n == Cardinality(S)
             rows == Listing!findPublicEventsPage(F, m, c)
             l == IF n <= Limit + 1 THEN n ELSE Limit + 1
  <1>1. S \in SUBSET Ids /\ Limit \in Nat
    BY CatalogueAssumption DEF CatalogueAssumption, Listing!FeedAssumption, Listing!TypeOK, Listing!Matched
  <1> HIDE DEF S
  <1>2. /\ n \in Nat /\ q \in [1 .. n -> S]
        /\ \A i, j \in 1 .. n :
             i < j => Listing!Precedes(m, sortKey[q[i]], q[i], sortKey[q[j]], q[j])
        /\ \A e \in S : \E i \in 1 .. n : q[i] = e
    BY <1>1, SortedRows
  <1>3. rows = [i \in 1 .. Listing!Min({Len(q), Limit + 1}) |-> q[i]]
    BY DEF Listing!findPublicEventsPage, Listing!First, Listing!fetchLimit, S
  <1> HIDE DEF q, rows, n
  <1>4. q \in Seq(Ids) /\ Len(q) = n
    BY <1>1, <1>2
  <1>5. Listing!Min({n, Limit + 1}) = l
    <2>1. \A i, j \in Nat : Listing!Min({i, j}) = IF i <= j THEN i ELSE j
      BY DEF Listing!Min
    <2> QED BY <1>1, <1>2, <2>1
  <1>6. l \in Nat /\ l <= n /\ l <= Limit + 1 /\ (l = n \/ l = Limit + 1)
    BY <1>1, <1>2
  <1> HIDE DEF l
  <1>7. rows = [i \in 1 .. l |-> q[i]]
    BY <1>3, <1>4, <1>5
  <1>8. \A i \in 1 .. l : i \in 1 .. n /\ rows[i] = q[i] /\ q[i] \in S
    BY <1>2, <1>6, <1>7
  <1>9. rows \in Seq(Ids) /\ Len(rows) = l
    BY <1>1, <1>6, <1>7, <1>8
  <1>10. \A e \in S : (\A i \in 1 .. l : rows[i] # e) =>
           /\ l = Limit + 1
           /\ \A i \in 1 .. l : Listing!Precedes(m, sortKey[rows[i]], rows[i], sortKey[e], e)
    <2>1. ASSUME NEW e \in S, \A i \in 1 .. l : rows[i] # e
          PROVE  /\ l = Limit + 1
                 /\ \A i \in 1 .. l : Listing!Precedes(m, sortKey[rows[i]], rows[i], sortKey[e], e)
      <3>1. PICK j \in 1 .. n : q[j] = e
        BY <1>2
      <3>2. j > l
        BY <1>2, <1>6, <1>8, <2>1, <3>1
      <3>3. l = Limit + 1
        BY <1>1, <1>2, <1>6, <3>1, <3>2
      <3>4. ASSUME NEW i \in 1 .. l
            PROVE  Listing!Precedes(m, sortKey[rows[i]], rows[i], sortKey[e], e)
        <4>1. i < j /\ i \in 1 .. n
          BY <1>2, <1>6, <3>1, <3>2
        <4> QED BY <1>2, <1>8, <3>1, <4>1
      <3> QED BY <3>3, <3>4
    <2> QED BY <2>1
  <1>11. \A i, j \in 1 .. l : i < j =>
           Listing!Precedes(m, sortKey[rows[i]], rows[i], sortKey[rows[j]], rows[j])
    BY <1>2, <1>8
  <1>12. \A e : e \in S <=> e \in Listing!Matched(F) /\ Listing!Past(m, c, e)
    BY DEF S
  <1>13. l \in 0 .. (Limit + 1)
    BY <1>1, <1>6
  <1>14. \A i \in 1 .. l : rows[i] \in Listing!Matched(F) /\ Listing!Past(m, c, rows[i])
    BY <1>8, <1>12
  <1> QED BY <1>9, <1>10, <1>11, <1>12, <1>13, <1>14 DEF rows

\* What the invariant says of a list of events: whether it shows one, and never twice.
Shows(list, e)  == \E i \in 1 .. Len(list) : list[i] = e
OnceIn(list, e) == \A i, j \in 1 .. Len(list) : list[i] = e /\ list[j] = e => i = j

\* Past, for a given sort column.
PastIn(K, m, c, e) == c = NoCursor \/ Listing!Precedes(m, c.key, c.id, K[e], e)

\* An answer shows, of the events read and not edited since, those between its cursor and
\* the next one, each once.
PageSound(K, s) ==
    /\ s.next # NoCursor => s.next.sort = s.sort
    /\ \A e \in s.seen :
         /\ OnceIn(s.items, e)
         /\ Shows(s.items, e) <=> /\ PastIn(K, s.sort, s.cursor, e)
                                  /\ s.next = NoCursor \/ ~ PastIn(K, s.sort, s.next, e)
         /\ s.next # NoCursor /\ PastIn(K, s.sort, s.next, e) => PastIn(K, s.sort, s.cursor, e)

\* The page shows, of the list's events, those up to its cursor, each once.
ListSound(K, S, list, c) ==
    \A e \in S : /\ OnceIn(list, e)
                 /\ Shows(list, e) <=> c = NoCursor \/ ~ PastIn(K, c.sort, c, e)

\* Whoever comes after an event past a cursor is past it too.
LEMMA PastOnwards ==
    ASSUME Listing!TypeOK, NEW m \in Listing!SortMode, NEW c \in Listing!Cursor,
           NEW e \in Ids, NEW f \in Ids
    PROVE  PastIn(sortKey, m, c, e) /\ Listing!Precedes(m, sortKey[e], e, sortKey[f], f)
             => PastIn(sortKey, m, c, f)
  <1>1. CASE c = NoCursor
    BY <1>1 DEF PastIn
  <1>2. CASE c # NoCursor
    <2> DEFINE a == c.key
               b == c.id
               u == sortKey[e]
               v == sortKey[f]
    <2>1. a \in Nat /\ b \in Nat /\ u \in Nat /\ v \in Nat /\ e \in Nat /\ f \in Nat
      BY <1>2, CatalogueAssumption
         DEF CatalogueAssumption, Listing!FeedAssumption, Listing!TypeOK, Listing!Cursor
    <2>2. /\ PastIn(sortKey, m, c, e) <=> Listing!Precedes(m, a, b, u, e)
          /\ PastIn(sortKey, m, c, f) <=> Listing!Precedes(m, a, b, v, f)
      BY <1>2 DEF PastIn
    <2> HIDE DEF a, b, u, v
    <2>3. \A x, y, z, w : Listing!Precedes(m, x, y, z, w)
                           <=> IF m = "asc" THEN x < z \/ (x = z /\ y < w)
                                            ELSE x > z \/ (x = z /\ y > w)
      BY DEF Listing!Precedes
    <2>4. Listing!Precedes(m, a, b, u, e) /\ Listing!Precedes(m, u, e, v, f)
            => Listing!Precedes(m, a, b, v, f)
      <3>1. CASE m = "asc"
        BY <2>1, <2>3, <3>1
      <3>2. CASE m # "asc"
        BY <2>1, <2>3, <3>2
      <3> QED BY <3>1, <3>2
    <2> QED BY <2>2, <2>4 DEF u, v
  <1> QED BY <1>1, <1>2

\* The first rows of a sequence.
LEMMA FirstRows ==
    ASSUME NEW S, NEW q \in Seq(S), NEW n \in Nat
    PROVE  LET p == Listing!First(q, n)
           IN  /\ p \in Seq(S) /\ Len(p) = (IF Len(q) <= n THEN Len(q) ELSE n)
               /\ \A i \in 1 .. Len(p) : i \in 1 .. Len(q) /\ p[i] = q[i]
  <1> DEFINE l == IF Len(q) <= n THEN Len(q) ELSE n
             p == Listing!First(q, n)
  <1>1. Len(q) \in Nat /\ l \in Nat /\ l <= Len(q)
    OBVIOUS
  <1>2. Listing!Min({Len(q), n}) = l
    <2>1. \A i, j \in Nat : Listing!Min({i, j}) = IF i <= j THEN i ELSE j
      BY DEF Listing!Min
    <2> QED BY <1>1, <2>1
  <1>3. p = [i \in 1 .. l |-> q[i]]
    BY <1>2 DEF Listing!First
  <1> HIDE DEF p
  <1>4. \A i \in 1 .. l : i \in 1 .. Len(q) /\ p[i] = q[i] /\ q[i] \in S
    BY <1>1, <1>3
  <1> HIDE DEF l
  <1>5. p \in Seq(S) /\ Len(p) = l
    BY <1>1, <1>3, <1>4
  <1> QED BY <1>4, <1>5 DEF p, l

\* What the server answers.
LEMMA AnswerSound ==
    ASSUME Listing!TypeOK, NEW F \in Filters, NEW m \in Listing!SortMode, NEW c \in Listing!Cursor
    PROVE  LET rows == Listing!findPublicEventsPage(F, m, c)
               list == Listing!First(rows, Limit)
               next == Listing!nextCursor(m, rows)
           IN  /\ list \in Seq(Ids) /\ next \in Listing!Cursor
               /\ next # NoCursor => next.sort = m
               /\ \A e \in Listing!Matched(F) :
                    /\ OnceIn(list, e)
                    /\ Shows(list, e) <=> /\ PastIn(sortKey, m, c, e)
                                          /\ next = NoCursor \/ ~ PastIn(sortKey, m, next, e)
                    /\ next # NoCursor /\ PastIn(sortKey, m, next, e) => PastIn(sortKey, m, c, e)
  <1> DEFINE rows == Listing!findPublicEventsPage(F, m, c)
             list == Listing!First(rows, Limit)
             next == Listing!nextCursor(m, rows)
             Lt(e, f) == Listing!Precedes(m, sortKey[e], e, sortKey[f], f)
             P(e) == PastIn(sortKey, m, c, e)
  <1>1. /\ Listing!Matched(F) \subseteq Ids /\ sortKey \in [Ids -> Keys]
        /\ Limit \in Nat /\ Limit > 0 /\ Limit + 1 \in Nat
        /\ NoCursor \notin [sort : {"asc", "desc"}, key : Keys, id : Ids]
    BY CatalogueAssumption DEF CatalogueAssumption, Listing!FeedAssumption, Listing!TypeOK, Listing!Matched
  <1>2. \A e : Listing!Past(m, c, e) <=> P(e)
    BY DEF Listing!Past, PastIn
  <1>3. /\ rows \in Seq(Ids) /\ Len(rows) \in 0 .. (Limit + 1)
        /\ \A i \in 1 .. Len(rows) : rows[i] \in Listing!Matched(F) /\ P(rows[i])
        /\ \A i, j \in 1 .. Len(rows) : i < j => Lt(rows[i], rows[j])
        /\ \A e \in Listing!Matched(F) : P(e) /\ (\A i \in 1 .. Len(rows) : rows[i] # e) =>
             Len(rows) = Limit + 1 /\ \A i \in 1 .. Len(rows) : Lt(rows[i], e)
    <2>1. /\ rows \in Seq(Ids) /\ Len(rows) \in 0 .. (Limit + 1)
          /\ \A i \in 1 .. Len(rows) : rows[i] \in Listing!Matched(F) /\ Listing!Past(m, c, rows[i])
          /\ \A i, j \in 1 .. Len(rows) : i < j => Lt(rows[i], rows[j])
          /\ \A e \in Listing!Matched(F) : Listing!Past(m, c, e) /\ (\A i \in 1 .. Len(rows) : rows[i] # e) =>
               Len(rows) = Limit + 1 /\ \A i \in 1 .. Len(rows) : Lt(rows[i], e)
      BY PageRows
    <2> HIDE DEF rows, Lt, P
    <2> QED BY <1>2, <2>1
  <1>4. /\ \A e \in Ids : ~ Lt(e, e)
        /\ \A e, f, g \in Ids : Lt(e, f) /\ Lt(f, g) => Lt(e, g)
        /\ \A e, f \in Ids : e = f \/ Lt(e, f) \/ Lt(f, e)
    BY OrderOfEvents
  <1> DEFINE l == Len(rows)
             k == IF l <= Limit THEN l ELSE Limit
  <1>5. /\ list \in Seq(Ids) /\ Len(list) = k
        /\ \A i \in 1 .. k : i \in 1 .. l /\ list[i] = rows[i]
    <2> HIDE DEF rows
    <2> QED BY <1>1, <1>3, FirstRows
  <1>6. next = IF l > Limit THEN [sort |-> m, key |-> sortKey[rows[Limit]], id |-> rows[Limit]]
               ELSE NoCursor
    BY DEF Listing!nextCursor, Listing!sortKeyFor
  <1>7. \A e, f \in Ids : P(e) /\ Lt(e, f) => P(f)
    BY PastOnwards
  <1>8. \A e \in Listing!Matched(F) : OnceIn(list, e)
    <2>1. ASSUME NEW i \in 1 .. k, NEW j \in 1 .. k, list[i] = list[j], i < j PROVE FALSE
      <3>1. rows[i] = rows[j] /\ i \in 1 .. l /\ j \in 1 .. l /\ rows[i] \in Ids
        BY <1>1, <1>3, <1>5, <2>1
      <3>2. Lt(rows[i], rows[j])
        BY <1>3, <2>1, <3>1
      <3> HIDE DEF Lt, rows
      <3> QED BY <1>4, <3>1, <3>2
    <2>2. \A i, j \in 1 .. k : list[i] = list[j] => i = j
      <3>1. k \in Nat
        BY <1>1, <1>3
      <3> HIDE DEF k, list
      <3> QED BY <2>1, <3>1
    <2> QED BY <1>5, <2>2 DEF OnceIn
  <1> HIDE DEF rows, list, next, Lt, P
  <1>9. CASE l <= Limit
    <2>1. next = NoCursor /\ k = l
      <3>1. ~ (l > Limit)
        BY <1>1, <1>3, <1>9
      <3>2. next = NoCursor
        BY <1>6, <3>1
      <3>3. k = l
        BY <1>9
      <3> QED BY <3>2, <3>3
    <2>2. \A e \in Listing!Matched(F) : Shows(list, e) <=> P(e)
      <3>1. ASSUME NEW e \in Listing!Matched(F), Shows(list, e) PROVE P(e)
        BY <1>3, <1>5, <3>1 DEF Shows
      <3>2. ASSUME NEW e \in Listing!Matched(F), P(e) PROVE Shows(list, e)
        <4>1. l # Limit + 1
          BY <1>1, <1>3, <1>9
        <4>2. PICK i \in 1 .. l : rows[i] = e
          BY <1>3, <3>2, <4>1
        <4> QED BY <1>5, <2>1, <4>2 DEF Shows
      <3> QED BY <3>1, <3>2
    <2> QED BY <1>5, <1>8, <2>1, <2>2 DEF P, rows, list, next, Listing!Cursor
  <1>10. CASE ~ (l <= Limit)
    <2> DEFINE r == rows[Limit]
    <2>1. /\ l = Limit + 1 /\ k = Limit /\ Limit \in 1 .. l /\ Limit + 1 \in 1 .. l
          /\ Limit \in 1 .. k
      BY <1>1, <1>3, <1>10
    <2>2. r \in Listing!Matched(F) /\ r \in Ids /\ P(r)
      BY <1>1, <1>3, <2>1
    <2>3. next = [sort |-> m, key |-> sortKey[r], id |-> r]
      BY <1>1, <1>6, <2>1
    <2> HIDE DEF r
    <2>4. /\ next \in [sort : {"asc", "desc"}, key : Keys, id : Ids] /\ next.sort = m
          /\ next # NoCursor
      BY <1>1, <2>2, <2>3 DEF Listing!SortMode
    <2>5. next \in Listing!Cursor
      BY <2>4 DEF Listing!Cursor, Listing!SortMode
    <2>6. \A e : PastIn(sortKey, m, next, e) <=> Lt(r, e)
      BY <2>3, <2>4 DEF PastIn, Lt
    <2>7. ASSUME NEW e \in Listing!Matched(F)
          PROVE  Shows(list, e) <=> P(e) /\ ~ Lt(r, e)
      <3>1. e \in Ids
        BY <1>1
      <3>2. ASSUME Shows(list, e) PROVE P(e) /\ ~ Lt(r, e)
        <4>1. PICK i \in 1 .. k : list[i] = e
          BY <1>5, <3>2 DEF Shows
        <4>2. rows[i] = e /\ i \in 1 .. l
          BY <1>5, <4>1
        <4>3. i = Limit \/ i < Limit
          BY <1>1, <2>1, <4>1
        <4>4. ~ Lt(r, e)
          <5>1. CASE i = Limit
            BY <1>4, <3>1, <4>2, <5>1 DEF r
          <5>2. CASE i < Limit
            <6>1. Lt(e, r)
              BY <1>3, <2>1, <4>2, <5>2 DEF r
            <6> QED BY <1>4, <2>2, <3>1, <6>1
          <5> QED BY <4>3, <5>1, <5>2
        <4> QED BY <1>3, <4>2, <4>4
      <3>3. ASSUME P(e), ~ Lt(r, e) PROVE Shows(list, e)
        <4>1. PICK i \in 1 .. l : rows[i] = e
          BY <1>3, <2>1, <3>3 DEF r
        <4>2. i # Limit + 1
          <5>1. Limit < Limit + 1
            BY <1>1
          <5>2. Lt(r, rows[Limit + 1])
            BY <1>3, <2>1, <5>1 DEF r
          <5> QED BY <3>3, <4>1, <5>2
        <4>3. i \in 1 .. k
          BY <1>1, <2>1, <4>1, <4>2
        <4> QED BY <1>5, <4>1, <4>3 DEF Shows
      <3> QED BY <3>2, <3>3
    <2>8. \A e \in Listing!Matched(F) : Lt(r, e) => P(e)
      BY <1>1, <1>7, <2>2
    <2> QED BY <1>5, <1>8, <2>4, <2>5, <2>6, <2>7, <2>8 DEF P, rows, list, next
  <1> QED BY <1>9, <1>10

\* The events of vis that pass a filter, for a given sort column.
Among(vis, K, f) == {e \in vis : <<e, K[e]>> \in Matching[f]}

\* A search in flight.  While nothing overlaps it is the only one, and it asks for what
\* comes after the list on screen; under the list's filter b it reads all of that.
SearchSound(K, vis, c, S, b, over, s) ==
    /\ s.seen \subseteq Among(vis, K, s.filter)
    /\ s.reset => s.cursor = NoCursor
    /\ s.state = "answered" => PageSound(K, s) /\ (s.cursor = NoCursor \/ s.cursor.sort = s.sort)
    /\ ~ over /\ ~ s.reset => /\ s.cursor = c /\ c # NoCursor
                              /\ s.state = "answered" /\ s.filter = b => S \subseteq s.seen

ListingInv ==
    /\ Listing!TypeOK
    /\ hasMore <=> cursor # NoCursor
    /\ ~ overlapped => Len(searches) <= 1
    /\ steady \subseteq Among(visible, sortKey, began)
    /\ Listing!NeverStuckLoading
    /\ \A i \in 1 .. Len(searches) :
         SearchSound(sortKey, visible, cursor, steady, began, overlapped, searches[i])
    /\ ~ overlapped /\ ~ mixed => ListSound(sortKey, steady, items, cursor)

LEMMA ListingStarts == ASSUME Listing!Init PROVE ListingInv
  <1> DEFINE s == [reset |-> TRUE, filter |-> Listing!NoFilter, sort |-> "asc", cursor |-> NoCursor,
                   state |-> "sent", items |-> <<>>, next |-> NoCursor, seen |-> {}]
  <1>1. /\ searches = <<s>> /\ steady = {} /\ overlapped = FALSE /\ writes = 0 /\ sort = "asc"
        /\ items = <<>> /\ cursor = NoCursor /\ hasMore = FALSE /\ loading = TRUE
        /\ loadingMore = FALSE /\ error = FALSE /\ mixed = FALSE
        /\ filter = Listing!NoFilter /\ began = Listing!NoFilter /\ visible \subseteq Ids /\ sortKey \in [Ids -> Keys]
    BY DEF Listing!Init
  <1>N. Listing!NoFilter \in Filters
    BY CatalogueAssumption DEF CatalogueAssumption, Listing!FeedAssumption
  <1>2. s \in Listing!Search
    BY <1>N DEF Listing!Search, Listing!Cursor, Listing!SortMode
  <1>3. /\ s.seen = {} /\ s.reset /\ s.cursor = NoCursor /\ s.state = "sent"
    OBVIOUS
  <1> HIDE DEF s
  <1>4. Len(searches) = 1 /\ searches[1] = s /\ searches \in Seq(Listing!Search) /\ searches # <<>>
    BY <1>1, <1>2
  <1>5. Listing!TypeOK
    <2>1. MaxWrites \in Nat
      BY CatalogueAssumption DEF CatalogueAssumption, Listing!FeedAssumption
    <2>2. 0 \in 0 .. MaxWrites /\ <<>> \in Seq(Ids) /\ steady \subseteq Ids
      BY <1>1, <2>1
    <2>3. {hasMore, loading, loadingMore, error, overlapped, mixed} \subseteq BOOLEAN
      BY <1>1
    <2>4. /\ cursor \in Listing!Cursor /\ sort \in Listing!SortMode
          /\ filter \in Filters /\ began \in Filters
      BY <1>1, <1>N DEF Listing!Cursor, Listing!SortMode
    <2> QED BY <1>1, <1>4, <2>2, <2>3, <2>4 DEF Listing!TypeOK
  <1>6. SearchSound(sortKey, visible, cursor, steady, began, overlapped, s)
    BY <1>1, <1>3 DEF SearchSound
  <1>7. ListSound(sortKey, steady, items, cursor)
    BY <1>1 DEF ListSound
  <1> QED BY <1>1, <1>4, <1>5, <1>6, <1>7 DEF ListingInv, Listing!NeverStuckLoading

\* A list put behind another: an event of either is in it, and twice only if it is in both.
LEMMA ShownTogether ==
    ASSUME NEW S, NEW p \in Seq(S), NEW q \in Seq(S)
    PROVE  /\ p \o q \in Seq(S)
           /\ \A e : Shows(p \o q, e) <=> Shows(p, e) \/ Shows(q, e)
           /\ \A e : OnceIn(p, e) /\ OnceIn(q, e) /\ ~ (Shows(p, e) /\ Shows(q, e))
                       => OnceIn(p \o q, e)
  <1> DEFINE n == Len(p)
             m == Len(q)
             w == p \o q
  <1>1. n \in Nat /\ m \in Nat /\ w \in Seq(S) /\ Len(w) = n + m
    OBVIOUS
  <1>2. /\ \A i \in 1 .. n : w[i] = p[i]
        /\ \A i \in 1 .. m : w[n + i] = q[i]
    OBVIOUS
  <1> HIDE DEF w, n, m
  <1>3. ASSUME NEW i \in 1 .. n + m
        PROVE  \/ i \in 1 .. n
               \/ i - n \in 1 .. m /\ i = n + (i - n)
    BY <1>1
  <1>4. /\ \A i \in 1 .. n : i \in 1 .. n + m
        /\ \A i \in 1 .. m : n + i \in 1 .. n + m
    BY <1>1
  <1>5. \A e : Shows(w, e) <=> Shows(p, e) \/ Shows(q, e)
    <2>1. ASSUME NEW e, Shows(w, e) PROVE Shows(p, e) \/ Shows(q, e)
      <3>1. PICK i \in 1 .. n + m : w[i] = e
        BY <1>1, <2>1 DEF Shows
      <3>2. CASE i \in 1 .. n
        BY <1>2, <3>1, <3>2 DEF Shows, n
      <3>3. CASE i - n \in 1 .. m /\ i = n + (i - n)
        <4>1. q[i - n] = e
          BY <1>2, <3>1, <3>3
        <4> QED BY <3>3, <4>1 DEF Shows, m
      <3> QED BY <1>3, <3>2, <3>3
    <2>2. ASSUME NEW e, Shows(p, e) PROVE Shows(w, e)
      <3>1. PICK i \in 1 .. n : p[i] = e
        BY <2>2 DEF Shows, n
      <3>2. w[i] = e /\ i \in 1 .. Len(w)
        BY <1>1, <1>2, <1>4, <3>1
      <3> QED BY <3>2 DEF Shows
    <2>3. ASSUME NEW e, Shows(q, e) PROVE Shows(w, e)
      <3>1. PICK i \in 1 .. m : q[i] = e
        BY <2>3 DEF Shows, m
      <3>2. w[n + i] = e /\ n + i \in 1 .. Len(w)
        BY <1>1, <1>2, <1>4, <3>1
      <3> QED BY <3>2 DEF Shows
    <2> QED BY <2>1, <2>2, <2>3
  <1>6. ASSUME NEW e, OnceIn(p, e), OnceIn(q, e), ~ (Shows(p, e) /\ Shows(q, e))
        PROVE  OnceIn(w, e)
    <2>1. ASSUME NEW i \in 1 .. n + m, NEW j \in 1 .. n + m, w[i] = e, w[j] = e PROVE i = j
      <3>1. CASE i \in 1 .. n /\ j \in 1 .. n
        <4>1. p[i] = e /\ p[j] = e
          BY <1>2, <2>1, <3>1
        <4> QED BY <1>6, <3>1, <4>1 DEF OnceIn, n
      <3>2. CASE /\ i - n \in 1 .. m /\ i = n + (i - n)
                 /\ j - n \in 1 .. m /\ j = n + (j - n)
        <4>1. q[i - n] = e /\ q[j - n] = e
          BY <1>2, <2>1, <3>2
        <4>2. i - n = j - n
          BY <1>6, <3>2, <4>1 DEF OnceIn, m
        <4> QED BY <3>2, <4>2
      <3>3. ASSUME NEW x \in 1 .. n, NEW y, y - n \in 1 .. m, y = n + (y - n), w[x] = e, w[y] = e
            PROVE  FALSE
        <4>1. p[x] = e /\ q[y - n] = e
          BY <1>2, <3>3
        <4> QED BY <1>6, <3>3, <4>1 DEF Shows, n, m
      <3> QED BY <1>3, <2>1, <3>1, <3>2, <3>3
    <2> QED BY <1>1, <2>1 DEF OnceIn
  <1> QED BY <1>1, <1>5, <1>6 DEF w

LEMMA ListingTypes ==
    ASSUME ListingInv
    PROVE  /\ visible \subseteq Ids /\ sortKey \in [Ids -> Keys] /\ sort \in Listing!SortMode
           /\ items \in Seq(Ids) /\ cursor \in Listing!Cursor
           /\ hasMore \in BOOLEAN /\ loading \in BOOLEAN /\ loadingMore \in BOOLEAN
           /\ filter \in Filters /\ began \in Filters /\ error \in BOOLEAN
           /\ overlapped \in BOOLEAN /\ mixed \in BOOLEAN
           /\ searches \in Seq(Listing!Search) /\ Len(searches) \in Nat
           /\ DOMAIN searches = 1 .. Len(searches)
           /\ \A i \in 1 .. Len(searches) : searches[i] \in Listing!Search
           /\ steady \subseteq Ids /\ writes \in 0 .. MaxWrites /\ MaxWrites \in Nat
  <1>1. MaxWrites \in Nat
    BY CatalogueAssumption DEF CatalogueAssumption, Listing!FeedAssumption
  <1>2. /\ searches \in Seq(Listing!Search) /\ {hasMore, loading, loadingMore, error, overlapped, mixed} \subseteq BOOLEAN
        /\ visible \subseteq Ids /\ sortKey \in [Ids -> Keys] /\ sort \in Listing!SortMode
        /\ items \in Seq(Ids) /\ cursor \in Listing!Cursor
        /\ filter \in Filters /\ began \in Filters
        /\ steady \subseteq Ids /\ writes \in 0 .. MaxWrites
    BY DEF ListingInv, Listing!TypeOK
  <1>3. /\ Len(searches) \in Nat /\ DOMAIN searches = 1 .. Len(searches)
        /\ \A i \in 1 .. Len(searches) : searches[i] \in Listing!Search
    BY <1>2
  <1> QED BY <1>1, <1>2, <1>3

\* An edit takes the event out of the histories, so what they say stands.
LEMMA PageStays ==
    ASSUME NEW K, NEW L, NEW s, NEW t, PageSound(K, s), t.seen \subseteq s.seen,
           t.items = s.items, t.next = s.next, t.sort = s.sort, t.cursor = s.cursor,
           \A e \in t.seen : L[e] = K[e]
    PROVE  PageSound(L, t)
  <1>1. \A e \in t.seen : \A m, c : PastIn(L, m, c, e) <=> PastIn(K, m, c, e)
    BY DEF PastIn
  <1> QED BY <1>1 DEF PageSound

LEMMA ListStays ==
    ASSUME NEW K, NEW L, NEW S, NEW T, NEW list, NEW c, ListSound(K, S, list, c),
           T \subseteq S, \A e \in T : L[e] = K[e]
    PROVE  ListSound(L, T, list, c)
  <1>1. \A e \in T : \A m, d : PastIn(L, m, d, e) <=> PastIn(K, m, d, e)
    BY DEF PastIn
  <1> QED BY <1>1 DEF ListSound

\* The server answers a search, or refuses its cursor.
LEMMA AnswerKeeps ==
    ASSUME ListingInv, NEW i \in 1 .. Len(searches), Listing!listPublicEvents(i)
    PROVE  ListingInv'
  <1> DEFINE s == searches[i]
             rows == Listing!findPublicEventsPage(s.filter, s.sort, s.cursor)
             list == Listing!First(rows, Limit)
             next == Listing!nextCursor(s.sort, rows)
             t == IF Listing!decodedCursor(s)
                  THEN [s EXCEPT !.state = "answered", !.items = list, !.next = next,
                                 !.seen = Listing!Matched(s.filter)]
                  ELSE [s EXCEPT !.state = "refused"]
  <1>1. /\ searches' = [searches EXCEPT ![i] = t]
        /\ UNCHANGED <<visible, sortKey, filter, sort, items, cursor, hasMore, loading,
                       loadingMore, error, began, steady, overlapped, mixed, writes>>
    BY DEF Listing!listPublicEvents, Listing!page, Listing!history
  <1>2. s \in Listing!Search /\ searches \in Seq(Listing!Search) /\ visible \subseteq Ids
        /\ DOMAIN searches = 1 .. Len(searches) /\ Len(searches) \in Nat
    BY ListingTypes
  <1>3. /\ s.sort \in Listing!SortMode /\ s.cursor \in Listing!Cursor /\ s.filter \in Filters
        /\ Listing!Matched(s.filter) = Among(visible, sortKey, s.filter)
        /\ Listing!Matched(s.filter) \subseteq Ids
    BY <1>2 DEF Listing!Search, Listing!Matched, Among
  <1>4. /\ list \in Seq(Ids) /\ next \in Listing!Cursor
        /\ next # NoCursor => next.sort = s.sort
        /\ \A e \in Listing!Matched(s.filter) :
             /\ OnceIn(list, e)
             /\ Shows(list, e) <=> /\ PastIn(sortKey, s.sort, s.cursor, e)
                                   /\ next = NoCursor \/ ~ PastIn(sortKey, s.sort, next, e)
             /\ next # NoCursor /\ PastIn(sortKey, s.sort, next, e)
                  => PastIn(sortKey, s.sort, s.cursor, e)
    BY <1>3, AnswerSound DEF ListingInv
  <1> HIDE DEF list, next
  <1>5. /\ t \in Listing!Search
        /\ t.reset = s.reset /\ t.filter = s.filter /\ t.cursor = s.cursor /\ t.sort = s.sort
        /\ t.state = "answered" => /\ Listing!decodedCursor(s) /\ t.items = list /\ t.next = next
                                   /\ t.seen = Listing!Matched(s.filter)
        /\ t.seen = Listing!Matched(s.filter) \/ t.seen = s.seen
    <2>1. CASE Listing!decodedCursor(s)
      BY <1>2, <1>3, <1>4, <2>1 DEF Listing!Search
    <2>2. CASE ~ Listing!decodedCursor(s)
      BY <1>2, <2>2 DEF Listing!Search
    <2> QED BY <2>1, <2>2
  <1> HIDE DEF t
  <1>6. /\ searches' \in Seq(Listing!Search) /\ Len(searches') = Len(searches) /\ searches'[i] = t
        /\ \A j \in 1 .. Len(searches) : j # i => searches'[j] = searches[j]
    BY <1>1, <1>2, <1>5
  <1>7. SearchSound(sortKey, visible, cursor, steady, began, overlapped, t)
    <2>1. SearchSound(sortKey, visible, cursor, steady, began, overlapped, s)
      BY DEF ListingInv
    <2>2. t.state = "answered" =>
            PageSound(sortKey, t) /\ (t.cursor = NoCursor \/ t.cursor.sort = t.sort)
      BY <1>4, <1>5 DEF PageSound, Listing!decodedCursor
    <2>3. /\ t.seen \subseteq Among(visible, sortKey, t.filter)
          /\ t.state = "answered" /\ t.filter = began => steady \subseteq t.seen
      BY <1>3, <1>5, <2>1 DEF ListingInv, SearchSound
    <2> HIDE DEF s
    <2> QED BY <1>5, <2>1, <2>2, <2>3 DEF SearchSound
  <1>8. Listing!TypeOK'
    BY <1>1, <1>6 DEF ListingInv, Listing!TypeOK
  <1>9. \A j \in 1 .. Len(searches') :
          SearchSound(sortKey', visible', cursor', steady', began', overlapped', searches'[j])
    BY <1>1, <1>6, <1>7 DEF ListingInv
  <1>10. Listing!NeverStuckLoading'
    <2>1. searches # <<>> /\ searches' # <<>>
      BY <1>2, <1>6
    <2> QED BY <2>1 DEF Listing!NeverStuckLoading
  <1> QED BY <1>1, <1>6, <1>8, <1>9, <1>10 DEF ListingInv

\* An event becomes visible.
LEMMA PublishKeeps ==
    ASSUME ListingInv, NEW e \in Ids, Listing!Publish(e) PROVE ListingInv'
  <1>1. /\ visible' = visible \cup {e} /\ writes' = writes + 1 /\ writes < MaxWrites
        /\ UNCHANGED <<sortKey, filter, sort, items, cursor, hasMore, loading, loadingMore, error,
                       searches, began, steady, overlapped, mixed>>
    BY DEF Listing!Publish, Listing!page, Listing!history
  <1>2. writes' \in 0 .. MaxWrites
    BY <1>1, ListingTypes
  <1>3. Listing!TypeOK'
    BY <1>1, <1>2 DEF ListingInv, Listing!TypeOK
  <1>4. \A j \in 1 .. Len(searches') :
          SearchSound(sortKey', visible', cursor', steady', began', overlapped', searches'[j])
    <2>1. \A f : Among(visible, sortKey, f) \subseteq Among(visible', sortKey', f)
      BY <1>1 DEF Among
    <2> QED BY <1>1, <2>1 DEF ListingInv, SearchSound
  <1>5. Listing!NeverStuckLoading'
    BY <1>1 DEF ListingInv, Listing!NeverStuckLoading
  <1>6. steady' \subseteq Among(visible', sortKey', began')
    BY <1>1 DEF ListingInv, Among
  <1> QED BY <1>1, <1>3, <1>4, <1>5, <1>6 DEF ListingInv

\* An event is renamed or rescheduled: it leaves every history.
LEMMA EditKeeps ==
    ASSUME ListingInv, NEW e \in Ids, NEW k \in Keys, Listing!Edit(e, k) PROVE ListingInv'
  <1>1. /\ sortKey' = [sortKey EXCEPT ![e] = k] /\ steady' = steady \ {e}
        /\ searches' = [i \in DOMAIN searches |-> [searches[i] EXCEPT !.seen = @ \ {e}]]
        /\ writes' = writes + 1 /\ writes < MaxWrites
        /\ UNCHANGED <<visible, filter, sort, items, cursor, hasMore, loading, loadingMore, error,
                       began, overlapped, mixed>>
    BY DEF Listing!Edit, Listing!page
  <1>2. /\ writes' \in 0 .. MaxWrites /\ sortKey' \in [Ids -> Keys] /\ steady' \subseteq Ids
        /\ \A f \in Ids : f # e => sortKey'[f] = sortKey[f]
    BY <1>1, ListingTypes
  <1> DEFINE t(i) == [searches[i] EXCEPT !.seen = @ \ {e}]
  <1>3. \A i \in 1 .. Len(searches) :
          /\ t(i) \in Listing!Search /\ t(i).seen = searches[i].seen \ {e}
          /\ t(i).seen \subseteq Ids
          /\ t(i).reset = searches[i].reset /\ t(i).cursor = searches[i].cursor
          /\ t(i).filter = searches[i].filter
          /\ t(i).sort = searches[i].sort /\ t(i).state = searches[i].state
          /\ t(i).items = searches[i].items /\ t(i).next = searches[i].next
    BY ListingTypes DEF Listing!Search
  <1>4. /\ searches' = [i \in 1 .. Len(searches) |-> t(i)] /\ Len(searches) \in Nat
    BY <1>1, ListingTypes
  <1> HIDE DEF t
  <1>5. /\ searches' \in Seq(Listing!Search) /\ Len(searches') = Len(searches)
        /\ \A i \in 1 .. Len(searches) : searches'[i] = t(i)
    BY <1>3, <1>4
  <1>6. Listing!TypeOK'
    BY <1>1, <1>2, <1>5 DEF ListingInv, Listing!TypeOK
  <1>7. ASSUME NEW i \in 1 .. Len(searches)
        PROVE  SearchSound(sortKey', visible', cursor', steady', began', overlapped', t(i))
    <2>1. SearchSound(sortKey, visible, cursor, steady, began, overlapped, searches[i])
      BY DEF ListingInv
    <2>2. \A f \in t(i).seen : sortKey'[f] = sortKey[f]
      BY <1>2, <1>3
    <2>3. PageSound(sortKey, searches[i]) => PageSound(sortKey', t(i))
      <3>1. t(i).seen \subseteq searches[i].seen
        BY <1>3
      <3> QED BY <1>3, <2>2, <3>1, PageStays
    <2>4. t(i).seen \subseteq Among(visible', sortKey', t(i).filter)
      BY <1>1, <1>3, <2>1, <2>2 DEF SearchSound, Among
    <2> QED BY <1>1, <1>3, <2>1, <2>3, <2>4 DEF SearchSound
  <1>8. ~ overlapped' /\ ~ mixed' => ListSound(sortKey', steady', items', cursor')
    <2>1. ~ overlapped /\ ~ mixed => ListSound(sortKey, steady, items, cursor)
      BY DEF ListingInv
    <2>2. steady' \subseteq steady /\ \A f \in steady' : sortKey'[f] = sortKey[f]
      BY <1>1, <1>2
    <2> QED BY <1>1, <2>1, <2>2, ListStays
  <1>9. Listing!NeverStuckLoading'
    <2>1. searches' = <<>> => searches = <<>>
      BY <1>5, ListingTypes
    <2> QED BY <1>1, <2>1 DEF ListingInv, Listing!NeverStuckLoading
  <1>10. steady' \subseteq Among(visible', sortKey', began')
    BY <1>1, <1>2, ListingTypes DEF ListingInv, Among
  <1> QED BY <1>1, <1>5, <1>6, <1>7, <1>8, <1>9, <1>10 DEF ListingInv

\* A search that ends leaves the others.
LEMMA RemoveAtMoves ==
    ASSUME NEW S, NEW p \in Seq(S), NEW i \in 1 .. Len(p)
    PROVE  /\ Listing!RemoveAt(p, i) \in Seq(S) /\ Len(Listing!RemoveAt(p, i)) = Len(p) - 1
           /\ \A j \in DOMAIN Listing!RemoveAt(p, i) : \E k \in DOMAIN p : Listing!RemoveAt(p, i)[j] = p[k]
  <1> DEFINE low == SubSeq(p, 1, i - 1)
             high == SubSeq(p, i + 1, Len(p))
  <1>1. Listing!RemoveAt(p, i) = low \o high
    BY DEF Listing!RemoveAt
  <1>2. /\ low \in Seq(S) /\ Len(low) = i - 1 /\ Len(p) \in Nat /\ DOMAIN p = 1 .. Len(p)
        /\ \A j \in 1 .. i - 1 : low[j] = p[j]
    OBVIOUS
  <1>3. /\ high \in Seq(S) /\ Len(high) = Len(p) - i
        /\ \A j \in 1 .. Len(p) - i : high[j] = p[i + j]
    OBVIOUS
  <1> HIDE DEF low, high
  <1>4. /\ low \o high \in Seq(S) /\ Len(low \o high) = Len(p) - 1
        /\ DOMAIN (low \o high) = 1 .. Len(p) - 1
    <2>1. low \in Seq(S) /\ high \in Seq(S)
      BY <1>2, <1>3
    <2>2. low \o high \in Seq(S)
      BY <2>1
    <2>3. Len(low \o high) = Len(low) + Len(high)
      BY <2>1
    <2>4. DOMAIN (low \o high) = 1 .. Len(low \o high)
      BY <2>2
    <2>5. Len(low) + Len(high) = Len(p) - 1
      BY <1>2, <1>3
    <2> QED BY <2>2, <2>3, <2>4, <2>5
  <1>5. ASSUME NEW j \in 1 .. Len(p) - 1 PROVE \E k \in DOMAIN p : (low \o high)[j] = p[k]
    <2>1. CASE j <= i - 1
      <3>1. j \in 1 .. i - 1 /\ j \in 1 .. Len(p)
        BY <1>2, <2>1
      <3>2. (low \o high)[j] = low[j]
        BY <1>2, <1>3, <3>1
      <3> QED BY <1>2, <3>1, <3>2
    <2>2. CASE j > i - 1
      <3>1. j - (i - 1) \in 1 .. Len(p) - i /\ i + (j - (i - 1)) \in 1 .. Len(p)
        BY <1>2, <2>2
      <3>2. (low \o high)[j] = high[j - (i - 1)]
        BY <1>2, <1>3, <2>2
      <3> QED BY <1>2, <1>3, <3>1, <3>2
    <2>3. j <= i - 1 \/ j > i - 1
      BY <1>2
    <2> QED BY <2>1, <2>2, <2>3
  <1> QED BY <1>1, <1>4, <1>5

\* A search is sent.  What it asks for is the next page only if there is one to ask for.
LEMMA SendKeeps ==
    ASSUME ListingInv, NEW reset \in BOOLEAN, NEW f \in Filters, NEW mode \in Listing!SortMode,
           ~ reset => hasMore, Listing!runSearch(reset, f, mode),
           filter' \in Filters, sort' \in Listing!SortMode
    PROVE  ListingInv'
  <1> DEFINE s == [reset |-> reset, filter |-> f, sort |-> mode,
                   cursor |-> IF reset THEN NoCursor ELSE cursor,
                   state |-> "sent", items |-> <<>>, next |-> NoCursor, seen |-> {}]
  <1>1. /\ searches' = Append(searches, s)
        /\ overlapped' = (overlapped \/ searches # <<>>)
        /\ loading' = (loading \/ reset) /\ loadingMore' = (loadingMore \/ ~ reset)
        /\ error' = (error /\ ~ reset)
        /\ UNCHANGED <<visible, sortKey, items, cursor, hasMore, began, steady, mixed, writes>>
    BY DEF Listing!runSearch
  <1>2. s \in Listing!Search
    <2>1. cursor \in Listing!Cursor /\ NoCursor \in Listing!Cursor
      BY ListingTypes DEF Listing!Cursor
    <2> QED BY <2>1 DEF Listing!Search
  <1>3. /\ s.seen = {} /\ s.state = "sent" /\ s.reset = reset
        /\ s.cursor = IF reset THEN NoCursor ELSE cursor
    OBVIOUS
  <1> HIDE DEF s
  <1>4. /\ searches' \in Seq(Listing!Search) /\ Len(searches') = Len(searches) + 1
        /\ searches'[Len(searches) + 1] = s
        /\ \A i \in 1 .. Len(searches) : searches'[i] = searches[i]
        /\ Len(searches) \in Nat /\ (Len(searches) = 0 <=> searches = <<>>)
        /\ searches' # <<>>
    BY <1>1, <1>2, ListingTypes
  <1>5. /\ overlapped' \in BOOLEAN /\ loading' \in BOOLEAN /\ loadingMore' \in BOOLEAN
        /\ {hasMore', loading', loadingMore', error', overlapped', mixed'} \subseteq BOOLEAN
    BY <1>1, ListingTypes
  <1>6. Listing!TypeOK'
    BY <1>1, <1>4, <1>5 DEF ListingInv, Listing!TypeOK
  <1>7. SearchSound(sortKey', visible', cursor', steady', began', overlapped', s)
    BY <1>1, <1>3 DEF SearchSound, ListingInv
  <1>8. ASSUME NEW i \in 1 .. Len(searches)
        PROVE  SearchSound(sortKey', visible', cursor', steady', began', overlapped', searches[i])
    <2>1. SearchSound(sortKey, visible, cursor, steady, began, overlapped, searches[i])
      BY DEF ListingInv
    <2>2. overlapped'
      <3>1. searches # <<>>
        BY <1>4
      <3> QED BY <1>1, <3>1, Zenon
    <2> QED BY <1>1, <2>1, <2>2 DEF SearchSound
  <1>9. \A i \in 1 .. Len(searches') :
          SearchSound(sortKey', visible', cursor', steady', began', overlapped', searches'[i])
    <2>1. \A i \in 1 .. Len(searches') : i \in 1 .. Len(searches) \/ i = Len(searches) + 1
      BY <1>4
    <2> QED BY <1>4, <1>7, <1>8, <2>1
  <1>10. ~ overlapped' => Len(searches') <= 1
    <2>1. CASE searches = <<>>
      BY <1>4, <2>1
    <2>2. CASE searches # <<>>
      <3>1. overlapped'
        BY <1>1, <2>2, Zenon
      <3> QED BY <3>1
    <2> QED BY <2>1, <2>2
  <1>11. Listing!NeverStuckLoading'
    BY <1>4 DEF Listing!NeverStuckLoading
  <1>12. ~ overlapped' /\ ~ mixed' => ListSound(sortKey', steady', items', cursor')
    BY <1>1 DEF ListingInv
  <1> QED BY <1>1, <1>6, <1>9, <1>10, <1>11, <1>12 DEF ListingInv

\* A search ends: the others stay as they are.
LEMMA SearchEnds ==
    ASSUME ListingInv, NEW i \in 1 .. Len(searches)
    PROVE  LET rest == Listing!RemoveAt(searches, i)
           IN  /\ rest \in Seq(Listing!Search) /\ Len(rest) = Len(searches) - 1
               /\ Len(searches) \in Nat
               /\ \A j \in 1 .. Len(rest) : \E k \in 1 .. Len(searches) : rest[j] = searches[k]
  <1>1. searches \in Seq(Listing!Search) /\ DOMAIN searches = 1 .. Len(searches) /\ Len(searches) \in Nat
    BY ListingTypes
  <1> DEFINE rest == Listing!RemoveAt(searches, i)
  <1>2. /\ rest \in Seq(Listing!Search) /\ Len(rest) = Len(searches) - 1
        /\ \A j \in DOMAIN rest : \E k \in DOMAIN searches : rest[j] = searches[k]
    BY <1>1, RemoveAtMoves, ZenonT(60)
  <1> HIDE DEF rest
  <1>3. DOMAIN rest = 1 .. Len(rest)
    BY <1>2
  <1> QED BY <1>1, <1>2, <1>3 DEF rest

\* A search is refused, or its request fails.
LEMMA FailKeeps ==
    ASSUME ListingInv, NEW i \in 1 .. Len(searches), Listing!Fail(i)
    PROVE  ListingInv'
  <1>1. /\ searches' = Listing!RemoveAt(searches, i) /\ loading' = FALSE /\ loadingMore' = FALSE
        /\ error' = TRUE
        /\ UNCHANGED <<visible, sortKey, filter, sort, items, cursor, hasMore, began, steady,
                       overlapped, mixed, writes>>
    BY DEF Listing!Fail, Listing!Finally, Listing!history
  <1>2. /\ searches' \in Seq(Listing!Search) /\ Len(searches') = Len(searches) - 1
        /\ Len(searches) \in Nat
        /\ \A j \in 1 .. Len(searches') : \E k \in 1 .. Len(searches) : searches'[j] = searches[k]
    BY <1>1, SearchEnds
  <1>3. {hasMore', loading', loadingMore', error', overlapped', mixed'} \subseteq BOOLEAN
    BY <1>1, ListingTypes
  <1>4. Listing!TypeOK'
    BY <1>1, <1>2, <1>3 DEF ListingInv, Listing!TypeOK
  <1>5. \A j \in 1 .. Len(searches') :
          SearchSound(sortKey', visible', cursor', steady', began', overlapped', searches'[j])
    <2>1. \A k \in 1 .. Len(searches) :
            SearchSound(sortKey, visible, cursor, steady, began, overlapped, searches[k])
      BY DEF ListingInv
    <2> QED BY <1>1, <1>2, <2>1
  <1>6. ~ overlapped' => Len(searches') <= 1
    <2>1. ~ overlapped => Len(searches) <= 1
      BY DEF ListingInv
    <2> QED BY <1>1, <1>2, <2>1
  <1>7. Listing!NeverStuckLoading'
    BY <1>1 DEF Listing!NeverStuckLoading
  <1>8. ~ overlapped' /\ ~ mixed' => ListSound(sortKey', steady', items', cursor')
    BY <1>1 DEF ListingInv
  <1> QED BY <1>1, <1>4, <1>5, <1>6, <1>7, <1>8 DEF ListingInv

\* An answer arrives.  A first page begins the list; a further one, if it is the only
\* search, continues it from its cursor.
LEMMA ReceiveKeeps ==
    ASSUME ListingInv, NEW i \in 1 .. Len(searches), Listing!Receive(i)
    PROVE  ListingInv'
  <1> DEFINE s == searches[i]
  <1>1. /\ s.state = "answered"
        /\ items' = (IF s.reset THEN s.items ELSE items \o s.items)
        /\ cursor' = s.next /\ hasMore' = (s.next # NoCursor)
        /\ searches' = Listing!RemoveAt(searches, i) /\ loading' = FALSE /\ loadingMore' = FALSE
        /\ steady' = (IF s.reset THEN s.seen ELSE steady)
        /\ began' = (IF s.reset THEN s.filter ELSE began)
        /\ overlapped' = (IF s.reset THEN Len(searches) > 1 ELSE overlapped)
        /\ mixed' = (~ s.reset /\ (mixed \/ s.filter # began))
        /\ UNCHANGED <<visible, sortKey, filter, sort, error, writes>>
    BY DEF Listing!Receive, Listing!Finally, Listing!shown
  <1>2. /\ searches' \in Seq(Listing!Search) /\ Len(searches') = Len(searches) - 1
        /\ Len(searches) \in Nat
        /\ \A j \in 1 .. Len(searches') : \E k \in 1 .. Len(searches) : searches'[j] = searches[k]
    BY <1>1, SearchEnds
  <1>3. /\ s \in Listing!Search /\ s.reset \in BOOLEAN /\ s.items \in Seq(Ids)
        /\ s.next \in Listing!Cursor /\ s.seen \subseteq Ids /\ s.filter \in Filters
    <2>1. s \in Listing!Search
      BY ListingTypes
    <2> HIDE DEF s
    <2> QED BY <2>1 DEF Listing!Search
  <1>4. /\ SearchSound(sortKey, visible, cursor, steady, began, overlapped, s)
        /\ PageSound(sortKey, s) /\ (s.cursor = NoCursor \/ s.cursor.sort = s.sort)
        /\ s.seen \subseteq Among(visible, sortKey, s.filter)
        /\ s.reset => s.cursor = NoCursor
        /\ ~ overlapped /\ ~ s.reset => /\ s.cursor = cursor /\ cursor # NoCursor
                                        /\ s.filter = began => steady \subseteq s.seen
    <2>1. SearchSound(sortKey, visible, cursor, steady, began, overlapped, s)
      BY DEF ListingInv
    <2> HIDE DEF s
    <2> QED BY <1>1, <2>1 DEF SearchSound
  <1>5. /\ items \in Seq(Ids) /\ steady \subseteq Among(visible, sortKey, began)
        /\ steady \subseteq Ids
        /\ overlapped \in BOOLEAN /\ mixed \in BOOLEAN /\ error \in BOOLEAN
        /\ began \in Filters /\ filter \in Filters
        /\ ~ overlapped => Len(searches) <= 1
        /\ ~ overlapped /\ ~ mixed => ListSound(sortKey, steady, items, cursor)
    BY ListingTypes DEF ListingInv
  <1>6. \A k \in 1 .. Len(searches) :
          SearchSound(sortKey, visible, cursor, steady, began, overlapped, searches[k])
    BY DEF ListingInv
  <1> HIDE DEF s
  <1>7. Listing!TypeOK'
    <2>1. items' \in Seq(Ids) /\ steady' \subseteq Ids /\ began' \in Filters
      BY <1>1, <1>3, <1>5, ShownTogether
    <2>2. overlapped' \in BOOLEAN
      <3>1. CASE s.reset
        BY <1>1, <3>1
      <3>2. CASE ~ s.reset
        BY <1>1, <1>5, <3>2
      <3> QED BY <3>1, <3>2
    <2>3. {hasMore', loading', loadingMore', error', overlapped', mixed'} \subseteq BOOLEAN
      BY <1>1, <1>5, <2>2
    <2> QED BY <1>1, <1>2, <1>3, <2>1, <2>3 DEF ListingInv, Listing!TypeOK
  <1>8. ~ overlapped' => Len(searches') = 0
    BY <1>1, <1>2, <1>5
  <1>9. \A j \in 1 .. Len(searches') :
          SearchSound(sortKey', visible', cursor', steady', began', overlapped', searches'[j])
    <2>1. ASSUME NEW j \in 1 .. Len(searches')
          PROVE  SearchSound(sortKey', visible', cursor', steady', began', overlapped', searches'[j])
      <3>1. overlapped'
        BY <1>8
      <3>2. SearchSound(sortKey, visible, cursor, steady, began, overlapped, searches'[j])
        BY <1>2, <1>6
      <3> QED BY <1>1, <3>1, <3>2 DEF SearchSound
    <2> QED BY <2>1
  <1>10. ASSUME ~ overlapped', ~ mixed' PROVE ListSound(sortKey', steady', items', cursor')
    <2>1. CASE s.reset
      <3>1. \A e : PastIn(sortKey, s.sort, s.cursor, e)
        BY <1>4, <2>1 DEF PastIn
      <3>2. ListSound(sortKey, s.seen, s.items, s.next)
        BY <1>4, <3>1 DEF PageSound, ListSound
      <3> QED BY <1>1, <2>1, <3>2
    <2>2. CASE ~ s.reset
      <3>1. /\ ~ overlapped /\ ~ mixed /\ s.filter = began /\ items' = items \o s.items /\ steady' = steady
            /\ s.cursor = cursor /\ cursor # NoCursor /\ cursor.sort = s.sort
            /\ steady \subseteq s.seen /\ ListSound(sortKey, steady, items, cursor)
        BY <1>1, <1>4, <1>5, <1>10, <2>2
      <3>2. ASSUME NEW e \in steady
            PROVE  /\ OnceIn(items \o s.items, e)
                   /\ Shows(items \o s.items, e)
                        <=> s.next = NoCursor \/ ~ PastIn(sortKey, s.next.sort, s.next, e)
        <4> DEFINE P == PastIn(sortKey, s.sort, cursor, e)
                   N == PastIn(sortKey, s.sort, s.next, e)
        <4>1. OnceIn(items, e) /\ (Shows(items, e) <=> ~ P)
          BY <3>1 DEF ListSound
        <4>2. /\ OnceIn(s.items, e) /\ (Shows(s.items, e) <=> P /\ (s.next = NoCursor \/ ~ N))
              /\ s.next # NoCursor /\ N => P
              /\ s.next # NoCursor => s.next.sort = s.sort
          BY <1>4, <3>1 DEF PageSound
        <4>3. /\ Shows(items \o s.items, e) <=> Shows(items, e) \/ Shows(s.items, e)
              /\ OnceIn(items, e) /\ OnceIn(s.items, e) /\ ~ (Shows(items, e) /\ Shows(s.items, e))
                   => OnceIn(items \o s.items, e)
          BY <1>3, <1>5, ShownTogether
        <4>4. s.next # NoCursor => (PastIn(sortKey, s.next.sort, s.next, e) <=> N)
          BY <4>2
        <4> HIDE DEF P, N
        <4> QED BY <4>1, <4>2, <4>3, <4>4
      <3> QED BY <1>1, <3>1, <3>2 DEF ListSound
    <2> QED BY <1>3, <2>1, <2>2
  <1>11. Listing!NeverStuckLoading'
    BY <1>1 DEF Listing!NeverStuckLoading
  <1>12. (hasMore' <=> cursor' # NoCursor) /\ steady' \subseteq Among(visible', sortKey', began')
    BY <1>1, <1>4, <1>5
  <1>13. ~ overlapped' => Len(searches') <= 1
    BY <1>8
  <1> QED BY <1>7, <1>9, <1>10, <1>11, <1>12, <1>13 DEF ListingInv

LEMMA ListingStep ==
    ASSUME ListingInv, [Listing!Next]_(Listing!vars)
    PROVE  ListingInv'
  <1>1. CASE Listing!Answer
    BY <1>1, AnswerKeeps, ReceiveKeeps, FailKeeps DEF Listing!Answer
  <1>2. CASE Listing!handleFilterSubmit
    <2>1. Listing!runSearch(TRUE, filter, sort) /\ filter' = filter /\ sort' = sort
      BY <1>2 DEF Listing!handleFilterSubmit
    <2> QED BY <2>1, ListingTypes, SendKeeps
  <1>3. CASE Listing!loadMore
    <2>1. Listing!runSearch(FALSE, filter, sort) /\ filter' = filter /\ sort' = sort /\ hasMore
      BY <1>3 DEF Listing!loadMore
    <2> QED BY <2>1, ListingTypes, SendKeeps
  <1>4. ASSUME NEW mode \in Listing!SortMode, Listing!setSort(mode) PROVE ListingInv'
    <2>1. Listing!runSearch(TRUE, filter, mode) /\ filter' = filter /\ sort' = mode
      BY <1>4 DEF Listing!setSort
    <2> QED BY <2>1, ListingTypes, SendKeeps
  <1>7. ASSUME NEW f \in Filters, Listing!toggleCategory(f) PROVE ListingInv'
    <2>1. Listing!runSearch(TRUE, f, sort) /\ filter' = f /\ sort' = sort
      BY <1>7 DEF Listing!toggleCategory
    <2> QED BY <2>1, ListingTypes, SendKeeps
  <1>8. ASSUME NEW f \in Filters, Listing!Type(f) PROVE ListingInv'
    <2>1. /\ filter' = f
          /\ UNCHANGED <<visible, sortKey, sort, items, cursor, hasMore, loading, loadingMore,
                         error, searches, began, steady, overlapped, mixed, writes>>
      BY <1>8 DEF Listing!Type, Listing!history
    <2> QED BY <2>1 DEF ListingInv, Listing!TypeOK, Listing!NeverStuckLoading
  <1>5. CASE \E e \in Ids : Listing!Publish(e) \/ \E k \in Keys : Listing!Edit(e, k)
    BY <1>5, PublishKeeps, EditKeeps
  <1>6. CASE UNCHANGED Listing!vars
    <2>1. UNCHANGED <<visible, sortKey, filter, sort, items, cursor, hasMore, loading,
                      loadingMore, error, searches, began, steady, overlapped, mixed, writes>>
      BY <1>6 DEF Listing!vars, Listing!page, Listing!history
    <2> QED BY <2>1 DEF ListingInv, Listing!TypeOK, Listing!NeverStuckLoading
  <1> QED BY <1>1, <1>2, <1>3, <1>4, <1>5, <1>6, <1>7, <1>8 DEF Listing!Next

LEMMA ListingImplied == ASSUME ListingInv PROVE Listing!ListingSound
  <1> DEFINE Places(e) == {i \in DOMAIN items : items[i] = e}
  <1>1. ASSUME NEW e
        PROVE  /\ Listing!Times(e) \in Nat
               /\ OnceIn(items, e) => Listing!Times(e) <= 1
               /\ Shows(items, e) => Listing!Times(e) >= 1
    <2>1. Len(items) \in Nat /\ DOMAIN items = 1 .. Len(items)
      BY ListingTypes
    <2>2. Places(e) \in SUBSET (1 .. Len(items)) /\ IsFiniteSet(1 .. Len(items))
      BY <2>1, FS_Interval
    <2>3. IsFiniteSet(Places(e)) /\ Cardinality(Places(e)) \in Nat
      <3> HIDE DEF Places
      <3> QED BY <2>2, FS_Subset, FS_CardinalityType
    <2>4. Listing!Times(e) = Cardinality(Places(e))
      BY DEF Listing!Times, Listing!Cardinality, Cardinality
    <2>5. ASSUME OnceIn(items, e) PROVE Cardinality(Places(e)) <= 1
      <3>1. CASE Places(e) = {}
        <4> HIDE DEF Places
        <4> QED BY <3>1, FS_EmptySet
      <3>2. CASE Places(e) # {}
        <4>1. PICK i \in Places(e) : TRUE
          BY <3>2
        <4>2. Places(e) = {i}
          BY <2>1, <2>5, <4>1 DEF OnceIn
        <4> HIDE DEF Places
        <4>3. Cardinality(Places(e)) = 1
          BY <4>2, FS_Singleton
        <4> QED BY <4>3
      <3> QED BY <3>1, <3>2
    <2>6. ASSUME Shows(items, e) PROVE Cardinality(Places(e)) >= 1
      <3>1. Places(e) # {}
        BY <2>1, <2>6 DEF Shows
      <3> HIDE DEF Places
      <3>2. Cardinality(Places(e)) # 0
        BY <2>3, <3>1, FS_EmptySet
      <3> QED BY <2>3, <3>2
    <2> HIDE DEF Places
    <2> QED BY <2>3, <2>4, <2>5, <2>6
  <1>2. Listing!ShownOnce
    BY <1>1 DEF ListingInv, ListSound, Listing!ShownOnce, Listing!OneList
  <1>3. Listing!NothingSkipped
    BY <1>1 DEF ListingInv, ListSound, Listing!NothingSkipped, Listing!OneList
  <1> QED BY <1>2, <1>3 DEF ListingInv, Listing!ListingSound

\* event.service.ts, listPublicEvents, and EventsPage.tsx, for any events, sort columns,
\* filters, page size and number of searches: while the searches of a list do not overlap
\* and ask under one filter, an event that matches it and that nobody edits is shown once, at
\* the end of the list none is missing, and the page never waits for nothing.
THEOREM ListingInCatalogue == PartsSpec => []ListingSound
  <1>1. PartsInit => ListingInv
    BY ListingStarts DEF PartsInit
  <1>2. ListingInv /\ [PartsNext]_<<part, roleVars, eventVars, listVars, checkoutVars>>
          => ListingInv'
    <2>1. [PartsNext]_<<part, roleVars, eventVars, listVars, checkoutVars>>
            => [Listing!Next]_(Listing!vars)
      BY DEF PartsNext, listVars, Listing!vars, Listing!page, Listing!history
    <2> QED BY <2>1, ListingStep
  <1>3. ListingInv => ListingSound
    BY ListingImplied DEF ListingSound
  <1> QED BY <1>1, <1>2, <1>3, PTL DEF PartsSpec
=============================================================================
