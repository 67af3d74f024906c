------------------------------ MODULE UserRoles ------------------------------
(***************************************************************************)
(* users.role and who may change it: registration, and the PATCH of an     *)
(* admin (requireAuth, requireRole, setUserRole).                          *)
(*                                                                         *)
(* The role that authorises a request is read when the request arrives;    *)
(* the UPDATE is a statement of its own, sent after that.                  *)
(***************************************************************************)
CONSTANTS Users,
          Seeded,        \* the admins the deployment starts with
          NoUser

ASSUME RolesAssumption == Seeded \subseteq Users /\ Seeded # {} /\ NoUser \notin Users

Roles == {"customer", "organiser", "admin"}

VARIABLES role,          \* users.role, "none" without an account
          req,           \* the PATCH each user has in flight
          claim,         \* the role in the access token of each user
          crossed        \* history: a change was made by somebody demoted since it was let in

vars == <<role, req, claim, crossed>>

\* "sent" before requireAuth has read the caller, "allowed" before the UPDATE.  heldAdmin is
\* history: the caller has been an admin at some moment since the request was sent.
NoRequest == [pc |-> "idle", target |-> NoUser, role |-> "none", heldAdmin |-> FALSE]

TypeOK ==
    /\ role \in [Users -> Roles \cup {"none"}]
    /\ req \in [Users -> [pc : {"idle", "sent", "allowed"}, target : Users \cup {NoUser},
                          role : Roles \cup {"none"}, heldAdmin : BOOLEAN]]
    /\ claim \in [Users -> Roles \cup {"none"}]
    /\ crossed \in BOOLEAN

Init ==
    /\ role = [u \in Users |-> IF u \in Seeded THEN "admin" ELSE "none"]
    /\ req = [u \in Users |-> NoRequest]
    /\ claim = [u \in Users |-> "none"]
    /\ crossed = FALSE

-----------------------------------------------------------------------------
(* The API                                                                 *)

\* Never a role from the client: DEFAULT_USER_ROLE.
register(u) ==
    /\ role[u] = "none"
    /\ role' = [role EXCEPT ![u] = "customer"]
    /\ UNCHANGED <<req, claim, crossed>>

\* issueTokens: the token carries the role of the moment it was signed.
login(u) ==
    /\ role[u] # "none"
    /\ claim' = [claim EXCEPT ![u] = role[u]]
    /\ UNCHANGED <<role, req, crossed>>

\* PATCH /api/v1/admin/users/:userId/role
SendChange(u, t, r) ==
    /\ claim[u] # "none"
    /\ req[u].pc = "idle"
    /\ req' = [req EXCEPT ![u] = [pc |-> "sent", target |-> t, role |-> r,
                                  heldAdmin |-> role[u] = "admin"]]
    /\ UNCHANGED <<role, claim, crossed>>

\* Mutant of requireAuth: the role is the token's.
requireAuthClaim(u) == claim[u]

\* The role attached to the request is the one in the database now.
requireAuth(u) == role[u]

\* requireRole('admin') runs in the same turn: 403, or on to the handler.
Authorize(u) ==
    /\ req[u].pc = "sent"
    /\ req' = [req EXCEPT ![u] = IF requireAuth(u) = "admin" THEN [@ EXCEPT !.pc = "allowed"]
                                 ELSE NoRequest]
    /\ UNCHANGED <<role, claim, crossed>>

\* A change of t's role, and what it means for the requests t has in flight.
updateUserRole(u, t, r) ==
    /\ role' = [role EXCEPT ![t] = r]
    /\ req' = [v \in Users |->
                CASE v = u -> NoRequest
                  [] v = t /\ v # u /\ r = "admin" -> [req[v] EXCEPT !.heldAdmin = req[v].pc # "idle"]
                  [] OTHER -> req[v]]

\* Mutant of setUserRole: an admin may change its own role.
setOwnRole(u) ==
    LET t == req[u].target
    IN  /\ req[u].pc = "allowed"
        /\ IF role[t] = "none"
           THEN req' = [req EXCEPT ![u] = NoRequest] /\ UNCHANGED <<role, crossed>>
           ELSE /\ updateUserRole(u, t, req[u].role)
                /\ crossed' = (crossed \/ role[u] # "admin")
        /\ UNCHANGED claim

\* 409 on the caller's own account, 404 where the UPDATE matches no row.
setUserRole(u) ==
    LET t == req[u].target
    IN  /\ req[u].pc = "allowed"
        /\ IF t = u \/ role[t] = "none"
           THEN req' = [req EXCEPT ![u] = NoRequest] /\ UNCHANGED <<role, crossed>>
           ELSE /\ updateUserRole(u, t, req[u].role)
                /\ crossed' = (crossed \/ role[u] # "admin")
        /\ UNCHANGED claim

Next ==
    \/ \E u \in Users : register(u) \/ login(u) \/ Authorize(u) \/ setUserRole(u)
    \/ \E u, t \in Users, r \in Roles : SendChange(u, t, r)

Spec == Init /\ [][Next]_vars

-----------------------------------------------------------------------------
(* Properties                                                              *)

Admins == {u \in Users : role[u] = "admin"}

\* A deployment runs out of admins only by two of them changing one another at once:
\* while every change comes from somebody who is an admin as it lands, one remains.
OnlyByCrossing == Admins = {} => crossed

\* A demotion takes effect on the very next request, whatever the tokens still say: no
\* request changes a role unless its sender has been an admin since it was sent.
NoLateChange ==
    [][role' # role =>
        \/ \E u \in Users : role[u] = "none" /\ role'[u] = "customer"
        \/ \E u \in Users : req[u].heldAdmin /\ ~req'[u].heldAdmin]_vars

\* What setUserRole's comment wants of the rule against changing one's own role: there is
\* always an account left that can promote.
AdminRemains == Admins # {}
================================================================================
