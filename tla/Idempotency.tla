----------------------------- MODULE Idempotency -----------------------------
(***************************************************************************)
(* runIdempotently: a write is done at most once per (user, key), and a    *)
(* retry of it gets the stored response.                                   *)
(*                                                                         *)
(* A request is one delivery of an HTTP call; a client that retries, or a  *)
(* network that duplicates, is two requests with one key.  The claim, the  *)
(* wrapped operation and the stored response are one transaction: pending  *)
(* is the row it has inserted and not committed, on which every other      *)
(* insert of the key waits (the unique index).  A response body is named   *)
(* by the request whose operation produced it.                             *)
(***************************************************************************)
CONSTANTS Requests,      \* bound: the deliveries that can happen
          Keys,          \* (user_id, key) pairs
          Hashes,        \* digests of what a request means
          NoReq, NoRow   \* null

VARIABLES pending,       \* the uncommitted row of a key
          record,        \* idempotency_keys: the committed row of a key
          ran,           \* requests whose operation is committed
          req,           \* where each request is, and what it carries
          answer         \* the body a client received, NoReq if none

vars == <<pending, record, ran, req, answer>>

Row == [by : Requests, hash : Hashes, status : {"processing", "completed"},
        body : Requests \cup {NoReq}]

ASSUME NullAssumption == NoReq \notin Requests /\ NoRow \notin Row

Request == [pc : {"new", "claim", "run", "complete", "commit", "replay", "reply", "done"},
            key : Keys, hash : Hashes, body : Requests \cup {NoReq}]

TypeOK ==
    /\ pending \in [Keys -> Row \cup {NoRow}]
    /\ record \in [Keys -> Row \cup {NoRow}]
    /\ ran \subseteq Requests
    /\ req \in [Requests -> Request]
    /\ answer \in [Requests -> Requests \cup {NoReq}]

\* What a request says is settled by its client; any two may say the same.
Init ==
    /\ pending = [k \in Keys |-> NoRow]
    /\ record = [k \in Keys |-> NoRow]
    /\ ran = {}
    /\ req \in [Requests -> [pc : {"new"}, key : Keys, hash : Hashes, body : {NoReq}]]
    /\ answer = [r \in Requests |-> NoReq]

GoTo(r, pc) == req' = [req EXCEPT ![r].pc = pc]

Deliver(r) ==
    /\ req[r].pc = "new"
    /\ GoTo(r, "claim")
    /\ UNCHANGED <<pending, record, ran, answer>>

\* INSERT ... ON CONFLICT DO NOTHING: waits for an uncommitted row of the key.
ClaimKey(r) ==
    LET k == req[r].key IN
    /\ req[r].pc = "claim"
    /\ pending[k] = NoRow
    /\ record[k] = NoRow
    /\ pending' = [pending EXCEPT ![k] = [by |-> r, hash |-> req[r].hash,
                                          status |-> "processing", body |-> NoReq]]
    /\ GoTo(r, "run")
    /\ UNCHANGED <<record, ran, answer>>

\* Mutant of KeyTaken: the insert gives up at once on an uncommitted row.
KeyTakenOrPending(r) ==
    /\ req[r].pc = "claim"
    /\ pending[req[r].key] # NoRow \/ record[req[r].key] # NoRow
    /\ GoTo(r, "replay")
    /\ UNCHANGED <<pending, record, ran, answer>>

KeyTaken(r) ==
    /\ req[r].pc = "claim"
    /\ pending[req[r].key] = NoRow
    /\ record[req[r].key] # NoRow
    /\ GoTo(r, "replay")
    /\ UNCHANGED <<pending, record, ran, answer>>

RunOperation(r) ==
    /\ req[r].pc = "run"
    /\ GoTo(r, "complete")
    /\ UNCHANGED <<pending, record, ran, answer>>

CompleteRecord(r) ==
    /\ req[r].pc = "complete"
    /\ pending' = [pending EXCEPT ![req[r].key].status = "completed",
                                  ![req[r].key].body = r]
    /\ GoTo(r, "commit")
    /\ UNCHANGED <<record, ran, answer>>

\* Mutant of Commit: the response is left to a second transaction that is lost.
CommitWorkOnly(r) ==
    /\ req[r].pc = "commit"
    /\ pending' = [pending EXCEPT ![req[r].key] = NoRow]
    /\ ran' = ran \cup {r}
    /\ req' = [req EXCEPT ![r].pc = "reply", ![r].body = r]
    /\ UNCHANGED <<record, answer>>

\* The claim, the operation and the response become visible together.
Commit(r) ==
    LET k == req[r].key IN
    /\ req[r].pc = "commit"
    /\ record' = [record EXCEPT ![k] = pending[k]]
    /\ pending' = [pending EXCEPT ![k] = NoRow]
    /\ ran' = ran \cup {r}
    /\ req' = [req EXCEPT ![r].pc = "reply", ![r].body = r]
    /\ UNCHANGED answer

Owns(r) == req[r].pc \in {"run", "complete", "commit"}

\* Mutant of Rollback: the claim was committed on its own and stays.
RollbackKeepingClaim(r) ==
    /\ req[r].pc \in {"claim", "run", "complete", "commit", "replay"}
    /\ GoTo(r, "done")
    /\ UNCHANGED <<pending, record, ran, answer>>

\* The operation throws, a statement fails or the process dies: nothing remains.
Rollback(r) ==
    /\ req[r].pc \in {"claim", "run", "complete", "commit", "replay"}
    /\ pending' = IF Owns(r) THEN [pending EXCEPT ![req[r].key] = NoRow] ELSE pending
    /\ GoTo(r, "done")
    /\ UNCHANGED <<record, ran, answer>>

\* Mutant of Replayable: the hash is not compared.
ReplayableAny(row, hash) == row # NoRow /\ row.status = "completed"

Replayable(row, hash) ==
    row # NoRow /\ row.hash = hash /\ row.status = "completed"

Replay(r) ==
    LET row == record[req[r].key] IN
    /\ req[r].pc = "replay"
    /\ Replayable(row, req[r].hash)
    /\ req' = [req EXCEPT ![r].pc = "reply", ![r].body = row.body]
    /\ UNCHANGED <<pending, record, ran, answer>>

\* 409: idempotency_key_reuse or idempotency_key_in_flight.
Refuse(r) ==
    /\ req[r].pc = "replay"
    /\ ~Replayable(record[req[r].key], req[r].hash)
    /\ GoTo(r, "done")
    /\ UNCHANGED <<pending, record, ran, answer>>

Reply(r) ==
    /\ req[r].pc = "reply"
    /\ answer' = [answer EXCEPT ![r] = req[r].body]
    /\ GoTo(r, "done")
    /\ UNCHANGED <<pending, record, ran>>

\* The process or the network fails after COMMIT; the client will retry.
LoseReply(r) ==
    /\ req[r].pc = "reply"
    /\ GoTo(r, "done")
    /\ UNCHANGED <<pending, record, ran, answer>>

Advance(r) ==
    \/ ClaimKey(r) \/ KeyTaken(r) \/ RunOperation(r) \/ CompleteRecord(r)
    \/ Commit(r) \/ Replay(r) \/ Refuse(r) \/ Reply(r)

Next == \E r \in Requests : Deliver(r) \/ Advance(r) \/ Rollback(r) \/ LoseReply(r)

Spec == Init /\ [][Next]_vars

\* A request that has arrived is worked on; nobody has to send one.
Fairness == \A r \in Requests : WF_vars(Advance(r))

FairSpec == Spec /\ Fairness

-----------------------------------------------------------------------------

\* Whatever is retried, duplicated or lost, the work of a key is committed at most
\* once (runIdempotently, "at most once per (user, key)").
OncePerKey == \A q, r \in ran : req[q].key = req[r].key => q = r

\* Every answer given is the answer to work that was done, for the same key and for
\* a request that meant the same: so all answers of a key agree.
AnswersAgree ==
    \A r \in Requests : answer[r] # NoReq =>
        /\ answer[r] \in ran
        /\ req[answer[r]].key = req[r].key
        /\ req[answer[r]].hash = req[r].hash

\* A request is refused only because its key was used for different work, never
\* because an earlier attempt is in flight or died ("processing is only ever visible
\* inside the transaction that owns it").
RefusedOnlyForReuse ==
    [][\A r \in Requests : Refuse(r) =>
          \E q \in ran : req[q].key = req[r].key /\ req[q].hash # req[r].hash]_vars

\* Every request that arrives ends: nobody waits for ever on a key, also if the
\* attempt that claimed it failed.
RequestsEnd == \A r \in Requests : req[r].pc # "new" ~> req[r].pc = "done"

-----------------------------------------------------------------------------
(* The inductive invariant                                                 *)

\* The uncommitted row of a key is that of the one request that owns the key, and
\* then the key has no committed row.
ClaimInv ==
    /\ \A r \in Requests : Owns(r) =>
        /\ pending[req[r].key] # NoRow
        /\ pending[req[r].key].by = r
        /\ pending[req[r].key].hash = req[r].hash
        /\ record[req[r].key] = NoRow
    /\ \A r \in Requests : req[r].pc = "commit" =>
        /\ pending[req[r].key].status = "completed"
        /\ pending[req[r].key].body = r
    /\ \A k \in Keys : pending[k] # NoRow =>
        Owns(pending[k].by) /\ req[pending[k].by].key = k

\* A committed row is complete and is that of the request that did the work, and
\* work that is done has its row.
RecordInv ==
    /\ \A k \in Keys : record[k] # NoRow =>
        /\ record[k].status = "completed"
        /\ record[k].body \in ran
        /\ req[record[k].body].key = k
        /\ req[record[k].body].hash = record[k].hash
    /\ \A r \in ran :
        /\ req[r].pc \in {"reply", "done"}
        /\ record[req[r].key] # NoRow
        /\ record[req[r].key].body = r
    /\ \A r \in Requests : req[r].pc = "replay" => record[req[r].key] # NoRow

\* A body on its way to a client is one AnswersAgree allows.
ReplyInv ==
    \A r \in Requests : req[r].pc = "reply" =>
        /\ req[r].body \in ran
        /\ req[req[r].body].key = req[r].key
        /\ req[req[r].body].hash = req[r].hash

IInv == TypeOK /\ ClaimInv /\ RecordInv /\ ReplyInv /\ AnswersAgree
=============================================================================
