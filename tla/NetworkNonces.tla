--------------------------- MODULE NetworkNonces ---------------------------
(***************************************************************************)
(* The signature nonces of the gateway (grpc/server.rs) and the            *)
(* network_nonces table (db.rs increment_nonce).                           *)
(*                                                                         *)
(* bridge_in_signature opens a write transaction, increments the nonce of  *)
(* the sender's network, COMMITS, and only then asks the connector to sign *)
(* with that nonce.  cancel_transfer (after the cancel handle was          *)
(* signalled) opens a write transaction, increments the nonce, asks the    *)
(* connector for the cancel signature, updates the transfer status and     *)
(* commits: the nonce row stays locked while the connector is called.      *)
(*                                                                         *)
(* The database is Postgres under READ COMMITTED: the upsert of            *)
(* increment_nonce takes the row lock (or the unique-index slot of a       *)
(* missing row) until the transaction ends and, once it has the lock,      *)
(* reads the latest committed value.  A dropped WriteTransaction rolls     *)
(* back.  Every transaction holds one connection of the pool (sqlx: 10 by  *)
(* default, an acquire times out).  A crash ends every open transaction.   *)
(***************************************************************************)
EXTENDS Integers, FiniteSets

CONSTANTS
  Net,         \* network ids
  Req,         \* gateway requests that reach the nonce increment
  Kind,        \* Kind[r] \in {"in", "cancel"}: the handler serving r
  NetOf,       \* NetOf[r]: the network whose nonce r increments
  PoolSize,    \* connections of the PgPool
  MaxCrashes,  \* bound on process restarts
  NoReq        \* no request: a row lock nobody holds

ASSUME Kind \in [Req -> {"in", "cancel"}] /\ NetOf \in [Req -> Net]
ASSUME PoolSize \in Nat \ {0} /\ MaxCrashes \in Nat /\ NoReq \notin Req

NONE  == -1           \* no network_nonces row yet

VARIABLES
  nonce,    \* committed network_nonces.nonce per network, or NONE
  holder,   \* the request holding the row lock of each network
  txVal,    \* value increment_nonce returned in r's open transaction
  pc,       \* where each request's handler is
  sigs,     \* signatures returned to users: [req, net, nonce]
  crashes

vars == <<nonce, holder, txVal, pc, sigs, crashes>>

PC == {"new", "begun", "incremented", "committed", "signed", "done"}

\* The handler of r has an open write transaction, hence a connection.
InTx(r) ==
  \/ pc[r] \in {"begun", "incremented"}
  \/ pc[r] = "signed"

OpenTxs == {r \in Req : InTx(r)}

\* The row lock of r's network, released if r holds it.
ReleaseLock(r) ==
  holder' = IF holder[NetOf[r]] = r
            THEN [holder EXCEPT ![NetOf[r]] = NoReq]
            ELSE holder

\* Commit of r's transaction: the incremented value becomes durable.
CommitNonce(r) ==
  /\ nonce' = [nonce EXCEPT ![NetOf[r]] = txVal[r]]
  /\ ReleaseLock(r)

\* Types, and no more open transactions than the pool has connections.
TypeOK ==
  /\ nonce \in [Net -> {NONE} \cup Nat]
  /\ holder \in [Net -> Req \cup {NoReq}]
  /\ txVal \in [Req -> {NONE} \cup Nat]
  /\ pc \in [Req -> PC]
  /\ sigs \subseteq [req : Req, net : Net, nonce : Nat]
  /\ crashes \in 0..MaxCrashes
  /\ Cardinality(OpenTxs) <= PoolSize

\* Database::connect; the table has no row until a network's first use.
Init ==
  /\ nonce = [n \in Net |-> NONE]
  /\ holder = [n \in Net |-> NoReq]
  /\ txVal = [r \in Req |-> NONE]
  /\ pc = [r \in Req |-> "new"]
  /\ sigs = {}
  /\ crashes = 0

\* Mutant of Begin: a connection taken whether or not the pool has one.
BeginUnbounded(r) ==
  /\ pc[r] = "new"
  /\ pc' = [pc EXCEPT ![r] = "begun"]
  /\ UNCHANGED <<nonce, holder, txVal, sigs, crashes>>

\* Database::write_tx: a pool connection and BEGIN.
Begin(r) ==
  /\ pc[r] = "new"
  /\ Cardinality(OpenTxs) < PoolSize
  /\ pc' = [pc EXCEPT ![r] = "begun"]
  /\ UNCHANGED <<nonce, holder, txVal, sigs, crashes>>

\* The pool stays exhausted past the acquire timeout: "cannot get db".
BeginTimeout(r) ==
  /\ pc[r] = "new"
  /\ Cardinality(OpenTxs) >= PoolSize
  /\ pc' = [pc EXCEPT ![r] = "done"]
  /\ UNCHANGED <<nonce, holder, txVal, sigs, crashes>>

\* increment_nonce: INSERT (network, 0) ON CONFLICT nonce + 1 RETURNING;
\* waits for the row lock, then reads the latest committed nonce.
Increment(r) ==
  /\ pc[r] = "begun"
  /\ holder[NetOf[r]] = NoReq
  /\ holder' = [holder EXCEPT ![NetOf[r]] = r]
  /\ txVal' = [txVal EXCEPT ![r] = IF nonce[NetOf[r]] = NONE THEN 0
                                   ELSE nonce[NetOf[r]] + 1]
  /\ pc' = [pc EXCEPT ![r] = "incremented"]
  /\ UNCHANGED <<nonce, sigs, crashes>>

\* bridge_in_signature: dbx.commit() before the signature is requested.
InCommit(r) ==
  /\ Kind[r] = "in" /\ pc[r] = "incremented"
  /\ CommitNonce(r)
  /\ pc' = [pc EXCEPT ![r] = "committed"]
  /\ UNCHANGED <<txVal, sigs, crashes>>

\* bridge_in_signature: the connector signs with the committed nonce and
\* the response goes back to the user.
InSign(r) ==
  /\ pc[r] = "committed"
  /\ sigs' = sigs \cup {[req |-> r, net |-> NetOf[r], nonce |-> txVal[r]]}
  /\ pc' = [pc EXCEPT ![r] = "done"]
  /\ UNCHANGED <<nonce, holder, txVal, crashes>>

\* bridge_in_signature returns an error: "cannot get nonce" or "cannot
\* commit db" (rolled back), or "cannot get signature" (already committed).
InFail(r) ==
  /\ Kind[r] = "in" /\ pc[r] \in {"begun", "incremented", "committed"}
  /\ ReleaseLock(r)
  /\ pc' = [pc EXCEPT ![r] = "done"]
  /\ UNCHANGED <<nonce, txVal, sigs, crashes>>

\* Mutant of CnSign: the signature goes back before the commit.
CnSignReturned(r) ==
  /\ Kind[r] = "cancel" /\ pc[r] = "incremented"
  /\ sigs' = sigs \cup {[req |-> r, net |-> NetOf[r], nonce |-> txVal[r]]}
  /\ pc' = [pc EXCEPT ![r] = "signed"]
  /\ UNCHANGED <<nonce, holder, txVal, crashes>>

\* cancel_transfer: connector.cancel_signature with the uncommitted nonce,
\* the row lock still held.
CnSign(r) ==
  /\ Kind[r] = "cancel" /\ pc[r] = "incremented"
  /\ pc' = [pc EXCEPT ![r] = "signed"]
  /\ UNCHANGED <<nonce, holder, txVal, sigs, crashes>>

\* cancel_transfer: update_transfer_status(CANCELLED), commit, and the
\* cancel signature goes back to the user.
CnCommit(r) ==
  /\ pc[r] = "signed"
  /\ CommitNonce(r)
  /\ sigs' = sigs \cup {[req |-> r, net |-> NetOf[r], nonce |-> txVal[r]]}
  /\ pc' = [pc EXCEPT ![r] = "done"]
  /\ UNCHANGED <<txVal, crashes>>

\* Mutant of CnFail: an error path that leaves the transaction open.
CnFailLeaked(r) ==
  /\ Kind[r] = "cancel" /\ pc[r] \in {"begun", "incremented", "signed"}
  /\ pc' = [pc EXCEPT ![r] = "done"]
  /\ UNCHANGED <<nonce, holder, txVal, sigs, crashes>>

\* cancel_transfer returns an error after write_tx: increment_nonce,
\* cancel_signature, the status update or the commit failed; dtx is
\* dropped and rolls back.
CnFail(r) ==
  /\ Kind[r] = "cancel" /\ pc[r] \in {"begun", "incremented", "signed"}
  /\ ReleaseLock(r)
  /\ pc' = [pc EXCEPT ![r] = "done"]
  /\ UNCHANGED <<nonce, txVal, sigs, crashes>>

\* A restart: every open transaction is rolled back and its handler gone.
Crash ==
  /\ crashes < MaxCrashes
  /\ crashes' = crashes + 1
  /\ pc' = [r \in Req |-> IF pc[r] = "new" THEN "new" ELSE "done"]
  /\ holder' = [n \in Net |-> NoReq]
  /\ UNCHANGED <<nonce, txVal, sigs>>

Next ==
  \/ \E r \in Req :
       \/ Begin(r) \/ BeginTimeout(r) \/ Increment(r)
       \/ InCommit(r) \/ InSign(r) \/ InFail(r)
       \/ CnSign(r) \/ CnCommit(r) \/ CnFail(r)
  \/ Crash

\* The runtime runs every handler step; the Postgres lock queue grants a
\* released row lock to a waiter, so a waiter that keeps finding the lock
\* free gets it (strong fairness); connector calls are retried until the
\* connector answers.  Failures and crashes are not forced.
Fairness ==
  \A r \in Req :
    /\ WF_vars(Begin(r) \/ BeginTimeout(r))
    /\ SF_vars(Increment(r))
    /\ WF_vars(InCommit(r)) /\ WF_vars(InSign(r))
    /\ WF_vars(CnSign(r)) /\ WF_vars(CnCommit(r))

Spec == Init /\ [][Next]_vars /\ Fairness

-----------------------------------------------------------------------------
(* Properties.                                                              *)

\* No two signatures handed out for one network carry the same nonce: the
\* chain contract would accept only one of them.  About the row lock of
\* increment_nonce, the rollback of cancel_transfer's transaction on an
\* error, and the commit coming before the response in both handlers.
NonceUnique ==
  \A s1, s2 \in sigs :
    (s1.net = s2.net /\ s1.nonce = s2.nonce) => s1.req = s2.req

\* Every request that got a connection finishes, whatever failed or
\* crashed before: no handler waits forever on a row lock left behind.
\* About every error path of cancel_transfer dropping its transaction.
RequestsComplete ==
  \A r \in Req : (pc[r] = "begun") ~> (pc[r] = "done")

=============================================================================
