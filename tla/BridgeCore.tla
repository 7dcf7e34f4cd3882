----------------------------- MODULE BridgeCore -----------------------------
(***************************************************************************)
(* The coordinator of the bridge (bridge-core/src/bridge.rs) together with *)
(* the parts it shares state with:                                         *)
(*   - the connector tasks that stream chain events into the bounded       *)
(*     event channel (grpc/connector.rs), saving the last seen block;      *)
(*   - the event loop, which first restores the WAITING transfers and      *)
(*     then spawns one worker per FundsIn / FundsOut event;                *)
(*   - the FundsIn worker: insert the triggering tx, insert the transfer,  *)
(*     wait the contest window racing a one-shot cancel channel, call      *)
(*     bridge_out, mark CONFIRMING;                                        *)
(*   - the FundsOut worker: insert the outbound tx, finalize a matching    *)
(*     CONFIRMING transfer;                                                *)
(*   - the gateway's cancel_transfer handler (grpc/server.rs);             *)
(*   - a crash of the process, which loses everything but the database    *)
(*     and the chains.                                                     *)
(* Data is abstracted: a deposit is a model value, the (from, to, amount,  *)
(* token) tuple that finalize_transfer matches on is Key[d], a release on  *)
(* the destination chain is a record [dep, blk].                           *)
(***************************************************************************)
EXTENDS Naturals, FiniteSets, Sequences, SequencesExt

CONSTANTS
  Deposit,         \* FundsIn transactions present on the source chains
  Net,             \* networks, each with one connector
  Src,             \* Src[d]: network the deposit was made on
  Dst,             \* Dst[d]: network the funds are released on
  Block,           \* Block[d]: block of the deposit on Src[d] (>= 1)
  Key,             \* Key[d]: (from, to, amount, token) of the transfer
  ChanCap,         \* capacity of the event channel (256 in the code)
  MaxReleases,     \* bound on bridge_out calls, to keep the model finite
  MaxCrashes,      \* bound on process crashes
  MaxReconnects,   \* bound on event streams that end and are reopened
  ConnectorErrors, \* TRUE: bridge_out / cancel_signature may return an error
  MaxLostReplies,  \* bound on bridge_out calls executed whose answer is lost
  DbErrors,        \* TRUE: opening or writing a database transaction may fail
  Unconvertible,   \* deposits whose amount does not convert to Dst's decimals
  LateToken,       \* deposits of a token whose rows the CLI adds later
  MaxClockSteps    \* bound on steps back of the host's wall clock

ASSUME Src \in [Deposit -> Net] /\ Dst \in [Deposit -> Net]
ASSUME \A d \in Deposit : Src[d] # Dst[d]
ASSUME Block \in [Deposit -> Nat \ {0}]
ASSUME ChanCap \in Nat \ {0} /\ MaxReleases \in Nat /\ MaxCrashes \in Nat
ASSUME MaxReconnects \in Nat
ASSUME ConnectorErrors \in BOOLEAN
ASSUME MaxLostReplies \in Nat /\ Unconvertible \subseteq Deposit
ASSUME DbErrors \in BOOLEAN /\ LateToken \subseteq Deposit
ASSUME MaxClockSteps \in Nat

NONE == "NONE"  \* no value (no transfer row, no handle, no current item)

VARIABLES
  \* --- the database (survives a crash) ---
  dbInTx,     \* triggering transactions inserted in `transactions`
  dbOutTx,    \* outbound transactions inserted in `transactions`
  status,     \* token_transfers.status per deposit, NONE if no row
  outbound,   \* token_transfers.outbound_tx per deposit: {} (NULL) or {r}
  lastSeen,   \* network_blocks.last_seen_block per network, 0 if no row
  \* --- the chains and the users (survive a crash) ---
  releases,   \* bridge_out transactions executed on destination chains
  height,     \* last block of each chain
  cancelSigs, \* deposits for which the user received a cancel signature
  \* --- process memory (lost on a crash) ---
  registered, \* networks whose connector registered (registry + map)
  stream,     \* per chain event: idle, pending in the stream, or parsed
  chan,       \* the bounded event channel
  inW,        \* program counter of the FundsIn worker per deposit
  outW,       \* program counter of the FundsOut worker per release
  cancelCh,   \* the one-shot cancel channel of each transfer
  gw,         \* program counter of a cancel_transfer request per deposit
  el,         \* event loop phase: read / restore / loop
  todo,       \* WAITING transfers the current restore attempt still has
  cur,        \* transfer restore_processing is awaiting
  crashes,
  reconnects, \* event streams reopened by Connector::event_loop
  lostReplies,\* bridge_out answers lost on the way back
  tokReg,     \* token groups in the TokenRegistry ({} before load_tokens)
  dbTokens,   \* token groups with rows in tokens / network_tokens
  \* --- the host's wall clock (Utc::now, survives a crash) ---
  ahead,      \* recorded transactions whose seen_at is later than now
  clockSteps, \* steps back of the wall clock so far
  down        \* the is_shutting_down flag

dbVars    == <<dbInTx, dbOutTx, status, outbound, lastSeen>>
chainVars == <<releases, height, cancelSigs>>
clockVars == <<ahead, clockSteps>>
memVars   == <<registered, stream, chan, inW, outW, cancelCh, gw, el, todo, cur,
              down>>
vars      == <<dbVars, chainVars, clockVars, memVars, crashes, reconnects,
              lostReplies, tokReg, dbTokens>>

-----------------------------------------------------------------------------
(* Events and their place on the chains.                                    *)

InEv(d)  == [kind |-> "in", dep |-> d]
OutEv(r) == [kind |-> "out", rel |-> r]
ChainEvents == {InEv(d) : d \in Deposit} \cup {OutEv(r) : r \in releases}

EvNet(e)   == IF e.kind = "in" THEN Src[e.dep] ELSE Dst[e.rel.dep]
EvBlock(e) == IF e.kind = "in" THEN Block[e.dep] ELSE e.rel.blk

\* Highest deposit block of a network: the chain height the model starts at.
DepositHeight(n) == Max({0} \cup {Block[d] : d \in {x \in Deposit : Src[x] = n}})

Status   == {NONE, "WAITING", "CONFIRMING", "CANCELLED", "FINISHED"}
InPC     == {"none", "spawned", "txIns", "wait", "fired", "bridged",
             "done", "failed"}
OutPC    == {"none", "spawned", "txIns", "done", "failed"}
StreamSt == {"idle", "pending", "parsed"}

\* Token rows: those present before the first start ("base") and those the
\* CLI's setup-tokens writes later ("late"); a deposit is of one of them.
TokenGroup == {"base", "late"}
Tok(d) == IF d \in LateToken THEN "late" ELSE "base"

MaxBlock == Max({Block[d] : d \in Deposit}) + MaxReleases

TypeOK ==
  /\ dbInTx \subseteq Deposit
  /\ ahead \subseteq dbInTx /\ clockSteps \in 0..MaxClockSteps
  /\ dbOutTx \subseteq releases
  /\ status \in [Deposit -> Status]
  /\ outbound \in [Deposit -> {{}} \cup {{r} : r \in releases}]
  /\ lastSeen \in [Net -> 0..MaxBlock]
  /\ releases \subseteq [dep : Deposit, blk : 1..MaxBlock]
  /\ Cardinality(releases) <= MaxReleases
  /\ height \in [Net -> 0..MaxBlock]
  /\ cancelSigs \subseteq Deposit
  /\ registered \subseteq Net
  /\ stream \in [ChainEvents -> StreamSt]
  /\ chan \in BoundedSeq(ChainEvents, ChanCap)
  /\ inW \in [Deposit -> InPC]
  /\ outW \in [releases -> OutPC]
  /\ cancelCh \in [Deposit -> {NONE, "open", "sent"}]
  /\ gw \in [Deposit -> {"idle", "signalled"}]
  /\ el \in {"read", "restore", "loop", "stopped"}
  /\ todo \subseteq Deposit
  /\ cur \in Deposit \cup {NONE}
  /\ crashes \in 0..MaxCrashes
  /\ reconnects \in 0..MaxReconnects
  /\ lostReplies \in 0..MaxLostReplies
  /\ down \in BOOLEAN
  /\ tokReg \subseteq TokenGroup /\ dbTokens \subseteq TokenGroup

-----------------------------------------------------------------------------
(* Process memory right after Bridge::start: nothing registered, the event *)
(* loop about to run restore_processing.                                    *)
FreshMemory ==
  /\ registered = {}
  /\ chan = <<>>
  /\ inW = [d \in Deposit |-> "none"]
  /\ cancelCh = [d \in Deposit |-> NONE]
  /\ gw = [d \in Deposit |-> "idle"]
  /\ el = "read"
  /\ todo = {}
  /\ cur = NONE
  /\ stream = [e \in ChainEvents |-> "idle"]
  /\ outW = [r \in releases |-> "none"]
  /\ down = FALSE

Init ==
  /\ dbInTx = {} /\ dbOutTx = {}
  /\ status = [d \in Deposit |-> NONE]
  /\ outbound = [d \in Deposit |-> {}]
  /\ lastSeen = [n \in Net |-> 0]
  /\ releases = {}
  /\ height = [n \in Net |-> DepositHeight(n)]
  /\ cancelSigs = {}
  /\ FreshMemory
  /\ crashes = 0
  /\ reconnects = 0
  /\ lostReplies = 0
  /\ tokReg = {}
  /\ dbTokens = {"base"}
  /\ ahead = {} /\ clockSteps = 0

-----------------------------------------------------------------------------
(* Database operations (db.rs), each committed by its caller.               *)

\* update_seen_network_block: an upsert that overwrites the saved block.
UpdateSeenNetworkBlock(n, b) == [lastSeen EXCEPT ![n] = b]

\* insert_transfer: a new token_transfers row in status WAITING.
InsertTransferRow(d) == [status EXCEPT ![d] = "WAITING"]

\* update_transfer_status: UPDATE .. SET status, whatever the row's status.
UpdateTransferStatus(d, s) == [status EXCEPT ![d] = s]

\* last_seen_network_block: the block a new stream starts from.
LastSeenNetworkBlock(n) == lastSeen[n]

\* find_transaction_by_hash, in the transaction of insert_tx_if_not_exists.
FindTransactionByHash(t, recorded) == t \in recorded

\* insert_transaction: a new row of `transactions`.
InsertTransaction(recorded, t) == recorded \cup {t}

\* find_transfer_details_by_transfer_id: the transfer row exists, in any
\* status.
FindTransferDetails(d) == status[d] # NONE

\* get_transactions_in_waiting.
GetTransactionsInWaiting == {d \in Deposit : status[d] = "WAITING"}

\* The rows finalize_transfer's SELECT may return for a FundsOut event.
FinalizeMatches(r) ==
  {d \in Deposit : status[d] = "CONFIRMING" /\ Key[d] = Key[r.dep]}

-----------------------------------------------------------------------------
(* The network registry (registry.rs).  A network and its connector are     *)
(* added together by register_connector, so one set stands for the         *)
(* registry and the connector map; names and ids are one to one.           *)

\* NetworkRegistry::register.
NetworkRegister(n) == registered \cup {n}

\* NetworkRegistry::by_id: UnknownNetworkId unless registered.
NetworkById(n) == n \in registered

\* NetworkRegistry::by_name: UnknownNetworkName unless registered.
NetworkByName(n) == n \in registered

\* Bridge::stringify_address: by_id of the address's network; the address
\* codecs are abstracted to always succeed.
StringifyAddress(n) == NetworkById(n)

\* Bridge::parse_address: by_name of the address's network.
ParseAddress(n) == NetworkByName(n)

\* TokenRegistry::register and register_token_network for every row read
\* by load_tokens: the registry becomes what the database holds.
TokenRegistryLoad(rows) == rows

\* TokenRegistry::token_by_address: UnknownTokenAddress unless loaded.
TokenByAddress(t) == t \in tokReg

\* TokenRegistry::token_network_by_ids: UnknownNetworkOrToken unless loaded.
TokenNetworkByIds(t) == t \in tokReg

\* Bridge::load_tokens, called once by main after Bridge::start (whose
\* event loop is already restoring) and before any connector starts; the
\* registry is never loaded again while the process runs.  A failing read
\* makes main return, which is a Crash.
LoadTokens ==
  /\ tokReg = {}
  /\ tokReg' = TokenRegistryLoad(dbTokens)
  /\ UNCHANGED <<dbVars, chainVars, clockVars, memVars, crashes, reconnects, lostReplies,
                 dbTokens>>

\* The CLI's setup-tokens: insert_token and insert_network_token in one
\* committed transaction, while the bridge keeps running.  Only modelled
\* when some deposit is of that token.
CliSetupTokens ==
  /\ LateToken # {} /\ "late" \notin dbTokens
  /\ dbTokens' = dbTokens \cup {"late"}
  /\ UNCHANGED <<dbVars, chainVars, clockVars, memVars, crashes, reconnects, lostReplies,
                 tokReg>>

-----------------------------------------------------------------------------
(* Connector tasks (grpc/connector.rs).                                     *)

\* register_connector: the network goes into the network registry and the
\* connector into the connector map, under their write locks.
RegisterConnector(n) == NetworkRegister(n)

\* A stream opened by event_loop for network n: every event of the chain
\* at or above the last seen block read from the database is delivered
\* again, later events included as they happen; the others are not.
OpenStream(n) ==
  [e \in ChainEvents |->
     IF EvNet(e) # n THEN stream[e]
     ELSE IF EvBlock(e) >= LastSeenNetworkBlock(n) THEN "pending"
     ELSE "idle"]

\* Connector::start's task: try_start's metadata request succeeds,
\* register_connector, then event_loop opens the first stream.  A failed
\* metadata request changes nothing and is retried after RETRY_TIMEOUT.
Register(n) ==
  /\ tokReg # {} /\ n \notin registered
  /\ registered' = RegisterConnector(n)
  /\ stream' = OpenStream(n)
  /\ UNCHANGED <<dbVars, chainVars, clockVars, chan, inW, outW, cancelCh, gw, el,
                 todo, cur, crashes, reconnects, lostReplies, tokReg, dbTokens, down>>

\* The stream of event_loop ends (a connector error or a closed
\* connection): for_each_concurrent returns once its running futures
\* finished, the events the stream had not yielded are dropped, and after
\* RETRY_TIMEOUT a new stream is opened from the last seen block.  The
\* stream yields in block order, so the events not yet yielded are those
\* at or above every block a finished future saved.
Reconnect(n) ==
  /\ n \in registered
  /\ reconnects < MaxReconnects
  /\ \A e \in ChainEvents :
       EvNet(e) = n => /\ stream[e] # "parsed"
                       /\ stream[e] = "pending" => EvBlock(e) >= lastSeen[n]
  /\ reconnects' = reconnects + 1
  /\ stream' = OpenStream(n)
  /\ UNCHANGED <<dbVars, chainVars, clockVars, registered, chan, inW, outW, cancelCh,
                 gw, el, todo, cur, crashes, lostReplies, tokReg, dbTokens, down>>

\* parse_funds_in / parse_funds_out: save the event's block as the last
\* seen block of the network, before the event reaches the bridge.  The
\* stream is consumed with for_each_concurrent(16), so events of one
\* stream are parsed in any order.
Parse(e) ==
  /\ stream[e] = "pending"
  /\ stream' = [stream EXCEPT ![e] = "parsed"]
  /\ lastSeen' = UpdateSeenNetworkBlock(EvNet(e), EvBlock(e))
  /\ UNCHANGED <<dbInTx, dbOutTx, status, outbound, chainVars, clockVars, registered,
                 chan, inW, outW, cancelCh, gw, el, todo, cur, crashes, reconnects, lostReplies, tokReg, dbTokens, down>>

\* Mutant of Send: a send that does not wait for room in the channel.
SendUnbounded(e) ==
  /\ stream[e] = "parsed"
  /\ chan' = Append(chan, e)
  /\ stream' = [stream EXCEPT ![e] = "idle"]
  /\ UNCHANGED <<dbVars, chainVars, clockVars, registered, inW, outW, cancelCh, gw,
                 el, todo, cur, crashes, reconnects, lostReplies, tokReg, dbTokens, down>>

\* handle_gprc_event: event_tx.send(..).await, which waits while the
\* channel is full.
Send(e) ==
  /\ stream[e] = "parsed"
  /\ Len(chan) < ChanCap
  /\ chan' = Append(chan, e)
  /\ stream' = [stream EXCEPT ![e] = "idle"]
  /\ UNCHANGED <<dbVars, chainVars, clockVars, registered, inW, outW, cancelCh, gw,
                 el, todo, cur, crashes, reconnects, lostReplies, tokReg, dbTokens, down>>

-----------------------------------------------------------------------------
(* The event loop (Bridge::event_loop) and restore_processing.              *)

\* Mutant of RestoreRead: restore the transfers in the wrong status.
RestoreReadConfirming ==
  /\ el = "read" /\ ~down
  /\ el' = "restore"
  /\ todo' = {d \in Deposit : status[d] = "CONFIRMING"}
  /\ UNCHANGED <<dbVars, chainVars, clockVars, registered, stream, chan, inW, outW,
                 cancelCh, gw, cur, crashes, reconnects, lostReplies, tokReg, dbTokens, down>>

\* get_transactions_in_waiting, read once per attempt.
RestoreRead ==
  /\ el = "read" /\ ~down
  /\ el' = "restore"
  /\ todo' = GetTransactionsInWaiting
  /\ UNCHANGED <<dbVars, chainVars, clockVars, registered, stream, chan, inW, outW,
                 cancelCh, gw, cur, crashes, reconnects, lostReplies, tokReg, dbTokens, down>>

\* Next transfer of the attempt: stringify_address of the sender and the
\* connector and token lookups need both networks registered; if one is
\* not, the attempt fails and is retried after RETRY_TIMEOUT.  Otherwise
\* process_transfer registers a cancel handle and starts the timer.
\* (time_source.now() - seen_at).to_std(): fails ("couldn't process time
\* difference") when the clock is behind the transfer's seen_at.
PassedTime(d) == d \notin ahead

RestoreNext(d) ==
  /\ el = "restore" /\ cur = NONE /\ d \in todo
  /\ \/ /\ StringifyAddress(Src[d]) /\ Dst[d] \in registered
        /\ TokenNetworkByIds(Tok(d)) /\ PassedTime(d)
        /\ cur' = d
        /\ todo' = todo \ {d}
        /\ inW' = [inW EXCEPT ![d] = "wait"]
        /\ cancelCh' = [cancelCh EXCEPT ![d] = "open"]
        /\ UNCHANGED el
     \/ /\ ~(StringifyAddress(Src[d]) /\ Dst[d] \in registered
             /\ TokenNetworkByIds(Tok(d)) /\ PassedTime(d))
        /\ el' = "read"
        /\ todo' = {}
        /\ UNCHANGED <<cur, inW, cancelCh>>
  /\ UNCHANGED <<dbVars, chainVars, clockVars, registered, stream, chan, outW, gw,
                 crashes, reconnects, lostReplies, tokReg, dbTokens, down>>

\* process_transfer returned for the current transfer: on an error the
\* whole attempt fails and is retried.
RestoreItemDone ==
  /\ el = "restore" /\ cur # NONE
  /\ inW[cur] \in {"done", "failed"}
  /\ cur' = NONE
  /\ \/ /\ inW[cur] = "failed"
        /\ el' = "read"
        /\ todo' = {}
     \/ /\ inW[cur] = "done"
        /\ UNCHANGED <<el, todo>>
  /\ UNCHANGED <<dbVars, chainVars, clockVars, registered, stream, chan, inW, outW,
                 cancelCh, gw, crashes, reconnects, lostReplies, tokReg, dbTokens, down>>

RestoreFinish ==
  /\ el = "restore" /\ cur = NONE /\ todo = {}
  /\ el' = "loop"
  /\ UNCHANGED <<dbVars, chainVars, clockVars, registered, stream, chan, inW, outW,
                 cancelCh, gw, todo, cur, crashes, reconnects, lostReplies, tokReg, dbTokens, down>>

\* event_rx.try_recv(): spawn a worker for the event at the head.  A
\* FundsIn delivered again while the first worker for it still runs gets a
\* second worker; of the two, one finds the other's transaction (or hits
\* the unique (network_id, txhash) index) and fails with EventDuplicate.
Dequeue ==
  /\ el = "loop" /\ ~down /\ chan # <<>>
  /\ LET e == Head(chan) IN
       \/ /\ e.kind = "in"
          /\ inW[e.dep] \in {"none", "done", "failed"}
          /\ inW' = [inW EXCEPT ![e.dep] = "spawned"]
          /\ UNCHANGED outW
       \/ /\ e.kind = "in"
          /\ inW[e.dep] \notin {"none", "done", "failed"}
          /\ UNCHANGED <<inW, outW>>
       \/ /\ e.kind = "out"
          /\ outW' = [outW EXCEPT ![e.rel] = "spawned"]
          /\ UNCHANGED inW
  /\ chan' = Tail(chan)
  /\ UNCHANGED <<dbVars, chainVars, clockVars, registered, stream, cancelCh, gw, el,
                 todo, cur, crashes, reconnects, lostReplies, tokReg, dbTokens, down>>

-----------------------------------------------------------------------------
(* The FundsIn worker: handle_transfer_in_event and process_transfer.       *)

\* Registry and connector lookups of the destination, the conversion of
\* the amount to the destination's decimals (Decimal::from_raw_with_scale
\* and to_raw_with_scale, None on an overflow), then insert_tx_if_not_exists
\* in its own committed transaction.  Every error returns before anything
\* is written.
HandleIn(d) ==
  /\ inW[d] = "spawned"
  /\ \/ /\ \/ ~NetworkByName(Dst[d]) \/ ~TokenByAddress(Tok(d))
           \/ d \in Unconvertible
        /\ inW' = [inW EXCEPT ![d] = "failed"]
        /\ UNCHANGED dbInTx
     \/ /\ NetworkByName(Dst[d]) /\ TokenByAddress(Tok(d))
        /\ d \notin Unconvertible
        /\ FindTransactionByHash(d, dbInTx)    \* EventDuplicate
        /\ inW' = [inW EXCEPT ![d] = "failed"]
        /\ UNCHANGED dbInTx
     \/ /\ NetworkByName(Dst[d]) /\ TokenByAddress(Tok(d))
        /\ d \notin Unconvertible
        /\ ~FindTransactionByHash(d, dbInTx)
        /\ dbInTx' = InsertTransaction(dbInTx, d)
        /\ inW' = [inW EXCEPT ![d] = "txIns"]
  /\ UNCHANGED <<dbOutTx, status, outbound, lastSeen, chainVars, clockVars, registered,
                 stream, chan, outW, cancelCh, gw, el, todo, cur, crashes, reconnects, lostReplies, tokReg, dbTokens, down>>

\* insert_transfer (status WAITING) committed in a second transaction, then
\* process_transfer puts the cancel handle in the map and starts the timer.
InsertTransfer(d) ==
  /\ inW[d] = "txIns"
  /\ status' = InsertTransferRow(d)
  /\ cancelCh' = [cancelCh EXCEPT ![d] = "open"]
  /\ inW' = [inW EXCEPT ![d] = "wait"]
  /\ UNCHANGED <<dbInTx, dbOutTx, outbound, lastSeen, chainVars, clockVars, registered,
                 stream, chan, outW, gw, el, todo, cur, crashes, reconnects, lostReplies, tokReg, dbTokens, down>>

\* The second write_tx (a pool connection, waited for up to the pool's
\* acquire timeout), insert_transfer or its commit fails: the error is
\* returned with the triggering transaction already committed.
InsertTransferFail(d) ==
  /\ DbErrors
  /\ inW[d] = "txIns"
  /\ inW' = [inW EXCEPT ![d] = "failed"]
  /\ UNCHANGED <<dbVars, chainVars, clockVars, registered, stream, chan, outW, cancelCh,
                 gw, el, todo, cur, crashes, reconnects, lostReplies, tokReg, dbTokens, down>>

\* select!: the cancel branch, or the timeout branch whose try_recv after
\* close() still finds the value sent before it.  Either way the transfer is
\* dropped and process_transfer returns Ok.
WakeCancelled(d) ==
  /\ inW[d] = "wait" /\ cancelCh[d] = "sent"
  /\ inW' = [inW EXCEPT ![d] = "done"]
  /\ cancelCh' = [cancelCh EXCEPT ![d] = NONE]
  /\ UNCHANGED <<dbVars, chainVars, clockVars, registered, stream, chan, outW, gw, el,
                 todo, cur, crashes, reconnects, lostReplies, tokReg, dbTokens, down>>

\* Mutant of WakeTimeout: the timeout branch without the try_recv after
\* close(), so a cancel sent just before the timer is ignored.
WakeTimeoutNoTryRecv(d) ==
  /\ inW[d] = "wait" /\ cancelCh[d] \in {"open", "sent"}
  /\ inW' = [inW EXCEPT ![d] = "fired"]
  /\ cancelCh' = [cancelCh EXCEPT ![d] = NONE]
  /\ UNCHANGED <<dbVars, chainVars, clockVars, registered, stream, chan, outW, gw, el,
                 todo, cur, crashes, reconnects, lostReplies, tokReg, dbTokens, down>>

\* The timeout branch with nothing sent: close() makes a later send fail
\* ("too late to cancel"), and the handle is removed from the map.
WakeTimeout(d) ==
  /\ inW[d] = "wait" /\ cancelCh[d] = "open"
  /\ inW' = [inW EXCEPT ![d] = "fired"]
  /\ cancelCh' = [cancelCh EXCEPT ![d] = NONE]
  /\ UNCHANGED <<dbVars, chainVars, clockVars, registered, stream, chan, outW, gw, el,
                 todo, cur, crashes, reconnects, lostReplies, tokReg, dbTokens, down>>

\* A release made by bridge_out for deposit d: the next block of Dst[d].
NewRelease(d) == [dep |-> d, blk |-> height[Dst[d]] + 1]

\* The destination connector executes a bridge_out request: the funds leave
\* on the destination chain, and the FundsOut event shows up in its stream
\* if the destination connector is streaming.
Release(d) ==
  /\ Cardinality(releases) < MaxReleases
  /\ LET r == NewRelease(d) IN
       /\ releases' = releases \cup {r}
       /\ height' = [height EXCEPT ![Dst[d]] = r.blk]
       /\ stream' = stream @@ (OutEv(r) :> IF Dst[d] \in registered
                                             THEN "pending" ELSE "idle")
       /\ outW' = outW @@ (r :> "none")

\* to_connector.bridge_out(..) returns the hash of the release.
BridgeOut(d) ==
  /\ inW[d] = "fired"
  /\ Release(d)
  /\ inW' = [inW EXCEPT ![d] = "bridged"]
  /\ UNCHANGED <<clockVars, dbVars, cancelSigs, registered, chan, cancelCh, gw, el,
                 todo, cur, crashes, reconnects, lostReplies, tokReg, dbTokens, down>>

\* retry_request: the request was executed but its answer is lost and the
\* client sees Code::Unavailable, so it sleeps RETRY_TIMEOUT and sends the
\* same request (same transaction_id) again.
BridgeOutRetry(d) ==
  /\ inW[d] = "fired"
  /\ lostReplies < MaxLostReplies
  /\ Release(d)
  /\ lostReplies' = lostReplies + 1
  /\ UNCHANGED <<clockVars, dbVars, cancelSigs, registered, chan, inW, cancelCh, gw, el,
                 todo, cur, crashes, reconnects, tokReg, dbTokens, down>>

\* bridge_out returns an error: the open write transaction is dropped.
BridgeOutFail(d) ==
  /\ ConnectorErrors
  /\ inW[d] = "fired"
  /\ inW' = [inW EXCEPT ![d] = "failed"]
  /\ UNCHANGED <<dbVars, chainVars, clockVars, registered, stream, chan, outW, cancelCh,
                 gw, el, todo, cur, crashes, reconnects, lostReplies, tokReg, dbTokens, down>>

\* update_transfer_status(Confirming), unconditional, and commit.
Confirm(d) ==
  /\ inW[d] = "bridged"
  /\ status' = UpdateTransferStatus(d, "CONFIRMING")
  /\ inW' = [inW EXCEPT ![d] = "done"]
  /\ UNCHANGED <<dbInTx, dbOutTx, outbound, lastSeen, chainVars, clockVars, registered,
                 stream, chan, outW, cancelCh, gw, el, todo, cur, crashes, reconnects, lostReplies, tokReg, dbTokens, down>>

-----------------------------------------------------------------------------
(* The FundsOut worker: handle_transfer_out_event.                          *)

\* Mutant of HandleOut: no find_transaction_by_hash before the insert.
HandleOutNoDuplicateCheck(r) ==
  /\ outW[r] = "spawned"
  /\ \/ /\ ~TokenByAddress(Tok(r.dep)) \/ ~ParseAddress(Src[r.dep])
        /\ outW' = [outW EXCEPT ![r] = "failed"]
        /\ UNCHANGED dbOutTx
     \/ /\ TokenByAddress(Tok(r.dep)) /\ ParseAddress(Src[r.dep])
        /\ dbOutTx' = dbOutTx \cup {r}
        /\ outW' = [outW EXCEPT ![r] = "txIns"]
  /\ UNCHANGED <<dbInTx, status, outbound, lastSeen, chainVars, clockVars, registered,
                 stream, chan, inW, cancelCh, gw, el, todo, cur, crashes, reconnects, lostReplies, tokReg, dbTokens, down>>

\* Token lookup and parse_address of the sender (a name of the source
\* network), then insert_tx_if_not_exists committed on its own.
HandleOut(r) ==
  /\ outW[r] = "spawned"
  /\ \/ /\ ~TokenByAddress(Tok(r.dep)) \/ ~ParseAddress(Src[r.dep])
        /\ outW' = [outW EXCEPT ![r] = "failed"]
        /\ UNCHANGED dbOutTx
     \/ /\ TokenByAddress(Tok(r.dep)) /\ ParseAddress(Src[r.dep])
        /\ FindTransactionByHash(r, dbOutTx)   \* EventDuplicate
        /\ outW' = [outW EXCEPT ![r] = "failed"]
        /\ UNCHANGED dbOutTx
     \/ /\ TokenByAddress(Tok(r.dep)) /\ ParseAddress(Src[r.dep])
        /\ ~FindTransactionByHash(r, dbOutTx)
        /\ dbOutTx' = InsertTransaction(dbOutTx, r)
        /\ outW' = [outW EXCEPT ![r] = "txIns"]
  /\ UNCHANGED <<dbInTx, status, outbound, lastSeen, chainVars, clockVars, registered,
                 stream, chan, inW, cancelCh, gw, el, todo, cur, crashes, reconnects, lostReplies, tokReg, dbTokens, down>>

\* finalize_transfer: SELECT .. WHERE status = CONFIRMING and the
\* (from, to, amount, token) match, LIMIT 1 with no ORDER BY, so any
\* matching row; fetch_one fails when there is none.
Finalize(r) ==
  /\ outW[r] = "txIns"
  /\ \/ \E d \in FinalizeMatches(r) :
          /\ status' = [status EXCEPT ![d] = "FINISHED"]
          /\ outbound' = [outbound EXCEPT ![d] = {r}]
          /\ outW' = [outW EXCEPT ![r] = "done"]
     \/ /\ FinalizeMatches(r) = {}
        /\ outW' = [outW EXCEPT ![r] = "failed"]
        /\ UNCHANGED <<status, outbound>>
  /\ UNCHANGED <<dbInTx, dbOutTx, lastSeen, chainVars, clockVars, registered, stream,
                 chan, inW, cancelCh, gw, el, todo, cur, crashes, reconnects, lostReplies, tokReg, dbTokens, down>>

-----------------------------------------------------------------------------
(* The gateway's cancel_transfer handler (grpc/server.rs).                  *)

\* Bridge::cancel_transfer: remove the handle from the map and send on it;
\* it fails when there is no handle or the worker's timeout branch has
\* closed the channel.
SendCancel(d) ==
  /\ cancelCh[d] = "open"
  /\ cancelCh' = [cancelCh EXCEPT ![d] = "sent"]

\* network_registry.by_id of the source network, signature check,
\* find_transfer_details_by_transfer_id (any status), then
\* Bridge::cancel_transfer succeeds.
GwCancel(d) ==
  /\ gw[d] = "idle" /\ ~down
  /\ NetworkById(Src[d])
  /\ FindTransferDetails(d)
  /\ TokenNetworkByIds(Tok(d))
  /\ SendCancel(d)
  /\ gw' = [gw EXCEPT ![d] = "signalled"]
  /\ UNCHANGED <<dbVars, chainVars, clockVars, registered, stream, chan, inW, outW, el,
                 todo, cur, crashes, reconnects, lostReplies, tokReg, dbTokens, down>>

\* increment_nonce, cancel_signature, update_transfer_status(Cancelled)
\* (unconditional) and commit, then the signature goes back to the user.
GwCommit(d) ==
  /\ gw[d] = "signalled"
  /\ status' = UpdateTransferStatus(d, "CANCELLED")
  /\ cancelSigs' = cancelSigs \cup {d}
  /\ gw' = [gw EXCEPT ![d] = "idle"]
  /\ UNCHANGED <<clockVars, dbInTx, dbOutTx, outbound, lastSeen, releases, height,
                 registered, stream, chan, inW, outW, cancelCh, el, todo,
                 cur, crashes, reconnects, lostReplies, tokReg, dbTokens, down>>

\* cancel_signature returns an error: the write transaction (with the
\* nonce increment) is dropped, the worker has already given the transfer up.
GwFail(d) ==
  /\ ConnectorErrors
  /\ gw[d] = "signalled"
  /\ gw' = [gw EXCEPT ![d] = "idle"]
  /\ UNCHANGED <<dbVars, chainVars, clockVars, registered, stream, chan, inW, outW,
                 cancelCh, el, todo, cur, crashes, reconnects, lostReplies, tokReg, dbTokens, down>>

-----------------------------------------------------------------------------
(* Shutdown (Bridge::shutdown and main) and crashes.                        *)

\* main on the first interrupt: the gRPC server is shut down and main waits
\* for it, so requests in flight finish and no new one starts; then
\* Bridge::shutdown sets is_shutting_down.  The connectors keep running.
ShutdownBegin ==
  /\ ~down /\ crashes < MaxCrashes /\ tokReg # {}
  /\ \A d \in Deposit : gw[d] = "idle"
  /\ down' = TRUE
  /\ UNCHANGED <<dbVars, chainVars, clockVars, registered, stream, chan, inW, outW,
                 cancelCh, gw, el, todo, cur, crashes, reconnects, lostReplies, tokReg, dbTokens>>

\* event_loop sees the flag at the top of an iteration, before a restore
\* attempt or before try_recv, and returns; a restore attempt under way
\* runs to its end first.
EventLoopExit ==
  /\ down /\ el \in {"read", "loop"}
  /\ el' = "stopped"
  /\ UNCHANGED <<dbVars, chainVars, clockVars, registered, stream, chan, inW, outW,
                 cancelCh, gw, todo, cur, crashes, reconnects, lostReplies, tokReg, dbTokens, down>>

\* The process starts again: the database and the chains stay, every task,
\* handle and queued event is gone, and main starts the bridge and the
\* connectors again.
Restart ==
  /\ crashes' = crashes + 1
  /\ UNCHANGED <<dbVars, chainVars, clockVars, reconnects, lostReplies, dbTokens>>
  /\ tokReg' = {}
  /\ registered' = {}
  /\ chan' = <<>>
  /\ el' = "read"
  /\ inW' = [d \in Deposit |-> "none"]
  /\ cancelCh' = [d \in Deposit |-> NONE]
  /\ gw' = [d \in Deposit |-> "idle"]
  /\ todo' = {}
  /\ cur' = NONE
  /\ stream' = [e \in ChainEvents |-> "idle"]
  /\ outW' = [r \in releases |-> "none"]
  /\ down' = FALSE

\* Bridge::shutdown returns once the event loop has ended and every worker
\* in active_transfers_tasks has finished (a worker waits out its contest
\* timer); main returns and the process is started again.
ShutdownExit ==
  /\ down /\ el = "stopped"
  /\ \A d \in Deposit : inW[d] \in {"none", "done", "failed"}
  /\ \A r \in releases : outW[r] \in {"none", "done", "failed"}
  /\ Restart

\* A crash, or the second interrupt forcing termination, at any point.
Crash ==
  /\ crashes < MaxCrashes
  /\ Restart

-----------------------------------------------------------------------------
(* The host's wall clock, read by RealTimeSource::now.  Only whether it is  *)
(* behind a recorded seen_at matters (time itself is abstracted: the       *)
(* contest timer may fire at any point).  insert_transaction stamps        *)
(* seen_at with now, so a new transaction is never ahead of the clock.     *)

\* The clock steps back (an NTP correction, or a restart on a host whose
\* clock is behind) past the seen_at of every recorded transaction.
ClockStepBack ==
  /\ clockSteps < MaxClockSteps /\ dbInTx # {}
  /\ ahead' = dbInTx /\ clockSteps' = clockSteps + 1
  /\ UNCHANGED <<dbVars, chainVars, memVars, crashes, reconnects, lostReplies,
                 tokReg, dbTokens>>

\* Real time passes and the clock reaches the latest seen_at again.
ClockCatchUp ==
  /\ ahead # {} /\ ahead' = {}
  /\ UNCHANGED <<dbVars, chainVars, clockSteps, memVars, crashes, reconnects,
                 lostReplies, tokReg, dbTokens>>

Next ==
  \/ \E n \in Net : Register(n) \/ Reconnect(n)
  \/ \E e \in ChainEvents : Parse(e) \/ Send(e)
  \/ RestoreRead \/ RestoreItemDone \/ RestoreFinish \/ Dequeue
  \/ \E d \in Deposit :
       \/ RestoreNext(d) \/ HandleIn(d) \/ InsertTransfer(d)
       \/ InsertTransferFail(d)
       \/ WakeCancelled(d) \/ WakeTimeout(d) \/ BridgeOut(d)
       \/ BridgeOutRetry(d) \/ BridgeOutFail(d) \/ Confirm(d)
       \/ GwCancel(d) \/ GwCommit(d) \/ GwFail(d)
  \/ \E r \in releases : HandleOut(r) \/ Finalize(r)
  \/ LoadTokens \/ CliSetupTokens \/ ClockStepBack \/ ClockCatchUp
  \/ ShutdownBegin \/ EventLoopExit \/ ShutdownExit \/ Crash

\* Every task the runtime schedules makes progress: the event loop polls
\* the channel every 100 ms, spawned workers run, timers fire, connector
\* start and restore_processing are retried every RETRY_TIMEOUT, a started
\* request to the gateway completes one way or the other.  The user's cancel
\* request, a crash and the end of a stream are not forced to happen.
Fairness ==
  /\ WF_vars(LoadTokens) /\ WF_vars(ClockCatchUp)
  /\ \A n \in Net : WF_vars(Register(n))
  /\ WF_vars(\E e \in ChainEvents : Parse(e))
  /\ WF_vars(\E e \in ChainEvents : Send(e))
  /\ WF_vars(RestoreRead) /\ WF_vars(RestoreItemDone)
  /\ WF_vars(RestoreFinish) /\ WF_vars(Dequeue)
  /\ WF_vars(EventLoopExit) /\ WF_vars(ShutdownExit)
  /\ \A d \in Deposit :
       /\ WF_vars(RestoreNext(d)) /\ WF_vars(HandleIn(d))
       /\ WF_vars(InsertTransfer(d) \/ InsertTransferFail(d))
       /\ WF_vars(WakeCancelled(d))
       /\ WF_vars(WakeTimeout(d)) /\ WF_vars(BridgeOut(d) \/ BridgeOutFail(d))
       /\ WF_vars(Confirm(d)) /\ WF_vars(GwCommit(d) \/ GwFail(d))
  /\ WF_vars(\E r \in releases : HandleOut(r))
  /\ WF_vars(\E r \in releases : Finalize(r))

Spec == Init /\ [][Next]_vars /\ Fairness

-----------------------------------------------------------------------------
(* Properties.                                                              *)

ReleasesOf(d) == {r \in releases : r.dep = d}

\* The funds of a deposit leave on the destination chain at most once:
\* neither a restore of a transfer whose bridge_out already ran nor a second
\* worker for the same deposit may call bridge_out again.
AtMostOneRelease == \A d \in Deposit : Cardinality(ReleasesOf(d)) <= 1

\* A user never holds a cancel signature (the refund on the source chain)
\* for a deposit whose funds were also released on the destination chain:
\* the race of cancel_transfer with the worker's timer, and the re-reads of
\* restore_processing, must not let both happen.
NoDoubleSpend == \A d \in Deposit : ~(d \in cancelSigs /\ ReleasesOf(d) # {})

\* The deposit is in flight in this process: in the connector's stream, in
\* the event channel, or taken by a worker that has not yet written its
\* transfer row.
InFlight(d) ==
  \/ stream[InEv(d)] \in {"pending", "parsed"}
  \/ InEv(d) \in ToSet(chan)
  \/ inW[d] \in {"spawned", "txIns"}

\* A deposit without a transfer row that nothing in the process will turn
\* into one, and that no later stream will deliver again usefully: either
\* its block is behind the saved frontier a new stream starts from, or its
\* triggering transaction is recorded, so a redelivery is EventDuplicate.
Lost(d) ==
  /\ status[d] = NONE
  /\ ~InFlight(d)
  /\ d \in dbInTx \/ Block[d] < lastSeen[Src[d]]

\* Every deposit on a source chain becomes a transfer (the user can then be
\* paid out or cancel): none is ever lost.  About parse_funds_in saving the
\* block before the event is handled, the two commits of
\* handle_transfer_in_event, and its error returns (destination not yet
\* registered, amount conversion) after the block was saved.
NoDepositLost == \A d \in Deposit : ~Lost(d)

\* The transfers, releases and cancel signatures of the implementation are
\* those of the abstract lifecycle: no release outside WAITING, at most one
\* release, a cancel only for an unreleased WAITING transfer, and statuses
\* that only move forward.
Lifecycle == INSTANCE TransferLifecycle
               WITH status <- status,
                    released <- [d \in Deposit |-> Cardinality(ReleasesOf(d))],
                    refunded <- cancelSigs
LifecycleRefinement == Lifecycle!Spec

\* A transfer does not stay WAITING: the timer fires and bridge_out runs,
\* or the user's cancel completes, also across restarts (restore_processing).
WaitingResolved ==
  \A d \in Deposit : status[d] = "WAITING" ~> status[d] # "WAITING"

\* A transfer whose funds were released is eventually FINISHED: its FundsOut
\* event finds it CONFIRMING in finalize_transfer.
ConfirmingFinished ==
  \A d \in Deposit : status[d] = "CONFIRMING" ~> status[d] = "FINISHED"


\* An outbound transaction finalizes at most one transfer, even when its
\* FundsOut event is delivered again after a restart (insert_tx_if_not_exists
\* turns the second delivery into EventDuplicate).
OutboundUnique ==
  \A x, y \in Deposit : x # y => outbound[x] \cap outbound[y] = {}

\* Statuses only move forward: NONE, WAITING, then CONFIRMING and FINISHED
\* or CANCELLED.  About the unconditional update_transfer_status calls of
\* process_transfer and of the gateway's cancel_transfer.
Forward == {<<NONE, "WAITING">>, <<"WAITING", "CONFIRMING">>,
            <<"WAITING", "CANCELLED">>, <<"CONFIRMING", "FINISHED">>}
StatusForwardOnly ==
  [][\A d \in Deposit :
       status'[d] = status[d] \/ <<status[d], status'[d]>> \in Forward]_status

\* The saved last seen block of a network never moves back: it is the
\* frontier a restarted stream resumes from.  About the plain upsert of
\* update_seen_network_block, called by events parsed concurrently.
LastSeenMonotone ==
  [][\A n \in Net : lastSeen'[n] >= lastSeen[n]]_lastSeen

=============================================================================
