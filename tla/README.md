# TLA+ models of the Casper–Ethereum bridge core

This directory holds TLA+ models of `boosty-bridge/poc/bridge-core`, the
coordinator of the bridge, and of `boosty-bridge/poc/price-oracle`, together
with the TLC configurations that check them. Paths below are relative to
`src/boosty-bridge/poc/bridge-core/src/` unless they name `price-oracle/`.

## The system

The bridge moves tokens between chains. A user locks funds on a source chain
(a *FundsIn* event). After a contest window the bridge releases the same
amount on the destination chain (*bridge_out*, seen back as a *FundsOut*
event). During the window the user may cancel and get a signature that
refunds the deposit on the source chain.

| Part | Code | State | Operations |
|---|---|---|---|
| Coordinator | `bridge.rs` | network and token registries, connector map, cancel-handle map, event channel (capacity 256), worker set | `start`, `event_loop`, `restore_processing`, `handle_transfer_in_event`, `process_transfer`, `handle_transfer_out_event`, `cancel_transfer`, `register_connector`, `shutdown` |
| Persistence | `db.rs` | tables `transactions`, `token_transfers`, `network_blocks`, `network_nonces`, `tokens` | `insert_transaction`, `insert_transfer`, `update_transfer_status`, `finalize_transfer`, `update_seen_network_block`, `get_transactions_in_waiting`, `increment_nonce`, queries |
| Connector client | `grpc/connector.rs`, `grpc.rs` | per network: metadata, a stream of chain events | `try_start` (metadata, then register), `event_loop` (stream from the last seen block, `for_each_concurrent(16)`), `parse_funds_in/out` (saves the block), `bridge_out`, `cancel_signature`, `retry_request` |
| Gateway API | `grpc/server.rs` | none of its own | `cancel_transfer`, `bridge_in_signature`, `transfer_history`, `estimate_transfer` |
| Registries | `registry.rs` | slab of networks, token maps | register, lookups |
| Decimal math | `math.rs` | none | `rescale`, `from_raw_with_scale`, `to_raw_with_scale` |
| Startup and shutdown | `bin/bridge.rs` | none | `Bridge::start`, gRPC server, `load_tokens`, connectors, in that order; on the first interrupt the gRPC server stops, then `Bridge::shutdown`; a second interrupt forces termination |
| Price oracle (separate service) | `price-oracle/src/oracle.rs` | per stream: a bounded mpsc channel and a `price_processor` task | `price_stream`, `get_prices`, the processor loop |

How the parts interact:

- **Connector to coordinator.** Each connector task streams its chain's
  events. It saves the event's block in `network_blocks` and then waits to
  push the event into the bounded channel.
- **Event loop.** It first runs `restore_processing` until that succeeds,
  retrying every 5 s. Then it polls the channel and spawns one worker per
  event.
- **FundsIn worker.** It commits the triggering transaction, then commits
  the transfer row (WAITING), then registers a one-shot cancel handle and
  races it against the timer. If no cancel arrives, it calls `bridge_out`
  and commits CONFIRMING.
- **FundsOut worker.** It commits the outbound transaction, then has
  `finalize_transfer` move one matching CONFIRMING row to FINISHED.
- **Gateway cancel.** The gateway's `cancel_transfer` removes the handle and
  signals it. It then asks the source connector for a refund signature and
  commits CANCELLED.
- **Shutdown.** `Bridge::shutdown` sets `is_shutting_down`. The event loop
  sees it at the top of its next iteration and returns; the workers already
  spawned are awaited. The connectors are not stopped: they keep parsing
  and saving `last_seen_block` until the process exits.
- **Crash or restart.** The database and the chains survive; everything in
  memory is lost.

The behaviours that make this hard to test:
- the cancel racing the timer;
- a FundsOut event racing the CONFIRMING commit;
- concurrent parsing that overwrites `last_seen_block`;
- two separate commits where the spec says one;
- a restart between any two of these steps;
- a restore attempt that fails and re-reads a stale WAITING snapshot;
- connector calls that fail;
- connectors registering in any order.

## Modules

### `TransferLifecycle.tla` (abstract)

This is what the bridge promises for each transfer (spec.md §3, §4.7). The
status moves NONE → WAITING → CONFIRMING → FINISHED, or WAITING →
CANCELLED. There is at most one release, and only while WAITING. A refund
(cancel signature) is given only for an unreleased WAITING transfer.

### `BridgeCore.tla` (detailed)

Constants:
- `Deposit`, `Net`;
- `Src`, `Dst`, `Block` (where each deposit is);
- `Key` (the (from, to, amount, token) tuple that `finalize_transfer`
  matches on);
- `ChanCap`, `MaxReleases`, `MaxCrashes`, `MaxReconnects`;
- `ConnectorErrors` (whether `bridge_out` and `cancel_signature` may fail);
- `DbErrors` (whether the second transaction of `handle_transfer_in_event`
  may fail: a pool acquire timeout, a database error);
- `MaxLostReplies` (how many executed `bridge_out` requests may lose their
  answer and be resent by `retry_request`);
- `Unconvertible` (deposits whose amount overflows in the decimal
  conversion);
- `LateToken` (deposits of a token whose rows the CLI's `setup-tokens`
  writes while the bridge runs; all other deposits are of tokens present
  at startup);
- `MaxClockSteps` (how often the host's wall clock may step back).

Variables:
- Database: `dbInTx`, `dbOutTx`, `status`, `outbound`, `lastSeen`.
- Chains and users: `releases`, `height`, `cancelSigs`.
- Memory: `registered`, `stream`, `chan`, `inW` and `outW` (program counters
  of the workers), `cancelCh` (cancel handles), `gw` (gateway requests),
  `el`, `todo` and `cur` (event loop and restore attempt), `down` (the
  `is_shutting_down` flag), and the bound counters `crashes` (restarts,
  graceful or not), `reconnects` and `lostReplies`.
- Tokens: `dbTokens` (the token groups with rows in `tokens` and
  `network_tokens`) and `tokReg` (the groups the in-memory `TokenRegistry`
  holds, `{}` before `load_tokens`).
- Clock: `ahead` (recorded transactions whose `seen_at` is later than the
  wall clock) and `clockSteps`. Following Lamport's real-time abstraction,
  only how the clock stands to the stored timestamps is kept, not its value.

The network registry of `registry.rs` is the set `registered`:
`NetworkRegister`, `NetworkById`, `NetworkByName`, `StringifyAddress` and
`ParseAddress` are its operations, each failing for an unregistered network.
The `TokenRegistry` is `tokReg`: `TokenRegistryLoad` (its `register` and
`register_token_network`), `TokenByAddress` and `TokenNetworkByIds` fail for
a token it does not hold. Token ids and contract addresses are abstracted to
two groups, `"base"` and `"late"` (`Tok(d)`).

| Action | Code |
|---|---|
| `Register(n)` | `Connector::start`'s retry loop around `try_start`, `register_connector` (`RegisterConnector`), first stream opened from the saved last seen block (`OpenStream`) |
| `Reconnect(n)` | `Connector::event_loop`: the stream ends, running futures finish, a new stream opens from the saved block and delivers events again |
| `Parse(e)` | `parse_funds_in/out`: `update_seen_network_block` with the event's block, in any order |
| `Send(e)` | `handle_gprc_event`: blocking send into the channel |
| `RestoreRead`, `RestoreNext(d)`, `RestoreItemDone`, `RestoreFinish` | `restore_processing` (WAITING snapshot, per-item lookups, awaiting each `process_transfer`, abort and retry on any error) and the retry loop of `event_loop` |
| `Dequeue` | `event_loop`'s `try_recv` and spawn; a FundsIn delivered again while its first worker runs is dropped: the second worker the code spawns fails on `find_transaction_by_hash` or the unique (network_id, txhash) index and writes nothing. A FundsOut delivered again restarts its worker's program counter, which only reorders a `Finalize` |
| `HandleIn(d)`, `InsertTransfer(d)`, `InsertTransferFail(d)` | `handle_transfer_in_event`: lookups and the amount conversion (each may fail before anything is written), the first commit (`insert_tx_if_not_exists`), then the second transaction (`insert_transfer`), which may fail, up to the handle registration in `process_transfer` |
| `WakeCancelled(d)`, `WakeTimeout(d)` | the `select!` of `process_transfer`, with `close()` + `try_recv` |
| `BridgeOut(d)`, `BridgeOutFail(d)`, `Confirm(d)` | `bridge_out` (the release on the destination chain is `Release(d)`) and the CONFIRMING commit |
| `BridgeOutRetry(d)` | `retry_request`: the request was executed, its answer is lost (`Unavailable`), and the same request is sent again after `RETRY_TIMEOUT` |
| `HandleOut(r)`, `Finalize(r)` | `insert_tx_if_not_exists` + `handle_transfer_out_event` + `finalize_transfer` |
| `GwCancel(d)`, `GwCommit(d)`, `GwFail(d)` | gateway `cancel_transfer` + `Bridge::cancel_transfer` |
| `ShutdownBegin` | `main` on the first interrupt: the gRPC server finishes its requests and stops, then `shutdown` sets the flag |
| `EventLoopExit` | `event_loop`'s flag checks (before a restore attempt, before `try_recv`) |
| `ShutdownExit` | `shutdown` returns once the event loop and every worker have finished; the process starts again (`Restart`) |
| `LoadTokens` | `main`'s single `load_tokens`, after `Bridge::start` (restore already running) and before any connector starts |
| `CliSetupTokens` | the CLI's `setup-tokens` against a running bridge: `setup_tokens` inserts the TEST token's rows in one committed transaction (run once; a second run would duplicate the rows) |
| `ClockStepBack`, `ClockCatchUp` | `RealTimeSource::now` stepping back behind every recorded `seen_at` (an NTP correction, a restart on a host whose clock is behind), and real time catching up; `PassedTime(d)` is restore's `(now - seen_at).to_std()`, which fails while `d` is ahead |
| `Crash` | a crash or a forced termination at any point, then `Restart`: memory back to `Bridge::start`'s state |

What is abstracted, and why:
- **Data.** A deposit is a model value, and a release is a record
  `[dep, blk]`.
- **Parse errors.** Malformed events are not modelled. Token lookups fail
  exactly when the registry lacks the deposit's token group: before
  `load_tokens` (restore and the gateway) and for a token added later.
- **Nonce increment.** `increment_nonce` is left out of the cancel: it is
  rolled back with the transaction and does not affect the transfer.
- **The closed channel.** The short gap between `cancel_rx.close()` and the
  handle's removal is folded into `WakeTimeout`. A cancel arriving in that
  gap fails ("too late"), exactly as when the handle is already gone.

### `DecimalRescale.tla` (pure arithmetic)

`handle_transfer_in_event` converts the amount with
`Decimal::from_raw_with_scale(amount, from_decimals).to_raw_with_scale(to_decimals)`.
The module has one operator for each function of `math.rs` on that path:
- `Pow10`, from the `POWERS_OF_10` table (`PowersOf10`, the powers of ten up to one short of the largest below 2^Width, as the code stops at 10^76; counted by the RECURSIVE
  `PowersBelow`);
- `Rescale`, with `CheckedMul` and `CheckedDiv`;
- `FromRawWithScale` and `ToRawWithScale`, with the `as i8`/`as u8` casts and
  the i8 subtraction (`SubI8`, `NegI8`). Without overflow checks the i8
  operations wrap; with them they panic.

Two steps, `FromRaw` and `ToRaw`, run one conversion on inputs chosen in
`Init`. The result is compared with `Exact`, the true value
`raw * 10^to / 10^from` computed without large intermediates.

### `NetworkNonces.tla` (signature nonces)

This module covers the `network_nonces` table and the two gateway handlers
that use it:
- `bridge_in_signature` increments the nonce, commits, then asks the
  connector to sign;
- `cancel_transfer`, once its cancel handle was signalled, increments the
  nonce, asks for the cancel signature and updates the status. Only then
  does it commit, so the row lock is held across the connector call.

The database follows Postgres under READ COMMITTED:
- the upsert waits for the row lock (`holder`);
- once it holds the lock, it reads the latest committed value;
- a dropped transaction rolls back;
- every transaction holds one of `PoolSize` pool connections, and
  acquiring a connection times out when the pool is full.

A crash rolls back every open transaction. `sigs` records the signatures
returned to users. The validation before `write_tx` changes nothing and is
left out.

### `PriceOracle.tla` (the price oracle service)

`price_stream` creates a futures mpsc channel (`Buffer` = 256, so it holds
`Buffer + 1` messages with its one sender) and spawns `price_processor`.
The processor loops forever: sleep, `get_prices` (each token's fetch may
fail), `feed` each successful price in subscription order, `flush`. A
price is the token it is for.

| Action | Code |
|---|---|
| `PriceStream(c)` | `price_stream` |
| `Fetch(c)` | the sleep and `get_prices` / `get_price` |
| `Feed(c)` | `sender.feed`: waits while the channel is full, fails (logged) on a dropped receiver |
| `Flush(c)` | `sender.flush`: waits for capacity, succeeds on a dropped receiver |
| `Recv(c)`, `Disconnect(c)` | tonic draining the receiver; the client going away, dropping the receiver and its prices |

Nothing ends a processor: after its client leaves it keeps polling the
aggregator contracts once a second for the life of the process. The
repository states no rule that it should stop, so this is recorded as a
hazard rather than as a violated property.

`MC_BridgeCore.tla` gives the constants their values: two deposits, two
networks, and the same key for both deposits (or different keys).

## Properties

| Property | Kind | Statement |
|---|---|---|
| `TypeOK` | invariant | types, channel within capacity |
| `LifecycleRefinement` | temporal | `BridgeCore` implements `TransferLifecycle` under the mapping status ↦ status, released ↦ number of releases, refunded ↦ cancel signatures |
| `WaitingResolved` | liveness | a WAITING transfer eventually leaves WAITING |
| `OutboundUnique` | invariant | an outbound tx finalizes at most one transfer |
| `AtMostOneRelease` | invariant | one release per deposit |
| `NoDoubleSpend` | invariant | never both a refund signature and a release |
| `NoDepositLost` | invariant | no deposit is left without a transfer row while nothing in the process will create one and no new stream can usefully deliver it again (its block is behind the saved frontier, or its transaction is recorded so a redelivery is EventDuplicate) |
| `ConfirmingFinished` | liveness | CONFIRMING leads to FINISHED |
| `StatusForwardOnly` | action | status changes only along the lifecycle |
| `LastSeenMonotone` | action | `last_seen_block` never decreases (stated; concurrent parses violate it, no run: a regression only causes replays that duplicate detection rejects) |
| `NonceUnique` (NetworkNonces) | invariant | no two signatures returned for one network share a nonce |
| `RequestsComplete` (NetworkNonces) | liveness | every request holding a connection finishes; no row lock is left behind |
| `NoOverpay` (DecimalRescale) | invariant | a successful conversion never exceeds the exact value |
| `RoundsComplete` (PriceOracle) | liveness | every fetched round is handed over and the processor sleeps again, also when its client leaves mid-round with the channel full |
| `UpscaleExact` (DecimalRescale) | invariant | spec.md §4.2: scaling up is exact (stated; violated when the source has more than 18 decimals, no run) |

## Runs

The BridgeCore runs use `MC_BridgeCore` and `ChanCap = 1`; a restart there
is a crash or a graceful shutdown, both counted by `MaxCrashes`. The decimal
run uses `MC_DecimalRescale`, the nonce run `MC_NetworkNonces`, the oracle
run `MC_PriceOracle`.

Token decimals of 128 and more (u8 values) wrap to negative i8 values in
`from_raw_with_scale`, and 1 unit at 255 decimals then converts to 10 units
at 0 decimals. `MC_DecimalsWrap` in `MC_DecimalRescale` reaches this with
`NoOverpay`. It is recorded as a hazard, not a run: no real token has that
many decimals.

| Run | Expect | Setting | What it shows |
|---|---|---|---|
| `cancel_race` | pass | no crash, 1 stream reconnect, connector and database errors on, 2 same-key deposits, d2 of a late token | the cancel/timer race and ambiguous finalize stay inside the abstract lifecycle |
| `restart_liveness` | pass | 1 deposit, up to 2 restarts, 1 lost `bridge_out` answer, 1 clock step back | a WAITING transfer is always resolved after restarts, a retried `bridge_out` and restore attempts failing on a clock behind `seen_at` |
| `restart_safety` | pass | 2 same-key deposits, 1 restart, errors on | a redelivered FundsOut never finalizes a second transfer |
| `deposit_dropped` | violation | no crash, 2 deposits, d1 unconvertible and of a late token, database errors on | a FundsIn whose handling fails after its block was saved is lost: destination not registered yet, a token `setup-tokens` added after `load_tokens` (the registry is never reloaded), an amount that overflows (spec.md §4.2 says the transfer stays WAITING), or the second transaction failing after the first committed (spec.md §4.7 says both commit atomically) |
| `finalize_before_confirm` | violation | no crash | FundsOut before the CONFIRMING commit leaves CONFIRMING forever |
| `double_release` | violation | 1 restart, 1 lost answer | a lost `bridge_out` answer resent by `retry_request`, or a restore after a restart, releases a transfer twice |
| `lost_after_parse` | violation | 1 restart | the saved frontier passes an unhandled deposit (a graceful shutdown with two parsed events still queued does it too), or a restart falls between the two commits of a FundsIn |
| `cancel_double_spend` | violation | 1 restart | a released transfer is cancelled after restore |
| `restore_retry_race` | violation | 1 restart, errors on | a restore retry re-releases a cancelled transfer; status goes backwards |
| `decimal_rescale` | pass | 10-bit amounts, decimals 0..6, 60, 126, 127 | no conversion overpays; every overflow is reported |
| `nonce_safety` | pass | 2 `bridge_in_signature` + 1 `cancel_transfer` on one network, pool of 2, 1 restart | nonces stay unique under locking, rollback and restart; every request completes |
| `price_stream` | pass | 2 streams, 2 tokens, `Buffer = 1` | no processor hangs in `feed` or `flush`, whatever the fetches and the clients do |

The findings in `PROJECT.json` describe each counterexample. Four are the
most serious:
- **Double spend.** `restore_retry_race` and `cancel_double_spend` both let a
  user get a refund signature for funds that were also released.
- **Lost deposits.** `lost_after_parse` and `deposit_dropped` both lose a
  deposit for good.

Each violation run that has several findings reaches each cause on its own
when its cfg is changed as follows:
- `lost_after_parse` with the single deposit (`MC_Single`, `MC_SrcSingle`,
  `MC_DstSingle`, `MC_BlockSingle`, `MC_KeySingle`) has no parse order to
  get wrong and still loses the deposit: a crash between the two commits.
- `double_release` with `MaxCrashes = 0` releases twice through
  `BridgeOutRetry`. With `MaxLostReplies = 0` it does so through a restart
  and `RestoreNext`.
- `deposit_dropped` with `CONSTRAINT MC_DestinationFirst` (defined in
  `MC_BridgeCore`) rules out the registration race:
  - with `LateToken <- MC_NoDeposit` and `DbErrors = FALSE`, only the
    conversion overflow is left;
  - with `Unconvertible <- MC_NoDeposit` and `LateToken <- MC_NoDeposit`,
    only the failing second transaction is left.
- `deposit_dropped` with both `MC_DestinationFirst` and `MC_TokenRowsFirst`,
  `Unconvertible <- MC_NoDeposit` and `DbErrors = FALSE` loses the deposit
  only through the token registry that `load_tokens` never reloads.

TLC reports the shortest counterexample, which shows only one of the causes.

### Bounds

- **Two deposits and two networks.** That is enough for every race named
  above: two events on one stream parsed out of order, two transfers that
  `finalize_transfer` cannot tell apart, and one restore item failing after
  another was cancelled.
- **One or two restarts.** One reaches every crash window; the liveness run
  uses two so that a crash during recovery is covered.
- **One lost answer.** A second lost answer only repeats the same retry.
  `restart_liveness` trades its stream reconnect for it: both together take
  TLC over five minutes. The reconnect is checked in `cancel_race`.
- **`MaxReleases`.** It is at least the number of deposits times (restarts +
  1), so the bound never blocks a `bridge_out` the code would make. The one
  exception is `restart_safety`, which uses 2 to keep the run short. It still
  reaches a second release and a redelivery.
- **Decimal widths.** The amounts have `Width = 10` bits instead of 256 and
  the internal scale is `Scale = 2` instead of 18. This keeps the same shape:
  a table of a few powers, decimals on both sides of the scale, intermediates
  that overflow, and divisions that truncate. The i8 arithmetic keeps its
  real width, so the wrap at 128 is exact.
- **One reconnect.** One is enough to deliver an event again while its first
  worker still runs. It is used only where the state space allows it.
- **Three nonce requests, a pool of two.** Two requests contend for the
  row lock while a third finds the pool full. One of the three is a cancel,
  so the lock is held across a connector call and may be rolled back.
- **Two price streams, two tokens, `Buffer = 1`.** The channel fills after
  two prices, one round; a second stream shows the processors do not
  affect each other.
- **`ChanCap = 1`.** This makes the full-channel case happen; a larger
  channel adds only more interleavings of the same steps.

### Fairness

Weak fairness is assumed for every step the runtime drives:
- the event loop polls the channel every 100 ms;
- spawned tasks run and timers fire;
- `main` goes on to `load_tokens` (weak fairness of `LoadTokens`);
- real time passes, so a clock that stepped back reaches the stored
  `seen_at` again (weak fairness of `ClockCatchUp`);
- connector start and restore are retried every `RETRY_TIMEOUT`;
- a started gateway request completes, either way.

In NetworkNonces, a request waiting on the row lock gets it when the lock
is released. Postgres queues lock waiters, so strong fairness applies to
`Increment`. The connector calls are assumed to answer eventually.

In PriceOracle, tokio runs each processor step. A client is assumed either
to keep reading its stream or to go away eventually (weak fairness of
`Recv \/ Disconnect`). A client that stays connected without reading
stalls its own processor, and nothing in the service prevents that.

Nothing forces the CLI's `setup-tokens`, the user's cancel, an interrupt, a crash, the end of a
stream or a failure to happen. Once the flag is set, the event loop's exit
and the end of `shutdown` are runtime steps and are fair.

`CHECK_DEADLOCK FALSE` is set in three places, each where the program
really stops:
- the BridgeCore runs, because the bridge goes quiet once every event is
  handled (the event loop keeps polling an empty channel);
- the NetworkNonces run, once every request is done;
- the DecimalRescale run, after its one conversion.

The oracle run checks deadlock: its processors never stop.

## Not modelled yet, and the plan

- **Token registry details.** `load_tokens` failing makes `main` return,
  which is a `Crash`. Token ids and addresses are two groups of rows, not
  individual tokens. A duplicate network registration
  (connector restarted by `Connector::start`'s loop) would append a second
  slab entry; it is not modelled.
- **Decimal arithmetic in the coordinator.** `BridgeCore` has only the
  conversion's failure, as the set `Unconvertible`; `DecimalRescale` checks
  the values. `Decimal` add/sub/mul/div are never called and are not
  modelled.
- **A stream with no block number.** When `last_seen_network_block` fails,
  `event_loop` asks for a stream with `block_number: None`. What that means
  (replay all, or only new events) is up to the connector servers, which
  are not in this repository.
- **The clock.** Only whether the clock is behind the recorded `seen_at`
  values is modelled, and a step back puts it behind all of them at once.
  While it is behind, every restore attempt fails and is retried, and the
  event loop handles no new event. spec.md's recovery formula
  `max(0, window - (now - seen_at))` would wait longer instead; both resolve
  the transfer once the clock catches up, which `WaitingResolved` shows. The
  contest timer's length is abstracted (it may fire at any point).
  `MockTimeSource` is only used by the `#[tokio::test]` tests, which run on
  tokio's current-thread runtime with no await between its lock steps: a
  sequential test clock, not modelled.
- **Nonces inside BridgeCore.** The nonce and the transfer status are
  checked in separate modules. The pool that cancel requests can exhaust is
  also shared with the transfer workers, which NetworkNonces leaves out.
- **The oldest-match rule.** The spec says finalize picks the oldest
  matching transfer, and the code has no ORDER BY. `Finalize` picks any
  match, as the code does. The candidates share their key and are all
  CONFIRMING, so the order changes only which outbound tx is recorded on
  which transfer.
- **cancel_signature failing.** The transfer then stays WAITING with no
  worker until the next restart, and nothing promises a restart. So no
  liveness property is claimed for it; `cancel_race` checks the lifecycle
  with the failure on.
- **The CLI's other commands.** `create-tables` opens a write transaction,
  creates the tables and returns without `commit`, so sqlx rolls it back
  and the command changes nothing (the bridge's `--init-tables` commits).
  That is a sequential bug with no interleaving, so it has no run.
  `grpc-connected-networks` is a read-only client call.
- **Out of scope.** Signature cryptography, address codecs, the signer
  proxy and generated code are pure computation,
  formatting or I/O with no state the bridge's properties depend on.
