# Formal models of Zaino

TLA+ models of the Zaino indexer: its process front, the ingestors, the
JSON-RPC connector with its node probe, the block header codec, the
coinbase block-height reader and zingo-proxyd's gRPC server. Each one comes
with TLC configurations that check it on small instances. TLAPS proves the
indexer's queue bound and shutdown cascade, the connector's retry policy and
its refinement of an abstract send_request contract, the probe's schedule and
the header codec's round trip.

## The system and its parts

| Part | Source | Module | Status |
|---|---|---|---|
| Indexer front: `start`, `new`, `serve`, `check_for_shutdown`, `shutdown`, `shutdown_components` | `src/zainod/src/indexer.rs` | `Indexer` | modelled |
| Ctrl-C handler `set_ctrlc` | `src/zainod/src/indexer.rs` | `Indexer` | modelled |
| `TcpIngestor`, `NymIngestor` (`spawn`, `serve`, `check_for_shutdown`) | `src/zingo-rpc/src/server/ingestor.rs` | `Indexer` | modelled |
| Server director, queue, workers | not under `src/` (spec 4.3, 4.5, 5) | `Indexer` | partly, from the spec |
| `JsonRpcConnector::send_request` | `src/zingo-rpc/src/jsonrpc/connector.rs` | `JsonRpcConnector` | modelled |
| `test_node_and_return_uri`, `test_node_connection` | same | `NodeProbe`, composed into `Indexer` | modelled |
| `read_zcash_script_i64`, `FullBlock::get_block_height` | `blockcache/utils.rs`, `blockcache/block.rs` | `BlockHeight` | modelled |
| `FullBlock::parse_from_slice` transaction loop | `blockcache/block.rs` | `FullBlockParse` | partly |
| `BlockHeaderData::parse_from_slice`, `to_binary`; the `read_*` byte helpers | `blockcache/block.rs`, `utils.rs` | `BlockHeader` | partly: `get_block_hash` (double SHA-256) is not modelled |
| zingo-proxyd `spawn_server`, `ProxyServer::new`, `serve` | `src/zingo-proxyd/src/server.rs` | `ProxyServer` | modelled |
| Config, CLI, Nym SDK, the typed RPC wrappers | various | none | not modelled |

### How the parts interact

`Indexer::new` first runs the node probe: up to 3 rounds of IPv4 and then
IPv6, each round ending in a sleep and a tick, and `exit(1)` once the rounds
are spent. Then it spawns the server and the enabled ingestors. `serve` sets
the status to 2 and loops, polling `check_for_shutdown`, which reads the
shared `online` flag and the status.

When `online` is cleared (by the Ctrl-C handler, which then calls `exit(0)`)
or the status reaches Closing, the loop sets the status to 5 and calls
`shutdown_components`. That call awaits the ingestors' handles, sets the
server to Closing and awaits the server handle.

Each ingestor accepts a request, checks for shutdown, and `try_send`s the
request into the bounded queue. QueueFull and Closed drop the request. The
Nym ingestor's `?` on a malformed message ends its task.

The workers take requests from the queue. Once closing starts, they drain
the queue and go offline. The server closes the queue only after its
ingress has quiesced.

## Modules

- **Indexer.** The variables are:
  - `online`, `sig` and `exitCode`;
  - `idxPc` and `idxStatus` (`IndexerStatus`);
  - `srvPc` and `srvStatus`;
  - `queue` and `qClosed`;
  - per ingestor, `ingPc` and `holding` (the accepted stream before `try_send`);
  - per worker, `wPc` and `busy`;
  - per request, `req`, which records where the request is or how it ended;
  - the probe's variables, through `Probe == INSTANCE NodeProbe`.

  Each `.await` point of the code is an action boundary: `IndexerNew`,
  `IndexerServe`, `IndexerCheckShutdown`, `IndexerFinish`, `Shutdown`,
  `SignalStore`, `SignalExit`, `IngestorServe`, `IngestorTick`, `Accept`,
  `AcceptAtShutdown`, `NymReject` and `IngestorTrySend`. The worker and
  server actions (`WorkerRecv`, `WorkerRespond`, `WorkerClose`,
  `ServerCloseQueue`, `ServerDone`) come from the spec, because that code is
  not in the repository. `ProbeStep` runs one `NodeProbe` step while the
  indexer is in `new`.
- **NodeProbe.** The variables are `round`, `pc`, `uri`, `exitCode` and a
  history `log` of the attempts. Each attempt is two awaits:
  - `RequestFail` or `RequestHeaders`: `client.request`, under the 3 s timeout;
  - `BodyOk` or `BodyFail`: `to_bytes`, which has no deadline.

  After the attempts come `Sleep` and `Tick`.
- **JsonRpcConnector.** The variables are `idCounter` (an `AtomicI32`, with its
  width `IdWidth` scaled down) and, per caller, `pc`, `id`, `attempts` and
  `result`. The actions are:
  - `SendRequest`: `fetch_add`;
  - `Post`: `attempts += 1`, then the POST;
  - `Receive(c, body)`: every return path and the retry on the sentinel;
  - `Wake`: the 500 ms sleep.

  `SendRequestContract` is the abstract promise of `send_request`: per
  caller, a phase (`idle`, `ready`, `posted`), the posts of the current call
  and the outcome. A post happens only while posts are left. The sentinel
  sends the call back to `ready` only below `MaxAttempts`. It ends the call
  as `gaveUp` only after the last post. `JsonRpcConnector` maps `pc` to a
  phase (`CallPhase`) and `attempts` to posts. `ContractRefinement` states
  that the connector implements the contract.

  `IdIncreasing` states spec 8's strictly increasing ids. The `fetch_add`
  wraps after `2^IdWidth` calls, as spec 4.2 notes, so the property fails
  once the counter wraps. It is kept as a definition and not checked:
  `send_request` never compares the response's id with the request's, so a
  repeated or negative id changes nothing the code does.
- **BlockHeight.** `ReadZcashScriptI64` and `GetBlockHeight` are operators.
  The integer widths are kept relative to a scaled byte (`Base` values per
  byte), so `<< 8`, `as i64` and `as i32` wrap where the code wraps. The
  module also has the spec's reference `SpecHeight` and the node's encoder
  `EncodeHeight`.
- **FullBlockParse.** `TxLoop` and `ParseFromSlice` model the txid loop, with
  a transaction as a model value.
- **BlockHeader.** A header is a sequence of bytes, and each byte holds `Base`
  values (256 in the code, 16 in the instance). The fields keep their real
  widths.
  - `ReadExact` is `read_bytes`. `U32` and `I32` are `read_u32` and
    `read_i32` (little-endian).
  - `ParseHeader` is `parse_from_slice`: it reads the `None` txid check, the
    seven fixed fields at their offsets, and the CompactSize solution length
    and solution, then returns the rest.
  - `ToBinary` is `to_binary`.
  - CompactSize comes from `zcash_encoding`, which is not in the repository,
    so it is modelled from spec 4.1. Its three top flags announce 2, 4 and 8
    bytes (`SizeWidth`), and the non-canonical forms are refused
    (`LeastOfWidth`). A size above `MaxCompactSize` (0x02000000) is refused.
  - The little-endian value of 2, 4 or 8 bytes is a sum of products
    (`LE2`, `LE4`, `LE`), with the byte weights `Weight` written as products
    of `Base`, `Pow2 = Base^2` and `Pow4 = Base^4`. The readers are `IF`
    chains in the order the code tests its conditions. Both forms keep the
    definitions within what the provers reason about.
  - `HeaderData` is the set of `BlockHeaderData` values: `version` an i32,
    `time` a u32, the hashes and the nonce 32 bytes, `n_bits_bytes` 4 bytes,
    and a solution of at most `MaxCompactSize` bytes. `HeadersAssumption`
    says that the headers under test are in `HeaderData` and that the bytes
    that may follow a header are bytes.
  - `Base >= 16` (`BaseAssumption`) keeps the three flag bytes 253, 254 and
    255 (`Base - 3` .. `Base - 1`) distinct bytes above the one-byte sizes.
    It also keeps `MaxCompactSize` within the 8-byte form.
- **ProxyServer.** The variables are `online` (the caller's flag),
  `clientOnline` (`ProxyClient.online`) and `pc`.
  - `ProbeOk` and `ProbeFails` are `spawn_server`'s probe and its `unwrap`,
    which panics on failure.
  - `Check` is the `while online.load(..)` test.
  - `ServeReturns` is tonic's `serve(addr)` completing.
  - `ClearOnline` is the flag's owner, which is outside `src/`.

  `spawn_server` calls `JsonRpcConnector::test_and_return_uri`, which is not
  defined in zingo-rpc (the connector has `test_node_and_return_uri`). The
  module therefore leaves the probe's outcome open.

## Runs

| Run | Checks | Result |
|---|---|---|
| `indexer` (`MCIndexerAll.cfg`, module `MCIndexer`) | `TypeOK` (with the queue bound), `DrainedWhenOffline`, `NoClosedDrop`, `ProbeSchedule` | pass, 82,550 distinct states |
| `closing_overwritten` | `ClosingIsFinal` | violation: `serve` stores 2 over Closing (indexer.rs:127) |
| `nym_malformed` | `IngestorEndsOnlyAtShutdown` | violation: `?` ends the Nym task (ingestor.rs:187) |
| `signal_drops_queue` | `QueuedRequestDrained` under `FairSpec`, assuming the node answers (`NodeAnswers`) | violation: `exit(0)` in the handler (indexer.rs:195) |
| `connector_retry` | `RetryPolicy` and `ContractRefinement` (the connector implements `SendRequestContract`) | pass, 34,217 distinct states |
| `probe_deadline` | `ProbeTerminates` | violation: the body read has no deadline (connector.rs:449) |
| `block_height` | `HeightRoundTrip` | pass |
| `block_height_spec` | `HeightMatchesSpec` | violation: `as i32` (block.rs:285) |
| `block_txs` | `ParsedTransactionsMatch` | violation: the cursor never advances (block.rs:237) |
| `block_empty` (`MCFullBlockParseEmpty.cfg`) | `ParseNeverPanics` | violation: a block of 0 transactions panics at `transactions[0]` (block.rs:269) |
| `block_header` | `HeaderRoundTrip`, `TruncatedHeaderRejected` | pass, 192 distinct states |
| `proxy_offline` | `StopsWhenOffline` under `FairSpec` | violation: online is tested only after tonic's `serve` returns, and it never does (server.rs:32) |

The violations are recorded as findings in `PROJECT.json`. Every property of
a passing run has a mutant, a plausible bug in the mapped code, and TLC finds
each mutant violated.

### Bounds

- **Indexer.** The instance has 3 requests, 2 workers, both ingestors and a
  queue of 1 slot. That is enough for QueueFull (two ingestors and one
  slot), for a request held across the clearing of `online`, for a request
  queued when the cascade starts, and for both workers being busy. The probe
  runs its real 3 rounds.
- **Connector.** The instance has 2 callers (with symmetry), `MaxAttempts = 5`
  as in the code, a 3-bit id and 4 calls, so the
  counter wraps on the fourth call.
- **Block height.** `Base = 4` makes u32 4^4. Every height below the scaled
  `i32::MAX` is encoded, and the spec run also enumerates arbitrary short
  scripts.
- **Block header.** `Base = 16` keeps the u32 values within TLC's integers
  while keeping the CompactSize thresholds (`Base - 3`, `Base^2`, `Base^4`).
  The instance has 192 headers:
  - two versions, one of them negative, so `I32`'s sign and
    `version % U32Mod` are exercised;
  - two patterns of each hash and the nonce;
  - `time` at 0 and at the scaled `u32::MAX`;
  - solutions of 0, 1 and 13 bytes, so both the 1-byte and the 3-byte
    CompactSize forms occur;
  - an empty and a non-empty trailing tail.

  `TruncatedHeaderRejected` tries every prefix of each header.
- **zingo-proxyd.** The model has no constants. All 11 of its states are
  explored.

### Fairness

`Indexer!Fairness` gives weak fairness to what tokio keeps polling while it
can run and what nothing outside the process can hold up: the probe's
request step and its timers (sleep and tick end by the clock), the Indexer's
own steps, each ingestor's serve, tick and `try_send`, a standby worker's
`recv` and its close on a closed empty queue, and the server's cascade.
`SignalExit` is weakly fair too: once the Ctrl-C handler has stored `false`
it goes straight on to `process::exit(0)` (indexer.rs:195), with nothing to
wait for. Left unforced are the environment's choices: wallets arriving, the
Nym failure, the Ctrl-C signal itself (`SignalStore`) and the library user's
`Shutdown`. `WorkerRespond` is unforced as well: the worker's upstream
`send_request` awaits `client.request` and `to_bytes` with no deadline
(connector.rs:160-166), so nothing in the code makes it return. The probe's
body read gets no fairness for the same reason.

`QueuedRequestDrained` therefore takes the node's answering as a hypothesis
(`NodeAnswers`, weak fairness of `WorkerRespond`), so that its
counterexample is the `exit(0)` of the handler and not a stalled node. No
liveness property of the indexer is claimed to hold: that an accepted
request is eventually answered depends on the node, which the code does
not bound in time.

In zingo-proxyd, the spawned task is polled whenever it can run, so
`WF(Check)` holds, and so does fairness for the probe. Tonic's `serve` is
given no fairness, because it returns only on a transport error.

## Proofs (TLAPS)

### `IndexerProofs.tla`

- `TypeCorrect`: `Spec => []TypeOK` for every set of requests, workers and
  ingestors and every queue size. The proof rests on per-action lemmas,
  including `TrySendTypeOK`, `RecvTypeOK` and `ProbeStepTypeOK`.

`RequestOwnership`, `IInv` and the lemmas `OwnInit` and `OwnStep` (one per
action) are what the cascade proofs below rest on. `RequestOwnership` says
that each request's state names its single owner (an ingestor, one queue
slot or one working worker). It is not inductive alone; `IInv` adds
`TypeOK` and `NotYetSpawned` (nothing is held or busy before the components
exist).

### `IndexerCascadeProofs.tla`

This module proves the shutdown cascade (indexer.rs `shutdown_components`,
server.rs's close after the ingestors, the workers' `recv` on a closed
queue):
- `NoClosedDropHolds`: `Spec => []NoClosedDrop`;
- `DrainedWhenOfflineHolds`: `Spec => []DrainedWhenOffline`.

Neither property is inductive alone. `NoClosedDrop` needs to know that a
closed queue means every ingestor has returned, and `DrainedWhenOffline`
needs to know that status 5 comes only before spawn or after the server is
done, and that a worker is offline only once the queue is closed and empty.
`CascadeInv` ties the indexer's `idxPc`, the server's `srvPc`, `qClosed`,
the ingestors and the workers together in this way, on top of `IInv`. `CascadeInit` and `CascadeStep` prove it
inductive, and each theorem derives its property from it. TLC found the need for the last conjunct: the first version said only "offline
implies empty", and the `try_send` case could not be proved.

`DrainedWhenOffline` rests on `WorkersAssumption` (the worker pool is not
empty; spec 6 gives `idle_worker_pool_size` as a positive integer). With
`Workers = {}` TLC finds status 5 with a request still queued: no worker
ever drains it. Spec scenario 4 sets the idle pool to 0, but it relies on
the pool scaling up, which the model leaves out (see Not modelled).

### `IndexerProbeProofs.tla`

`IndexerProbeSchedule` proves the probe's `ProbeSchedule` inside the
composed indexer. It does not redo the probe proof. Instead it instances
`NodeProbeProofs` as `PP`, with the indexer's `probePc` as `pc` and
`ProbeExit`, which maps the indexer's exit code onto the probe's, as
`exitCode`. `ProbeStepIsProbeNext` shows that every indexer probe step is a
step of the standalone probe, and `IProbeStep` cites `PP!ProbeInvStep` for
it. Every other indexer step leaves the probe's variables unchanged.

### `ConnectorProofs.tla`

`RetryPolicyHolds` proves `Spec => []RetryPolicy` for any number of callers
and any `MaxAttempts`. `RetryPolicy` alone is not inductive. The invariant
`RetryInv` adds two facts:
- a caller at the loop head, or asleep, has an attempt left;
- a caller awaiting a response has made 1 to `MaxAttempts` attempts.

`RetryInv` includes `TypeOK`, proved inductive by `TypeInit` and
`TypeStep`. The lemma `WrapRange` shows that the wrapping `id + 1` (`Wrap`,
the i32 `fetch_add`) stays in `IdRange`. It needs `HalfPos`, which says that
`2^(IdWidth-1)` is positive. That is proved through the cardinality of a
power set (`FS_SUBSET`), because the SMT backend does not reason about
`^`.

`ContractImplemented` proves `Spec => ContractRefinement`: the connector
implements `SendRequestContract`. `ContractInit` maps the initial state to
the contract's. `ContractStep` maps every step:
- `SendRequest` maps to `Call`;
- `Post` maps to the contract's `Post`;
- the sentinel maps to `Busy` below `MaxAttempts`, or to `GiveUp` at it;
- every other answer maps to `Return`;
- `Wake` maps to a stutter.

`ContractStep` uses `RetryInv` for the bounds on `attempts`. The lemma
`PhaseMove` says how `CallPhase` changes when one caller's `pc` changes.

### `BlockHeaderProofs.tla`

These theorems hold for every byte range `Base >= 16`, not only the
instance's 16.
- `HeaderRoundTripHolds` proves `Spec => []HeaderRoundTrip`. Any header in
  `HeaderData`, written by `to_binary` and followed by any bytes, parses back
  to that header, and the rest returned is exactly the bytes that followed.
- `TruncatedHeaderRejectedHolds` proves `Spec => []TruncatedHeaderRejected`.
  Every strict prefix of `to_binary`'s output is refused.

The state is only the header under test, so the invariant is just
`HdrInHeaders`. The work is in lemmas about the codec.

- **Arithmetic.** `DivUnique` and `DigitSplit` are unique division.
  `LE2RoundTrip`, `LE4RoundTrip` and `LE8RoundTrip` show that `LE` inverts
  `LEBytes` below `Base^2`, `Base^4` and `Base^8`. `VersionRoundTrip`
  covers the two's-complement `% U32Mod` of a negative version, and
  `TimeRoundTrip` covers the time.
- **Sequences.** `ReadFront`, `ReadMiddle`, `ReadBehind` and `PrefixConcat`
  say what `SubSeq` returns on a concatenation. `AssocAll` and `PrefixAll`
  state the same facts as named predicates. With many sequences in scope,
  the provers instantiate a named predicate at once but not the equation.
- **CompactSize.** `CompactSizeRoundTrip` shows that a written size reads
  back, whatever precedes and follows it; each of the four forms is a case.
  `TruncatedCompactSize` shows that a cut CompactSize is refused.
- **Round trip.** `ParseToBinary` cuts the output into its nine parts.
  `x_k` is the first `k` parts and `R_k` the rest, with
  `d = x_k \o R_k` for each `k`. Each field is then the part in front of or
  in the middle of such a split.
- **Truncation.** `TruncatedRejected` splits on where the cut falls:
  - in the first 140 bytes, the nonce read fails;
  - inside the CompactSize, `TruncatedCompactSize` applies;
  - inside the solution, the solution read is short.

  `ParseNeedsReads` says that the parser succeeds only when all three of
  those reads do.

### `NodeProbeProofs.tla`

`ProbeScheduleHolds` proves `Spec => []ProbeSchedule` for the probe.
`ProbeInv` ties `Len(log)` to `round` and `pc`: the IPv4 attempt of round `r`
is entry `2r+1`. The lemma `AppendAlternates` keeps the alternation when an
attempt is logged.

### Assumptions, and what only TLC checks

The proofs assume only the modules' `ASSUME`s:
- there is at least one ingestor and at least one worker;
- `MaxQueueSize` and `MaxAttempts` are positive, and the call bound is a natural number;
- `NoReq` is not a request;
- a byte holds at least 16 values, the headers under test are
  `BlockHeaderData` values, and what follows a header is bytes.

TLC alone checks the following:
- liveness (`QueuedRequestDrained`, `StopsWhenOffline`, `ProbeTerminates`);
- the recursive `TxLoop`;
- `HeightRoundTrip`. The coinbase height is a fold over a variable number
  of bytes, so a proof needs induction over data. The induction theorems
  take the fold's operator as a parameter, which the installed provers
  cannot instantiate. The header codec has fixed widths, so its properties
  are proved without induction.

Every other invariant and action property of a passing run has a theorem.

## Not modelled

- `get_block_hash`: double SHA-256 is opaque to a model checker, so only the
  bytes it hashes (`to_binary`) are modelled.
- The typed RPC wrappers of the connector (`get_info`, `get_block`, ...).
  They only build a method name and parameters and call `send_request`.
- Worker pool scaling (spec 4.5): the pool is the fixed set `Workers`.
- Transaction parsing (`FullTransaction`), the Nym SDK, configuration and CLI.
- The probe of zingo-proxyd, which calls a function the repository does not
  define.

## Plan for later work

- Model worker pool scaling (spec 4.5).
- Model compact block conversion and the transaction parser.
- Prove `HeightRoundTrip`-style facts for a fixed byte width, without
  recursion.
