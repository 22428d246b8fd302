# Ethereum Whale Alert: a verification development

TLA+ models of the whale-alert service and of its benchmarks, model-checked
with TLC on small instances, with proofs that TLAPS checks for every value of
the constants. `PROJECT.json` maps every definition to the lines it models.
Source paths below are relative to the repository.

## 1. The system

One process, `cmd/ethereum-whale-alert`, watches an Ethereum node and posts an
alert for each transaction above a threshold. Three further commands measure
ways of reading the same data from a node.

| Component | Source | State it keeps | Operations | Talks to |
|---|---|---|---|---|
| App | `internal/app`, `cmd/ethereum-whale-alert` | context, configuration, client | configure, dial, start goroutines, wait for a signal, close, cancel | all below |
| Watcher | `internal/watcher/watcher.go` | `pending` (alert by transaction) | receive header, re-check alerts, read block and logs, check transactions, announce, track | node (RPC), notifiers, valuation |
| Valuation | `watcher/swap.go`, `tokens.go`, `checkERC20Transfer` | `poolCache`, `decimalsCache` | resolve pool, look up decimals, ask for a price | node (RPC), price cache |
| Price cache | `internal/client/coingecko.go` | `cache`, `pending`, rate limiter | `PriceInETH`, `refresh`, `fetchBatch` | Watcher (shared maps), CoinGecko |
| Ethereum client | `internal/client/ethereum.go` | one WebSocket connection | four reads, a subscription | node |
| Notifiers | `internal/notifier` | counters | fan-out, post to a webhook | Slack, Discord |
| Metrics | `internal/metrics` | counters, gauges | set, increment | Prometheus |
| Bloom benchmark | `internal/benchmarks/bloombench`, `cmd/bloom-bench` | results by block, semaphore | worker pool, two reads per block, aggregate | node, with retries |
| Sync benchmark | `internal/benchmarks/syncbench` | events by run | socket loop, polling loops, compare | node, with retries |
| Log benchmark | `internal/benchmarks/logbench` | measurements | four ways to count logs, cross-check | node, with retries |
| Retry loops | `logbench/client.go`, `cmd/bloom-bench` | rate limiter, attempt | wait for the limiter, send, pause, give up | node |

The Watcher is one goroutine that never does two things at once, but it waits
often: for a header, for each RPC, for the webhooks. Whatever it read before a
wait may be stale after it, because the chain grows and reorganises meanwhile.
The price refresher is a second goroutine that shares two maps with it, each
behind its own mutex. The notifiers are goroutines of one fan-out.

**What is hard, and what makes each component correct.**

* *Watcher.* Headers arrive late, repeated, or with lower numbers than before;
  reads are by number, not by hash; each read may fail alone. Correct means:
  each whale of a block that was read is announced once per pass; an announced
  alert is judged at most once, and only when its depth is reached; nothing due
  stays behind; the gauge and counters tell what happened; one failing block
  does not stop the service.
* *App.* Start-up may fail at each step, the process may be killed anywhere, and
  every deployment restarts it; nothing is persisted. Correct means: a signal
  ends it whatever the node does, no error ends the Watcher alone, and a new
  process judges no alert of the one before.
* *Valuation.* Three caches are filled at different times, failures included.
  Correct means: no event without its data, no repeated lookup, no waiting.
* *Price cache.* Two mutexes, a map that is swapped, requests cut in batches
  that fail one by one. Correct means: a token once missed is asked for, and
  never twice in one refresh; old prices are asked for again.
* *Notifiers.* A post may fail or take its time. Correct means: counted exactly
  once per channel before the Watcher goes on.
* *Retry loops.* Three waits in a row that all listen to the context, and a
  pause that doubles in fixed width. Correct means: every call ends, and at
  once when its context does.
* *Benchmarks.* Worker pools, retries, and chains that move during a
  measurement. Correct means: every block accounted for, results that are the
  truth when the chain stands still, and runs that return.

## 2. Modules

```
Context                      cancellation
  Node                       chain, subscription, what RPCs return   (external)
    Watcher  = Node + Notifier           --implements--> AlertLedger
      MCWatcher                          constants for TLC
      WatcherProofs
      App                                --implements--> AlertLedger
        MCApp
        AppProofs                        extends WatcherProofs
    BloomBench = Node + Retry            MCBloomBench, BloomBenchProofs
    SyncBench  = Node + Retry            MCSyncBench, SyncBenchProofs
    LogBench   = Node + Retry            MCLogBench, LogBenchProofs
  RetryCall                              --implements--> Retry
    MCRetryCall, RetryCallProofs
  PriceCache                             --implements--> PriceService
    PriceCacheProofs
  PriceService
    TokenValuation = PriceService + caches
      MCTokenValuation, TokenValuationProofs
```

`Context`: `cancelled` is "ctx.Done() is closed". `Cancel` is the signal in
`App.Run` (and, in the sync benchmark, its deadline).

`Node` (mostly external, modelled from `client/ethereum.go`): a block stands
for its hash; heights, ancestors, transactions and logs of blocks are
constants, and what changes is `head`. `NewHead` moves it along a fork or to
another one and announces the new head's number, with or without those of the
other newly canonical blocks. `headers` is the buffer of the client library.
`LoseConnection` ends the subscription and tells nobody, because nothing reads
`sub.Err()`. `CanonicalAt`, `MinedIn` and `LogsAt` are what the reads return.

`Notifier`: `StartFanOut` is the loop of `go func`, `Deliver(c)` one post with
its two outcomes and counters, `FanOutDone` is `wg.Wait()`.

`Watcher`: one action per stretch of code between two waits. `pc` says where
the goroutine is:

| `pc` | Waiting in | Left by |
|---|---|---|
| `select` | `Run`'s select | `TakeHeader`, `Stop` |
| `reorg` | `GetTransactionReceipt`, in the range over `w.pending` | `Confirm`, `Retract`, `FinishCheck` |
| `retract` | `notify` of a correction | `FinishRetract` |
| `fetch` | `GetBlockByNumber` | `FetchBlock`, `AbandonBlock` |
| `logs` | `FilterLogs` | `FetchLogs`, `AbandonBlock` |
| `scan` | the RPCs of a transaction's checks | `Check`, `Announce`, `FinishBlock` |
| `alert` | `notify` of an alert | `Track` |

`pending` is the set of values of `w.pending`; `Replacing` says that the map
has one per transaction. `Exit` ends the process anywhere, `Stop` at the
select. An iteration over a Go map in random order is the choice of `a \in
todo`. The logs that reach the threshold are any subset (`Found`), which
`TokenValuation` refines with the reasons. `detected`, `confirmed` and
`reorged` split the counters by alert for the properties.

`AlertLedger`: what a reader of the alerts is promised. An announcement opens
an alert and replaces an open one of the same transaction; an open alert gets
one verdict, confirmed or reorged. `Watcher` implements it under the mapping
`Open`, which is `w.pending` with the two windows closed in which the map is
behind what has been sent.

`App`: the main goroutine around the Watcher, and the processes one after the
other. `main` says where it is: `config`, `dial`, `signal` (it waits), `close`,
`cancel`, `exit`, `ended`; `launched` what became of `w.Run`. `Dialed` is all
of `App.Run` between the dial and its wait, which nothing in between holds up.
`CloseClient` and `CancelContext` are the deferred calls in the order they
run; from the first on, reads fail (`closed`), so that a re-check retracts.
`Gone` ends every goroutine with the process; `Restart` gives the variables
of the memory their first values and keeps the chain and what readers were
told (`detected`, `confirmed`, `reorged`). It uses the Watcher's own steps,
and not its `Shutdown` and `Exit`, which stand for the same in less detail.

`PriceCache`: one action per critical section or wait of the two goroutines.
A price is absent, fresh or old. The list `tokens` is split into those taken
from `cg.pending` and the old ones appended after them, because `tokens[i:end]`
takes them in that order. `PriceService` is what the Watcher relies on: prices
stay, a missed token is wanted until a request names it.

`TokenValuation`: `checkERC20Transfer` and `checkSwaps` for one log at a time,
on top of `PriceService`. An amount is reduced to the side of the pool that
was paid in; a value reaches the threshold or does not.

`Retry`: the retry loop that exists twice, in `cmd/bloom-bench/main.go` and
`logbench/client.go`, as the benchmarks use it: attempts and nothing else.

`RetryCall`: the same loop with what it waits for. A caller is `idle`, in the
`limit`er, in its `request` or in its `sleep`. `Retryable` has the two copies of
`isRetryable`, which differ (only one takes a bare status 429 for worth a
retry). `Base` is the pause before jitter, with the product computed in 64 bits
as the code does: `Wraps` says when it turns negative, and `Panics` what
`rand.Int63n` does then. `late` counts requests sent after the context's end.

`BloomBench`: `Runner.Run` and one goroutine per block, admitted by the
semaphore; header and receipts are two reads by number of a chain that may
move. `TP`, `FP`, `TN`, `FN` are `Aggregate`.

`SyncBench`: `RunWebSocket` and `RunPolling` until the deadline, and the wait
for all of them.

`LogBench`: `PickBlocks`, then the four methods in the order of `Run`. `phase`
is the method at work; the three that use `runWorkers` share `Spawn` and
`PoolDone`, and differ in what a goroutine asks for: everything in one call
(`CountedAtOnce`) or a block and one receipt after the other (`GotBlock`,
`GotReceipt`). The ranges are a loop of the caller, `GotChunk` and `ChunkFails`.
An answer that is null counts as no logs, and so does one that does not decode,
because three of the methods drop the error of `json.Unmarshal`; the ranges
pass over single logs whose block number does not parse. `Readable` and the sets
`read` say which logs of an answer are counted. The measurement then has no
`Error`, so the code keeps no trace of it; the history variable `unread`, which
no guard but the bound reads, does. `Mismatches` is `CrossCheckLogs`.

## 3. Runs

Most runs take seconds; `watcher`, `app` and `prices` take up to a minute,
`logs` two. Every configuration says CHECK_DEADLOCK FALSE: all these programs end,
or run out of head changes, processes, logs or blocks.

| Run | Bounds | Shows |
|---|---|---|
| `watcher` | two forks of two blocks over a common one, one native whale on both, one transaction with a token log, depth 1, one channel, two head changes, a connection that may drop | Bookkeeping: `NoOverduePending`, `PendingGaugeExact`, `VerdictsBacked`, `WhalesAlertedOncePerPass`, `ConfirmedAtDepth`; `MetricsReconcile`: no event is lost or overtaken in the fan-out; `EveryHeadReached`, `JudgedOnceDue` |
| `app` | the same chain and channel, two processes, one after the other | `ImplementsLedger` across the restart; `WatcherOutlivesErrors`; `EndsOnSignal` |
| `prices` | three tokens, two per request | `AskedOnce`, `ImplementsService`, `MissLeadsToRequest`, `OldPriceIsRequested` |
| `tokens` | two tokens, a pool of them, three logs | `DecimalsAskedOnce`, `AlertsAreBacked`, `EveryLogHandled` |
| `bloom` | three blocks on two forks, two slots, one retry, two head changes, two topics and a filter with a false positive | `EveryBlockAccounted`, `SkippingIsSound`, `TruthfulOnStableChain`, `RunReturns` |
| `sync` | one poller, one retry, three head changes up or down over heights 0 to 3 | `EachBlockRecordedOnce`, `ComparedWhenOver`, `RunReturns` |
| `logs` | three blocks, two slots, chunks of two, one retry, one head change to the other fork, two transactions of which one has two logs, three answers lost | `MismatchMeansLoss`, `ChunksCutTheRange`, `NeverTooMany`, `RunReturns` |
| `retry` | one caller with 35 retries, one with two | `ImplementsRetry`, `PausesAreSound`, `StopsWithContext`, `EveryCallEnds` |

The bounds let the interesting cases happen: a transaction included again on
the other fork after its alert, an alert due while later headers are queued, a
reorg between the two reads of a block, a header taken when the head is past
it, the two kinds of alert for one transaction, a webhook that fails; a process
killed with an alert open and followed by another; a full and a partial batch
of prices, and a token scheduled while the list is sent; a pool larger than its
slots with one goroutine failing; a poll that skips two blocks, and one that
goes back; a last chunk shorter than the others, a receipt that fails after
another was counted, a block that loses one of its two logs in a range, and one
whose logs are gone between two methods; the first retry whose pause is negative. `NewHead` stops after `MaxMoves`, the
only unbounded input of the Watcher; `MaxLogs` bounds `TokenValuation`,
`MaxLives` the processes of `App`, and `MaxLosses` the answers of one run of
`LogBench` that fail for good or are not read in full: three, so that two ways
can lose something of the same block. The proofs cover every set of channels and
every number of moves and of losses.

Every property has a mutant, a plausible bug in one mapped definition that the
run finds: see `PROJECT.json`.

### Where the code and its documentation disagree

Each of these runs checks one statement of the repository and finds it violated.

| Run | Statement | What happens |
|---|---|---|
| `watcher_correction` | `metrics.go:84`, alerts counted as reorged were "invalidated by a chain reorg" | a failed receipt lookup counts as a reorg, and channels get a correction for an alert that stands (`watcher.go:334`) |
| `watcher_gauge` | `metrics.go:94`, the gauge counts the "alerts awaiting confirmation re-check" | two alerts of one transaction share a key of `w.pending`; the first is never judged (`watcher.go:315`) |
| `watcher_dropped` | `README.md:7`, "real-time new block subscription" | after the connection drops no head is ever handled again (`ethereum.go:53`) |
| `bloom_negative` | `bench.go:180`, false negatives "must always be 0" | a reorg between header and receipts makes one (`bench.go:139`) |

Two more, on which no run is spent. The comment at `coingecko.go:84`, "into a
single batch request", is out of date: there is one request per 50 tokens.
`metrics.go:61`, skipped "due to unavailable price", leaves out the logs with
unreadable decimals that are counted too (`watcher.go:217`, `swap.go:70,75`).

### Fairness

* `Watcher`: weak fairness of `WatcherStep` and of each channel's post. The Go
  scheduler runs the goroutine; the node answers each request with a result or
  an error; the webhook clients have a time limit of ten seconds. The Watcher's
  RPCs have no time limit in the code, so the second assumption is one about
  the node. Nothing is assumed of the chain, and nothing of which answer comes:
  every read may fail every time. The two liveness properties end with the
  connection or the context.
* `App`: weak fairness of what main does after a signal, and of nothing else:
  `EndsOnSignal` holds also when the node and the webhooks never answer.
* `RetryCall`: each caller's wait ends. The limiter and the timer see to two of
  the three waits; a request ends by the HTTP client's 60 seconds, or, in the
  bloom benchmark, because the node answers.
* `PriceCache`: weak fairness of the refresher (ticker, limiter, ten-second
  client), of `ScheduleFetch` (two lines of the Watcher) and of the limiter's
  refill. Requests may always fail.
* `TokenValuation`: the node answers each `eth_call`. The refresher need not run.
* `BloomBench`: goroutines are scheduled and reads answered; the number of
  retries is finite, so each read ends.
* `LogBench`: some goroutine that can go on does; the HTTP client has a time
  limit of 60 seconds, so each attempt ends. With a concurrency of 0, which
  nothing corrects, the run does not end, and `RunReturns` leaves that case out.
* `SyncBench`: the deadline fires, and `select` picks at random among ready
  cases, so each loop notices the end of its context. Polls and headers need
  not be answered.

## 4. Proofs

Every safety invariant, action property and refinement that the passing runs
check is also a theorem, proved for every value of the constants. `PROJECT.json`
lists them with the property each one states. The pattern is the same
throughout: an inductive invariant that holds initially and that every action
keeps, one step per action, and then the property from it. The longest ones,
of the bloom and log benchmarks, were checked by TLC before they were proved.

What is assumed of the constants is stated as `ASSUME` in the module that
declares them, and evaluated by TLC on every run:

* `Node`: the canonical chain of a block has distinct heights up to its own,
  its transactions are distinct, its logs finitely many and of those transactions.
* `Watcher`, `App`: the markers are not alerts or blocks; at least one process.
* `PriceCache`: finitely many tokens, a positive batch size. `BloomBench`:
  a filter does not deny what is in the block.
* `LogBench`: at least one block, and `OneBlockPerTx`, no transaction twice on
  one chain (the nonce of its sender forbids it). The per-transaction method
  counts a block by its receipts, which name a transaction and no block, so
  `MismatchMeansLoss` needs it. The chunk size may be any integer.

Three more assumptions are in the models themselves, about what is outside
`src/`. What can be read of a node's answer is true of its chain at that moment.
The same node answers all reads of a process. And CoinGecko answers with prices
of tokens it was asked for only: the code would store any other as well
(`coingecko.go:137`), and `Store` knows none.

Bounds like `MaxMoves`, `MaxLogs`, `MaxLives`, `MaxLosses` are any number in the theorems.

**Watcher** (`WatcherProofs`).

* `Invariance`: `IInv` is inductive. Type correctness alone is not: the
  re-check deletes from `w.pending` what the range still visits, so
  `IInv` adds that `todo` is empty outside the re-check, and that the sets
  whose sizes the counters show are finite. `TypeCorrect` follows.
* `NothingOverdue`: needs `RecheckInv`, that during the re-check every alert
  due at the number in hand is still in `todo`, and that the block being
  scanned has the number in hand, so that what is tracked is not due yet.
* `LedgerImplemented`: every step of the Watcher is a step of `AlertLedger` or
  leaves `Open` and the counters alone (`NextLedger`, one case per action).
  `OneVerdictPerAlert` then follows in the ledger, where the balance of
  announcements and verdicts is inductive.
* `ConfirmationIsDeep`: needs that numbers in the queue and in hand never
  exceed the head's when heads do not shrink (`DepthInv`).
* `GaugeIsExact`, `CountersReconcile`, `EveryWhaleAnnounced`: inductive with
  `IInv`; the last by cases on how far the loop over the transactions is.

**App** (`AppProofs`). `AppInv` is `IInv` with the life of the process around
it: the Watcher is at work only in a process that subscribed and has not ended,
a process starts with an empty `w.pending`, and the context is cancelled by the
last deferred call only. That last part is what makes `WatcherSurvives`
inductive: the goroutine returns at its select, and only when cancelled. The
Watcher's own steps are not proved again: `NextIInv` and `NextLedger` of
`WatcherProofs` cover them. `LedgerKept` is the theorem across restarts, where
the end of a process is the ledger's `Forget`.

**Retry loops** (`RetryCallProofs`). `WrapsLate` goes through the powers of two
up to the 34th retry, the last whose product fits 63 bits, and gives `SoundPauses`
for every number of retries. `StopsAtOnce` needs `LateIsOver`: a call that has
sent its late request never comes back to the limiter.
`RetryImplemented` maps the three waits of a caller to the one state of `Retry`.

**Price cache and valuation** (`PriceCacheProofs`, `TokenValuationProofs`).
`EachTokenAskedOnce` needs `ListsByStage`: which lists are empty at which stage
of a refresh. `ServiceImplemented` needs `StaleIsKnown`: what is asked for
without having been missed has a price already. `EventsAreBacked` needs
`LogInHand`: at each stage of a check, what earlier stages found out still
holds. The valuation is built from the actions of `PriceService`, which
`ServiceImplemented` shows the cache to implement; that needs no theorem.

**Benchmarks** (`BloomBenchProofs`, `SyncBenchProofs`, `LogBenchProofs`).

* Bloom: `FilledWhenDone` says that a result belongs to a goroutine that has
  ended and has its number; the counter of failures is the number of goroutines
  that ended without one. `BlocksAccounted` is then counting (`FourOutcomes`).
  `SkippedSoundly` is proved for a chain that moves, `StableChainTruth` for
  one that has not.
* Sync: `RecordedOnce` needs that what was recorded is remembered as seen, and
  that a poller without an answer has recorded nothing, because the first answer
  sets `lastSeen` and records nothing. `AdjacentHeights` joins the run already
  recorded and the numbers an answer adds. `ComparisonIsFinal` is an action
  property: once all goroutines have ended, none runs again.
* Log: `CutSoFar` says that the chunks so far hold each block below the next
  chunk's start once and no other; it takes the place of an induction over
  the list of chunks. `CountInv` follows the counts through the four phases:
  a method that has not reached a block shows nothing, one that is through is
  exact unless it failed or passed over something, and one in the middle has
  counted logs of the receipts it has read and no others (`ReadingOf`), so that
  it never counts too many. `MismatchExplained` is what the cross-check can be
  trusted for: on a chain that stands still a mismatch has a cause in an answer
  about that very block. That the cause shows as an `Error` does not hold, and
  the code does not claim it.

**Only model-checked**: the liveness properties (`EveryHeadReached`,
`JudgedOnceDue`, `EndsOnSignal`, `MissLeadsToRequest`, `OldPriceIsRequested`,
`EveryLogHandled`, the three `RunReturns`, `EveryCallEnds`), because TLAPS
1.4.5 proves neither liveness under fairness nor `ENABLED`. Induction over data is
out of its reach too; the theorems need none, since what loops compute is in the
state and a step adds one element.

## 5. Not modelled

* The text of messages, token amounts, floating point and the threshold
  comparison: a transaction is a whale or not, a log reaches the threshold or
  not.
* Metrics that describe the last block only (gas, transactions, durations,
  `blocks_with_whales_total`), which no other step reads.
* Order of the events of one transaction's logs: any order is allowed.
* Bytes, latencies and compute units of the log benchmark, and their summary.
* The rate limiter's count of tokens: it is the library's, and admits a caller
  in time. The jitter of a pause.
* `BENCH_BLOCKS=0`, with which `cmd/log-bench` panics before it measures.
* The text of reports, dashboards, Prometheus and its endpoint.
* Several connections: after a lost one the code does not dial again, and
  neither does the model, until the restart.

## 6. Plan

Done: all modules of section 2, and every safety property of the passing runs
as a theorem.

Left:

1. What the properties do not yet say and the models could: that no more
   goroutines work at once than the semaphore has slots (`BloomBench`,
   `LogBench`), and that a mismatch without a lost answer means that the chain
   moved between two particular reads.
2. The limits of the ledger: a statement of which alerts a restart forgets.
3. Shorter proofs where one step repeats another's cases, in `LogBenchProofs`
   and `WatcherProofs`.
