# A formal model of the Beta trading platform

TLA+ specifications of the market-maker service of this repository
(`src/market-maker-service`), the TLC configurations that model-check them and
the TLAPS proofs about them. File names below are relative to
`src/market-maker-service/internal` unless they say otherwise.

## 1. The system

| Part | State | Operations | Talks to | Hard behaviour |
|---|---|---|---|---|
| **Aggregator** (`market/aggregator.go`) | last snapshot, subscribers | `tick` every poll interval: read prices, stamp the snapshot *before* the reads, call every subscriber | Binance feed, Uniswap readers; calls `sync.Engine` and `execution.Service` on its own goroutine | a slow subscriber delays all later ticks; a snapshot is old by the time it is used |
| **Strategy** (`strategy/engine.go`) | `lastTrade` per instrument | `Decide`, `MarkExecuted` | called by the execution service | the cooldown is checked long before it is set |
| **Execution service** (`execution/service.go`, `async_audit.go`, `receipt.go`, `v3_executor.go`, `v4_executor.go`) | `running`, Redis keys `mm:lock:*` | `OnSnapshot`, `tryAcquire`, `execute`, `executeTWAP`, `release`, `awaitConfirmation` | guard, strategy, nonces, chain, Redis, store | one goroutine per decision and one per confirmation; a lock with a TTL and a local fallback; slices of which one may fail |
| **Risk guard** (`risk/guard.go`) | per instrument: failures, back-off, circuit; per day: gas spent | `Allow`, `RecordSuccess`, `RecordFailure`, `TripCircuit` and its timer | executions, confirmations, `sync/engine.go` (`checkBreakers`), API | `Allow` takes the mutex only for the budget and waits for the network in between |
| **Nonces** (`execution/nonce.go`) | `next`, a mutex | `SignAndSend` | every executor; several RPC endpoints | a failed send forgets the nonce; nodes disagree about what is pending |
| **Audit trail** (`execution/async_audit.go`, `service.go`, `db/sqlite.go`) | Redis list, tables | enqueue, consumer loop, synchronous fallback, status updates, positions | executions, confirmations, store | events lost between pop and write, or written twice; updates that overtake inserts; read and write of a position in separate calls |
| **State mirror** (`sync/engine.go`) | prices, k-line buckets | `OnSnapshot`, `flushKline` (from two goroutines), `checkBreakers` | aggregator, guard, store, API | a bucket is written while it grows, and again when it ends; writes may fail unheard |
| **Binance feed** (`binance/ws_client.go`) | prices, history, connection | WebSocket loop, REST fallback, `GetPrice`, `GetTWAP` | aggregator | a stream that is open and silent; reconnects; prices without an age; a history trimmed by one writer only |
| **API** (`api/server.go`) | challenges, k-line cache | login, parameters, trades, queries | everything above | check and delete of a challenge |
| **WebSocket hub** (`api/server.go`) | clients, price channel | join, subscribe, leave, `priceBroadcaster`, `WSHub.run` | state mirror, browsers | writes to slow clients under a lock that joining and leaving need |
| **Store** (`db/sqlite.go`) | SQLite | inserts, updates, queries, retries when busy | execution, API, mirror | two tables for one trade |
| **Chain reads** (`chain/failover_reader.go`, `uniswap/`) | none | calls with fail-over | aggregator, guard | all endpoints of a call share one deadline |
| **Configuration** (`config/config.go`) | environment, runtime overrides | `Load`, `Get`/`SetRuntimeFloat` | everybody | a value read twice may differ |
| **issuer-service** (`src/issuer-service`) | chain, report file | deploy tokens, create and fund pools | chain | none that outlives a run |
| **user-console** (`src/user-console`) | React state | polling, wallet, trading panel | API, wallet | answers out of order; approve, swap and record as separate steps |

How a trade happens: the poll goroutine stamps a snapshot, the mirror may trip a
circuit, `Decide` yields decisions, and `OnSnapshot` starts a goroutine for each
instrument it can lock. That goroutine asks the guard, sends one swap per slice
(each through `Nonces.SignAndSend`), records the outcome with the guard or the
strategy, starts a goroutine that awaits the receipt of the *last* slice, and
releases the instrument. The receipt is reported to the guard later.

What makes it correct: at most one execution works on an instrument; an
instrument is never blocked for good; cooldown, back-off, circuit and budget stop
what they are meant to stop although they are checked at one time and changed at
another; nonces have no gaps and no duplicates; a decision's slices are even and
covered by the allowance; what happened is recorded once, and positions match the
trades; the feed is not silent for long and what is called fresh is fresh; charts
keep up and browsers are served. `PROJECT.json` lists the hazards
line by line, with the properties that watch them.

## 2. The modules

| Module | Models | State | Actions |
|---|---|---|---|
| `GuardHealth` | the failure counter and back-off of `risk.Guard` | `fails`, `backoffUntil` (`instrumentState`), history `failedAt` | `RecordSuccess`, `RecordFailure`, the test `Healthy` |
| `Execution` (extends `GuardHealth`) | the pipeline, with local or Redis lock | `snapAt`/`toEvaluate`/`decided` are the poll goroutine's locals, `running` and `redisKey` the locks, `pc` and its companions the locals of `execute`, `swaps` the chain, `confirm` the confirmation goroutines, `lastTrade` the strategy | `Snapshot`, `Evaluate`, `Dispatch` (poll goroutine); `Gate`, `Verdict`, `SendSlice`, `SliceFails`, `Pause`, `Settle`, `Unlock`, `Delete` (one execution); `Confirm`; `Mine`, `Tick`, `Crash` |
| `InstrumentLock` | what `tryAcquire` and `release` promise together | `holder` | `Acquire`, `Release`, `Restart` |
| `RiskGuard` | circuit breaker, timers, `Allow` gate by gate, daily budget | `open`, `openedAt`, the sleeping timers `clears`, `tripping` between `CircuitOpen` and `TripCircuit`; `dayKey`, `dayGas`, `budget`; the locals of each `Allow` | `CheckBreaker`, `TripCircuit`, `Clear`; `Enter`, `CheckCircuit`, `GasPrice`, `Consume`, `Edge`, `Swap`; `SetBudget`, `Tick`, `Crash` |
| `Nonces` | `SignAndSend` and the nodes it talks to | `next`, `holder` (the mutex), the locals of each call; `chain`, `head`, `pool` are the nodes' | `Lock`, `Allocate`, `Fees`, `Send`; `Gossip`, `Mine`, `Import` (external) |
| `AuditLog` | what the trail promises: an issued event is written once, unless something fails | `issued`, `waiting`, `rows`, `faults` | `Issue`, `IssueInDoubt`, `Write`, `Lose` |
| `AuditTrail` | queue, consumer, synchronous fallback, the rows of a decision and a result, positions, the confirmation's updates | `queue` is the Redis list, `job`/`at`/`seen` the locals of whoever writes, `decisions`, `trades`, `accounts`, `logs`, `finals`, `position` the tables | `Decide`, `Outcome`, `Record` (one execution); `Pop`, `PopLost` (consumer); `InsertDecisionLog`, `InsertTrade`, `InsertExecutionLog`, `ReadPosition`, `WritePosition`, `GiveUp` (any writer); `Receipt`, `UpdateTradeStatus`, `LogFinal`, `ConfirmGivesUp`; `Crash` |
| `Slices` | the split of a decision and the executors' allowance, approval, pre-flight and swap | `decision`, `done`, `remaining`, `part` are the locals of `executeTWAP`; `allowance`, `mempool`, `approved` the chain | `Start`, `Slice`, `Cancel`; `CheckAllowance`, `Approve`, `AwaitApproval`, `Preflight`, `SendSwap`; `Mine` |
| `Feed` | `binance.Client`: connection loop, decoding of messages, REST fallback | `ws`, `backoff`, `wait`; `restIn`, `restDue`, `toFetch`; `age` of each symbol's newest sample | `Dialled`, `Lost`, `Wake`, `Receive`; `RestTick`, `Fetched`; `FeedTime` |
| `Market` (extends `Feed`) | `market.Aggregator` over the feed and the fail-over reader | `due`, `stage`, `quoted`; the endpoint `at` and the `result` of each read; `last` | `StartTick`, `Answer`, `FailOver`, `Expire`, `Publish`, `Return`, `Time` |
| `Klines` | the one-minute buckets and their rows | `bucket`, `age`, `row`, `closedRow` | `Start`, `Extend`, `RollOver`, `Flush`, `Restart`, `Time` |
| `Hub` | `WSHub` with `sync.RWMutex` | `state` of each connection's goroutine, `peer`, `queued`, `run`, `todo`, `current`, `writer` | `Connect`, `Subscribe`, `ReadError`, `Announce`, `Enter`; `Broadcast`; `Receive`, `RLock`, `StartWrite`, `FinishWrite`, `RUnlock`; `Stall`, `Resume`, `Go` (browsers) |
| `MCExecution`, `MCRiskGuard`, `MCNonces`, `MCAuditTrail`, `MCSlices`, `MCMarket` | – | – | symmetry sets and structured constants for TLC |
| `ExecutionProofs`, `RiskGuardProofs`, `NoncesProofs`, `SlicesProofs`, `MarketProofs`, `HubProofs`, `AuditProofs`, `KlinesProofs` | – | – | theorems |

An action is a whole critical section or the stretch of a goroutine between two
points where others can get in: a mutex released, a network call, a sleep. The
release of an instrument is two actions, since the Redis key and the map entry go
at different times, and so are `CircuitOpen` and `TripCircuit`. Definitions whose
comment starts with "Faulty" are variants of the operator below them with a
plausible bug; no specification uses them.

Abstractions. Time is counted in ticks. Prices, deviations and amounts are a free
choice: any decision the strategy might take is taken in some behaviour. In
`Execution` the gates of `Allow` after the back-off may go either way, and
`RiskGuard` models them in turn; the back-off is only in `Execution`, whose
confirmations change it. `Allow` reads the back-off and the circuit without the mutex. A
torn read of the back-off can refuse a decision for no reason, which the model
allows for through the other gates. A Redis call that fails may have been applied
or not, a send that fails may have reached the node or not. Writes to the
database are in `AuditTrail` and `Klines`; log lines are left out.

`Execution`, `Slices` and `AuditTrail` look at the same execution from three sides:
who may run it and when, what it sends, what is recorded of it. Each keeps what its
properties need and lets the rest happen in any order. Where they meet, the choices
of one cover the other: a slice that fails in `Execution` fails for one of the
reasons in `Slices`, and `AuditTrail!Outcome` allows every outcome and starts the
confirmation in the same step, as `execute` does. `AuditTrail` lets
any number of executions run at once, which is more than the lock allows; its
instance has two that share their quote token. `Slices` follows one instrument, whose
executions do not overlap.

Data is kept as far as a property looks at it: a position is the number of
bumps it holds, a sample of the price history is its age, a price of a k-line one
of three numbers, a message of the stream the JSON types of its keys. Ages are
counted up to a bound beyond every threshold.

## 3. What the runs show

Passing runs (all finish; the bounds are in the `.cfg` files):

| Run | Question | Why the bounds are enough |
|---|---|---|
| `ExecLocal` | Is the cooldown overrun by more than one execution? Do late confirmations stop later decisions? | three executions are needed for two overruns of one instrument; four ticks hold two cooldowns and a back-off |
| `ExecSliced` | Is the running map a lock, does the pipeline implement `InstrumentLock`, does every execution release its instrument? | two executions compete; two slices with a pause, and a timeout in every place. Instruments meet only in the poll goroutine, and the theorems cover any number of them |
| `ExecRedis` | When can executions overlap with Redis? Do failed calls or a restart leave orphans? | the TTL is shorter than the execution's timeout, as in the defaults (15 s and 3 min); one error in any place, one restart |
| `Guard` | Do timers and circuits match, is every circuit cleared after its cooldown? Can concurrent calls, a new limit, the turn of the day or a restart exceed the budget? | two calls on one instrument, two costs, no limit and a limit, one whole cooldown, a day boundary inside it, one restart. Circuits of different instruments share nothing but `tripping`, and the theorems cover any number |
| `NoncesFailover` | Can a transaction wait for a nonce nobody has? When is a nonce given out twice, and a transaction mined twice? Is the mutex released, is every sent nonce used up? | three calls (one that sends, one that fails, one that resyncs), two endpoints, three errors in any place, lost replies |
| `Audit` | Is every outcome recorded once? Do the tables agree, are positions right, does the queue drain? | two executions share a token; one failed call anywhere (push, pop, store) and one restart anywhere; both together |
| `Slices` | Do slices add up, can one be refused half-way, when is a swap short of allowance? | amounts that divide evenly and not, by one, two and three slices, minimum outputs smaller than the number of slices, prices above and below one; two executions, so that one starts while the other's swaps are pending; two failed calls |
| `Market` | How long can the feed be silent? Is what is called fresh fresh? Do snapshots keep coming? | an instrument with a ratio of two symbols, the hard case of `computeTarget`; two windows, two endpoints; ages up to one beyond the threshold, the period and the window together |
| `Klines` | Does the chart keep up, and is a finished bucket complete? | buckets of three snapshots, so that open, high, low and close may all differ; flushes at every offset (`Restart` shifts the buckets against the ticker); one failed write |
| `Hub` | Can a write go to a closed connection? Is everybody served? | two clients, so that one stalls in a write while the other joins or leaves; a channel of two |

`Market`, `Klines` and `Hub` never stop and are checked for deadlock. In the
other runs, with the clock at its bound and no goroutine left to start, the bounded
system has nothing to do, and their configurations say `CHECK_DEADLOCK FALSE`.

Runs that end in a violation. Each shows a place where the code does
something other than what a comment of the repository says:

| Run | The document | The code |
|---|---|---|
| `BadFeed` | "Use miniTicker stream for smoother, high-frequency UI updates", `binance/ws_client.go:57` | the numeric event time `"E"` is decoded into the string field tagged `"e"` (`:246`), for `encoding/json` ignores case; the error drops every message, and all prices come from REST |
| `BadSpent` | "caps total estimated execution spend per UTC day", `config/config.go:74` | one charge for all slices of a decision |

Other places where the code and its comments part, or where the code gives less than one
might expect. The passing runs say how much remains true:

* The Redis lock has a TTL that is shorter than an execution may last and is not
  renewed (`execution/async_audit.go:164`), against "limited to one in-flight execution at a
  time" (`execution/service.go:28`). `OverlapOnlyAfterTTL` says when executions
  overlap. After a Redis error the local map is asked, which the holder of a
  key has not entered (`execution/service.go:453`).
* The instrument is released at submission (`execution/service.go:164`), against "One
  in-flight tx per instrument" (`:109`): the next swap may be sent while the last is
  pending. The V3 executor does not await the swap's receipt either, against its
  own comment (`execution/v3_executor.go:19-22`). `ShortOnlyBehindPending` says
  what that may do to an allowance; earlier slices are never confirmed.
* If a later slice fails, the cooldown is not started (`execution/service.go:248`),
  against `strategy/engine.go:43`. Otherwise the cooldown is overrun by one
  execution at most (`AtMostOneOverrun`): `Decide` reads it before the instrument is locked.
* `Allow` reads the circuit before it asks for the gas price (`risk/guard.go:81`), against "While
  open the guard rejects all decisions" (`:154`). `OnlyEarlierChecksPass` bounds it.
* A restart forgets what the day has spent (`risk/guard.go:44`);
  `AcceptedWithinBudget` counts one more budget per restart.
* The resync after a failed send may ask a node that has not seen the last
  transaction (`execution/nonce.go:89`), against "monotonically increasing
  nonces" (`:20`). `NoGap` and `ReusedOnlyAfterFailover` bound it.
* The confirmation may update the trade row before the queue has inserted it
  (`execution/service.go:194`): the row then stays "submitted". `account_trades` is never
  updated (`db/sqlite.go:525`). `TablesTogether` names all rows that may disagree.
* Events are taken off the list before they are written (`execution/async_audit.go:124`), and a
  push in doubt is repeated by hand (`:101`): `AuditLogImplemented` allows one lost
  or doubled event for each fault and none otherwise.
* `market/aggregator.go:21-22` says that slow subscribers are skipped; they are
  called in turn on the poll goroutine (`:214`). The staleness of 30 seconds (`:32-34`) never
  applies to Binance quotes, which are stamped with the time of the tick; what bounds their
  age is the window of `GetTWAP` (`FreshTargetsRecent`).
* `lastTick` is one for all symbols (`binance/ws_client.go:187`): while one symbol is heard,
  the fallback does not notice that another is silent. `FeedNeverSilent` is therefore about the feed as a whole.
* `GetPrices` looks for rows of 5 and 15 minutes (`db/sqlite.go:393-419`) that nothing writes.

**Fairness.** `Execution!Fairness`: the clock ticks, and each execution keeps
taking steps, since every call it makes carries the execution's context or a
timeout of its own; nothing is assumed of the chain or the confirmations.
`RiskGuard!Fairness`: the clock ticks and a goroutine whose `time.Sleep` has
ended runs; fairness is per instrument because one instrument has one timer.
`AuditTrail!Fairness`: the consumer loop goes on after every error, and store calls end,
as their retries are counted; confirmations may end at any point.
`Market!FairSpec`: the clock and the goroutines of the program go on; no endpoint, stream or
REST request need ever answer, except in `FeedNeverSilent`, whose history variable
`missed` excuses requests that fail or hang. `Hub!FairSpec`: the
goroutines go on; a waiting writer gets its turn although readers and writers keep coming,
since `sync.Mutex` hands over to a goroutine that has waited for a millisecond (strong
fairness of `Announce`), and a write to a client that reads again and again
returns. That no client stalls for ever is not assumed of the system but a hypothesis
of `HubServes`; without it the property is false.
`Nonces!Fairness`: calls to nodes end with an answer or an error, and blocks are
mined. A node that drops a pending transaction is not modelled, and
`SentNonceMined` depends on that.

## 4. What is proved

TLAPS proves the following for all values of the constants (all assumptions are
named `ASSUME`s of the modules, plus what the theorem states).

| Theorem | Property | Assumes |
|---|---|---|
| `ExecutionProofs!TypeCorrect` | `TypeOK` | – |
| `ExecutionProofs!NoOrphans` | `NoOrphanedEntry` | – (with or without Redis, errors and restarts) |
| `ExecutionProofs!MutualExclusion` | `OneExecutionPerInstrument` | no Redis |
| `ExecutionProofs!LockRefinement` | `LockImplemented` | no Redis |
| `ExecutionProofs!CooldownSpacing` | `AtMostOneOverrun` | no Redis |
| `ExecutionProofs!BackoffSound` | `BackoffHonoured` | – |
| `ExecutionProofs!TTLExclusion` | `OverlapOnlyAfterTTL` | – (Redis and no failed call are in the property) |
| `RiskGuardProofs!TypeCorrect` | `TypeOK` | – |
| `RiskGuardProofs!OneClear` | `OneClearPerCircuit` | – |
| `RiskGuardProofs!StaysOpen` | `CircuitStaysOpen` | – |
| `RiskGuardProofs!EarlierChecks` | `OnlyEarlierChecksPass` | – |
| `RiskGuardProofs!BudgetKept` | `AcceptedWithinBudget` | – (restarts included) |
| `NoncesProofs!TypeCorrect` | `Nonces!TypeOK` | – |
| `NoncesProofs!NoGapKept` | `NoGap` | – |
| `NoncesProofs!MinedOnceOnly` | `MinedOnce` | – |
| `NoncesProofs!ReuseBounded` | `ReusedOnlyAfterFailover` | – |
| `SlicesProofs!TypeCorrect` | `TypeOK` | – |
| `SlicesProofs!EvenDivision` | `SlicesEven` | – |
| `SlicesProofs!SizeFirst` | `SizeRejectedFirst` | – |
| `SlicesProofs!QuoteTight` | `QuoteRejectsOnlyTight` | – |
| `SlicesProofs!DivisionLosesNothing` | `WholeDecisionSent` | – |
| `SlicesProofs!AllowanceLasts` | `MaxApprovalNeverShort` | – |
| `SlicesProofs!ExactApprovals` | `ShortOnlyBehindPending` | – |
| `MarketProofs!TypeCorrect` | `Market!TypeOK` | – |
| `MarketProofs!FeedHeard` | `FeedNeverSilent` | – |
| `MarketProofs!TargetsRecent` | `FreshTargetsRecent` | – |
| `HubProofs!MembersOnly` | `WritesReachMembers` | – |
| `AuditProofs!TypeCorrect` | `TypeOK` | – |
| `AuditProofs!TablesAgree` | `TablesTogether` | – (any faults, with or without Redis) |
| `AuditProofs!BumpsKept` | `NoLostBump` | – (Redis and no failed push are in the property) |
| `AuditProofs!LogImplemented` | `AuditLogImplemented` | – (any faults, with or without Redis) |
| `AuditProofs!DecisionFirst` | `DecisionBeforeResult` | – |
| `AuditProofs!PositionsMatch` | `PositionsMatchTrades` | – |
| `KlinesProofs!TypeCorrect` | `Klines!TypeOK` | – |
| `KlinesProofs!ChartKeepsUp` | `KlinesKeepUp` | – |
| `KlinesProofs!ClosedComplete` | `ClosedBucketComplete` | – |

The arguments:

* *Mutual exclusion.* The inductive invariant says that, without Redis, every
  active execution has its instrument in `running` and no two active executions
  have the same one. `running` alone is not enough: an execution that is about to
  delete the entry must count as active. The refinement follows with the holder of
  an instrument defined as *the* active execution that has it; uniqueness makes
  each `Dispatch` an `Acquire` and each `Delete` a `Release`.
* *No orphans.* Entries may be deleted by executions that did not make them, so
  the invariant cannot name an owner. It only says that some active execution of
  the instrument exists that will run `Delete`; a delete removes the entry in the
  same step in which it stops being active.
* *Cooldown.* The mark before the last one is at least a cooldown older than the
  snapshot of a waiting decision, and while an execution is running so is the last
  one. The invariant carries that distance through the dispatch; mutual exclusion
  ensures that no more than one mark comes in between.
* *Back-off.* No gate was passed in the future. A gate is passed only when the
  back-off is over, and a failure recorded later is later than the gate.
* *TTL.* As long as no Redis call has failed, an execution that is within the TTL of
  its key has the key, with the expiry it was given, and no other execution of the
  instrument is at work (`KeyInv`). Uniqueness alone is not inductive: that `SETNX` fails
  needs the key, and that the owner alone deletes the key needs uniqueness.
* *Circuit.* One timer for every open circuit, none for a closed one, and none
  for the instrument that is about to be tripped, which is therefore still closed.
  This is where it matters that one goroutine trips circuits.
* *Budget.* What was accepted today is what the guard has counted, or nothing as
  long as the guard has not noticed that the day turned, plus at most one largest budget for
  every restart, after which the guard counts from zero; the limit a waiting call
  has read is at most the largest there was.
* *No gap.* `next`, the nonce of the call that holds the mutex and the pools are
  tied together: every nonce below them is mined or known at some node. It holds
  in spite of duplicates, since a replacement keeps the nonce.
* *Mined once.* A transaction in a pool or in a block has the nonce of the call that signed it, and
  that call has signed: its nonce no longer changes (`SignedInv`). A block's place in the chain is the
  nonce of its transaction, so no call is there twice, not even one that was sent to every endpoint and reported
  as failed.
* *Reuse.* As long as one endpoint only was asked, the nonce in work is the first
  one free in that endpoint's view of the chain and its pool, so the endpoint
  cannot reject it, and taking it uses up this nonce and no other. The invariant
  is stated under that condition; an error is never taken back.
* *Even slices.* The invariant says of what remains that it lies between `n * q` and
  `n * (q + 1)`, where `n` slices are left and `q` is the quotient of the whole amount:
  division of the rest then gives `q` or `q + 1`, and what is left after it
  keeps the bounds. From this follow the slice sizes, that a slice of zero is found at
  the first slice or never, and that the pre-check, which is monotone in
  the amount, can only refuse decisions whose tolerance is below one unit per slice.
* *Whole decision.* The slices sent so far and what remains add up to the decision, and after the
  last slice nothing remains (`Accounted`). The sum of a sequence is a recursive function, which would
  call for induction on its length. The proof goes round it: `Sums(s, t)` says that *some* function
  has the equations of the sum and ends in `t`; such a function for a sequence gives one for the
  sequence with another element, and one that has the equations *is* the recursive function.
* *Allowance.* For V4, the allowance is zero or the maximum, every pending approval is for
  the maximum, and a swap is pending or about to be sent only when the allowance is the
  maximum, which swaps do not use up. For either venue, a swap whose allowance was read with nothing
  pending is the next transaction to be mined, so the allowance it was checked
  against is the one it finds.
* *Feed.* If no request failed or is waiting, the newest sample is at most as old as
  the threshold plus the time since the last tick of the fallback, for a tick that
  finds the feed stalled fetches, and a fetch that succeeds makes a sample of age zero.
* *Fresh targets.* While the pools are read, every quoted symbol has a sample no older
  than the window plus the time the reads have taken, which the deadline bounds.
* *Members.* The lock is entered only while `run` does not write, and whoever enters hands
  `run` the members as they then are; a connection that leaves waits until the walk is over.
* *Tables.* A result is on the list, or with a writer, only once the status of its execution
  is known, and that status does not change again; so every row of both tables is this status, but for the
  rows of `trades` that a confirmation has overwritten, which needs a receipt and so an execution that
  was submitted. The type invariant needs the first half: without it a row could be written with no status.
* *Bumps.* While no push has failed, executions never write for themselves: the consumer is the
  one writer, and between its read and its write of a position nobody else writes. A restart leaves
  both the position and the count of bumps as they are and forgets what was read.
* *Refinement of `AuditLog`.* An event that waits there is a copy of it on the list, with a writer or with the
  consumer between pop and write. `CopiesSum` counts the copies in these places by one sum, and `AuditInv`
  says that there are at most two, none before the event is issued, and that an execution writes for
  itself only. Every step then changes the copies or the rows of one event by one, as `Issue`, `IssueInDoubt`,
  `Write` or `Lose` do, or is a stutter; a restart that forgets what a writer held is a `Lose`.
* *Decision first.* Without a fault each issued event is in one place or written, once (`Once`), and a
  result comes behind its decision: on the list by its index, with a writer by the decision having left
  the list (`Ordered`). What is on the list twice could overtake, which is why the property stops at the first fault.
* *Positions.* A position and the bumps that the consumer still owes to the trade it is writing
  make up the recorded trades of the token (`Booked`), counted as the cardinality of two finite sets, one
  for the base and one for the quote.
* *K-lines.* The bucket is the bar of its samples, and so is the row of the first `n` of them, where the rest came
  since the last tick of `klineLoop`, unless the last write failed (`ChartInv`). A bar is described there
  without a maximum or a minimum, as values that occur and bound the others (`IsBar`), which one
  more sample preserves; `BarIs` shows that there is one such bar, `BarOf`.

Only model-checked: the liveness properties (`EveryExecutionEnds`,
`CircuitCloses`, `SentNonceMined`, `MutexReleased`, `TrailDrained`,
`SnapshotsKeepComing`, `HubServes`), which are outside the prover's reach. Every
safety property of the passing runs is proved. The two properties of the violation runs
(`StreamStored`, `SpentWithinBudget`) are false of the code and have counterexamples instead.

## 5. Plan

Done: the modules of section 2 with their proofs. In the order in which they would come next:

1. The composition of `Execution` with `Slices`: what the lock guarantees when executions of one
   instrument overlap after an expired TTL and approve at the same time.
2. Nodes that drop pending transactions, in `Nonces`.
3. The login of the API: challenge, verification and expiry.

## 6. Not modelled

* The API's handlers, but for the change of a runtime parameter: each is one query or one
  insert. The login's nonce map has one entry per wallet; its only race
  costs a wallet one more request.
* The strategy's sizes, deviations and profits, and the decoding of Uniswap's
  storage: floating-point arithmetic without state, a free choice in the modules.
* The SQL schema, migration and queries (I/O); parsing of configuration.
* The dashboard's raw quotes (`GetPrice`, `realtimeBinancePrices`, the map of current prices):
  overwritten by every sample, with no rule about them in the code.
* The ping goroutines of the feed, and the length of its history: unbounded in the code.
* The order in which the parts stop at a shut-down: the process exits in the same moment, and
  a restart at any point is modelled instead.
* The issuer's scripts (run once, by hand), the token contracts (library code with a single
  mint), and the console (presentation).
