# alpha-forge in TLA+

alpha-forge is a trading dashboard for Indian equities and crypto: a Next.js web
application, a worker process of scheduled jobs, Postgres through Prisma, and
Redis for caches, cooldowns and locks. What can go wrong in it that tests hardly
reach is the writing of shared rows by several jobs and requests, each made of
many awaited calls that may fail, and that is what these modules model: the two
paper books first, then the worker process that runs their jobs, then the smaller
stateful components beside them.

## Inventory

Paths are relative to `src/` of this repository.

| Component | State | Operations | Interacts through | Hard behaviour | What makes it correct |
|---|---|---|---|---|---|
| India auto trader: `src/features/india/paper-trading/auto-trader.ts`, `worker/src/jobs/india-auto-trader.ts` | its rows of `PaperTrade`, the day's `IndiaDaySession` row | `runAutoTradeTick` each minute, `finaliseAutoTradingSession` after the close | the table; the sizing engine | state read once and used many awaits later; rows and session row written separately; ticks that outlast the close | position cap, daily budget, one position per symbol, session row a true account of its rows, a finalised session closed and final |
| India scalper: `src/features/india/scalping/paper-trader.ts`, `worker/src/jobs/india-scalper.ts` | its rows of `PaperTrade`, trade-guard keys in Redis | `openIndiaPaperTrade` per fresh signal, `resolveIndiaOpenTrades` once a tick | the table (resolves everybody's rows), Redis | claim, look-ups and create are separate calls; the same signal returns on every tick; claims expire; Redis may be away | one open trade per symbol, one trade per signal for ever |
| EOD square-off: `worker/src/jobs/india-eod-squareoff.ts` | a lock in Redis | one pass a minute from 15:30 to midnight | the table, Redis | lock held by a dead tick, updates that fail for good, Redis away | the book is cleared before midnight |
| India requests: `src/app/api/in/paper-trade`, `.../scalper/close-all`, `.../scalper/journal/[id]` | none | manual open, close all, cancel | the table, from another process | check and write are separate calls beside every job | a closed trade keeps its outcome |
| Crypto scalper: `worker/src/jobs/scalper.ts`, `src/features/scalping/paper-trader.ts` | rows, checkpoint and guard in Redis, a dead letter queue in memory | one tick: flush, open per signal, resolve | table, Redis | crash between create and bookkeeping, retry of a committed create, queue lost | one row per lane and trigger, no signal forgotten |
| Resilience helpers: `src/lib/chaos/*` | circuit breakers, locks, checkpoint | acquire/release, record success/failure | every job | TTL shorter than the holder, non-atomic release, unlimited probes | who may lose a lock to whom, a breaker closes again |
| Order state machine: `src/lib/india/trading-state-machine.ts` | an order, its fills and transitions | transition, applyFill, reject, cancel, fail | tests only | duplicate, late and too large fills | terminal is terminal, FILLED only when filled |
| Experiments: `src/lib/experiments/*`, `src/app/api/experiments/*` | experiments, arms, tokens, in memory | create, start, pause, complete, archive, promote, issue and consume token | routes of the web process | long sequences of calls | no LIVE arm without an approval of its own, finished experiments stay finished |
| Shadow trader: `src/lib/experiments/shadow-trader.ts` | a simulated portfolio | signal, tick, close | nobody yet | money moved in several places | cash is explained by trades |
| Worker process: `worker/src/index.ts`, `worker/src/scheduler.ts` | list of jobs, timers | bootstrap, tick, shutdown | all jobs | signal during bootstrap, hung tick, order of closing | no overlapping ticks, nothing lost at shutdown |
| Lifecycle audit: `src/lib/signal-intelligence/lifecycle-persist.ts` | an in-memory queue and a timer | emit, flush by size, time or shutdown | auto trader, Prisma | failed batch, flush in flight at exit | every event written once |
| Alerts and WhatsApp: `src/features/alerts/dispatch.ts`, `src/features/whatsapp/notifier.ts` | cooldown keys | fire, send | Redis, Prisma, HTTP | GET then SET; a failed call ends the tick; cooldown kept when the send fails | at most one per cooldown and replica, none silenced for good |
| Signal ingest and outcome: `worker/src/jobs/signal-ingest.ts`, `worker/src/jobs/signal-outcome.ts`, `src/features/backtesting/{history,evaluate}.ts` | `SignalHistory`, signal guards in Redis | claim, look up, create; walk candles and update | Redis, Prisma, data service | lost answers and retries; claims that outlive a failure; a window of candles | no repeated row, signals recorded in the end, outcome is the first touch |
| Strategy lab: `src/features/strategy-lab/{engine,paper-trader}.ts` | a walk over bars, `StrategyPaperTrade` rows | backtest, forward-test tick | Prisma, broker | order of exit and entry within a bar | one position, none missed, first touch decides |
| ML context: `src/lib/india/ml-enhanced-context.ts`, `src/lib/chaos/ml-resilience.ts` | cached context, breaker | `buildMLContext` | ML service, callers | concurrent probes, results of calls begun in another state | the service is used again when it is well |
| Liquidations stream: `worker/src/jobs/liquidations.ts` | a socket and three timers | connect, reconnect, stop | an exchange | callbacks and timers after stop | one connection or one reconnect, none after stop |
| Daily picks, scanner, capture jobs | rows upserted by key | one tick each | Prisma | repeated ticks | last write wins |
| Opportunity engine, strategies, indicators | none | pure scoring | their callers | floating point | numeric; inputs of the models |
| Backtesting v2: `src/lib/backtesting-v2/*` | event queue, orders, portfolio | one event at a time | none | orders pending beside the risk check | cash and position accounting |
| Pages, read-only routes, data clients, caches | none of their own | reads | network | staleness up to a TTL | not modelled |

`PROJECT.json` lists the same components with their status, and every hazard at
the line where it bites.

## Plan

The order is by how much damage a mistake would do; all of it is done except what
the last point names.

1. `IndiaPaperBook`: the India book and everything that writes it.
2. `CryptoScalper`: the crypto scalper's ticks with checkpoint, trade guard, retry,
   dead letter queue and crash.
3. `WorkerProcess`: scheduler, bootstrap, shutdown and the lifecycle queue, which
   implements `AuditTrail`; liveness under the timers' fairness.
4. `DistributedLock`, `AlertCooldown`, `SignalIngest`, `CandleWalk`,
   `BacktestEngine`, `Experiments`, `ShadowTrader`, `MlContext`,
   `LiquidationStream`: components that share no state with the books or with one
   another, composed in `MCServices`.
5. Left: that a tick of the crypto scalper always ends, under fairness of its calls;
   the checks on the scores that the books take as inputs. Why the rest of the
   repository is not in the plan is said under "Not modelled".

| Module | Proofs | Runs |
|---|---|---|
| `IndiaPaperBook` | `IndiaPaperBookProofs` | `book_*` |
| `CryptoScalper` | `CryptoScalperProofs` | `crypto_scalper`, `crypto_lanes` |
| `WorkerProcess`, `AuditTrail` | `WorkerProcessProofs` | `worker`, `worker_audit` |
| `BacktestEngine` | `BacktestEngineProofs` | `services`, `lab_entry` |
| `Experiments` | `ExperimentsProofs` | `services` |
| `CandleWalk` | `CandleWalkProofs` | `services`, `crypto_window` |
| `DistributedLock`, `LiquidationStream`, `SignalIngest`, `AlertCooldown`, `ShadowTrader`, `MlContext`, and the composition `MCServices` | `ServicesProofs` | `services`, `lock_release` |
| `AtomicBook`, implemented by both books | `IndiaPaperBookProofs`, `CryptoScalperProofs` | |

`SumLemmas` holds what the proofs need of sums over finite sets. Every invariant and
every action property of a run that passes is also a theorem; what stays with TLC is
liveness, which is out of the provers' reach, and the runs that expect a violation.

`AtomicBook` is the promise the two scalpers have in common. In the code, looking for a
trade that stands in the way and creating the new one are calls with awaits between
them, made by ticks that fail, retry, crash and start again beside everything else that
writes the table. In `AtomicBook` they are one step, `BookOpens`: the slot is free and
no trade of the lane comes from a trigger within a minute, and at that moment the trade
is there. A trade is closed at most once, never reopened and never changed otherwise,
and its identifier is not used again. Each scalper module instantiates it
(`Book == INSTANCE AtomicBook WITH ...`) with a view of its own table: symbols are the
slots of the India scalper, whose table also holds the rows of the auto trader and of
requests, which the view leaves out; lanes are those of the crypto scalper. A close
of a trade that is closed already, which both systems do, is a stutter in this view:
the outcome it overwrites is what the run `book_double_close` is about.

In every module the operators marked "A bug to catch" are not part of the
specification: each is what a plausible mistake would make of the definition below
it, and the property named for it in `PROJECT.json` ("mutants") must then fail.

## The India paper-trade book

### Modules

- `IndiaPaperBook.tla`: the specification. One trading day; the table, the session
  row, the Redis keys, and the local state of each handler.
- `MCIndiaPaperBook.tla`: the two days of `book_open` and the symmetry set for TLC; the
  other runs take `IndiaPaperBook` as it is.
- `AtomicBook.tla`: what the scalper implements (`OpensAtomically`).
- `IndiaPaperBookProofs.tla`: the theorems; `SumLemmas.tla`: sums over finite sets.

### State and actions against the code

`row[t]` is a `PaperTrade` row whose `source` starts with `in:`. `session` is the
`IndiaDaySession` row (`total = 0`: no row, since the code creates it only with a
trade in it). `claims` are the `tg:in:...` keys, `lock` is `worker:eod-lock:<date>`.
`auto`, `scalp`, `eod` and `req[r]` hold the local variables of a tick or request
between two awaits. An action is the stretch of a handler from one database or
Redis call to the next; consecutive reads nobody can disturb are one action.

| Handler | Actions |
|---|---|
| `runAutoTradeTick` | `AutoBegin` (market and cutoff check, `getDailyBudgetState`, `computeDailyRiskBudget`), `AutoConsider` (budget test and duplicate check of the next ranked candidate), `AutoCreate`, `AutoCreateFails`, `AutoCommit` (`upsertSession`), `AutoAbort` (an exception that ends the tick) |
| `finaliseAutoTradingSession` | `FinaliseBegin`, `FinaliseClose`, `FinaliseCommit`, and `AutoAbort` |
| `india-scalper` tick | `ScalpBegin`, `ScalpAttempt` (`atomicClaim` and the three look-ups), `ScalpCreate`, `ScalpCallFails` |
| `resolveIndiaOpenTrades` | `ResolveBegin`, `ResolveClose`, `ResolveEnd` |
| `india-eod-squareoff` tick | `EodBegin` (lock and read), `EodClose`, `EodEnd`, `EodAbort` |
| manual open, cancel, close-all | `ManualBegin`/`ManualCreate`, `CancelBegin`/`CancelCommit`, `CloseAllBegin`/`CloseAllClose`, `RequestEnd` |
| outside the code | `Advance` (wall clock), `WorkerCrash`, `LockExpires`, `ClaimExpires` |

Abstractions, and why they are sound for the properties:

- Prices, scores, candles and gates are nondeterministic: any symbol may be
  considered, any signal may come, any open row may be resolved at any time.
- A row's notional is one of the sizes the sizing engine can yield after its hard
  caps (`RecommendedSize`), then the auto trader's own rule (`AutoSize`).
- `WIN` and `LOSS` are one outcome, `HIT`.
- The clock has four phases: before the 14:45 entry cutoff, until 15:30, until IST
  midnight, and after. Minutes matter only for signals, which carry one.
- Ticks of one job do not overlap (`worker/src/scheduler.ts` waits for a tick before it
  schedules the next) and there is one worker (`docker-compose.yml`), so each job
  has one local state. Requests run in the web process and are not touched by a
  worker crash.
- A call that fails is an action of its own (`...Fails`, `...Abort`), and a create may
  commit and still throw (`acked = FALSE`). A failed read of the session row counts
  as no row, as `getDailyBudgetState` has it.
- Redis is up or down for the whole day (`RedisUp`); a claim may expire at any
  moment, which also covers a claim Redis lost.

### Runs

| Run | Question | Bounds |
|---|---|---|
| `book_open`, the auto trader's day | Do cap, budget, ledger, one position per symbol and finalisation hold under stale reads and partial failure? | 3 rows, 3 symbols, cap 2: a third position would break the cap, a second tick sees the first one's rows, the resolver frees slots under a tick |
| `book_open`, the scalper's day | Does the scalper open once per signal and once per symbol? | 2 rows, 2 symbols at a time, 2 lanes, triggers at minutes 4 and 5: one minute apart and in different claim buckets; batch 1 so rows wait for the resolver; one crash |
| `book_close` | Is the book cleared after the close? | 2 rows, 1 symbol, one request, one crash: a crash with the lock held, a late create after a pass has read; the session takes one trade (`MaxPerDay` 1), a create whose answer is lost and the request open the other; the scalper's job only resolves, one row a pass |
| `book_double_close` | Does a closed trade keep its outcome? | 1 row. It does not |
| `book_redis_down` | Does the square-off work without Redis? | 1 row. It does not |

Amounts are small integers with the proportions of the code: the budget is two
notionals where the code has five, the position cap of the sizing engine is one
notional (20 % of capital), its exposure cap less than the budget. Nothing in the
properties depends on the ratio five, and the theorems hold for every value the
assumptions allow. Deadlock checking is off because a day ends.

`book_open` is two small instances in one run: `MCIndiaPaperBook` chooses once whether
the day is the auto trader's or the scalper's and lets only the actions of that one, of
the resolver and of what is outside the code happen. It has no requests, and no crash in
the auto trader's day: that neither manual trades nor a tick forgotten in a crash lift
the cap is proved (`CapIsKept`, for any `Jobs`, `Requests` and `MaxCrashes`), and the
run would not finish in time with them. The scalper's day stays in the open market,
since nothing it does tells the two open phases apart and nothing opens in the others.
Rows of the auto trader and of requests are not counted by `ScalpOnePerSymbol`: the
comment on the look-up promises one trade per symbol "on the India scalper", and a
trade of another writer may be opened on the same symbol between look-up and create.
What a crash between creates and the session write loses is money the session does not
know of; `BudgetKept` and `LedgerMatchesRows` speak of the session row only.

Fairness (`FairSpec`, used by `book_close` and `book_redis_down`): the square-off tick
is scheduled again after every tick, whatever happened (`WF` of `EodBegin` and
`EodEnd`); a Redis TTL runs out (`WF` of `LockExpires`); the update of a row, retried
three times by `withDbRetry` in each of a day's several hundred ticks, does not
fail every time (`SF` of `EodClose`). Nothing is assumed of the auto trader, the
resolver, the requests or the clock: `SquaredOff` allows midnight to come first,
because at midnight `isSessionEnded` turns false and open rows stay until the next
close.

### What the failing runs show

- A closed trade can be closed again: every closer reads the open rows and later
  updates by id alone. The header of the square-off job promises no duplicate close.
- Without Redis the square-off never runs: the error of `SET NX` is taken for a
  held lock. The header promises that it proceeds without the lock.

Two further divergences can be read off the actions and have no run of their own.
`openIndiaPaperTrade` rejects a trade "if ANY open position already exists for this
symbol" (DUP-001), but its look-up and its create are two calls and the auto trader
may create its row between them; what holds is that the scalper does not open twice
(`ScalpOnePerSymbol`). And the rows of an auto tick are created before the session
row is written: when that write fails, or the worker dies before it, later ticks
spend the same money again, so that what a day's rows cost may exceed
`DAILY_BUDGET`; what holds is that the sum the session counts never does
(`BudgetKept`).

### Proofs

`IndiaPaperBookProofs` proves for every value of the constants that satisfies
`BudgetAssumption` and `IdAssumption`:

| Theorem | States | By |
|---|---|---|
| `TypeCorrect` | `TypeOK` | `TypeInv`: with it, that every create is preceded by what it needs and ids in local states are rows |
| `BudgetIsKept` | `BudgetKept` | `BudgetInv`: spent plus what remains of the tick's own copy is within the budget, and the copy is the session row or no row; needs that a size never exceeds a notional (`PositionCap` at most `TradeNotional`) |
| `AutoSymbolsDistinct` | `AutoOnePerSymbol` | `SymbolInv`: while a create is pending on a symbol, no auto row is open on it, since nobody else opens rows of the auto trader and closing only helps |
| `CapIsKept` | `AutoPositionCap` | `CapInv`: open rows of the auto trader plus the pending create plus `left` never exceed the cap |
| `ScalperOpensOnce`, `ScalperHoldsOne` | `ScalpOnePerSymbol`, `SignalOpensOnce` | `ScalpInv`: what the look-ups established is still true at the create, because only the scalper inserts into its lanes |
| `FinalisedStaysClosed` | `FinalisedIsClosed` | `FinalInv`: a listed row that is open is still in the pass's list, and closed rows are never opened again |
| `FinalisedStaysFrozen` | `FinalisedIsFrozen` | the same invariant: a session is finalised only when no opening tick is in flight |
| `LedgerIsTrue` | `LedgerMatchesRows` | `LedgerInv`: the session row and the copy a tick works on are both accounts of rows that exist, what the tick opened is in neither, and `spent` is the sum of its sizes; only the auto trader writes the session row, one tick at a time |
| `ScalperIsAtomic` | `OpensAtomically` | step simulation: `ScalpInv` says that what the create needs still holds when it comes, `OneRowChanges` that no step touches two rows, and every other writer's row is outside the view or closes a trade in it |

The invariants to be proved are not inductive: none of them mentions what a
handler remembers between two calls, and each strengthening says exactly that.
`RowStep` is shared by most of them: whatever the step, a row is inserted once by
a known creator, keeps its symbol, lane and creator, and never reopens.

`LedgerMatchesRows` is about a sum over a set of rows. The provers cannot use the
library's induction on finite sets, which takes an operator; `SumLemmas` states it for a
family of subsets instead (`SubsetInduction`: a family that contains a subset as soon
as it contains all smaller ones contains them all), derives from it that a sum has one
value whatever the order of the fold, and from that the facts the proof cites: the sum
over nothing, over one row, over a union of disjoint sets, and over rows whose sizes did
not change.

Only model-checked: `SquaredOff` (liveness) and the violations.

### Not modelled in the book

Profit and statistics of a session and the halts computed from them; the note of a
trade; notifications and audit events; holidays and the expiry cooldown; more than
one worker; a square-off tick that runs longer than its lock's TTL.

## The crypto scalper

### Modules

- `CryptoScalper.tla`: the specification. The rows of the crypto lanes, the guard and
  the checkpoint in Redis, the dead letter queue, and the local state of the tick.
- `MCCryptoScalper.tla`: the timeframe and the symmetry set for TLC.
- `AtomicBook.tla`: what the ticks implement (`OpensAtomically`).
- `CryptoScalperProofs.tla`: the theorems.

### State and actions against the code

`row[t]` is a `PaperTrade` row, given by its status and the signal it was opened for
(`openedAt` is the signal's trigger). `guard` holds the `trade:guard:...` keys,
`checkpoint` what is stored under `worker:checkpoint:scalper`, `dlq` the entries of
`paperTradeDLQ`, oldest first. `tick` holds the variables of a tick between two
awaited calls: `items` is the checkpoint's `completedItems` in memory, `prior` is
`priorCheckpoint`, `replay` what a flush has taken and not yet handled.

| Code | Actions |
|---|---|
| `checkpoint.load`, `checkpoint.start`, beginning of `flush` | `TickBegin` |
| `DbDeadLetterQueue.flush` | `FlushDrop` (too old), `FlushNext`, `FlushEnd`, `ReplayFailed` |
| `getScalpSignals` and the loop over signals | `FetchSignals`, `SkipCompleted`, `Suppress` (guard held), `Claim`, `Settle` (register and mark), `ScanEnd` |
| `openPaperTrade` | `Look` (both look-ups), `Create` |
| `withDbRetry`, the catch around it | `CreateUnanswered`, `CallFails`, each followed by `Retry` or `GiveUp` (enqueue) |
| `resolveOpenTrades`, `checkpoint.clear` | `ResolveTrade`, `TickEnd` |
| `cancelOpenTrade`, in the web process | `CancelTrade` |
| outside the code | `Minute`, `GuardExpires`, `CheckpointExpires`, `WorkerCrash` |

Abstractions:

- A timeframe is its number of minutes. Every strategy looks at the last closed bar
  only (`lookback` defaults to 1 and the scalper passes none), so all signals of a
  timeframe trigger at the same minute; which lanes have one is nondeterministic.
- Bars close on minutes, so the guard's sixty-second bucket is the minute, and the
  sixty-second window of `openPaperTrade` is one minute to either side, inclusive.
- Every Redis call may fail: a write may leave what was there, a guard that is held
  may not be seen. A key or checkpoint may run out at any moment.
- `Look` is one action although it makes two queries: only the scalper inserts into
  its lanes. Closing rows may come between it and `Create`.
- An orderly shutdown between ticks loses the queue as a crash does, and is not told
  apart from it. The worker refuses to start without `REDIS_URL`, so the branches
  for a missing client are left out.
- `WIN`, `LOSS`, `EXPIRED` and `CANCELLED` are one status; that a closed trade can be
  closed twice is shown on the book, whose closers have the same shape.

### Runs

| Run | Question | Bounds |
|---|---|---|
| `crypto_scalper` | Is a trigger traded once, a lane open once, a failed write kept? | 1 symbol, 2 strategies, a timeframe of 2 minutes over minutes 0 to 2: two triggers outside each other's window; 2 attempts: one retry; a queue of 1 so that it overflows; age 1 so that entries expire; one crash |
| `crypto_lanes` | Are the lanes of one symbol and timeframe independent? | the same. They are not |

Deadlock checking is off because nothing obliges a tick to be scheduled. No fairness is
assumed: the properties are safety properties. Triggers one minute apart, as on the
one-minute timeframe, do not occur in the run, which would not finish in time; the
theorems cover them.

### What the failing runs show

- The item id of the checkpoint leaves out the strategy, and the list is consulted in
  the tick that fills it. All strategies trigger at the same bar, so the first signal
  of a symbol and timeframe hides the others, although the job promises a lane, and
  its full track record, for each.

`start` empties the list that `load` returned, so a tick after a crash processes
again what was completed, although the header promises that it does not. What keeps
it from opening trades twice is the look-up in the database, and that is what
`TriggerOpensOnce` says with the crash in the model.

### Proofs

`CryptoScalperProofs` proves for every value of the constants that satisfies
`ScalperAssumption`:

| Theorem | States | By |
|---|---|---|
| `TypeCorrect` | `TypeOK` | `TypeInv`: with it, that a call is made for a signal, in a flush for the entry at its head, and that only a flush has entries left; so that the queue and what a flush took never exceed `maxEntries` together |
| `LanesOpenOnce` | `OnePerLane` | `RowInv`: what the look-ups established still holds at the create |
| `TriggersOpenOnce` | `TriggerOpensOnce` | the same invariant; the guard is not mentioned in it, so Redis is not needed for it |
| `FailedWritesAreKept` | `WritesAreKept` | `TypeInv` and, for each step, where every waiting entry goes |
| `ScalperIsAtomic` | `OpensAtomically` | step simulation with `RowInv`: a create opens a lane that is free for a trigger that is new, a create whose answer is lost does too, and nothing else does more than close a row |

Only model-checked: the violation. Not modelled: the indicator state the tick
refreshes in Redis, which nothing in the tick reads; the resolver's limit of a hundred
rows; more than one worker.

## The worker process

### State and actions against the code

`WorkerProcess.tla` is `worker/src/index.ts`, `worker/src/scheduler.ts` and
`src/lib/signal-intelligence/lifecycle-persist.ts` in one module, because one thread
runs all three and what can go wrong is the order of their callbacks. An action is
the code from one await, or one callback, to the next.

| Code | State | Actions |
|---|---|---|
| `bootstrap` | `boot`, `listed` (the array `jobs`) | `RedisAnswers`, `PrismaAnswers` (starts every job: nothing is awaited between them), `BootFails`, `BootExit` |
| `scheduleJob` | `stopped`, `timers`, `ticks` | `TimerFires`, `TickSettles` (the `finally` of `runTick`), `StopReturns` |
| `emitLifecycleEvent`, `scheduleFlush`, `flushQueue` | `queue`, `flushTimer`, `flushing`, `written`, `dropped` | `Emit`, `FlushTimerFires`, `DecideBatch` (one client's transaction commits or fails) |
| `shutdown` | `shutdown`, `awaited`, `final`, `exit` | `Signal`, `CloseClients`, `FinalFlush`, `DecideFinal`, `FinalFlushed`, `ShutdownExit` |
| outside the code | `exit` | `Kill` |

`ticks` and `timers` are counters, not flags, so that two ticks in flight are a state
the model could reach; `OneTickPerJob` says it does not. What a tick does is left out
except that ticks of the jobs in `Emitters` emit events. `TickSettles` covers a tick
that throws: the code treats the two alike.

`AuditTrail.tla` says what the trail promises: an event is emitted once, and then
recorded or refused, in batches, never both and never twice. `TrailIsKept` maps
`queue` and every undecided batch to `waiting`, `written` to `recorded` and `dropped`
to `refused`; taking a batch, arming a timer and everything of the scheduler and of
shutdown are stutters.

### Runs

| Run | Question | Bounds |
|---|---|---|
| `worker` | Do ticks never overlap, does a shutdown stop what it should and end, is every event decided? | 2 jobs, one with an immediate first tick; 2 clients, so that a batch needs two transactions; threshold 2 and 3 events: a flush by size, one by timer and one at shutdown can all be under way |
| `worker_audit` | Does a shutdown leave no event undecided? | 1 job, 1 client. It does not: the final flush finds the queue empty and does not wait for a flush in flight |

Deadlock checking is off because a process ends. Fairness (`FairSpec`): timers fire,
a ping or a transaction is answered or breaks, and code that awaits nothing goes on.
That a tick settles is not assumed, since nothing in the code bounds a tick:
`TicksGoOn` and `ShutdownEnds` have it as their antecedent, job by job, so a tick that
hangs is a behaviour the two properties allow and the model contains.

A signal that arrives while bootstrap awaits a ping finds `jobs` empty and stops
nothing; bootstrap then starts jobs that nobody stops. That is why `StoppedIsQuiet` is
about jobs that were stopped and `NothingLeftQueued` has a condition on them; the
process still ends (`ShutdownEnds`).

### Proofs

`WorkerProcessProofs`, for any jobs, clients, threshold and number of events that
satisfy `WorkerAssumption`:

| Theorem | States | By |
|---|---|---|
| `WorkerTypeCorrect` | `TypeOK` | the invariant also says that `awaited` is among `listed` |
| `TicksNeverOverlap` | `OneTickPerJob` | nothing is armed before bootstrap is ready, and each step of a job moves its one tick or timer |
| `QuietAfterStop` | `StoppedIsQuiet` | a stopped job has no timer, and one that is no longer awaited no tick |
| `FlushIsScheduled` | `NoEventStranded` | inductive with the types |
| `NothingQueuedAtExit` | `NothingLeftQueued` | after the final flush, a queue that is not empty has a job that was never stopped |
| `WorkerKeepsTrail` | `TrailIsKept` | step simulation; needs that the batches are disjoint from one another, from the queue and from what is decided, and that numbers of events are fresh |

Only model-checked: the three liveness properties and the violation.

## The services

### The harness

`MCServices` composes nine modules that share no variable, neither in the code nor in
the model. `subject` is chosen once, in the initial state, and only the module it names
takes steps; the others stay in one initial state. The reachable states are therefore
the sum and not the product of the nine, and each invariant speaks about its own
variables in all of them. Liveness properties are conditional on `subject`. The actions
`Alerting(A)`, `Predicting(A)`, `Streaming(A)`, `Ingesting(A)` and `Walking(A)` are `A`
beside an unchanged rest, so that fairness can be stated of one action of a module.
Deadlock checking is off because a stopped stream has stopped, a portfolio has
used up its trades and the walk's clock ends.

### Modules against the code

| Module | Code | State and actions |
|---|---|---|
| `DistributedLock` | `acquireDistributedLock`, `acquireEodLock` | `key` is the token in Redis; `LockBegin` draws one, `LockSet` is SET NX, granted with or without an answer, `LockGiveUp` the deadline, `LockRead` and `LockDelete` the two calls of `release`, `LockExpires` the TTL, also under a holder, `LockCrash` a process that dies |
| `AlertCooldown` | `startAlertsJob`, `fireAlert` | `cooling` is the keys; `Gate` the GET, `Reserve` the SET, `Notify` the create, `Book` the update, `AlertFails` a call that throws, which ends the tick, or a crash |
| `SignalIngest` | `startSignalIngestJob`, `checkAndSetSignalGuard`, `ingestSignals`, `withDbRetry` | `claims` is the guard keys, `recent` each symbol's rows of the last thirty minutes; `Guard` claims all signals of a tick, `LookUp` and `CreateRow` go through them in order, `IngestRetries` begins again with the first, and both it and `IngestAborts` may leave a committed row (`CutOff`) |
| `CandleWalk` | `resolveOpenTrades` of the crypto scalper, `startSignalOutcomeJob`, `evaluateSignal`, `fetchKlinesRange` | one row, of either table (`kind`); `candle` is what prices of each minute have touched; `Walked` is the window the data service returns, filtered by `evaluateSignal` and not by `resolveOpenTrades` |
| `BacktestEngine` | `runBacktest`, `maybeOpenTrade` | one `WalkBar` for each bar, with its exit tests in order, then its entry; `LiveTick` looks for a trade opened on the last bar |
| `Experiments` | `ExperimentManager`, `PromotionEngine`, the routes | one action for each request: a request body runs without an await. `ServerRestarts` empties the singletons |
| `ShadowTrader` | `ShadowTrader` | `IngestSignal`, `QuietTick`, `ExitTick`, `ManualClose`; `unrealised` is the portfolio's sum as of the last tick |
| `MlContext` | `buildMLContext`, `MLCircuitBreaker`, `mlPost` | `Ask` consults cache and breaker, `HealthFails`, `HealthOk`, `PredictThrows`, `PredictInvalid`, `PredictValid` and `Finish` are the answers; calls run concurrently |
| `LiquidationStream` | `startLiquidationsJob` | `Connect` and `ScheduleReconnect` as in the code; `abandoned` is a socket that `stop` has closed and whose close event is still to come |

Abstractions:

- Prices are what they touch: a bar or a candle gives a set of touched levels and of
  rules that fire. In `CandleWalk` the candle of the running minute still grows after it
  was walked, as it does in the code.
- Money in `ShadowTrader` is small integers; slippage and commission are amounts and a
  position is one unit. The identity checked is linear in all of them.
- A token of the lock is a client and a number; a client draws again for each
  acquisition, and what matters is that no token drawn equals one still stored.
- `halfOpenDelayMs`, TTLs and windows are flags that may turn at any moment, which
  covers every duration; the lock's TTL may run out between any two steps, also between
  the two calls of a release. One exception is an assumption with a name: `MaxGap`, below.
- An alert's condition is a choice at each tick, except for the alerts in `Steady`,
  and a symbol's signal one at each tick, except for `SteadySymbols`.
- The reconnect backoff is not timed; `attempts` saturates at `MaxReconnects`.

### The run `services`

| Component | Properties | Bounds |
|---|---|---|
| lock | `RaceIsContained` | 3 clients, 2 tokens each: one overruns its TTL in its release, one holds or releases, one takes over |
| alerts | `OncePerReplica`, `AlertsGetThrough` | 2 replicas, 2 alerts, one steady |
| engine | `OnePosition`, `NoEntryMissed`, `FirstTouchCloses` | windows up to 4 bars, a maximum hold of 2: enough for a close and an entry on one bar, a hold that ends before the data and one that does not |
| experiments | `LiveWasApproved`, `ActiveWhileRunning`, `FinishedStaysFinished` | 1 experiment, 2 arms, 2 tokens: a token of one arm shown for the other, two for the same |
| shadow | `CashIsExplained` | 3 symbols, 2 positions, 2 prices, 2 closed trades |
| ML | `MlServiceComesBack` | 2 concurrent calls, thresholds 2 and 2 |
| stream | `OneStream`, `StreamReconnects` | attempts up to 2 |
| ingest | `NoRepeatedRow`, `SignalsAreRecorded` | 2 symbols, 2 types, 3 attempts, 2 rows in the window |
| walk | `OutcomeIsFirstTouch` | 4 minutes, a window of 2 candles, expiry after 2 minutes, completed walks 1 minute apart |

Fairness, each part a name in `MCServices`:

- `AlertFairness`: the job ticks again after a tick that ended anyhow, and keys expire.
  The three calls made for a steady alert may fail, each, any finite number of times in
  a row (`SF`). A call for another alert may fail always. Since a failing call ends the
  tick, an alert that fails whenever it is reached could keep those behind it from being
  looked at; the query has no order, so the order of the list is a choice at each tick,
  and `SF` of `Gate` is the assumption that this choice is not always the same.
- `MlFairness`: somebody asks for a context now and then (the auto trader does, each
  minute), a call is answered or aborted, the delay and the cache run out. That the
  service is well for good is the antecedent of the property.
- `StreamFairness`: timers fire, an attempt ends, and attempts made again and again
  succeed (`SF`). That an attempt ends is an assumption on the exchange and the network:
  the code sets no handshake timeout, and a connection attempt that hung would keep the
  job from ever trying another.
- `IngestFairness`: the job ticks and its calls return. That the database and the
  worker cease to fail is the antecedent of `SignalsAreRecorded`, because each failed
  tick leaves claims behind that suppress the next; calls to Redis may fail for ever.

An assumption a reader should know of is `MaxGap < CandleWindow`. The data service
returns a fixed number of latest candles. When completed walks of an open row are further
apart than that, a touch in between is never seen and the outcome recorded is a later
one, or `EXPIRED`; with `MaxGap` at least `CandleWindow` TLC finds it. An outage of the
worker has this effect, and so has the batch: a tick walks the fifty oldest open rows
(`signal-outcome.ts:28`), and rows whose candles cannot be fetched, or whose symbol has
no pair, stay among them. `OutcomeIsFirstTouch` says nothing of a row that waits behind
fifty such rows.

### The lock's release

`redis-resilience.ts` promises that a release cannot free a lock another worker has
grabbed after expiry, by a compare-and-delete in Lua (:22-23, :241-244). The code reads
with GET and deletes with DEL. `lock_release` shows the promise broken in seven steps:
the TTL runs out between the two, another client is granted the lock, the DEL takes it.

What the comparison of tokens does achieve is `RaceIsContained`. `Astray` is the clients
that rely on a key that is not theirs: they hold the lock within their TTL, or are about
to delete. A client gets there in two ways: its own TTL runs out between its GET and its
DEL, or the DEL of one that is astray takes its key, and that one leaves the set by it.
So a holder that overran before it began to release frees nobody; as long as no TTL runs
out inside a release nobody is astray and `HolderKeepsLock` holds (`NobodyAstray`); and
each TTL that does adds one client, whose loss may be passed on but never doubled.

### What the failing runs show

- `worker_audit`: events that a flush in flight has taken are lost at an orderly
  shutdown, which `index.ts` and the flush's own comment promise to prevent.
- `lock_release`: a holder within its TTL loses the lock to a late DEL; see above.
- `lab_entry`: the forward test never opens a trade. It looks for a trade opened on the
  last bar among the closed ones, and a position opened on the last bar is not closed,
  since the end-of-data close precedes the entry. `LiveNeverOpens` proves it for every
  window.
- `crypto_window`: the crypto adapter drops the range it is asked for, and the resolver
  walks every candle it gets, so a trade may be closed by a price from before it was
  opened, with a `closedAt` before its `openedAt`. Signal outcomes are safe from it
  because `evaluateSignal` filters.

Divergences that the actions show and that have no run of their own:

- Alerts: the comment in `dispatch.ts` promises SET with NX; the code does GET and then
  SET, and what holds is one notification per replica and cooldown (`OncePerReplica`).
- ML breaker: a call that answers garbage is recorded as a success before its
  validation records a failure. The success clears the count, so garbage alone never
  opens the breaker, although the header of `ml-resilience.ts` says it does not stay
  closed. A late answer may also overwrite a newer cached context.
- Shadow trader: the exit commission leaves cash twice, which is the last term of
  `CashIsExplained`; equity omits what open positions cost; a FLAT signal opens a long
  position with the slippage of a short one; the peak of equity is moved by a sum of
  unrealised profits that may still count a position just closed.
- Experiments: `closedTradeCount` is assigned once, to 0, so no arm passes the gate of
  fifty trades and promotion from SHADOW to PAPER never succeeds; completing an
  archived experiment is accepted; everything is in memory and gone after a restart.
- Outcomes: a tick that comes late may record a hit after the age at which the row
  should have expired; the resolver updates by id and overwrites a trade cancelled
  meanwhile.

### Proofs

| Theorem | States | Assuming | By |
|---|---|---|---|
| `ServicesImplement` | the nine specifications | | the state of each service is disjoint from the others', and a step of one leaves the rest alone |
| `ServicesTypeCorrect` | `ServicesTypeOK` | | each service's own type theorem, through `ServicesImplement` |
| `ServicesKeepPromises` | the twelve safety properties of `services`, at once | `MaxGap < CandleWindow` | each service's own theorem, through `ServicesImplement` |
| `LockTypeCorrect` | `LockTypeOK` | | inductive |
| `RaceStaysContained` | `RaceIsContained` | | step by step: only a DEL takes a token that is not the client's own, only from one client since a key holds one token (`OneOwner`), and only if the GET's answer was no longer true (`DeleteTakes`) |
| `EngineTypeCorrect` | `EngineTypeOK` | | inductive |
| `OneAtATime` | `OnePosition` | | closed trades end no later than the position that is open began |
| `EveryEntryTaken` | `NoEntryMissed` | | each bar that fires is covered by a trade or by the open position |
| `ClosesAtFirstTouch` | `FirstTouchCloses` | | the bars since the entry did not have to close it |
| `LiveNeverOpens` | `live = "none"` | | a trade in `trades` was opened before the bar that closed it |
| `ExpTypeCorrect` | `ExpTypeOK` | | inductive |
| `OnlyRunningArmsActive` | `ActiveWhileRunning` | | inductive with the types |
| `FinishedNeverRuns` | `FinishedStaysFinished` | | the same, step by step |
| `NoAutoPromotion` | `LiveWasApproved` | | an arm with a used token is LIVE, so no second token of its is used; audit events are never removed |
| `WalkTypeCorrect` | `WalkTypeOK` | | a tick under way has read a row that was created |
| `FirstTouchDecides` | `OutcomeIsFirstTouch` | `MaxGap < CandleWindow` | up to the last completed walk nothing touched a level in a full minute, and what was not walked is still in the window; the verdict of a tick stays true because candles of past minutes no longer grow |
| `SignalsCloseLater` | `closed > opened` of signals | | a verdict on a signal is of a candle after it, because `evaluateSignal` filters; without a condition on the gap |
| `ShadowTypeCorrect` | `ShadowTypeOK` | | inductive; opening a position raises the number of symbols held by one and never raises cash, a close moves the peak |
| `CashFollowsTrades` | `CashIsExplained` | | the cost of what is held is a sum of sums, over symbols and over the position of each; a step changes one summand (`SumLemmas`) |
| `StreamTypeCorrect`, `AlertTypeCorrect`, `IngestTypeCorrect`, `MlTypeCorrect` | `StreamTypeOK`, `AlertTypeOK`, `IngestTypeOK`, `MlTypeOK` | | inductive, with the invariants of the two components' safety theorems where the types depend on them; for `MlTypeOK`, that a closed breaker has counted fewer failures than open it |
| `StreamStaysSingle` | `OneStream` | | inductive with the types |
| `RowsNeverRepeat` | `NoRepeatedRow` | | a create is preceded by a look-up that nobody can have made stale: one tick at a time, and rows leave the window only at its old end |
| `AlertsFireOnce` | `OncePerReplica` | | per alert, reservations and replicas about to reserve it are at most the replicas that have passed the gate since the key was last absent |

The proofs assume of the constants what each module's `ASSUME` says. One of these is
about money: `Slippage <= price` in `ShadowTrader`, since the code computes the
slippage of a fill as a fraction of its price.

Only model-checked: the liveness properties of the services (`AlertsGetThrough`,
`MlServiceComesBack`, `StreamReconnects`, `SignalsAreRecorded`) and the violations.

## Not modelled

- `TradingStateMachine`, `RedisCircuitBreaker`, `withRedisRetry`, `releaseClaim`: no
  caller outside tests. A model would have to invent the calls.
- `addArm`, `failExperiment`, `broadcastTick` and the handlers of the experiment
  manager: the same. `ShadowTrader` has no caller either; it is modelled as the object
  it is, driven by any sequence of calls its interface allows.
- The resolver of the forward test: it works on rows that are never created.
- WhatsApp: the cooldown pattern of alerts around formatted text, best effort: the HTTP
  call is retried once on a network error, a message never.
- The read-through cache of `src/lib/redis.ts` and the India cache: loaders of one key
  overwrite one another with snapshots of the same feed.
- The realtime candle job, option-chain capture, scanner, daily picks and trend
  tracking: fetch, score and upsert by key; each tick overwrites the last.
- The AngelOne and NSE adapters, the data-service client: requests and formats.
- The scoring engines, strategies, indicators, gates and the event-driven backtest:
  floating-point functions without state. They make up most of the repository's lines;
  their results are the choices of the models.
- Pages, read-only routes, authentication.
- In the modelled components: the batch of fifty rows of signal outcome, the
  heartbeat of the worker, the wording of notifications, the contents of lifecycle
  events.
