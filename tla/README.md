# A TLA+ verification of ctrader-dual-grid

This directory models the trading side of `diolen/ctrader-dual-grid` in TLA+, checks it with
TLC on small instances, and proves some of it with TLAPS for every instance. The modules are
written from the Python code; every definition that models code is tied to its lines in
`PROJECT.json` ("map"). Paths below are relative to the repository.

1. [The system](#1-the-system)
2. [What is hard about it](#2-what-is-hard-about-it)
3. [The modules](#3-the-modules)
4. [How the model corresponds to the code](#4-how-the-model-corresponds-to-the-code)
5. [The runs, and their bounds](#5-the-runs-and-their-bounds)
6. [Fairness](#6-fairness)
7. [What is proved](#7-what-is-proved)
8. [Where code and documents disagree](#8-where-code-and-documents-disagree)
9. [What is not modelled](#9-what-is-not-modelled)
10. [What is left](#10-what-is-left)

## 1. The system

The program watches currency pairs on a cTrader account and trades one of two strategies. With
`dual_grid` it keeps two *grids* per pair, one long and one short. A grid is a list of *levels*; a level
starts as a resting limit order (*pending*) and becomes a position when the order fills. With the
*breakout retest* strategy it waits, per pair, for a level to break, for the price to move away and to come
back, and places one stop order. All of it runs on one asyncio event loop; the broker at the other end of a
socket does not.

| component | state it keeps | operations | talks to |
|---|---|---|---|
| `app/trading/grid_manager.py`, `grid_book.py`, `grid_models.py` | per pair and direction the list of `GridPosition` | add, remove by position id or client order id, lookups, lots and margin | called by the engine only |
| `app/trading/trading_engine.py` | grid book, `pending_order_metadata`, last degradation mode | `bootstrap_from_broker`, `on_bar_update` (reconcile, TTL check, degradation transition, global TP/SL, EXIT, signal), `on_order_filled` | client (await), orchestrator (await), portfolio manager, grid book |
| `app/trading/portfolio_manager.py` | baseline equity, margin per lot, rejection counter, `halted` | modes, exposure and margin checks, TP/SL | called by the engine |
| `app/connection/ctrader_client.py` | socket, futures of placements, cancels, closes and shared requests, Reconcile cache, client id → broker id map, quotes | requests with timeouts, `_listen_loop` resolving futures and calling the orchestrator | the broker; orchestrator by callback |
| `app/strategy/orchestrator.py` | tracked limit order per pair | track, cancel, release, `on_execution_event`, recovery, cleanup loop (a task of its own) | client, engine, trade guard, strategy |
| `app/strategy/trade_guard.py` | pending order and time per pair, a lock | `can_trade`, marks, stale cleanup with a callback | orchestrator, both ways |
| `app/trading/stale_orders.py` | none | cancels orders past their age | client, orchestrator |
| `app/trading/executor.py` | none | validates a signal, places it with retries (breakout strategy) | client, guard |
| `app/strategy/breakout_retest_v3.py`, `fsm.py` | per pair phase, setup, flags | one step per candle, cold start from a history | guard; orchestrator (blocks) |
| `main.py` | candle buffers, next bar times | warm-up, bar coordinator, candle merge, reconnect loop | everything |
| `app/connection/market_cache.py`, `warmup_cache.py` | quotes and candles with times | freshness | client, main |
| `app/trading/volume.py`, `position_sizer.py`, `atr_calculator.py` | rolling windows | lot and volume rounding, ATR | engine, executor |
| `app/scanner/` | per pair scanner state | scoring of candles | engine (a setup per bar) |
| `app/strategy/backtest.py`, `app/backtest/` | files, trades | offline simulation, parameter search | none at run time |

What makes each of them correct:

- *Grid book and engine*: client order ids name one level; metadata and pending levels belong
  together; a level taken for open names a position of its pair; no more than one order the engine
  knows of rests per grid; nothing is pending when positions are closed globally; levels of dead
  orders go and positions get a level; seen from outside, an order goes through the stages of a ledger.
- *Client*: an answer goes to whoever asked that question; parallel callers share a request, and a future whose
  request was sent is answered, but for those that a finally clause takes out of their slot; a cached answer is as recent as it claims.
- *Orchestrator and cleanup*: a tracked order does not stay tracked for ever; tracking and guard
  come and go together; what the cleanup ends the grids learn of.
- *Trade guard, execution, breakout entry*: a submitted entry is being placed or tracked, and ends; a pair
  that is in a trade has a position.
- *Breakout strategy and candles*: the buffer is a gapless stretch of the market; a setup times out by
  the market's bars, across polls and reconnects; a stop lies behind the bars of its setup. (That a signal
  follows a retest does not hold: section 8.)
- *Portfolio manager*: an order that is opened is within the limits it was checked against; the
  modes are entered and left for the reasons given.

## 2. What is hard about it

`PROJECT.json` lists the hazards at their lines. The modules are built around these:

- **Awaits.** `on_bar_update` awaits up to a dozen answers, and between any two of them execution
  events may run `on_order_filled`, which changes the same grids and metadata, and release tracked
  orders. The cleanup task runs between them, too. Lists are collected before the awaits and walked after.
- **Reconcile.** Beliefs are repaired from `get_positions`, which may answer from a cache, and which
  answers an empty account after a timeout (`ctrader_client.py:1051-1053`).
- **Shared futures.** A caller that finds a request under way waits for its future; `asyncio.wait_for` cancels
  the future it waits for, for everybody; the finally clause of the creator empties the slot some time later, and with it
  a future that another caller has stored there since (`ctrader_client.py:1055`).
- **Cancel.** The answer of a cancel is not looked at in two of three places; the order may have
  filled meanwhile.
- **Placement.** A placement that times out may leave an order at the broker that nobody knows of,
  a retry places another, and a fill may be reported before the level of its order is appended, or
  before the order is tracked.
- **One tracked order per pair**, with two grids per pair and several levels per grid.
- **Four places that know of one entry** in the breakout strategy: the strategy's state, the tracked orders,
  the guard, the broker; three tasks change them.
- **A lock held across a callback** (`trade_guard.py:109`).
- **Matching by price** of positions with levels, at two places with different tolerances.
- **Two ways to one state**: the strategy's state after a reconnect is computed from a history by code of its
  own, and must fit what the bars go on to do. The flag it leaves for the first update (`pending_live_signal`) is not
  cleared with its setup (`breakout_retest_v3.py:591-604`), so it may be there for the next one.
- **Checks before roundings**: the limits are checked with one volume, the order goes out with another.
- **Restarts.** The broker keeps orders and positions, the process remembers nothing.

## 3. The modules

| module | what it is |
|---|---|
| `GridLevels` | one grid, `GridManager.positions`, and its operations |
| `Broker` | the broker as the client meets it: orders, positions, requests, the stream of execution events (external) |
| `DualGridEngine` | the engine's state and every step of bootstrap, bar handler and event callback; extends `Broker` |
| `DualGridProperties` | its type invariant, safety, action and liveness properties, fairness |
| `OrderLedger` | abstract: the stages an order goes through in the engine's book |
| `DualGridLedger` | the refinement mapping: the engine implements `OrderLedger` |
| `Orchestrator` | tracked orders and their blocks, the event callback, the cleanup task and the recovery; extends `Broker` |
| `DualGridLive` | a session of the grid strategy: `DualGridEngine` composed with the cleanup task of `Orchestrator` |
| `BreakoutLive` | a session of the breakout strategy: bar task, guard and executor beside the tasks of `Orchestrator`; extends it |
| `SharedRequest` | the futures of the client that several tasks may wait for, `wait_for`, the Reconcile cache, the backoff |
| `BarFeed` | candles of one pair: warm-up, its cache, polls, merge |
| `Retest` | the breakout retest strategy as operators: one bar, one cold start |
| `RetestLive` | `Retest` on the bars of `BarFeed`, with reconnects and closed trade windows |
| `PortfolioRisk` | modes, thresholds, sizes, limits, rejection counter |
| `MCDualGrid`, `MCDualGridLive`, `MCBreakoutLive`, `MCSharedRequest`, `MCRetest`, `MCPortfolio` | instances for TLC; one `.cfg` per run |
| `DualGridTypes_proofs` | lemmas about the operations on a grid; `TypeCorrect`: the engine's type invariant is inductive |
| `DualGridBook_proofs` | `BookCorrect` and, from it, three safety theorems |
| `DualGridHandler_proofs` | what the sweeps leave behind, what the handler's locals hold; pending levels have metadata; the session with the cleanup task |
| `DualGridLedger_proofs` | one known order to a grid, alone and beside the cleanup task; the engine implements `OrderLedger` |
| `SharedRequest_proofs` | types, answers to one's own question; where the broker is prompt: requests are shared, the age of the cache, which futures stay without an answer |
| `BreakoutLive_proofs` | guard and tracking agree; entries are backed; types; a trade lasts no longer than its position |
| `RetestLive_proofs` | types; the buffer is the market; setups time out; stops are behind |
| `PortfolioRisk_proofs` | types; what ends a Freeze |

`DualGridEngine` and `Orchestrator` share `Broker` and, in `DualGridLive`, the tracked orders, the client's ids
and the Reconcile cache; the guard and the strategy's state of `Orchestrator` are instantiated there by what they
are when the grid strategy runs: nothing. `DualGridEngine` has the few steps of the orchestrator that its handler
calls written from its side (tracking is popped, the order is cancelled), so that it can be checked and proved
about alone; `DualGridLive` adds the other task.

Operators marked "Variant" stand beside the operator they change. No specification uses them; each
is a plausible slip in that piece of code (a guard dropped, a list taken from the wrong place), kept
to show that the properties notice it.

## 4. How the model corresponds to the code

### The grid engine

| variable | in the code |
|---|---|
| `order`, `cancelReq`, `closeReq`, `events` | the broker: the state of each order and of the position its fill opened, requests under way, events pushed and not yet read by `_listen_loop` |
| `grids` | `TradingEngine.grids`, levels with client order id, position id, price and step |
| `meta` | `pending_order_metadata`: whether there is an entry, its `grid_step_at_open`, whether it is older than the TTL |
| `tracked` | `StrategyOrchestrator._limit_orders_by_pair` |
| `mapped` | `CTraderClient._broker_order_ids`, without which a cancel returns at once |
| `lastMode`, `halted` | `_last_degradation_mode`, `portfolio.halted` |
| `cache` | `_reconcile_cache_data` while it is within its TTL |
| `polled` | which pairs the current cycle of `_poll_all_pairs` has handled |
| `job` | the one coroutine that runs `bootstrap_from_broker` or `on_bar_update`: where it stands, its locals, and the future it awaits (`wait`, `answer`, `snap`) |
| `crashes` | restarts so far; a bound, not in the code |

**Atomicity.** A coroutine gives up the loop only at an await that has to wait. `job.pc` therefore
names an await or a loop that runs without one. In the latter (`Running`) neither an event nor the
broker moves (`Suspended`): what the broker does meanwhile is unobservable, so it is put to the next
await. Loops are one action per element: this multiplies no interleavings, because nothing else can
move, and keeps each action as small as the loop body.

**Reconcile.** The request, the answer and its handling are three moments: the handler stands at its
`Fetching` pc; `ServeReconcile` takes the snapshot of the broker; the handler continues once the
events pushed *before* the answer have been read, because one socket carries both in order
(`barrier` counts them). Events that come after the answer can still be handled before the coroutine
gets its turn only if it is not yet woken; the model lets them, which is the general case. With
`ReconcileMayTimeOut` the answer may be the empty one of the timeout, and it is cached like any other.

**Events.** `Deliver` is the branch of `_listen_loop` for one event with the orchestrator's
`on_execution_event`. The latter is a task of its own. Up to Python 3.11 it has run when the
coroutine that the event wakes goes on; from 3.12 the order of the two may be the other way round
(README.md:7 asks for 3.10 or later). What the task changes before its own next await is that the pair has no
tracked order, and, for a fill, the level's position id. The coroutine that a fill wakes is the
placement, whose level the callback does not find in either order or finds at once; the
coroutine that a cancellation wakes overwrites the tracked order itself. The reachable beliefs are
the same, and the model has the first order.

**Decisions.** What the candles, the balance, the margin and the scanners say decides *whether* the
engine freezes, closes, or opens. `Assess` chooses any verdict
of `Verdicts` that is possible at all (`EXIT`, take profit and stop loss need a position),
`NoSignal` or `Signal` any outcome of the scoring. Conservative is counted as Normal: the two differ
in thresholds and volume only, which `PortfolioRisk` has. The guards that are about the grid itself are kept
exactly: the level cap, the distance from the last level, the mode check and where it is missing, the duplicate
check.

**Orders.** A client order id is a fresh uuid, so an id is used once and its pair, direction, limit
price and fill price are constants of the id. A fill opens one position, named by the id of its order.
Prices are integers; `Width` is the tolerance `spread / 2` on the same scale. A position fills at
`EntryOf`, which may be better than `PriceOf`.

**Restart.** `Crash` covers a lost connection and a lost process: `_run_live` builds client, orchestrator
and engine anew (`main.py:1173-1188`), the broker keeps everything, unread events are gone.

**The ledger.** `OrderLedger` knows nothing of grids, metadata or handlers: an order is unsent, asked for, pending,
stale (it has a level that waits, and is over), open, missed (it works or has a position, and the book has no
level) or over. `DualGridLedger` maps the engine's state to these stages (`StageOf`) and claims that every step of
the engine is a step of the ledger. The mapping reads the grid of the order's own direction, so it is about pairs
whose orders go one way, and about one process: with both directions the duplicate check moves an order
into the wrong grid, and a restart makes "missed" out of everything.

### Tracked orders, cleanup, recovery (`Orchestrator`, `DualGridLive`)

`clean` is the task of `run_pending_order_cleanup`, cut at its awaits: the Reconcile answer, the cancel of each
old tracked entry, the cancel of each old order of the answer. The loops walk copies made before their first
await (`todo`, `left`), while `cancel_tracked_limit_order` looks the pair's order up again, and the last comparison
uses the answer of the beginning; all three are in the model as they are in the code. The recovery of a
session is a pass of the same task with nothing tracked; the bar task starts when it has ended (`Started`).

Ages are sets: the entries (`trackedOld`) and the broker's orders (`brokerOld`) that have reached
`PENDING_ORDER_MAX_AGE_SECONDS`. Nothing ages while the task is able to run (`CleanRuns`): ages are minutes, the
loop runs at once. For the same reason an entry made since the pass began (`young`) does not get old before
the pass ends: a pass is a few requests of ten seconds, the age 300 s by default. While the cleanup is between
two awaits no other task runs (`CleanWaits`).

A second cancel of one order replaces the first in the client's `_cancel_futures`; `CancelHeardByCleanup` lets
the cleanup's future hear the answer, `Hear` otherwise the engine's. The cleanup always asks (`force=True`); its answer
is what the engine may find in the cache from when the task goes on with it (`AnswerIsHeard`).

### The breakout session (`BreakoutLive`)

The bar task is `bar`: after a signal it validates (`Execute`), waits for the balance, places, pauses between
attempts. The strategy is reduced to the states that matter to the blocks (`fsm`); when a setup signals is
`Retest`'s business. `Track` is `track_limit_order` followed by `mark_order_pending`: the second takes
the lock, which, unless it is held for good, is free whenever a task asks for it, since every holder but one runs
to its end without an await. The one is `can_trade`: while it holds the lock it calls the handler for stale
entries, which releases the pair's blocks and needs the lock. `CanTradeHangs` is that step: `locked` stays TRUE, the bar task is
`stuck`, the callbacks pop the tracked order and then hang as well (`PopOnly`). The properties about guard and
tracking are claimed for the time before (`~locked`).

`Execute` unpacks the pair info into six names; the client stores seven (section 8, `auto_unpacks`). What
follows the unpacking can thus not be reached in the code as it stands. `PairInfoFields` is a constant:
`auto_unpacks` has 7, as the code; `breakout_pair` and `breakout_two` have 6, and show what placing, tracking, guarding
and ending an entry does once that line is repaired. The proofs hold for any value.

`StrayError` is the order error without an order id: `_fail_pending_placement` gives it to the only placement
under way, which may be that of another order.

### Shared requests (`SharedRequest`)

One module for the four requests that share futures: balance, expected margin, Reconcile and the deals of a
position. A *slot* is the attribute (or the entry of a dictionary) that holds the future; `ClearsOnExit` names
the slots that a finally clause empties, `FailsOnLimit` those that the rate-limit handler knows, `Cached` the one in front of
which `fetch_reconcile_snapshot` keeps answers. `TimeOut` is what `asyncio.wait_for` does: it cancels the future it
waits for, and whoever else waits for it gets the `CancelledError` (`DieCancelled`), which `except Exception` does
not catch. `Return` runs some time after the future was settled, but before time passes.

Between the two another task may find the future settled, store a new one in the slot and send its request; `Return` of the first creator
then empties the slot, unless the slot is the balance's, which has no such clause. `Wiped` are the futures a task still waits for and
that no slot holds any more. The properties about a prompt broker count them and allow nothing else: `RequestsAreShared` has one request under way for the future in
the slot and one for each wiped one, `OnlyWipedGoEmpty` lets only a wiped future end without an answer. That the code means more than that is in section 8
(`OneAtATime`, `AnsweredInTime`, `AnswerIsNew`). To the engine a wiped future is a Reconcile that times out, which
its runs with `ReconcileMayTimeOut` have; that a forced call may get an answer to a request older than its own, which the wipe allows as well, is not
in the engine's model.

Time is a tick; calls count theirs down, the broker's answers and the cache count theirs up, capped where nothing
tells them apart any more. A behaviour is about one scenario (which keys are asked for, and whether the
broker answers within the timeout), because requests of different slots never meet but in the backoff.

### Candles and the retest (`BarFeed`, `Retest`, `RetestLive`)

The market is the sequence of closed bars, a candle's time its place in it. The history is asked for backwards in
chunks and ends at the first that times out; it may end in the bar that is forming (`MayServeForming`: `main.py` filters
forming bars out of polls, not out of the warm-up). A poll merges what is newer than the buffer, which may be several bars; the
strategy ticks once, on the last but one candle (`SignalIdx`), as the code does.

Prices are distances from the broken level, in the direction of the breakout; BUY and SELL are thus one
case. Whether a bar breaks a level is a field of the bar. Peak, displacement, retrace with its percents and the
tolerance, timeouts, cold start (newest breakout first, with its own scan for displacement and retest) and the stop are
translated as they are, with candles by index and therefore with what happens to indices when the buffer is cut.
`brkAt`, `startAt`, `retestAt` are the times of those bars; the code does not have them, only properties read them.

`live` is `pending_live_signal`. A cold start raises it; a signal in RETEST clears it, and so does all that goes through
`_to_scan_levels` (`Scanning`). A setup that times out or retraces too far goes through `_to_cancelled` (`Cancelled`), which keeps
the flag, so it may be up in any phase but ENTRY. While it is up the coordinator polls the pair without a new bar (`Forced`), and the strategy works on the
same candle again.

### Money and modes (`PortfolioRisk`)

A level is its volume. A bar is two steps: up to the mode (`Assess`, `Blind` when there is no balance), and the
trading part, which reads what the first left in `bar`; between them other awaits happen but nothing of this state
changes, since one bar handler runs at a time. Levels disappear and positions are adopted in any way between bars
(`Reconcile`), and a sweep may empty any grids (`Swept`): `DualGridEngine` says which. Volumes are multiples of a hundredth of a
lot or less, thresholds percents, the ATR the side of its two thresholds. The execution check's multiplier, the
caps and the two roundings to the step are kept in their order, because the limits are checked in between.

## 5. The runs, and their bounds

| run | states | instance | what it shows |
|---|---|---|---|
| `one_sided` | 244 thousand | 1 pair, 2 long orders, all modes, fills better than the limit by more than the tolerance | the type invariant; ids are unique; every pending level has its metadata; at most one known order rests in a grid; filled levels are real; the engine implements `OrderLedger` (`KeepsLedger`) |
| `two_pairs` | 2.3 million | 2 pairs, one order each, all modes | no pair has a pending level or metadata left when positions are listed for a global close |
| `two_sided_restart` | 1.36 million | 1 pair, a long and a short order, Reconcile and placements may time out, one restart | ids unique, metadata has its level, filled levels are real, through orphans, empty answers, and levels in the wrong grid |
| `progress` | 80 thousand | 1 pair, 2 long orders, placements may time out, fair | every bar ends; levels of dead orders go; open positions get a level or are closed |
| `grid_cleanup` | 110 thousand | 1 pair, 1 order, the cleanup task beside the engine, one new session, placements may time out, fair | a tracked order does not stay tracked; levels of dead orders go; nothing is pending when positions are closed |
| `breakout_pair` | 922 thousand | 1 pair, 2 orders, 2 attempts, AUTO and MANUAL, Reconcile and placements may time out, one restart, fair | tracking and guard agree; an entry is backed; a trade has its position; entries end |
| `breakout_two` | 1.6 million | 2 pairs, one order each, the lock of `can_trade` | the same across pairs |
| `shared_requests` | 316 thousand | 2 tasks, 4 slots in 4 scenarios, timeout of 2 ticks, cache of 1 | requests are shared and futures answered, but for wiped ones; the cache is recent; calls end, with an answer to their question |
| `retest_feed` | 622 thousand | 7 bars, of 3 shapes after the first, 3 of them warm-up, chunks of 2, polls late by a bar, reconnects at any time | the buffer is the market; setups time out; stops lie behind the bars of their setup |
| `portfolio` | 318 thousand | 2 pairs with margins of 1 and 2 a unit, up to 2 levels a grid, three balances | levels are opened within the limits; a lone grid stays single; what ends a Freeze |
| `cap_exceeded`, `auto_unpacks` | | | violated: what a document says and the code does not do ([section 8](#8-where-code-and-documents-disagree)) |

The longest take about two minutes on two workers. Between them the passing runs fire every action.

**Bounds.**

- *Orders*: two. Every loop over levels, metadata and positions then meets "this one" and "another
  one"; the tracked-order mix-up, the ambiguous match, the duplicate and the level cap all
  need two. An id is used once, so a behaviour places at most two orders: every order can still go
  through any life (refused, filled, expired, cancelled, stopped out, lost from the books and found
  again), and bars go on without limit. That no third order is placed is what `CHECK_DEADLOCK FALSE`
  is for, together with `halted`, after which the engine returns from every bar at once: a system that is halted with all orders dead has
  nothing left to do. In `grid_cleanup` there is one order: two tasks that meet at one order are what it is about, and
  fairness of two tasks is expensive; two orders and one task are the subject of `progress`.
- *Events under way* (`MaxEvents`): one or two. Two let the event of one order wait behind
  that of another.
- *Levels* (`MaxLevels`): two, in `cap_exceeded` one, so that the cap can be reached with two orders.
- *Prices*: 0 and 3 with a grid step of 2, so that the second level is allowed; `Width` 1 keeps the
  prices apart, the case the engine's author has in mind. (`Width` 5, what a spread in pips amounts to, makes
  everything match: see `LevelNamesItsPosition` in section 8.)
- *Restarts*: at most one; the program forgets everything, so a second meets nothing but
  another state of the broker, which the first meets too.
- *Attempts* (`MaxRetries`): two in `breakout_pair`: the first may rest at the broker when the second goes out. The
  code's default makes no difference beyond that, since the executor remembers only the last.
- *Ticks* (`Timeout` 2, `TTL` 1): a call can join another one before and after it has lost half of its
  time, and the cache outlives a tick. `MaxRequests` 2: one answer on its way for a request that was given up and one for
  its successor.
- *Bars*: `RetestBars` 1, `DispBars` 2 and 4 bars for a cold start (`ColdBars`) let a setup form, wait, signal and time out within seven
  bars, on either side of a reconnect, and let a flag of a cold start outlive its setup and meet the next. `MaxLen` 20 is beyond the bars of the instance: the buffer is
  not cut, what happens when it is stands in section 8. The history does not end in a forming bar (section 8, too).
- *Money*: shares of 30 and 50 percent of equities of 10 and 20 are reached by levels of the volumes 1 to 3 at margins of 1 and 2;
  `ConservativeAfter` 1 and `FreezeAfter` 2 are reached by refusals.

No symmetry is used: the orders differ in price, the pairs in margin, the sets have two elements.

## 6. Fairness

`FairSpec` of `DualGridProperties` asks for weak fairness of

- `Engine`: the event loop resumes a coroutine whose await has ended or timed out, and the bar
  coordinator (`main.py:638-722`) starts the next bar and the next cycle;
- `Deliver`: `_listen_loop` reads what has arrived;
- `ServeReconcile`: a Reconcile is answered, or times out after 10 s (`ctrader_client.py:1050`);
- `CacheExpires` and `Age(o)`: time passes; the cache is good for a few seconds, an order
  for `GRID_ORDER_TTL_BARS` bars.

Nothing is asked of the broker: it need not answer a cancel, a close or a placement, nor fill
anything. `Engine` is one disjunction under one fairness condition: at any moment there is one
coroutine, and each of its awaits on the broker has a timeout that is an action of `Engine`. Were
the steps fair one by one, the choice of signal or of verdict would be forced to come out every way
in turn, which the code does not promise.

`SessionFairness` of `DualGridLive` asks the same of the engine with its listener, and of the cleanup task. Strong fairness
is asked where another task's steps come and go between: the cleanup task is not able to run while the engine is
in a stretch without await, and a bar of each pair is started again and again (`StartBar`), not always of
the same. `Cleans(C!CleanupServed)`: not every Reconcile of the cleanup is refused, of infinitely many. `SessionAges`:
time passes.

`Fairness` of `BreakoutLive`: both tasks run (weak, each with its timeouts inside); a bar of each pair comes with a chance to
see that its entry is too old (`FsmTimeout(p)`, strong, because the bar task is busy with other pairs in between), and
entries get old (`AgeSignal(p)`, strong, because ageing waits for tasks that are ready). Nothing is asked of `Signal` or of
the broker.

`Fairness` of `SharedRequest`: every task that is ready runs, a backoff ends, and time passes; `Tick` is strongly fair because
tasks that call and return within an instant enable and disable it, and a loop that never waits is not what the program's
tasks are. The broker owes nothing: `EveryCallEnds` rests on the timeouts.

## 7. What is proved

| theorem | statement | for every |
|---|---|---|
| `TypeCorrect` | `Spec => [](TypeOK /\ LocalsOK)` | set of orders and pairs, prices, tolerance, level cap, queue bound, number of restarts, with or without timeouts |
| `CidsUnique`, `MetadataHasLevel`, `FilledLevelsReal` | `Spec => []CidUnique`, `[]MetaHasLevel`, `[]FilledLevelsAreReal` | the same |
| `BookCorrect` | `Spec => []BookInv`, the inductive invariant behind the three | the same |
| `SweepsLeaveNoMeta` | `Spec => [](job.pc \in Closing => Clear)` | the same |
| `PendingKeepsMeta`, `NothingPendingAtClose` | `Spec => []PendingHasMeta`, `[]NothingPendingWhenClosing` | the same, where all orders of a pair go one way (`OneWay`) |
| `OneOrderAGrid` | `Spec => []OneKnownOrderPerGrid` | the same, orders both ways too, where no Reconcile times out |
| `SessionTypeCorrect`, `SessionKeepsBook` | `SessionSpec => []SessionTypeOK`, `[](CidUnique /\ MetaHasLevel /\ FilledLevelsAreReal)` | the same as the first, beside the cleanup task |
| `SessionFindsPending` | `SessionSpec => [](PendingHasMeta /\ NothingPendingWhenClosing)` | the same, with `OneWay` |
| `SessionOneOrder` | `SessionSpec => []OneKnownOrderPerGrid` | the same, where no Reconcile times out |
| `EngineKeepsLedger` | `Spec => KeepsLedger`, the refinement of `OrderLedger` | the same, with `OneWay`, no Reconcile that times out, and one process (`MaxCrashes = 0`) |
| `SharedTypeCorrect` | `Spec => []TypeOK` | finite set of tasks and slots, any keys, scenarios, timeouts |
| `OwnAnswers` | `Spec => AnswersItsQuestion` | the same |
| `RequestsShared`, `CacheRecent` | `Spec => []RequestsAreShared`, `[]CacheIsRecent` | the same |
| `OnlyWipedEmpty` | `Spec => OnlyWipedGoEmpty` | the same, where the broker takes a request of each task (`RoomForAll`) |
| `GuardMatches`, `EntriesAreBacked` | `Spec => []TrackedIsGuarded`, `[]EntryIsBacked` | set of pairs and orders, attempts, restarts, width of the pair info |
| `BreakoutTypeCorrect`, `TradesEnd` | `Spec => []TypeOK`, `[]InTradeEnds` | the same |
| `RetestTypeCorrect` | `Spec => []TypeOK` | bars, prices and thresholds, chunks, timeouts, lengths of the buffer |
| `MarketBuffered` | `Spec => []BufferIsMarket` | the same, where the history does not bring the bar that is forming |
| `SetupsTimeOut` | `Spec => []RetestTimesOut` | the same, where nothing is cut from the buffer (`MaxLen > MaxBars`), the forming bar served or not |
| `StopsAreBehind` | `Spec => []StopIsBehind` | the same, with both hypotheses |
| `RiskTypeCorrect`, `FreezeEnds` | `Spec => []TypeOK`, `Spec => FreezeEndsByFirstLevel` | set of pairs, thresholds, volumes, balances |

They rest on the assumptions of the modules on their constants (names of missing values are not values;
terms of orders are functions of the right type; bounds are naturals and some are positive; a step divides the
largest volume), which TLC evaluates in every run of the module.

**The engine.** *Type correctness* needs more than `TypeOK`: the handler's locals must be there where it uses them
(`LocalsOK`: at an await of a cancel there is an order at hand, in a sweep there is a pair, and so on).

The three safety properties are not inductive, alone or together:

- A level is linked to a position out of a Reconcile answer. So `FilledLevelsAreReal` needs that an
  answer, the cached one, the list a loop walks and the FILLED events not yet read name only orders that
  were filled (`ViewOK`); that this stays so is `StepForward`: the broker never takes a fill or an
  order back, and the engine sends only ids that were free.
- `CidUnique` needs that an order being placed has no level anywhere (`PlacingOK`), which in turn
  needs that levels name only used ids (in `BookOK`) and that an answer to the duplicate check does too.
- `MetaHasLevel` needs that a pending level carries the limit price of its order: when
  `_match_pending_order_metadata` finds an entry for a position for which the grid has no pending
  level in reach, `NoMatchWithoutSlot` shows that there is no such entry, so the level that is appended
  takes no id that is in use. The match by metadata in `_restore_broker_position` (lines 224-232) thus
  never fires in the engine as it is.

`BookInv == TypeInv /\ BookOK /\ ViewOK /\ PlacingOK` is inductive. The proof has one lemma per group
of actions, one step per action, on top of lemmas about what may become of the book: nothing, a level
removed by client id (`BookRemoved`), removed by position (`BookDropped`), linked (`BookLinked`), added
(`BookAdded`), restored (`BookRestored`). Those rest on the
lemmas about one grid with which `DualGridTypes_proofs` begins.

*The sweeps.* `NothingPendingWhenClosing` relates the handler's place in a loop to the pairs it has passed. `SweepInv`: while
`_resolve_pending_before_close` walks, metadata is left only of pairs that are to come and, in the pair at hand, of orders
that are to come in the loop or whose cancel is awaited (`Behind`, `InLoop`); from its end until the last position is closed
there is none (`Clear`). It holds because nothing else gives metadata back while the handler is in the walk.

*Metadata of pending levels.* The book is seen as a relation `At` between order ids and position ids, and each step as one
of a few moves of it (`Move`: keep, forget an order, link, adopt, drop, place, empty). `WayInv` adds to
`BookInv` what the handler's locals hold at each await (`HandlerOK`) and that a level is in the grid of its order and of its
position, with metadata if it is pending (`OwnOK`). With orders both ways `OwnOK` is false: the duplicate check moves the
metadata of a short order to the long grid (§8), hence `OneWay`.

*One order to a grid.* `KnownOK` follows the answer of the duplicate check: every order with metadata is listed in it, or is
over and its fill is among the events that are read before the answer is used (`CheckOK`); so a placement starts when no
order of the pair with metadata can fill any more (`PlaceOK`), and of two orders of a grid with metadata only one can
(`OneMayFill`). It needs that metadata is of acknowledged orders (`AckOK`). It covers restarts, orders both ways and stale caches, but not an
answer that timed out: that is an empty account, and the check passes.

*The refinement.* `LedgerInv` has the above and three facts that the stages need. `SeenOK`: a position that an answer or
a loop lists has no fill ahead but one that will be read before the answer is used, so no level is linked to a position
whose fill still comes. `FirmOK`: an open position may have a level while its own level waits (the position was linked to the
nearest one, see `_link_broker_position`); then the level it has is not that of an order that may fill, and every answer lists
the position, so nothing takes it away. `UnlinkedOK`: a position may be open without a level while its own waits (the fill was
read before the level was appended); then no other order of its pair can fill, and the next bar of the pair lists it and links it before
anything else is done. Each step then takes each order from its stage to the same one or to one after it
(`StageStep`). The hypotheses are needed: a restart makes every open order "missed", and the answer of a Reconcile that timed out lists no positions, so
that levels of open positions are dropped.

*The session.* `SessionStep` shows that a step of `DualGridLive` is a step of `DualGridEngine` or one of `Beside`: the
cleanup task asks for cancels, has orders untracked, leaves its answer in the cache, or hears the answer to a cancel the
handler waits for. Neither the book nor the handler's place changes, so what the theorems above rest on stays, if the
cleanup's answer is as good as the engine's own: it lists nothing that was not filled or sent (`CleanView`), or not
acknowledged (`CleanAcked`). `SessionInv` is `BookInv /\ HandlerOK /\ SweepInv` with these and the types of the task. The
refinement is proved of the engine alone: its `SeenOK` says that the cached answer is the handler's own.

**Shared requests.** `TypeOK` is not obvious: the futures are a finite supply, and `Fresh` must find one that nobody refers to.
`FreshIsUnused` counts: a task in a call refers to one future, a slot to one, and the caller that asks is in no call. The
invariant `SharedInv` says that no two slots hold one future and that a future is never in another slot than the one
its waiters asked (`SlotsApart`, `CallsOK`), that a pending future has no value (`PendingOK`), and that requests and answers
are about keys of the scenario (`QuestionsOK`). That an answer is to one's own question needs it because a late answer goes to whatever
future the slot holds. Its last part, `WaitedForIsReachable`, is for the slots no finally clause empties: who waits there waits for the future in the slot, so
none is wiped.

The rest is about a broker that is prompt. There is then no backoff, sleep or error (`Calm`). `Backed` says that there is a map, one to one, from the
requests under way and the answers not yet read to tasks of the same slot that made a future and still wait for it, and that the age of an answer and the time its
task has left add up to no more than a timeout; tasks that joined have no less time left than the one that made the future (`Senior`). `Sorted`, that answers
are read oldest first, keeps the map when the first is taken off.

- `CacheRecent`: no answer outlives its task, so what enters a future or the cache is younger than a timeout (`YoungOK`).
- `RequestsShared` counts (`Sharing`): a future has one maker, and waits in its slot or is wiped, so a slot has no more requests under way than such futures.
- `OnlyWipedEmpty`: with `RoomForAll` every request that is made is sent, since the map is one to one and there are never more under way
  than tasks. `Served` follows it, for every slot: a pending future in the slot has a request of the slot under way, who waits for it has
  time left until the answer is due, and a pending future has a task in its call. So a waiter that gives up, and cancels the future for the others, waits for a wiped one.

**Blocks.** `BlocksInv`: guard and entries agree pair by pair while the lock is free, an entry that is submitted is
tracked or in the hands of the bar task, and the order in its hands is of its pair (`HandOK`). Every step but placing and
signalling leaves a pair as it is or takes tracking, guard and the strategy's entry away together, or the lock is held
(`KeptOrGone`); the lock stays held until the next session. That is why the hang of `can_trade` can be isolated in a hypothesis.

*Trades.* A trade may be declared by three readers of the past: the event loop, the cleanup with its snapshot, and the recovery after a
restart. `TradesInv` says what their information is still worth. A position *lives* until the event of its close is read, so a
fill that is not read yet is of a position that lives after it (`FillsOK`, a statement about the order of events). The answer
the cleanup works on may be old: the pair of a position in it that no longer lives has no entry, or one that was made since the pass
began (`AnswerOK`), and such an entry is too young for the pass to judge (`YoungOK`). Hence whatever is declared in
trade has a position that lives (`TradeOK`), and the event of its close is what ends it.

**The strategy and its candles.** `FeedInv`: buffer and cache are each one bar after the other, no longer than `MaxLen`, and end no later
than with the bar that is forming (`StretchOK`); if that bar is never served, their candles are those of the market (`Known`). The
heart of it is the poll: it asks from the last but one bar on, is answered up to the last bar or the one before, and what is
not in the buffer yet is taken. `PollBrings` shows that what is left is then exactly a run of the market that begins after the last bar of
the buffer; `JoinIs`, that putting it behind and cutting the front keeps the stretch. One case needs care: a buffer of a single candle that is not the
market's first. Its last bar but one is before it, the poll brings it, and the merge, which only looks at
the times, would append it behind a newer one. The assumptions exclude it, as the program's numbers do (`WarmBars` and `ChunkBars` are hundreds
of bars, a first poll asks for 10): a history is empty or has at least two candles (`HistoryIs`).

`LiveInv` adds the strategy. `StateOK`: the bars of a setup are places the buffer has, the newest candle excepted. `TimesOK`: these
are still the bars the setup was made of. `TimesOK` is what a cut destroys (§8), hence `MaxLen > MaxBars` where it is used; types do not need it. An update may make of
a state what `Works` says, one lemma per phase; `ColdStartIs` says it of a history, for which the least and the greatest of a set of places and of a
stretch of prices must exist: `LeastNat` and `IntervalMin`, from the well-foundedness of `<`. `RetestTimesOut` then follows because places differ by what the times of
their bars do; `StopIsBehind`, because the lowest low of the candles from `brk` to `i` is that of the market's bars between their times. The
forming bar may be served for the former: its time is right, only its prices are not.

**Portfolio.** `FreezeEnds` needs that the mode a bar trades in is still the mode of the counter (`FrozenBar`), though mode and trading
are steps apart: nothing else counts in between. Then only a grid without levels accepts a signal in Freeze.

**Only model-checked**: liveness and all that needs ENABLED (beyond this prover): `BarEnds`, `PhantomsGo`, `PositionsGetKnown`,
`EntriesEnd`, `LevelsOfDeadGo`, `EntryEnds`, `EveryCallEnds`. Sums of lots are folds, whose laws need induction over data:
`OpensWithinLimits`, `LoneGridStaysSingle`. Within reach and left: the refinement beside
the cleanup task (`SessionSpec => KeepsLedger`).

## 8. Where code and documents disagree

Two are runs that TLC ends with a counterexample; `PROJECT.json` quotes the sentences. The others are properties.

1. `cap_exceeded`: the TTL check drops the level whatever its cancel came to (`trading_engine.py:558-559`);
   if the order filled first, a position is open that the level cap does not count when the next order goes out.
2. `auto_unpacks`: `execute` unpacks the pair info into six names, `init_symbols` stores seven values
   (`executor.py:45`): in `AUTO` mode no order of the breakout strategy is sent.

These are stated at the end of the modules, under "Documented, and not so". To see one fail, put the property
into the configuration named; where other constants are needed they are given.

*`DualGridProperties`*

- `FreezeSendsNothing` (`one_sided`): in Freeze the first level of an inactive grid is still placed; only
  `_can_add_level`, which runs for active grids, looks at the mode (`trading_engine.py:617-625, 694`).
- `LevelsInOwnGrid` (`two_sided_restart`): the duplicate check (`trading_engine.py:848-866`) ignores the direction: a resting long
  order becomes a level of the short grid when a short setup comes.
- `LevelNamesItsPosition` (`one_sided`, `Width = 5`): the tolerance is half of `get_spread`, which is in pips, and is compared with prices
  (`trading_engine.py:202-205`): the first pending level takes any position of its grid.
- `DropsOnlyGone` (`two_pairs`): with several pairs the reconciliation reads a cached answer, and drops the level of a
  position whose fill came in after it (`trading_engine.py:479-491`).
- `ForgetsOnlyCancelled` (`one_sided`, `ReconcileMayTimeOut = TRUE`): a sweep cancels the one tracked order of the pair for whichever order it is at
  (`trading_engine.py:1100-1116`), and forgets the metadata of the latter, which stays at the broker.

*`BreakoutLive`*

- `BlocksGo` (`breakout_two`): `can_trade` holds the lock while it lets the blocks of an old entry be released, which takes
  the lock (`trade_guard.py:109, 54`): the bar task and every callback after it wait for ever.
  `tests/test_stale_orders.py:170` expects the blocks to go, and calls the cleanup without the lock.
- `OneOrderPerPair` (`breakout_pair`): an attempt that timed out may rest at the broker when the next goes out (`executor.py:84`), and so
  may an order of the session before.
- `NoEntryInTrade` (`breakout_pair`): the entry timed out and was reset while its order filled (`breakout_retest_v3.py:877`); the pair
  scans, and enters again beside the position.
- `FailedIsNotPlaced` (`breakout_pair`): an order error without an order id fails the placement under way, whose order is
  accepted all the same (`ctrader_client.py:1535-1540`).

*`SharedRequest`*

- `NobodyCancelled` (`shared_requests`, `Scenarios <- SlowReconcile`): the first timeout cancels the future for every
  caller; the others get a `CancelledError`, which ends the bar task or the cleanup task (`ctrader_client.py:1050`).
- `OneAtATime` (`shared_requests`, `Scenarios <- PromptReconcile`): the finally clause of the creator (`ctrader_client.py:1055`) empties the slot
  though another task has stored its future there meanwhile; the next forced call finds no request under way and sends a second. Lines 392 and
  424 call the test a protection from parallel calls, and 1038 makes it for Reconcile.
- `AnsweredInTime` (the same): the future so wiped is not found by its answer; its waiters get the empty account of a timeout, though the
  broker answered.
- `AnswerIsNew` (the same): that answer goes to the future the slot holds then, so a forced call gets an answer to a request older than
  the call.
- `AnswersItsQuestion` for two symbols that share the slot of the expected margin (`SlotOf` constant): an answer that comes after its
  request has timed out is taken for the next symbol's (`ctrader_client.py:1258`). The property leaves such slots out (`Own`).

*`RetestLive`* (`retest_feed` with the constants given)

- `PeakIsTrue` (`Bars <- Long`): a poll that brings two bars updates the strategy once (`main.py:507`), so the bar
  in between does not count for `max_high_since` of the setup (`breakout_retest_v3.py:287`).
- `StopCoversLastClosed`: the strategy works on the last but one candle, all of which are closed by then: the stop may lie inside
  the last bar.
- `SignalHasRetest`: the timeout of a setup is looked at before the flag of the cold start (`breakout_retest_v3.py:966, 975`) and keeps it
  (591-604); the next setup is sent as a signal on its first update, though no bar has pulled back since its displacement. `src/README.md:82`
  says that the strategy waits for a shallow retest of 30 to 70 percent.
- `RestoresSetup`: a cold start over the same buffer does not find a setup the ticks are in.
- `LiveSignalIsFresh` (`MaxBars = 8`, `WarmBars = 6`, `EmitBars = 0`, `RetestBars = 3`): a signal found by the cold start waits
  while the trade window is closed, and comes when it opens.
- `RetestIsPossible` (`Bars <- Pips`, `Opening <- Flat`, `MinDisp = 5`, `MaxDisp = 30`, `DispBars = 3`, `RetestBars = 20`, `Tolerance = 4`): a move may
  be so far that a retrace within the percents stays outside the tolerance: the setup can only time out.
- `BufferIsMarket` (`MayServeForming = TRUE`): a warm-up in the middle of a bar keeps the bar as it was then, because the merge
  takes only new timestamps (`main.py:274`).
- `RetestTimesOut` (`MaxLen = 5`, `MaxBars = 9`): once the buffer is cut, indices stay while candles move, and a setup does not age.

Of `PortfolioRisk`, against `docs/prompt_dual_grid_v8.md`: the rejection counter is reset when the check approves (425), in
the code only when a placement is accepted; the hard imbalance blocks until the imbalance is below the soft threshold (470), in the code
until it is below the hard one; the volume is reduced in a warn zone of the ATR (422), in the code the warn zone begins where the rejection
does (`trading_engine.py:798, 810`) and is never reached.

## 9. What is not modelled

- *Partial fills and partial closes*: volumes and orders are in different modules; a fill is a whole fill.
- *Grids of pairs that trade both ways, beyond what `two_sided_restart` checks*: `PendingHasMeta`, `NothingPendingWhenClosing`
  and `PhantomsGo` do not hold there, because of the levels of the duplicate check (section 8, `LevelsInOwnGrid`); the runs
  and theorems about them have pairs whose orders go one way.
- *A largest lot that is not a multiple of the step*: the module assumes it is; the program does not check its configuration.
- *The number of cleanup tasks*: one per session, as `main.py` starts it.
- *Connection, authorisation, symbol tables, logging, metrics, command line*: I/O or plain data.
- *Quotes* (`market_cache.py`): a quote that is missing or stale is one of the reasons for which a bar places nothing
  (`Nothing`, `NoSignal`).
- *Rolling windows, ATR, price conversions, breakout levels*: floating-point arithmetic. Only the side of a threshold they fall on
  is modelled.
- *Partial close volumes*: computed for the offline backtest and tests only.
- *Scanners and rankers*: floating-point heuristics without state the engine sees. To the engine a scanner is a setup with a score, or none.
- *Backtest and optimizer*: offline, sequential number processing.
- *Configuration, models, recommendations*: data and text; the constants that matter are CONSTANTS here.
- `TradingEngine.restart`, `GridManager.clear_all`, `TradeGuard.reset`: nothing calls them.

## 10. What is left

In the order of what it would add:

1. Partial fills: volumes in `Broker`.
2. The refinement of `OrderLedger` beside the cleanup task, which needs a `SeenOK` for a cached answer newer than the handler's.
