# Apex7 Trader: TLA+ models, checks and proofs

Apex7 is a trading agent: a FastAPI process in which one agent thread runs a
LangGraph graph per cycle (data, six LLM or rule-based specialists, an arbiter,
a risk check, execution against a simulated book), a second thread judges old
trades and reports on the day, request threads change the mode, the watchlist
and the pause flag, and an event loop sends the state to browsers. This
directory holds TLA+ models of that program, translated from the Python and
TypeScript sources, the TLC configurations that check them, and TLAPS proofs of
what matters most. Paths below are relative to the repository; `PROJECT.json`
gives for every definition the lines it models.

    tlc -workers 2 -config MCBacktest.cfg MCBacktest       # check one run
    tlapm Portfolio_proofs.tla                             # check the proofs

## 1. The system

| Component | State | Operations | Interacts by | Model |
|---|---|---|---|---|
| Portfolio book, `core/data.py` | cash, positions (shares, average, layers, take-profit flag), trailing highs, peak value, death flag, trade history, JSON file | buy, sell, mark_take_profit, update_watermarks, record_value, check_death, save_state, load_state | calls from the cycle; the book under one RLock, the file after it | Portfolio, Postmortem (history) |
| Trading cycle, `agents/shared/nodes.py` | graph state of one run, `trades` table | fetch_data, risk_check, execute / skip, exit sweep, persistence, reconciliation at boot | Portfolio, SQLite, prices | TradingCycle, ModeLedgers |
| Decision graph, `agents/multi.py` | votes, decision, slow-agent cache, weights cache | six specialist nodes in parallel, arbitrate, research, routing | `_llm`, the mode flags, the book, agent_memory | Arbitration |
| Runtime modes, `agents/shared/modes.py`, `api/routes/control.py`, `api/main.py` | two flags in memory, two lines of `.env` | POST /mode, boot | read by everything, without a lock | Modes |
| LLM guard, `agents/shared/llm.py` | token counter, circuit breaker, degradation status | `_llm` around each API request | called by the specialists' threads | LlmGuard |
| Votes and verdicts, `agents/shared/eval.py`, `db.py` | one SQLite file per mode: agent_memory, trades, pending_evaluations | record vote, insert trade, schedule, evaluate_pending_trades | agent thread writes, postmortem thread judges | Evaluation |
| Controller, `runtime/controller.py`, `core/session.py` | `_ctrl`, `_state`, threads | agent loop, pause / resume, start and reconciliation, postmortem loop | request threads, broadcaster | Controller, Postmortem, ModeLedgers |
| Broadcaster and browser link, `api/broadcaster.py`, `routes/ws.py`, `useWebSocket.ts` | list of active connections, last snapshot of each browser | poll, serialize, send with timeout, connect, reconnect | reads the controller | Broadcast |
| Watchlist, `agents/shared/watchlist.py` | one bounded table of symbols per mode | add, remove, lazy seeding | control routes, the cycle, the mode flags | Watchlist |
| Daily postmortem, `agents/multi.py`, `runtime/controller.py` | `_last_postmortem_date`, postmortem table | hourly loop, rebuilding entry prices | the book's history | Postmortem |
| Market and external data, `market_data/*`, `core/external_data.py` | TTL caches, the breaker of yfinance | look up, fetch, store | HTTP; the cycle, routes | Feeds |
| Backtest, `core/backtest.py` | one simulated position | bars, orders, stops, settlement, folds | a route | Backtest |
| Indicators and metrics, `core/*` | none | pure functions | the cycle, routes | - |
| HTTP API, authentication, notifications, views | none of their own | read-only routes, formatting | all of the above | - |

### What is hard

- **Interleavings without a lock.** The two mode flags are assigned one after
  the other by any request thread; the evaluator, the cycle, the watchlist and
  the arbiter each read them several times. The guard of the LLM, the caches and
  the watchlist take their locks, or their transactions, for short sections,
  with a network request in between.
- **Process stops.** A sale, the save of the book, the take-profit flag and the
  insert of the trade row are separate steps; so are a verdict and the flag
  that says it was given, and a report and the date that says it was made.
- **Stale state.** The risk check decides on a book that the exit sweep changes
  before the order is placed. The arbiter may run in another mode than the votes
  it weighs. A report is made of a history after the position is gone.
- **Numbers.** Commission and slippage are added after an order was capped to
  the cash; averages, dampings and weights are rounded or blended; the backtest
  repeats the arithmetic of the book instead of calling it.
- **Timeouts and liveness.** A stalled browser, a tripped breaker, a cached
  failure, closing hours and pauses all hold something up and have to let it go.

What makes each component correct is stated by the properties of section 3, and
`PROJECT.json` lists the hazards, each with the line where it bites and the
properties that are about it.

## 2. The modules

                 Portfolio                       Modes       Controller
         /         |        .  (INSTANCE)          |             |
    Postmortem TradingCycle  Backtest          Watchlist     Broadcast
                   |
              ModeLedgers        Arbitration   Evaluation   LlmGuard   Feeds

Lines are EXTENDS, the dotted one INSTANCE ... WITH. Each `MC...` module extends
one of these and gives constants their values. Each `..._proofs` module proves
theorems about the module of its name and what that extends; those about Portfolio
and Postmortem are both in `Portfolio_proofs`, those about Modes and Watchlist in
`Watchlist_proofs`, and those about LlmGuard and Feeds, which share no variable, in
`OutsideCalls_proofs`.

**Portfolio** is the class in `core/data.py`, under an arbitrary caller. A method is
one action: it changes the book under the class's lock. `save_state`, which a buy and
a sell end with, takes that lock again after they have let it go; it is part of the
action, and may fail, because a single thread trades and nothing changes the book in
between.
Money is in whole units, shares in quanta of `1/ShareScale`, rates in per mille,
quotients rounded down. `Restart` loads the file. It is also the abstract
specification of a book that the two programs below are shown to implement.

**Postmortem** extends it with the trade history that buy and sell append to and
save_state cuts, and with the daily report: the hour, the date kept in memory,
errors half-way, and the entry price and holding time that
`_reconstruct_avg_entry` recomputes from rounded trades. All methods of Portfolio
appear in it, so its run is also the run of Portfolio; that its steps are steps of
Portfolio is the theorem `PostmortemImplementsPortfolio`.

**TradingCycle** extends it with the graph run: `phase` is the node about to run.
The decision entering the risk check is any decision, so that its guards are
shown to hold whatever the specialists want. Each file write and each INSERT is
a step, and `Reboot` may come between any two. `ledger` is the cash the rows of
the `trades` table account for. A fill is the quote with a random slippage; a
quote of a dollar or less is one that the exit sweep does not believe. Each step
calls a method of the book or leaves it alone, which is the theorem
`CycleImplementsPortfolio == CycleSpec => Spec`.

**ModeLedgers** extends TradingCycle with mode switches anywhere: one book and one
state file, trade rows in one file per mode, and the start that replays one of
them.

**Backtest** simulates the two strategies bar by bar over any price history, in one
or several folds. It has the book's variables as a refinement mapping,
`Book == INSTANCE Portfolio WITH ...`, and `Book!Spec` as a property: the orders it
simulates by itself are orders of the book.

**Arbitration** is the decision itself: votes by rules, from the cache of slow
agents, or from the LLM, on a watchlist of which some symbols have no price; weights
from the accuracies in agent_memory; composite
score with its dampings and the correlation filter; the LLM's answer over it and
the vetoes over that; `sell_pct`; the route by the research node. Every node
reads `live` for itself. Scores are exact integers: 1/40 of weight times percent.

**Modes** has a thread per request; what a switch still has to assign is a
sequence (`todo`), one assignment a step. `Crash` keeps only the file, and the
boot ends by switching to SIM before the server answers. **Watchlist** extends it
with the three tables and the two routes: each database access resolves its file
by reading the two flags one after the other (the torn read is modelled here), and
again whenever the file was locked (`Retry`); the first access of a process seeds
empty tables; yfinance lies between the look and the INSERT of an add; and a read or a
write may fail, a failed read being an empty table to the look. Its steps are steps of
Modes or leave it alone (`WatchlistImplementsModes`).

**LlmGuard** has `_llm` for several callers: a critical section is a step, the
request is between two of them. Time is what is left of a pause (`wait`).

**Evaluation** has the agent thread's writes and the evaluator's statements over
one file per mode. A mode switch, a failing statement or a process stop may come
between any two.

**Controller** is the agent thread's loop, its pause gate, session gate and error
paths, with the graph run as one place. **Broadcast** extends it with the
broadcaster, the endpoint and the browsers; a send to a client is a step, and
coroutines interleave only where they await.

**Feeds** follows one entry of a cache. The caches share the shape "look up under
the lock, request without it, store under it"; nine kinds (`feed`, chosen in Init)
differ in their lock, the breaker and what a failure leaves behind. Data is the
version of the source it shows.

Controller's place "graph" is TradingCycle; TradingCycle's choice of a decision
is Arbitration; Evaluation's trades are TradingCycle's rows.

## 3. The runs

| Run | Instance | Distinct states | Shows |
|---|---|---|---|
| portfolio (MCPostmortem) | 1 symbol, prices 50 and 130, orders of 600 on 1000, exits of 50 and 100 percent, 4 trades, history of 3, 2 dates, 1 restart, 1 quote looked at or failing save | 1,242,525 | `TypeOK`, `BookConsistent`, `TradesNeverCreateValue`, `AverageBetweenFills`, `WatermarkNeverLowered`, `ReportedOncePerStart`, `ReportedEntryIsBasis` |
| trading_cycle | 3 symbols for 2 positions, quotes 100, 115 and an unbelievable 1, 3 cycles, failing INSERTs, 1 process stop | 4,240,630 | `PositionLimit`, `StopLossHonoured`, `LedgerMatchesCash`, `TakeProfitOncePerStart`, `ExposureCapped`, `DeathStopsTrading` |
| arbitration | 2 symbols for 2 positions, 5 books and markets with and without prices, 2 learned profiles at the extremes | 518,532 | `FiltersHold`, `TargetWasVoted`, `RulesFitTheBook`, `AccuracyCounts` |
| backtest | closes 100, 103, 150 and a bad one, RSI on either side of every threshold or undefined, 5 bars, 1 or 2 folds, both strategies | 3,544 | `BacktestUsesBook`, `CashIsRealized`, `WinsEarnMoney`, `StopBoundsLoss` |
| modes (MCWatchlist) | 2 mode requests and 2 watchlist requests on 2 + 2 threads, 3 of them at once, 3 symbols, a maximum of 2, 1 stop, reads that fail | 2,143,125 | `NeverBothOn`, `SerialSwitchesPersist`, `WatchlistLimit`, `YesMeansListed` |
| llm_guard | 2 callers, threshold 3, pause 2, Retry-After 1 or 3, budget 2, 2 turns | 79,768 | `BudgetOvershootBounded`, `SoloRetryAfterHonoured`, `BreakerCloses` |
| evaluation | a BUY and a SELL, 2 switches, 1 fault, 1 stop | 399,232 | `FlagFollowsDecision`, `VerdictReachesVotes`, `VerdictIsFinal`, `DueRowsSettle` |
| broadcast | 2 browsers of which 1 may stall, 2 cycles | 161,680 | `ViewsNeverGoBack`, `PauseHolds`, `AgentKeepsCycling`, `DeathIsShown` |
| feeds | 9 kinds of cache, 2 callers, 2 versions of the source, threshold 3, pause 2, TTL 3, 1 eviction | 64,646 | `KnownGoodKept`, `NeverOlder`, `OneRequestPerTTL`, `FeedCatchesUp` |
| modes_live | 2 mode requests | | a disagreement, section 4 |
| stale_client | 1 browser that may stall, 1 cycle | | a disagreement, section 4 |
| mode_ledgers | 1 symbol, 2 cycles, 1 restart, no failing INSERT | | a disagreement, section 4 |

Why the bounds are enough: each instance is the smallest in which every guard is
met from both sides.

- trading_cycle: three symbols are one more than the position limit; two prices
  15 percent apart take profit on the way up and stop out on the way down, the
  third is not believed, and a day without a move is the time stop; two losing
  rounds meet both the drawdown block and the death threshold.
- portfolio: four trades on one symbol make a pyramided position of two layers,
  its partial and its full sale, or two positions in a row; they overflow a
  history of three, so that a report meets one that was cut, before and after a
  restart; 600 on 1000 is an order that fits and then one that does not. The
  methods that only look at quotes, and failing saves, are bounded together.
- modes: two requests are needed to interleave the assignments of two switches;
  two adds to overlap at a maximum of two, of which one symbol is seeded. At most
  three requests are served at once (`ThreeAtOnce`): both switches and an add, or both
  adds and a switch.
- llm_guard: two callers are needed for one to be in flight while another is
  limited.
- evaluation: two trades give two files a row of the same id, or one file a batch
  of two; two switches leave a mode and return.
- arbitration: the scenes have a book that is empty, partly full and full, symbols
  held and not held without a price, health
  on either side of 70, 85 and 130 and moods on either side of 15 and 30; the
  answers of the LLM lie on either side of each filter, and the profiles make
  directional agents always right with the others always wrong and the reverse.
- backtest: the lowest close is a stop after the highest, the middle one a gain
  over it that its costs turn into a loss; five bars divide unevenly into two folds.
- feeds: two versions make an answer older than the entry it would replace; three
  failures open the circuit.

Two properties carry a tolerance, for the arithmetic of the model. `WinsEarnMoney`
says that a trade counts as a win if and only if it earned money, up to two units for
each share and four more: prices and values are whole units rounded down, one for
each share and leg, where the code has floats. `ExposureCapped` bounds, without a
tolerance, what the shares held before an order are worth at the quote plus what the
order costs; the shares bought are worth no more than that at some fill of that quote.

Bounds on counters (`MaxTrades`, `MaxCycles`, `MaxRestarts`, `MaxReboots`,
`MaxSwitches`, `MaxFaults`, `MaxCrashes`, `MaxRequests`, `MaxEvictions`,
`MaxAsides`) cut behaviours off; they never enable a step the code does not take.

Symbols and request threads are symmetric where a run says so: nothing orders
them and the runs with symmetry check no liveness. Deadlock is checked in the
runs of Arbitration, Broadcast, Feeds and LlmGuard, whose systems go on for ever.
The others stop once their bounds are reached or their work is done.

### Fairness

- LlmGuard: a caller that has entered `_llm` goes on, because the client has a
  timeout and every path of the function ends; callers keep calling, because
  each cycle does; the clock ticks and days pass. No order between callers.
- Evaluation: the evaluator runs (the postmortem thread wakes periodically
  and its exceptions are caught), time makes rows due, and the agent thread
  completes what it has begun to write unless the process stops.
- Broadcast: the agent thread goes on whenever it is not waiting for a resume or
  the opening hours, because sleeps end and so does `graph.invoke`, whose LLM
  calls time out; the event loop goes on; a send is completed, fails, or is cut
  off by `asyncio.wait_for`. Nothing is assumed of browsers, users, the session
  or the mode: the liveness properties have these as their premises.
- Feeds: time passes; a browser polls and the agent cycles, so that the entry is
  asked for again and again; requests end, because they have timeouts. Nothing is
  assumed of the source: that it answers for good is the premise of
  `FeedCatchesUp`.

## 4. Where code and documentation disagree

Each is a run that expects a violation, of one property that restates the quoted
text (`PROJECT.json`, `findings`).

1. **modes_live.** Interleaved requests for SIM and PAPER clear both flags, which
   is LIVE, without anybody having asked for it. Both set never remains
   (`NeverBothOn`), and what is unhurried is also saved (`SerialSwitchesPersist`).
2. **stale_client.** A client whose send timed out is taken off the list while its
   socket stays open: it neither is sent anything nor reconnects.
3. **mode_ledgers.** The comment at `runtime/controller.py:309-311` speaks of a mode
   swap that replaces the portfolio; nothing replaces it. One book, with one state
   file, trades in every mode, and its rows go to one file per mode, of which the
   start replays that of SIM. A position bought in SIM and sold after a switch is
   reported as a divergence at the next start though no row was lost.

Other observations made while modelling, without a run:

- Book: the take-profit flag is set after the sale has been saved, so a restart in
  between sells again (`TakeProfitOncePerStart` holds within one process);
  `is_dead` is not saved, so a restarted process trades until its first check; a
  BUY is accepted at a quote of a dollar or less, which the exit guards do not
  believe.
- Decision graph: `docs/ARCHITECTURE.md:205-219` lets a sizing of SKIP sell 0 percent,
  which the risk check then skips, where `multi.py:1584-1587` makes it 100, and lets the
  technician choose a `sell_pct` that its schema drops (the model follows the code, and
  no property takes a side); a switch from LIVE between votes and arbitration has LLM votes
  decided by the rules, damped but not vetoed (which is why `FiltersHold` is about
  decisions of the LLM and decisions on rule votes); a switch between routing and
  research has `sim_research` overwrite the confidence; the default vote of a
  failed call of a slow agent is cached for an hour like an answer.
- LLM guard: a request in flight when another is rate limited ends the forced pause
  or shortens it; a caller alone waits it out (`SoloRetryAfterHonoured`).
- Evaluation: a batch resolves its file, then selects its rows through a helper
  that resolves it again; a switch in between flags rows of one file by the ids of
  another, against the comment at `eval.py:72-78`. `FlagFollowsDecision` and
  `VerdictReachesVotes` have the absence of that one case as their premise (`~split`);
  in every other a row is judged and flagged in its own file.
- Controller: a pause acknowledged after the agent read the flag lets that one cycle
  start, and none ends a cycle under way; `PauseHolds` is about all others (`held`).
- Caches: the first failed fetch of a FRED series stores nothing-known for the full
  TTL, which the comment at `core/external_data.py:33-36` means to avoid; an empty
  answer replaces known comparisons and fundamentals, and known macro prices, where
  `macro.py:41` promises the last known value on failure; overlapping batches of
  quotes may store the older one last. All heal (`FeedCatchesUp`).
- Watchlist: "Max 20 symbols" (`watchlist.py:42`) is not kept by adds that overlap, nor
  by one add alone whose read fails, since `_db_read` then returns no rows
  (`db.py:347-364`); `WatchlistLimit` says that each of these exceeds it by one row at
  most and nothing else does. Of two adds of one symbol the second may report failure
  though the symbol is listed; the guard of a removal never acts, because the route
  passes no open symbols; a table emptied by removals is seeded again at the next start.
- Postmortem: sales made after the hour of the report are in none; a restart within
  the hour repeats it; the profit in a report is of raw prices where the backtest
  judges with costs.

## 5. What is proved

The proofs hold for every value of the constants that satisfies the named
assumptions of the modules (`PortfolioAssumption`, `ShareScaleAssumption`,
`PostmortemAssumption`, `CycleAssumption`, `SlippageAssumption`,
`BacktestAssumption`, `ModesAssumption`, `WatchlistAssumption`,
`GuardAssumption`, `FeedsAssumption`, `EvaluationAssumption`,
`ControllerAssumption`, `BroadcastAssumption`, `ArbitrationAssumption`), which
TLC evaluates in the runs. Theorems are listed in `PROJECT.json`; this is how they
are obtained.

**Portfolio_proofs.** `BookInvariant` strengthens the types: cash and shares are
naturals, every held symbol has a positive average and exactly the held symbols
have a watermark, in memory and in the file. The file has to be in it because
`Restart` reads it. The key arithmetic lemmas bound a quotient by its dividend:
an order's cost with slippage and commission rounded never exceeds the cash. From
it follow `BookAlwaysConsistent`, `WatermarksOnlyRise` and
`AverageStaysBetweenFills`. `PeakInvariant` adds the peak, hence
`PortfolioTyped`; `NoOrderCreatesValue` shows that the account is worth no more
after an order, valued at the order's own price: the fold over positions is split
into the traded symbol, which the order changes, and the sum over the rest, which
it does not. `ShareScaleAssumption` is needed: without it a small order could buy
no share.

The recorded book implements the book step by step (`PostmortemImplementsPortfolio`),
so all of this holds of the specification that the run checks
(`RecordedBookConsistent`, `RecordedTradesCreateNoValue`). `ReportInvariant` gives
`SalesReportedOnce`: a trade in the history, or in the copy a restart loads, was made
before now and is dated no later than today; if this process has reported it and it
is dated today, the report of today is done. It also needs that rows of trades not
yet made are empty, because a report names a trade by the time it was made.

**TradingCycle_proofs.** `CycleInvariant` says that what a step passes to the book
is legal: the decided symbol has a quote from the risk check to the order, and the
order is sized from a number. With it each action of the cycle maps to an action
of Portfolio or a stutter, which is `CycleImplementsPortfolio`; the theorems of
Portfolio then hold of the cycle (`CycleKeepsBookConsistent`,
`CycleTradesCreateNoValue`). `PositionLimit` is not inductive: the risk check
counts positions, the sweep then sells, and only then the order opens one.
`LimitInvariant` adds the same limit for the file and `RoomKept`, that a decision
that passed for a new symbol still has room. `StopLossHonoured` needs
`SlippageAssumption`: a position is not past its stop the moment it is opened.
`LedgerMatchesCash` follows from `Balanced`: between an order and its row the ledger
is behind by exactly that row. `TakeProfitInvariant` counts the sales of a position
against its flag; `DeathStopsTrading` follows from where the cycle looks at it.
`ExposureInvariant` carries the cap that the risk check found for a pyramided
position to the order, across the sweep that only sells; the order itself is sized
where it is placed. `ExposureAlwaysCapped` then adds the two, commission and fill
included. TLC was not enough here: an earlier form of the property, with the position
valued after the fill, held in the run and is false for a fill below the quote.

**Backtest_proofs.** `BacktestInvariant` has the ledger of a fold, the progress of
its bars and the equity of an empty position; `CashIsRealized` and `SettlesToCash` are
part of it or follow. `StopBoundsLoss` is about steps: `WithinStop` bounds the loss of
whatever is held after a bar, and a bar beyond the stop is shown to end with nothing
held, because the same bar does not buy again. `BacktestImplementsBook` is the refinement
`Spec => Book!Spec`, where the mapping gives the book one symbol, no state file and,
at each new fold, a restart. Its premise `Amounts = Nat` lifts the bound that the
run puts on the order sizes the book may be asked for.
`WinsAlwaysEarn` is arithmetic: the judgement compares the two quotes with the costs
put back, the profit is of shares and amounts derived from them by five quotients.
`RisePaysCosts` and `CostsEatTheRest` follow a rise of the quotes, and its absence,
through these to the profit; the invariant only has to remember that an open position
was bought for some amount at the quote it remembers (`Priced`). The proof corrected
the property: its tolerance was a constant, which the run's few shares did not exceed;
what rounding costs grows with the shares.

**Watchlist_proofs.** `FlagsInvariant`: what any thread still has to assign is a
program in which turning a flag on is followed by turning the other one off, so that
while both are on somebody is about to clear one; hence `NeverBothOn` for any number
of requests. `SerialInvariant` follows a lone thread through the four assignments of
the mode last asked for; hence `SerialSwitchesPersist` and `AgentStartsInSim`. Both
hold among watchlist requests by `WatchlistImplementsModes` (`WatchlistKeepsModes`).
`WatchlistLimit` is nearly inductive: an INSERT that was disturbed, or whose look
failed, is counted in `unchecked`, and any other still has the room it looked for.
`Undisturbed`
says what "not disturbed" amounts to: no other request, no switch and no stop since
the look, hence the same mode, the same open file, which is not seeded again, and the
same rows. `YesAlwaysListed` uses it for the file: a torn or later read of the flags
would insert into another table than the one of the mode.

**OutsideCalls_proofs.** For the guard, `TurnSlots` counts what calls past the budget
check may still spend; tokens and slots together never exceed the bound, and every
turn gives up the slot it spends. `Tripped` bounds the failures in the same way by
the requests in flight. `Owed` says that while a Retry-After received alone is not
over, the breaker is open for at least as long and nothing is in flight that could
close it; hence `RetryAfterAlwaysHonoured`. For the caches, `FeedsInvariant` compares
what the request under way saw and got with the entry it will replace, as long as no
two overlapped: hence `KnownGoodAlwaysKept` and `NeverGetsOlder`. That two cannot
overlap under a lock kept over the request is part of it. `RequestsAreShared` relates
the entry's age to the time since a request was last sent (`SentBounds`): while one is
under way nobody else is let in, and an answer counts as no older than its request, so
that an entry that has become stale means that the TTL has passed since.

**Evaluation_proofs.** `VerdictIsFinal` comes from the invariant that no file has a
vote of a trade to come, `FlagFollowsDecision` from one that follows a batch through its
statements: the row about to be flagged has been decided, and a batch that was not
split writes to the file it selected from.
`VerdictReachesVotes` needs three more facts (`ReachInvariant`): every row's trade
was made before the row, the batch knows the trade of each of its rows, and a decided
row's vote is never unknown. The row at hand is the least id of the batch, which exists
because < is well founded on Nat (`WFMin`).

**Broadcast_proofs.** `ViewsNeverGoBack` relates every browser to a message read
earlier. `ViewInvariant` says that a view is not ahead of the message while one
is on its way to that client, nor the message ahead of the agent, and that
clients connecting meanwhile, who may be ahead of the message, are not among its
recipients. `AgentInvariant` fixes the flags at each place of the loop and gives
`IndicatorFollowsGraph` and `PauseAlwaysHolds`, the latter for a pause that found no
cycle about to start.

**Arbitration_proofs.** `ArbitrationInvariant`: votes are well formed, whatever
their origin. With a lemma that a winner other than HOLD has support and its target
comes from a supporter this gives `TradesWereVotedFor`. `RulesInvariant`: until the LLM
has voted, votes are those of the rules on the book of this cycle; together they give
`RulesAlwaysFit`. For `FiltersAlwaysHold` the LLM's case is the vetoes; the rules have
none, only dampings, and the proof shows these suffice: a rule-made risk score
above 8, a headwind and risk-off come together, the rules are at most 85 percent
sure, and learning moves weights within bounds, so that a damped BUY scores at
most 1,560,600 while HOLD's baseline is at least 1,610,000. The margin is three
percent: a weight, a damping or the cap of a rule's confidence changed a little
would break it, and so the proof. `AccuracyAlwaysCounts` splits the sum of
the six weights into one agent's and the rest, which its accuracy does not change.

Only model-checked:

- the liveness properties `BreakerCloses`, `DueRowsSettle`, `AgentKeepsCycling`,
  `DeathIsShown`, `FeedCatchesUp`: fairness is out of the prover's reach;
- `ReportedEntryIsBasis`, which is about a fold over a history of any length: what
  a fold computes for every input needs an induction that the prover's library
  cannot instantiate. Its tolerance of two units is that of the run's amounts; share
  counts rounded more coarsely, over more layers, would need a wider one.

## 6. What is abstracted or left out

- Texts (prompts, news, summaries, digests, the weekly report), formatting and
  logging; the attribution of a trade to the votes that led to it.
- The size of a BUY in Arbitration: TradingCycle caps any size.
- The earnings calendar is a choice among its situations, volatility a factor; the
  synthetic prices of SIM are any prices.
- Floating point: amounts are fixed-point, so equalities of the code hold here up
  to rounding, in the direction the property states.
- A torn read of the two mode flags is modelled in Watchlist; Evaluation,
  Arbitration and ModeLedgers read the mode in one step. SQLite's migrations are
  left out: they run before anything else.
- Feeds follows one entry and leaves out what is parsed out of an answer.
- Not modelled, because they keep no state the trading depends on: indicators and
  metrics (floating-point statistics of their own input), notifications,
  authentication (the comparison of one key), read-only routes and views.

## 7. What could come next

1. What `_reconstruct_avg_entry` accumulates, kept as a variable beside the book and
   related to the open position step by step: a way to `ReportedEntryIsBasis` without
   an induction over the history.
2. The three calls that write one cycle's votes, row and schedule, joined to the
   phases of TradingCycle, so that a mode switch splits them over files in the same
   model in which the book changes.
3. Several agents' calls in LlmGuard joined to the parallel nodes of Arbitration, to
   relate degradation to the decision it leads to.
