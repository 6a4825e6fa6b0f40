# AQTA in TLA+

AQTA is a trading appliance on a Zynq board. A C program on the processing
system (PS) reads market snapshots, runs one of three strategies, checks each
decision against risk limits and keeps the orders in flight in a table. The
programmable logic (PL) takes an order through a register bank and sends it as
an Ethernet frame. At the end of the day a Python pipeline backtests parameter
combinations, lets an operator approve the best one, and pushes it to the board.

This directory holds TLA+ modules of those parts, TLC configurations that check
them on small instances, and theorems about them that TLAPS checks for every
value of the constants. File and line references are relative to `src/`'s
parent. `PROJECT.json` maps each definition to the lines it models.

## 1. The system

| Component | State | Operations | Talks to |
|---|---|---|---|
| PS main loop (`ps_trade_core_logic/main.c`) | settled position, last order ID | one tick: snapshot, strategy, risk guard, insert, send, sweep | all PS parts, by calls |
| In-flight table (`order_table.c`) | slots, count, net shares | insert, sweep for filled orders | main loop |
| Risk guard (`risk_guard.c`) | none | check a decision | main loop |
| Order writer (`order_execution.c`) | none | encode a packet, log | PL, in the design; stdout in the code |
| Strategy engine (`strategy_engine.c`) | ring of mid prices | decide, then update the ring | main loop |
| Market data (`market_data.c`) | generator, tick count | next snapshot, end of stream | main loop |
| Config loader (`config_loader.c`) | parameters, loaded flag | load and validate once, three getters | main; the file the pipeline pushes |
| Register bank (`pl/axi_lite_regbank.sv`) | write and read FSM, order registers, doorbell pulse | AXI4-Lite write, read | PS, order latch |
| Order latch (`pl/tx_logic/tx_order_latcher.sv`) | command | accept an order at the pulse | register bank, frame builder |
| Frame builder (`pl/tx_logic/tx_frame_builder.sv`) | order, byte counter, FSM | stream 58 bytes with backpressure | latch, TEMAC |
| EOD sweep (`eod_pipeline/backtest/sweep.py`) | results, best so far | evaluate a candidate, write the result | settings, engine, approval |
| EOD engine and risk (`backtest/engine.py`, `risk.py`) | queue, rate window, books | accept, reject, fill, mark, settle | sweep |
| EOD strategies (`backtest/strategies.py`) | none | signals of a day | engine |
| Approval (`approval/workflow.py`, `config.py`, `review.py`) | run directory, log, pointer to the latest run | seven stages, two gates | sweep result, operator, sender |
| EOD settings (`eod_pipeline/settings.py`) | settings files | parse | sweep, approval |
| Snapshots (`backtest/snapshots.py`) | none | join book and timing file | simulator's files, engine |
| Metrics (`backtest/metrics.py`) | none | minutes, drawdown, Sharpe ratio | engine, sweep |
| Ingest, classifier (`ingest_validate_eod.py`, `percentile_classifier.py`) | file of validated bars | download, validate, label | Yahoo Finance; the sweep takes the label |
| Health check (`tools/data_health_check.py`) | none | count triggers, suggest thresholds, bursts | whoever chooses the grids |
| Exchange simulator (`Exchange_simulator/ExchangeSimulator.py`) | frame, timing and book files, order log, two threads | preprocess, replay, receive, have the log checked | mock or board over UDP; snapshots; checker |
| Mock FPGA (`mockFPGA.py`) | none | answer each frame with an order | simulator, over UDP |
| Checker (`checker.py`) | none | compare log and frames | the files |
| Golden frames (`pl/tx_logic/scripts/generate_golden_frames.py`) | none | build the reference frames | frame builder's test bench |

What makes them hard:

- the loop is one thread, but the clock runs on between and within calls, orders
  fill in sweeps by slot while slots are reused, and two totals are kept by hand;
- an order crosses from PS to PL by several bus writes, whose halves arrive in
  any order and at any distance, against a frame builder that may be stalled;
- live and offline code compute the same decisions from different data
  structures;
- files pass between programs that start, stop and overlap as they like: the
  settings, the sweep result, the approved config, the pointer to the latest run;
- an operator's session can be killed or fail between any two steps;
- a simulator session checks a log another thread is still writing, of datagrams
  that may be lost, overtake each other or stem from the session before;
- one packet layout is written and read in five places and three languages;
- the offline tools look at the same day with windows of their own (slices, prefix
  sums, binary searches, interpolated ranks), and people choose parameters by them.

What makes each part correct, in a sentence: no sequence of orders and fills takes
the exposure past the limit and no order is lost; a frame is the snapshot of one
order and no order of a well-behaved PS is dropped; live decisions are the
backtest's; orders of a backtest settle once, in order, within the rate limit;
what is sent was validated, shown and approved; what the core trades with is one
approved config within the ceilings; a log called consistent is complete, and a
mismatch was the network's doing; what a tool reports of a day is what the program
does on that day.

## 2. The modules

| Module | Models | Abstract promise | Proofs |
|---|---|---|---|
| `TradeCore` | main loop, table, risk guard, order writer | `Portfolio` | `TradeCoreProofs` |
| `RegBank`, `OrderLatcher`, `FrameBuilder`, composed by `TxTop` | the order path of the PL | `OrderEgress` | `TxProofs` |
| `TxDriver` (extends `TxTop`) | a PS that keeps to the egress sequence | | `TxProofs` |
| `EodStrategies`, `StrategyEngine` | the strategies offline and live | | `StrategyEngineProofs` |
| `DataHealth`, composed with the live strategies by `StrategyDay` | the health check | | `StrategyEngineProofs`, `BacktestProofs` |
| `TradingSession` (extends `StrategyDay`, instantiates `TradeCore`) | the main loop with its strategies | | `StrategyEngineProofs` |
| `Backtest` | the EOD engine with its risk checks | `Portfolio` | `BacktestProofs` |
| `Metrics`, composed with the engine by `BacktestDay` | minutes, drawdown | | `BacktestProofs` |
| `ConfigFile`, `Sweep` | the grid, the selection, the candidate config | | `DeploymentProofs` |
| `Regime`, composed with the sweep by `EodDay` | download, validation, label of the day | | `DeploymentProofs` |
| `ConfigFile`, `ConfigLoader` | the push and the loader | | `DeploymentProofs` |
| `Approval` | the approval workflow | | `ApprovalProofs` |
| `WireFormat` | both packets and the frame around them, everywhere they are written or read | | `ExchangeProofs` |
| `Snapshots` | `load_snapshots` | | `ExchangeProofs` |
| `ExchangeSession` (extends both) | simulator, mock, network, checker | | `ExchangeProofs` |

`Folding` models nothing: it holds the lemmas about folds, sums and flattened
sequences that the other proofs share.

`MC*.tla` gives the constants of a module their small values and is what TLC
runs. An operator commented "Variant:" is a plausible mistake in the definition
that follows it; with the variant in its place, a property of a run fails.
Definitions are named after the code where there is a name.

**TradeCore.** `pc` is the call `main` makes next: poll, strategy, risk, insert,
execute, clean, slot. `GetSnapshot`, `StrategyTick`, `RiskApprove`/`RiskReject`,
`InsertOrder`/`TableFull` and `ExecuteOrder` are one call each. The sweep
`clean_order_in_table` reads the clock once (`CleanStart`) and then visits slots one by
one (`FillSlot`, `SkipSlot`), because properties are about its middle as well. The
decision is any member of `Decisions`; `StrategyEngine` models how it comes about, and
`TradingSession` puts the two together. The clock runs on by up to `MaxDelay` at each
reading. The refinement maps in-flight slots to the set `pending` of `Portfolio`, the
settled position to `position`, and settled plus pending shares to `exposure`.

**TxTop.** One action is one clock edge with any value on the bus lines and any
readiness of the sink; the other is the asynchronous reset. The three sub-modules are
operators over the edge's inputs, as the RTL modules are wired. The registers are a set
`Fields`, and a frame is a sequence of sources (a header byte or a register), given by
`Layout`; how a value splits into bytes is left out. (`WireFormat` has the bytes.) The
history `frame` is what the sink has taken. The refinement maps the command under way to
`job` of `OrderEgress`.

**TxDriver.** The PS program for the egress sequence is not in the repository
(`execute_order` writes to stdout), so the driver has the bus tasks of
`tb_tx_top.sv` and keeps to `src/README.md:259`: the fields, then `TX_READY`, then the
doorbell. A policy says whether writes are posted, and whether `TX_READY` is read after
the fields or, which is as safe when each answer is awaited, before them. The
interconnect may hold back each channel on its own.

**StrategyEngine.** A tick is one action: the decision from the ring as it is, then the
update of the ring. Floats are exact fractions. `EodStrategies` has the same strategies
over the whole history, from `strategies.py`. `StrategyDay` adds a count of the orders
asked for and has `DataHealth` look at the same day. Neither has a specification of its
own: the caller of the tick is the main loop, and `TradingSession` puts it into
`TradeCore`'s, with the position `main.c:28` passes, the settled one, while orders of
earlier ticks may still be in flight. The history `sent_tick` says which tick each
packet stems from.

**Backtest.** `pc` is the part of the loop body: snapshot, signal, fill, mark,
settle. The statistics behind the report are kept, except the notional maximum.
`BacktestDay` adds the two arrays the loop appends to, the time and the equity at
each mark, and closes the day as `run_backtest` does: the last mark is replaced by
the settled result, and `Metrics` takes the day apart. The refinement maps the queue to
`pending` of `Portfolio`, under a limit wider by the lots of one full queue less one, for
the risk check leaves the queue out; settling at the end of the day is waiting
once more for the delay. So backtest and trading core keep the same promise, apart from
the limit.

**Sweep.** One action evaluates one candidate, and the outcome is any the engine
allows. `WriteResult`, `BuildCandidateConfig` and `EditSettings` are the files
that pass between the two commands. `Validates` is `validate_sweep_result` for
a result the sweep has written; checks that only a result written by hand can
fail are left out.

**Regime, EodDay.** `Ingest` downloads the bars up to a day in any order, with a day
twice, a close missing or something else in the row, and replaces the file only if they
are valid; the state is that file and the label. `Features` and `Percentile` are pure. A
table is a function of its dates, and sorting is said by ranks, where the code has data
frames and numpy's sort: the value at place r is one that fewer than r are below and at
least r are not above. `EodDay` starts the sweep with the label of the day.

**ConfigFile, ConfigLoader.** The config is a sequence of tokens in the order in which
`json.dumps(sort_keys=True)` writes them, and the loader's `find_value` is what `strstr`
does to it: it knows neither objects nor whether a string is a key. The file is replaced
by scp, modelled as external: it opens the file that is there, writes over it from the
start and cuts it to length at the end. While that goes on, or when it has broken off,
the file is the head of the new text and the tail of the old one (`Overwritten`), or a
part of the new one where the old was shorter. How far apart the two texts are at the
seam depends on the lengths of their numbers and names; a token is no number of bytes,
so `Shifts` says by how many tokens they may be out of step, and whether the seam may
lie within a token. `read_file` is two steps, the size and the content.

**Approval.** `pc[s]` is a stage and a step of session `s`. Every file is its
content or `None`; `latest_run.json` is modelled down to the inode, since sessions
share it and its temporary name. A session may be killed (Ctrl-C is no
`Exception`) or raise wherever the code can. `RewriteSweep` is the other command.

**WireFormat.** A packet is a sequence of bytes: `EncodeOrder` is the C writer,
`PlFrame` the frame builder's `m_axis_tdata`, `GoldenFrame` the generator's frame,
`Pack6`, `Pack7`, `Unpack6`, `Unpack7` the format strings of the Python programs.

**ExchangeSession.** The main thread's steps are `Preprocess`, `LaunchReceiver`,
`SendFrame`, `EndReplay`, `ImportChecker` and `CompareNext`; the receiver thread's
`BindPort`, `OpenLog` and `LogOrder`; the mock's `AnswerFrame`. The network is two
bags in order of sending (`feed`, `egress`) from which a datagram may be lost or
taken out of order. Files and datagrams outlive a session, threads do not: the
receiver is a daemon. `traffic` and `fresh` are histories the properties need.

## 3. What TLC checks

| Run | Bounds | Distinct states | Shows |
|---|---|---|---|
| `trade_core` | table of 3, fill delay 3, 4 ticks, 5 decisions | 946,929 | exposure and settled position within the limit; totals equal to the slots; no order lost; fills in submission order; `Portfolio` implemented; every tick completes |
| `tx_path` | 2 registers of 1 bit, 4-byte frame | 40,480 | each write takes effect once, at the edge that completes its pair; every frame is one order (`OrderEgress`), under reset and backpressure |
| `tx_driver` | as above, 3-byte frame, three policies | 38,356 | no order dropped or mixed, whether the PS checks after the fields or awaits each answer; every order delivered |
| `trading_session` | ring of 3, table of 2, fill delay 3, 6 ticks, 3 quotes, lots of 2 for a limit of 3 | 803,016 | the ring is the latest history; live decisions are the backtest's; the health check counts them, and its suggested threshold gives that many; what is sent is those decisions, less the ones the limits refuse when all earlier orders count as filled, however the clock runs; the defensive strategy sends nothing |
| `backtest` | 5 snapshots, gaps 0, 2, 3, queue of 2, session of 3 minutes | 1,975,480 | orders settle once and in order; books follow fills; rate limit in every window and below the health check's burst; overshoot of the position bounded; `Portfolio` implemented under the wider limit; minutes and drawdown are the whole day's |
| `approval` | 2 sessions, 2 start times, 1 rewrite, 3 results | 1,629,936 | nothing unapproved sent; reports, log, run directory and pointer consistent |
| `sweep` | grids of 4, 2 and 1 candidates, 2 settings, 4 outcomes; markets of 5 to 7 bars | 28,022 | a day's label is its rank among the days before; first best wins; grid lexicographic; refused exactly when stale; the candidate is what the loader is written for |
| `config_loader` | 2 configs, 11 other texts, 1 push that stops at any token, in step or a member ahead | 553,016 | a core that trades is within the ceilings, whatever text it read; one that read an approved document, or what there was of it, has just that config; a whole approved config is accepted |
| `exchange` | 2 sessions, 1 disturbance, 4 slices of up to 3 messages | 187,383 | a consistent verdict means a complete log; a mismatch takes the network; the backtest reads the day that was replayed; all copies of the formats agree; every session ends |

Some properties have named parts: `LiveFollowsHistory` is `RingHoldsLatest` and
`DecidesAsBacktest`; `FilesAgree` is `FinalReportAgrees` (the report
tells how the run ended) and `LogFollowsStages`; `MetricsAgree` is `MinutesAddUp` and
`DrawdownIsWorstFall`; `HealthAgrees` is `HealthCountsSignals` and
`SuggestionMeetsTarget`. Type invariants are checked in `trade_core` and proved
where a theorem needs them.

Three more runs end in a counterexample. Each is a disagreement between the code
and its documents:

| Run | The code | The text |
|---|---|---|
| `regime_collapse` | `percentile_classifier.py:64` takes the percentiles of the history up to the day itself, so on a market that swings more widely every day each day is volatile | `src/README.md:573`: with percentiles "a single-label output becomes impossible" |
| `regime_in_sample` | `percentile_classifier.py:56` ranks the day among the whole history up to and including itself; there is no calibration window | `src/README.md:600`: the window must sit "entirely before the earliest day classified"; 619 and 620: percentiles "over calibration window"; 627: a trailing window, applied "to the next, out-of-sample window" |
| `config_mix` | `config_loader.c:130` looks each key up by its name and checks nothing of the text as a whole, so a push that breaks off over the last config can leave a mixture that is accepted | `src/README.md:13`: "Only an approved configuration is loaded for the next trading session." |

Others were met and need no run:

- `risk_guard.c:31` discards the in-flight count, so the loaded `max_in_flight_orders`
  limits nothing, and only a full table stops the core; `src/README.md:502`: the check
  rejects an order that would exceed the limit before it is inserted;
- mean reversion sells at the ask and buys at the bid (`strategy_engine.c:47`, against
  `types.h:20`; listed in `sweep.py:26`); the position check of the backtest leaves
  orders in flight out and that of the core does not (`sweep.py:30` lists it;
  `OvershootBounded` says what it costs);
- `--calibration_window` is 20 days by default (`ingest_validate_eod.py:94`), against the 60
  of `src/README.md:604`, and nothing but the depth of the history that is demanded
  depends on it;
- the core exits when the feed ends, with orders in flight unsettled
  (`market_data.c:95`, against the outcome record of `src/README.md:504`);
- `opt_int` takes a string for an absent value, so an ill-typed `max_in_flight` is the
  ceiling (`config_loader.c:68`, against "any type violation exits",
  `config_loader.h:6`);
- a `send` that raises leaves `approved_config.json` behind (`workflow.py:283`, against
  "A failed stage emits no config", `src/README.md:684`);
- `check_order_log` imports `checker1` (`ExchangeSimulator.py:201`), which is not in
  the repository: as it stands every replay ends in an import error. The model has
  that outcome and the one with the module present;
- `verify_session_stream` compares ID, quantity and price: not side or symbol, nor
  records after the last frame. `verify_session` prints "consistent" after a mismatch,
  too, and does not see missing orders (`checker.py:18`, whose docstring says
  "exactly"); nothing calls it;
- orders still on the way when the simulator ends are lost with its daemon thread
  (`src/README.md:710`: it "captures every order packet");
- a failed `preprocess` leaves its frames and times beside the book file of the slice
  before, and `load_snapshots` notices only when the sets of rows differ;
  likewise message and order-book rows are held to be aligned when there are as many
  of each;
- a failed download leaves the validated bars of the day before; days without a close
  are not counted in the depth that is validated; the label depends on `--start`.

**Why the bounds are enough.** The table has three slots, so that one can be reused
while an older and a younger order are in flight, and a fill delay longer than one tick,
so that several orders are. Limits are so low that two orders meet and three break them,
and signs are mixed. The ring of three is wrapped twice, and the thresholds are
met exactly. Two registers and two words are enough for a mixed order to differ from
every sent one; the frame is longer than one byte at each side of a register. The rate
window, fill delay and gaps are chosen so that orders fall exactly on the boundary,
which `<` and `<=` tell apart. Two sessions suffice for the files they share, which hold
no counts. Documents are cut at every token and inside each, and a push stops at every
token of the old text. The minutes of the backtest begin after the first snapshot may
come and end before the last. The markets of the regime rise, tie and swing, so that a
day meets either threshold exactly. The session's lot is two thirds of its limit, so
that whether an earlier order counts decides over the next one, and its fill delay is
several ticks, with a table that fills up. The slices of the exchange have a sound one
of two and of three messages, one that breaks off in the middle and one whose book has a
row too few; IDs and quantities differ in each byte. One disturbance is enough for a
mismatch, and two sessions for stale files and stale datagrams; `ExchangeProofs` has the
two verdicts for any number of either.

Bounds named BOUND in a constant's comment have no counterpart in the code: `MaxDelay`
(the scheduler), `Gaps` and `MaxLot` (data), `MaxTears` of the loader, `RunIds` and
`MaxRewrites` of the approval, `MaxSessions` and `MaxDisturbances` of the exchange. `MaxTicks` of TradeCore and TradingSession is
`MARKET_DATA_MAX_TICKS`.

**Deadlock** is checked for the order path, which runs for ever. The other systems
stop: the feed ends, the day ends, the sessions are over.

**Fairness.** `TickCompletes` assumes weak fairness of the loop's next step: a single
thread that is not stopped goes on. It does not assume that another tick
starts. `EveryOrderDelivered` assumes that the interconnect shows an issued
access, that the PS takes a response, that the sink takes a byte, each infinitely
often but on different edges if need be, and that the PS goes on with an order it
has begun. Without the first three AXI promises nothing. Stalls are
arbitrarily long but finite. `SessionEnds` assumes weak fairness of the main
thread, which is straight-line code that waits for no datagram and for no other
thread; nothing is assumed of the receiver, the mock or the network.

## 4. What is proved

TLAPS checks these for every value of the constants that satisfies the modules'
assumptions (which TLC evaluates in every run). "Every" below means any table, ring
and queue size, any limit, delay, day and length of session, any number of steps.

- **TradeCore**: `TypeOK`, `ExposureBounded`, `TotalsAgree`, `SettledBounded`,
  `NoOrderLost`, `FillsFollowSubmission`; `WireMatchesTable`, `NoOverdueOrder` and
  `LeavesOnlyByFilling`, which no run repeats; and `ImplementsPortfolio`. The parts of
  the inductive invariant are at the end of `TradeCore.tla`.
  `ExposureInv`: between guard and insert the decision still fits, because nothing
  fills there. `AgeInv`: orders are stamped in the order of their IDs. `SweepInv`:
  half-way through a sweep, slots behind the index hold nothing due, and an order
  older than a filled one is due and still ahead. Only `AgeInv` makes
  `SweepInv` inductive: a filled order was due, so everything older is. `WireInv`
  follows a decision from the table to the packet, which are written from different
  variables. `PrefixInv` is why the settled position is bounded although
  nothing checks it: the packets are a history of the position, the exposure was within
  the limit after each of them, and between sweeps the filled orders are the first so
  many packets. Within a sweep they need not be, and there the bound is not claimed.
- **TxTop**: types, `AnsweredWhenPaired`, `WritesTakeEffectOnce`,
  `ReadyOnlyWhenFree`, `StableUnderPulse` (the latter two are the reasons the
  refinement holds) and `ImplementsOrderEgress`. The invariant ties the FSM's
  state to the histories of accepted halves, excludes a command during a frame,
  and says that the bytes sent are the prefix of the frame up to the counter.
- **TxDriver**: `NoOrderDropped` and `LatchesWholeOrder`, for every delay of every
  channel and every length of frame, of a PS that reads `TX_READY` after it has written the
  fields, or awaits each answer (`SafePolicies`).
  The invariant `DriverInv` reads the write under way and the registers as they will
  be once it has come through (`Landed`): `OneAccess` says no two accesses overlap,
  `Writing` that what has landed is what the PS wants and the doorbell comes last,
  `Grants` that from the check to the doorbell nothing makes the path busy.
- **StrategyEngine**: `RingHoldsLatest` by modular arithmetic about the write index;
  from it `DecidesAsBacktest`: the ring leads momentum to the fraction, and mean
  reversion to the sum, that the backtest takes from the whole history, cold start and
  wraparounds included.
- **TradingSession**: `SendsWhatBacktestSignals`. Strategy and risk guard are given the
  settled position, which lags behind by what is in flight; but settled and pending
  shares together are those of all packets (`ExposureIsSent`), whichever of them have
  filled, so the guard approves exactly what is admissible after the packets sent
  (`GuardAdmits`). `PacketInv` says that every earlier tick was decided that way, and a
  later tick leaves its signal and its sum as they were. The defensive strategy, the only
  one that reads the position, begins with none and so never sends (`DefensiveIsIdle`).
- **StrategyDay**: `HealthAgrees`. Momentum's count is a count of the same
  crossings; for mean reversion a difference of prefix sums is the sum of a
  window, so that the two sides are counted over the same rows; and a suggested threshold
  is the n-th largest magnitude, which as many rows reach as have that rank or a
  better one.
- **Backtest**: types, `EveryOrderSettles`, `OvershootBounded`, `BooksFollowFills`,
  and that a marked snapshot leaves nothing due (`NoneOverdue`). The invariant has the
  queue as a suffix of the log, its times in order, and for each order in it how far
  past the limit it can still take the position (`Room`); the books are then the sums
  over the filled part of the log. `RateNeverExceeded` rests on `Window`:
  the code's window holds the end of the log, all that is younger than the last
  evicted entry, and times never decrease; so any stretch that ends at an accepted
  order lies within the window as it was when that order was accepted, and the code
  has counted that. `ImplementsPortfolio`, step by step: an accepted order finds at most
  `MaxInFlight - 1` orders waiting, each of at most `MaxLot` shares, so the position
  committed to stays within the wider limit; a fill takes the oldest order, which has
  waited for the delay because the queue is in order of time, and renumbers the rest.
  From the abstract steps alone it follows that what settling would leave at any
  moment is bounded as well (`CommitmentBounded`).
- **BacktestDay**: `BurstBoundsRate` and `MetricsAgree`. `Bursts` gives every
  acceptance in the window a snapshot of its own in that window (`Spread`), and the
  health check counts the snapshots. `Curve` says which marks exist, and that
  the last one is the settled result; the minutes then add up because each starts where
  the one before it ended, and the drawdown because the running peak is
  the highest mark so far.
- **Sweep**: `WinnerIsFirstBest`, by `Scan`, which says the same of the part of the
  list evaluated so far. `GridIsLexicographic`: extending a list of points by one axis
  puts the point of (i, j) at `(i - 1) * n + j`; the place of a point is followed from
  axis to axis, so the order of the places is the lexicographic order of the
  choices. `RefusedOnlyWhenStale` and `CandidateIsDeliverable` rest on `SweepStory`: the
  results are those of the first points of the grid under the settings the sweep was
  started with, whatever the settings are now; and the number of points of a grid, which
  the approval computes as a product, is the number the axes give.
- **Regime, EodDay**: `LabelIsRank`, which says what the classifier computes and not
  what `src/README.md:619` wants of it (run `regime_in_sample`). The file holds the bars
  up to some day, sorted, whatever the order of the download (`RegimeInv`), and the row
  of a day depends on no later bar. A value reaches the percentile interpolated between
  two ranks exactly when it reaches the upper one, since no value lies between the two
  but they themselves (`ReachesRank`, `BetweenIs`, `PercentileIs`); so the comparison of
  `classify_market_regime` is a count of days. `DaySweep`: the label is always one the
  sweep has a strategy for, so what is proved of `Sweep` holds on the composed day.
- **ConfigLoader**: `WithinCeilings` by `Kept`: what is loaded is in range, since
  `Accepts` lets nothing else through, and the getters have returned just that so far,
  since nothing is loaded twice. `TradesAsApproved` and `ApprovedIsAccepted` are about
  the text: a document is 57 tokens long whatever the config, each key of the
  loader stands in it once, and `strategy_id` stands last; so a part of a document
  either has no `strategy_id` and is refused, or is the whole of it but for the end of its
  last string (`AsWritten`). `LoaderStory` ties what is loaded to the text that was
  read. Neither theorem says anything of a text that is no part of one document: of a
  mixture only `WithinCeilings` is proved, and `config_mix` shows one being traded with.
- **Approval**: `TypeOK`, `SentWasApproved`, `FilesAgree`, `RunIsOneStory` and
  `LatestTruthful`, for any number of sessions, start times and rewrites. `Ownership`:
  every run directory belongs to one session, which made it, and a start time nobody
  has used has left no file. `Story` is what the files of a directory say wherever its
  session was stopped, `Progress` what they say of one that goes on, by the stage it
  is in. `PointerInv`: the temporary file is never the inode that `latest_run.json`
  names, and for sessions that follow one another it is that of the session at work.
- **WireFormat**: packing and unpacking are inverse for Table 7
  (`OrderSurvivesTheWire`) and Table 6 (`MessageSurvivesTheWire`), the mock's answer has
  the fields of the frame (`MockEchoes`), and the C writer's bytes are Python's
  (`WriterUsesTable7`), for every value of the fields. TLC's integers end at
  31 bits, these theorems cover all 32.
- **Exchange**: `ConsistentMeansComplete` by counting (`NothingFromNowhere`): while
  nothing foreign is under way, log, socket and both channels together hold no more
  datagrams than were sent; a consistent verdict has read as many records as the file
  has frames, so nothing is left anywhere else. `MismatchMeansDisturbed` by order
  (`InOrderSoFar`): undisturbed, log, socket and channels put in a row are the answers
  to the frames sent, in order, and by `MockEchoes` each answer matches its frame.
  `BacktestReadsTheDay`: the files are numbered as the rows were (`FilesAreOfTheDay`), so
  the loader's sets agree and its join finds row i for message i; rounding half to
  even is monotone, so a quote that was not crossed is not crossed after it.
  `FormatsAgree`: the frame builder's header and the generator's are joined from the same
  pieces in another order; folding the carry back in leaves the sum of the words modulo
  65535, so that the constant in the RTL is the checksum that Python computes; and
  `FramesInv` says that the bytes `Unpack6` does not read are the same in every frame.

**Induction over data.** The library's induction theorems take an operator as a
parameter, which the provers cannot instantiate. `Folding` proves what is needed without
them: the hypothesis is a set, a set of subsets has a minimal member, and a property
whose counterexamples have no smallest one has none. From it come the existence of the
functions that `MapThenFoldSet` and the recursive functions choose (without which
nothing follows from their definitions), and sums over disjoint unions, intervals and
images.

**Only model-checked.** Liveness (`TickCompletes`, `EveryOrderDelivered`,
`SessionEnds`), since the prover has no fairness or ENABLED. Each invariant, action
property and refinement that a passing run checks is a theorem.

## 5. Assumptions and what is left out

- Floats are exact (fractions, or a whole part with nothing, a half or something
  tiny). Live and offline code use different widths; a ratio exactly at a
  threshold may go either way in the program. Numbers too large for an `int` and
  settings too small for a `float` are left out.
- In a session the position starts at zero and the strategy is that of the
  config for the whole process (`main.c:17`, `main.c:24`), so the defensive strategy
  always sees zero and holds (`strategy_engine.c:56`). Were a session ever to begin with
  a position, its orders for one settled position would add up while they are in flight
  and could cross zero, against "allow only position-reducing orders toward flat"
  (`src/README.md:465`); no state of the program as it stands does.
- Neither an operator nor a regime is named like a key of the loader
  (`ConfigAssumption`; the sweep's three labels are not); otherwise `find_value` would
  read the member after the name.
- scp writes the config in order over the file that is there and cuts it to length at the
  end (section 2). In a mixture the seam lies at the same token of both texts or as far
  apart as `Shifts` says, and a number that is a bit of both has one digit of each.
- `latest_run.json` is claimed to be truthful for sessions that do not overlap.
  Overlapping sessions share its temporary file, and nothing promises more.
- UDP loses datagrams and lets them overtake each other; it does not duplicate
  them.
- Report texts, Markdown, log lines, hashes (a hash is the content), time stamps and
  the float arithmetic of Sharpe ratio and volatility are left out; volatility is
  an operator parameter of `Regime`, on which nothing depends but the order of its
  values.
- TLC's integers have 31 bits; field values of more are left to the theorems.

**Not modelled**, and why:

- the receive path of the PL, the TEMAC and the PHY: documents only, no code;
- HOLD mode and the rate limit of the core: the documents have them, the code has not;
- the prices of `market_data.c`: a pseudo-random walk, and any quote is an input;
- parsing in `load_settings`, `report_markdown`, the checks of
  `validate_sweep_result` that only a file written by hand fails, the other rows of the
  health report (notional, spread, percentiles), `view_bin.py`, receive time stamps
  and the pacing of the replay: sequential code that parses, formats or
  sleeps, where an example says as much as a model;
- `verify_session`: nothing calls it with orders of a session.

## 6. What could follow

Sweep, approval and loader in one module, so that what the core trades with is the
winner the operator saw: today the candidate of `Sweep` and the approved config of
`ConfigLoader` meet in `ConfigFile` (`CandidateIsDeliverable` is what `ConfigAssumption`
asks for), and `Approval` carries a result whole.
