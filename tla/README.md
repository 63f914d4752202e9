# Formal models of the Kalshi trading bot

TLA+ models of the parts of `src/` that decide whether a simulated order is
placed, how its money is accounted for, and what stops it; the TLC runs that
check them on small instances; and TLAPS proofs of the properties that matter
most, for every value of the constants. Paths are relative to `src/`;
`kalshi_bot/` stands for `src/kalshi_bot/`.

Money and probabilities are floats in the code, integers here. A strategy, a
price series or a language model is a nondeterministic choice: the models keep
who may act, in which order, on which state, and what a failure leaves behind.

## 1. The system

| Component | State it keeps | Operations | Talks to | Hard about it |
|---|---|---|---|---|
| Paper broker, `execution/paper_broker.py` | `_cash`, `_positions`, `_quotes` in memory; one `SimulatedTrade` row per trade | quote, order, settle, restore | the session its caller commits | cash is never stored: recovery recomputes it |
| Paper run, `execution/orchestrator.py` with `prediction_adapter.py` | run row, audit events, the adapter's `_open_by_asset` and `entry_blocked` | preflight, reconcile, cycle, heartbeat, report | database, exchange listing, signals | a commit per step, a crash, signal or failing write between any two |
| Legacy loop, `scripts/run_paper_trading.py` | guards, throttle and panel in memory; rows committed per cycle | settle, ask the gate, enter | paper broker, guards | one gate answer for a whole cycle; exits in mid-cycle |
| Guards, `risk/*guard.py`, `risk/entry_throttle.py`, joined by `risk/emergency_control.py` and `web/control_state.py` | peaks, daily sum, streak, panel | equity, trade, ask, resume, reset, arm, kill | the loop, the dashboard's panel | lazily rolled days, latched and unlatched halts |
| Emergency ledger, `risk/governance.py`, and console, `execution/operator_cli.py` | append-only `emergency_halt_records` | halt, resume, status | all processes over one database | read, decide, write later |
| Lifecycle governor, `risk/governance.py` | append-only transitions per scope | promote, demote | promotion gate | rungs, and a state that has none |
| Trading council, `agents/coordinator.py`, and boundary, `agents/admission.py` | attempts, policy, budget ledger, decision | review, call, repair, policy, revise, master, resume | models in a thread pool; the paper adapter | deadlines, late answers, stale policy, resume |
| Perpetual paper adapter, `execution/perp_paper.py`, `perp_adapter.py` | position rows and their events; `_open_by_asset` | open, step, close, funding, reconcile, evaluate | orchestrator, mark reader | some operations commit, some flush, a rejected order rolls back; runs crash |
| Strategy laboratory, `scripts/run_strategy_lab.py`, and sports adapter, `execution/sports_paper.py` | one adapter and broker per account, one table for all | start, reconcile, evaluate, end | paper broker | accounts share what a broker restores from |
| Backtest engine, `backtest/engine.py`, and broker, `execution/backtest_broker.py` | cash, positions, settlements, trade rows, queued entries, guards | one timestep: exit, settle, fill, mark, decide | guards, strategy | the order inside a timestep; a fill that is capped or voided |
| Capture, `data/public_trades`, `data/l2`, `data/perps`, `data/brti` | one table per feed; the loop's memory of the last reading | poll, backfill, capture estimates | exchange | pages that fail, deaths between commits, resumption |
| Dashboard jobs, `web/operations.py` | jobs, threads, history file, engine handle | start, run, load, launch | threads, child processes | restart with threads under way, unlocked check and launch |
| Order tracker, `execution/order_tracker.py` | orders, file | register, fill, cancel, reconcile | tests only | not modelled, section 8 |
| Sports data, discovery, candle archive, strategies, reports of backtests, storage, live clients, dashboards, AI text | rows and files | batch work and I/O | | out of scope, section 8 |

What makes each modelled part correct:

- *Broker*: cash equals what the trade history implies; memory agrees with the
  table; nothing is overdrawn; a committed trade is settled once and is final.
- *Paper run*: no order fills before every admitted asset is reconciled, nor
  beside an open position of its asset; a run row moves forward and agrees with
  its audit trail; a stop ends the run.
- *Guards and loop*: a limit that was reached keeps entries out until a person
  acts; every guard means what the history of calls says; the answer of the gate
  is still true when an order fills; the throttle's cap holds.
- *Emergency ledger*: however processes interleave, a halt ends only when a
  process that has read one commits its resume, a real check having found nothing
  unresolved; the halt that ends is the one read, unless it was recorded since.
- *Council*: a take rests on the specialists' current verdicts; given verdicts
  stand; the first round can be paid; no hanging model hangs a review.
- *Perpetual positions*: every open position is remembered by the process that
  may open another; a risk exit never loses more than the collateral; a row is
  the sum of its events; what was committed as closed is final.
- *Accounts*: what was settled is settled for good. That an account's capital is
  its own is claimed and false, section 6.
- *Backtest*: money is conserved along every path of a position; no trade uses
  the bar it was decided on; trade rows and broker tell the same story.
- *Capture*: nothing is stored twice, gaps are exactly the jumps, and every hole
  has a cause outside the loop.
- *Dashboard jobs*: a job whose own saves succeed comes to an end the operator
  sees; a written outcome is never changed, and leaves the history only for newer
  jobs or when a restarted dashboard could not read the file.

## 2. Modules

| Module | Models | Uses |
|---|---|---|
| `Totals` | the running total of a loop, as a recursive function | |
| `PaperTrades` | rows, prices, fee, settlement, recovery, as operators | `Totals` |
| `PaperLedger` | abstract: what a reader of the database is promised | `PaperTrades` |
| `PaperBroker` | the broker; implements `PaperLedger` | `PaperTrades` |
| `PaperRun` | orchestrator and prediction adapter | |
| `EmergencyLedger` | the durable halt and the operator console | |
| `HaltAndRun` | composition of `PaperRun` and `EmergencyLedger` over one database | `PaperRun`, and `EmergencyLedger` by `INSTANCE` |
| `LifecycleLedger` | the lifecycle governor | |
| `GuardRules` | the four guards as operators on their state | |
| `EmergencyControl` | the guards behind one gate with the panel, and a log of calls | `GuardRules`, `Totals` |
| `TradingLoop` | the legacy loop | `GuardRules` |
| `Council` | coordinator, thread pool, boundary | `Totals` |
| `PerpRules` | cost, liquidation and exit rules of a perpetual position | |
| `PerpPositions` | the perpetual adapters of a run over one session | `PerpRules`, `Totals` |
| `PaperAccounts` | several prediction accounts and a sports account over one table | `PaperTrades` |
| `Backtest` | the replay engine with its broker | `GuardRules`, `PaperTrades` |
| `FeedCapture` | four polling loops and two captures of funding | |
| `DashboardJobs` | jobs, history file and engine process of the dashboard | |
| `TotalsProofs` | lemmas on running totals, and induction over a set of numbers | `Totals` |
| `PaperProofs` | theorems on the broker, the paper run and its composition with the ledger | `PaperBroker`, `HaltAndRun` |
| `HaltProofs` | theorems on the emergency ledger and on the legacy loop | `EmergencyLedger`, `TradingLoop` |
| `RecordProofs` | theorems on the capture and on the dashboard's jobs | `FeedCapture`, `DashboardJobs` |
| `EmergencyControlProofs`, `CouncilProofs`, `PerpPositionsProofs`, `BacktestProofs` | theorems | the module in their name |

Every proof module uses `TotalsProofs`. One that covers two components extends
both, so the specifications there have names of their own (`BrokerSpec`,
`LoopSpec`, `JobsSpec`, `BothSpec`), and so have their initial conditions and
next-state relations.

`MC*` modules give the constants their values. A definition commented
"Mutant:" is a variant of the definition below it with a plausible bug; it is
used to confirm that the property it is listed with in `PROJECT.json` would
notice, and is part of no specification.

### How the modules correspond to the code

**PaperBroker.** `rows` is the table as the session sees it, `disk` as committed.
`PlaceOrder` is `place_order` with its chain of rejections as the conjuncts of
`Accepts`; a rejected order changes nothing. `SettleMarket` is `settle_market`;
`Restart` is `__init__` with `_restore_open_positions`, which computes cash from
the rows by code separate from the code that spends it. `Commit` is the caller's.

**PaperRun.** Each action is the code between two commits. `p` is the memory of
the process (orchestrator and adapter), lost in `Crash`. Market `<<asset, n>>` is
the asset's n-th window. `FaultInEvaluate`, `FaultInLoop` and `FaultOutsideLoop`
are a database write that raises at the three places where the code treats it
differently. The legacy loop may have left several open rows of one asset, which
`Init` allows.

**EmergencyLedger.** A command reads the newest row (`RequestHalt`,
`RequestResume`), checks health (`CheckHealth`), inserts (`DraftHalt`,
`DraftResume`: SQLite's driver opens the transaction here, so there is one
`writer`) and commits. `Checks` are the health checks a caller may pass: "fresh",
which looks, and "clean", the console's, which finds nothing. `proc[q].read` is
the length of the ledger when `q` read it, so that a property can tell the halt
a resume names from the halt it ends.

**LifecycleLedger.** `Promote` and `Demote` compare the state they read with the
target by `Rung`, the position in `_ORDER`; `Commit` appends the drafted row.

**GuardRules, EmergencyControl, TradingLoop.** Guards are records and each method
is an operator from record to record; day and windows are counted in ticks, the
drawdown compared exactly in percent. `EmergencyControl` calls them in any order
and keeps a `log` which only the properties read: they define from the log what
each guard ought to say. `TradingLoop` runs them inside the cycle of the script.

**Council.** `job` is the life of a call in the pool: queued, working, answered
or failed, then collected, or abandoned (a worker still has it) or lost. A
verdict is a stance (decision and severity), whether it is usable
(`parse_status`), and its attempt. Every repair, fallback, revision and resume of
the coordinator is a branch of `Parse`, `Revise` or `Review`. `artifacts` is what
a later process finds as the last attempt of a role in the sorted result.

**PerpRules, PerpPositions.** Prices are whole ticks and money is counted in
`1/Scale`, so that no figure is rounded; only the liquidation price is, away from
the position, and `RiskExitsAreCovered` allows for that tick. `work` is what the
session sees, `disk` what is committed: a filled order (`Fills`), `ApplyFunding`
and a reconciliation commit, `Step` leaves its exit to `Commit`, a refused order
(`RollsBack`) throws away whatever the session holds, as the adapter does. `StepDecision` is
`evaluate_perp_step` with its order of halt, missing mark, liquidation, bracket.
The bracket, which the caller of `step` passes, is the one of the fill. The
catalogue and funding conditions of the admission may refuse at any time, which
is the entry not being made. `EvaluateCarry` is the two-leg carry, which asks
neither the reconciliation nor the admission. `Event` keeps the events that carry money.

**PaperAccounts.** An action is one call of an adapter, which commits before it
returns. `mem[a]` is the adapter with its broker: cash, the row it holds for each
ticker, the busy ticker of each asset. `rows` carry an `owner` for the properties
only; the table has no such column, which is the point. `ReconciledRow` is the
body of both `reconcile` methods; the sports adapter looks at every open row.

**Backtest.** One action, `Timestep`, is one pass of the loop of `run`, its five
phases applied in order to a record of the engine's state (`Replayed`). Four of
the phases are loops, over the markets in the order of their candles (`Order`) or
over the queued entries; `Walk` is such a loop as a recursive function. Candles,
strategy and sizing are chosen freely at every timestep. An exit price at which a
position leaves is the level itself, as in `_fixed_r_exit_price`; the levels of a
bracket are prices, to which `strategy/levels.py:169` clamps them. A segment of
the report is the set of the settlements it counts.

**FeedCapture.** One behaviour follows the processes of one `kind` of capture.
The exchange lists observations (possibly one second late); a source answers part
of them, and `Taken` is the body of the loop for one reading: read back what is
stored on the first, skip a duplicate, note a gap, add a row. `Polls` is a tick
with its commit or an interrupt after any reading. `missed` is a history of what
a failing page or the page cap withheld and what appeared too late.

**DashboardJobs.** `Begin` and `Finish` are the two locked halves of `_run`, with
the subprocess between them. Each of them and `Submit` changes the jobs and then
writes the history (`Save`). A write that raises leaves the file as it was; in
`Submit` it keeps the thread from starting, in `Begin` it ends the thread, and
the job stays pending with its thread "lost". `Load` takes a history it cannot
read for an empty one (`unread`, until the next save replaces the file). `Stop`
takes the memory and the daemon threads, not the engine. `AskEngine` and
`LaunchEngine` are the unlocked halves of `PaperProcess.start`.

## 3. Runs

| Run | Instance | What it shows |
|---|---|---|
| `paper_broker` | 2 markets, 3 trades, 2 quotes (one without a bid), quantities 1 and 2, 146 cents | cash, positions and rows agree through every crash and restart; commits refine `PaperLedger` |
| `paper_run` | 2 runs, one asset that may fill (3 windows) and one in shadow, 1 mishap | reconciliation precedes and gates every fill; run rows and trails agree; stops are obeyed |
| `emergency_ledger` | 2 processes, 2 sources, both checks, 4 rows | resumes name halts; a halt ends by the resume of a process that read a halt and checked, and is the one read unless another came since |
| `guards` | 4 calls over 4 ticks (2 days), 4 equities, 3 results | each guard says what the log says; trips hold until a person acts |
| `trading_loop` | 3 markets, 4 ticks, 1 restart | the gate's answer stays true; the throttle holds |
| `council` | 3 specialists (bull, bear, one critical), pool of 2, budgets 5 and 7, 2 processes | takes are earned; given verdicts stand; reviews end |
| `perp_positions` | 2 assets, 2 orders and 2 carries (long, short, one of each over the cap), 5 marks, 2 runs, 2 processes | open positions are held, exits covered, rows equal their events, closed is final |
| `backtest` | 2 markets, 6 timesteps, 4 candles, 2 sizes, throttle of 1 | money is conserved, trades are causal, rows tell the settlements |
| `feed_capture` | 2 feeds (3 and 1 observations), 3 seconds, pages of 1, commits of 2, 2 processes | nothing twice, gaps exact, holes explained |
| `dashboard_jobs` | 2 commands, 3 jobs, a history of 2, 2 restarts, 2 faults (failing saves, unreadable histories), 1 engine | jobs with working saves end; outcomes are kept |
| `lifecycle_paper`, `lab_accounts` | 1 scope; 2 prediction accounts and a sports one, 3 markets | each refutes a sentence of the documents, section 6 |

Why the bounds suffice. The interesting cases are named by the hazards in
`PROJECT.json`, and each needs few actors: two trades of one market plus one of
another make a market settled and traded again; a bankroll of 146 pays for about
two stakes, so the fee decides; three windows let the legacy loop leave two open
rows beside a third market that may fill; one mishap at every place of two runs
is every single failure, before or after every commit; two processes and four
rows allow halt, trigger, resume and a late resume; four calls over two days
reach every limit (limits are 2) and cross midnight; a pool of two with three
calls has a call that queues behind a hanging one, budget 5 leaves one role
unpaid, budget 7 pays all and not always a revision and a master (3 tokens), and
a second process resumes with every subset of what the first produced. The
perpetual marks stand on both sides of stop, target and liquidation of a long and
of a short, and one jumps by more than the gap limit; the second asset's order is
always rejected, so a rollback can meet the first one's uncommitted exit, and two
processes are a crash and a restart of the same or of another run. The backtest's
candles reach the stop and the target, leave the entry band, are dead or thin,
and six timesteps leave room for a decision, a wait, a fill and an exit before
either close. With pages of one, three trades exceed the cap of two and share or
do not share a second; two processes die or end between the commits of two rows.
A history of two is shorter than three jobs, and two faults let
an unreadable history meet a failing save, and a failing save another. The
proofs of section 5 remove the bounds where they exist.

Deadlock is not checked in runs whose model stops at its bounds; each cfg says
which. `paper_broker` checks it.

## 4. Fairness and liveness

- `PaperRun`: weak fairness of `ProcessStep`. The run is one foreground thread
  without waits other than sleep; while the process lives it steps on. Nothing is
  assumed of windows, results, signals or faults. `StopIsObeyed` needs no more.
- `EmergencyLedger`: weak fairness of the commands of each process, which run in
  the foreground to their end. No property of its runs needs it; the temporal
  counterexamples hold under it.
- `HaltAndRun`: the fairness of the run.
- `Council`: weak fairness of the coordinator's thread only. No worker and no
  model is fair: `ReviewEnds` holds although every model may stay silent,
  because `future.result` has a deadline. A repair, a revision and the master call
  are each one step of that thread: that they return is assumed.
- `DashboardJobs`: a thread that was started begins, a subprocess ends (it is
  killed after an hour, `operations.py:127`), and the operator starts the
  dashboard again. `JobsEnd` needs the three; nothing is assumed of the engine,
  of new jobs or of restarts, which may come at any moment up to their bound, nor
  of saves and loads, which may fail. A job whose own first two saves raise is
  excepted by `JobsEnd` itself: its thread is lost and it stays pending.
- The other modules are safety only: whoever calls them may stop.

## 5. What is proved

TLAPS checks, without a bound on any constant:

| Theorem | Statement |
|---|---|
| `PaperProofs!TypeCorrect`, `CashIsTheHistory`, `PositionsAreTheRows`, `SpendsOnlyItsCash` | the four invariants of `paper_broker` |
| `PaperProofs!BrokerImplementsLedger` | `PaperBroker` refines `PaperLedger` |
| `PaperProofs!PaperRunTypes`, `ReconciledStaysClosed`, `EndedRunsHaveTheirTrail` | the three invariants of `paper_run` |
| `PaperProofs!FillsAreAlone`, `FillsFollowReconciliation` | its action properties `NoFillBesideOpen` and `ReconciledBeforeFill` |
| `PaperProofs!NeitherDisturbsTheOther`, `RunsAreSafeBesideTheLedger` | the composition takes only steps of the run and of the ledger; what holds of the run holds in it |
| `HaltProofs!LedgerTypes`, `ResumesNameHalts`, `HaltsEndAsRead` | the properties of `emergency_ledger` |
| `HaltProofs!ThrottleCapsEntries`, `EntriesFollowTheGate` | the invariant `ThrottleHolds` and the action property `GateIsCurrent` of `trading_loop` |
| `HaltProofs!TradingLoopTypes` | the types of the legacy loop |
| `EmergencyControlProofs!EmergencyControlTypes`, `TrippedPanelsStayHalted`, `LossGuardsAreRight`, `DrawdownIsRight` | the four invariants of `guards` |
| `CouncilProofs!CouncilTypes`, `TakesAreEarned`, `RoundsArePaidFor`, `ResumesKeepVerdicts` | the safety properties of `council` |
| `PerpPositionsProofs!PerpTypes`, `OpenPositionsAreHeld`, `ClosedStaysClosed`, `FiguresFollowTheAudit`, `RiskLossesAreCovered` | the five properties of `perp_positions` |
| `PerpPositionsProofs!OneOpenPositionPerAsset` | a restart, which remembers one position per asset, forgets none |
| `BacktestProofs!BacktestTypes`, `ReplayConservesCash`, `ReplayIsCausal`, `RowsFollowTheBroker` | the four invariants of `backtest` |
| `RecordProofs!CaptureTypes`, `NeverTwice`, `GapsAreExact`, `HolesHaveReasons` | the four invariants of `feed_capture` |
| `RecordProofs!OutcomesStay` | the action property `OutcomesAreKept` of `dashboard_jobs` |
| `RecordProofs!DashboardTypes` | the types of the dashboard |

The assumptions are those the modules state about their constants: limits are
positive and a pause comes before a halt (`LimitsAssumption`), bands, candles and
sizes are natural numbers, closing times lie in the window, a bracket's levels
are prices (`BacktestAssumption`), and so on. TLC evaluates each of them on its
run. Each inductive invariant named below was checked by TLC on the run of its
module before it was proved.

**Totals.** Cash, fees, daily losses and token budgets are sums over lists, which
the models write as one recursive function. `TotalsProofs` derives its recursion
equations from the definition, and from them what appending an amount, changing
one, or shifting the start does to the total. The library's induction theorems
take an operator and cannot be instantiated by the installed provers, so
`SetInduction` states induction over a set, and a set is built for each use;
`LeastNat` is the existence of a least number, for `Least`, `First` and the
deques.

**Broker.** The recovered bankroll is a recursive function of the table, so each
step must be followed through the recursion: appending a row adds its effect
(`RestoredAppend`), settling one changes the total by the difference
(`RestoredChange`), and that difference is the payout (`SettlementMovesPayout`).
The invariant adds to the checked ones that the committed table is itself sound
(at most one open row per market, a bankroll that is not negative): that is what
a crash falls back to. Refinement reuses it: a commit appends and settles, a step
without a commit leaves `disk` alone.

**Paper run.** That a fill is alone rests on four things which no single step
keeps: the process knows for each asset whether what it remembers is closed
(`VerdictsHold`), everything the reconciliation has passed in its order is closed
(`PassedRowsAreClosed`), the row of a run moves with the process that lives
(`RowsFollowTheProcess`), and every fill is on the trail, or about to be, or a
write has failed (`FillsAreRecorded`). A crash anywhere leaves rows of earlier
runs behind; they come under the same conjuncts because none of them names a run
except the live one. `EndedRunsHaveTheirTrail` adds that the live run has not
reported until the row is all that is left to write (`ReportsFollowTheProcess`).

**Emergency ledger.** What a process has read may be stale when it writes, so
neither property is inductive. `Sound(p)` says what survives: the ledger only
grows, hence a halt that was on record when read is on record at the same place
(`IsHalt(p.read, p.seen)`) at the commit. With `WriterCommits` (the writer and
only the writer is about to commit) and `IdsBounded` this is inductive. For
`HaltsEndAsRead`, the place is the end of the ledger as it was read: if nothing
was written since, the row at that place is the newest one, and the halt that
ends is the one the resume names. `Clean` adds that a resume on its way to the
commit has found nothing, if its check was a real one. The theorem assumes nothing of
`Checks`; what the console's check makes of it is in section 7.

**Guards.** The properties define from the whole log what a guard ought to say;
the guards keep a deque, a total and a count. The invariant says what is lost
without harm. For the drawdown (`PeaksCover`): the deque holds calls, in time and
strictly falling, and for every call the window still reaches it holds one at
least as late and as large, so its front is the maximum of the window. For the
day (`DailySound`): the total is the running total of the trades of the guard's
day, a day that reached the limit is halted unless a resume lifted it, and no
other is. For the streak: the count is the number of losses since the last win.
`TripsHold` then relates each call that reached a limit to the panel, which only
a person clears.

**Council.** The decision looks at reason codes computed earlier.
`PolicyIsCurrent` says that their absence, at the moment of the decision, still
implies the conditions on the verdicts as they are: only a revision changes
verdicts after the policy, and it is followed by the policy once more. The
first-round policy that a revision is entered with is protected by nothing,
which is why the invariant speaks of stage "decide" only. The other invariant,
`Rounds`, is that the roles asked cost at most the budget at their maximum: the
reservation loop is a recursive function of its own (`Reserved`), and its lemma
says that what it grants never exceeds what it was given.

**Perpetual positions.** The adapter refuses a second order by its memory alone,
so `OpenIsHeld` must survive every way in which memory, session and disk come
apart. The invariant relates them by one relation, `Continues(old, new)`: no row
is lost, an entry keeps its facts, a closed row is final. The session always
continues the disk (`SessionContinues`), so what is open in it is open there
(`NothingReopens`); a rejected order, which throws the session away, therefore
reveals no position the adapter had not remembered. `Sound` adds, for session
and disk, that no run has an asset open twice: that is what lets `Start`, which
keeps one index per asset, restore all of them. An order of no contracts would
have no liquidation price, so `Sound` also carries that every row has some
(`PositionsAssumption`; perp_adapter.py:279 refuses it). `ClosedStaysClosed`
follows because every step of the disk is itself a `Continues`. For the figures,
`AuditTells` is a property of a pair of rows and events, of session and disk
alike: the sums of the events of a row are its figures, an open row has no exit,
and a risk exit is covered. A rollback and a crash replace one such pair by the
other, so only the operations that write need an argument.

**Backtest.** A timestep is five loops in a row, and what holds between them
holds in no state: after the closes of an instant are settled, its entries have
not filled. `WalkLeads` turns each loop into a family of sets of engine states,
one per element handled; each phase has a lemma that says where it leads, and
`ReplayIsSound` chains them. The sets are those of `Sound(x, s, t)` and
`Queued(x, s, t)`, whose two times are that of the last fills and that of the
last closes. They add to the checked properties that a row entered at `s` can
only leave later, that an entry waits for a market with no row and waits once,
and that a bracket exists only for a position; without the last a close would
copy another market's settlement. That a bracket exit never costs more than it
brings (`FeeIsSmall`) is what keeps cash from being negative.

**Legacy loop.** The gate answers once for a whole cycle. Its answer is still true
when an order fills (`AnswerHolds`) because only a settlement, an equity or a new
day feeds the guards: the first two happen before the gate is asked, and rolling
the day once more within a day changes nothing. The throttle keeps a deque from
which it drops old entries; `DequeIsTheEnd` says that the deque is the end of
what the process filled and that what it dropped is out of the window for good,
so its length bounds what the window holds (`ThrottleHolds`), time being ordered
along the fills. `CommittedRowsStay` is what a crash in mid-cycle needs: a market
that a commit recorded is recorded in the session too, so the restart opens none.

**Capture.** The checked properties speak of the table of a feed; the invariant
states them of a log and a memory (`Once`, `AreTheJumps`, `AllExplained`), whether
the log is what is committed or what the session holds. `Remembers` is the link:
what the loop keeps of a feed is the newest time stored, and for trades the
identities stored at that time, which is all it needs to recognise a reading it
has seen. Each conjunct survives one more row as the body of the loop adds it; a
tick is a walk over its readings, by induction on their number, since a run may be
interrupted after any of them. A commit leaves the log as it is, and a death cuts
it and forgets the memory; the next process derives the same memory from what
it finds. A late listing is the one event outside the loop that makes a hole, and
it is `missed` at once.

**Dashboard jobs.** The history file holds the last `KeepJobs` jobs, memory holds
all, and after a failing save the two differ. `FileIsKnown` relates them by job,
not by place: memory has every job of the file, an ended one with the same
outcome (`Known`), or, when the file could not be read, none of them (`Apart`):
jobs are numbered as they were accepted (`NumberedInOrder`), so those of a
dashboard that started without its history have newer numbers. A job with a
thread is pending (`ThreadsArePending`), so no thread writes over an outcome.
`SaveKeeps` is the step all three operations share: a save that raises leaves the
file, one that succeeds writes the end of a list that knows the file, whose
outcomes are then kept or have given way to `KeepJobs` newer jobs
(`SavingKeeps`), or is the first after an unreadable history, which is the one
exception the property names. A restart reads the file and ends what it finds
pending, which disturbs no outcome.

**Composition.** Every step of `HaltAndRun` is a step of one side that leaves the
other alone, hence a step or a stutter of each; the safety of the run is lifted
along it. That the ledger does not stop a run is section 7.

Only model-checked: liveness (`StopIsObeyed`, `ReviewEnds`, `JobsEnd`), which the
prover does not reach. Every invariant and every action property of a passing run
is a theorem. Two models have none: `LifecycleLedger` and `PaperAccounts`, whose
runs refute a sentence (section 6). What a recursive definition computes for every
input, as a closed formula, is not proved either: the theorems use the recursion
step by step.

## 6. Findings

Each is a sentence of the repository that a run refutes; the quotes are in
`PROJECT.json`.

1. `lifecycle_paper`: a blocked scope has no rung, so `demote` may name "paper"
   as its target, without gates (`risk/governance.py:409`).
2. `lab_accounts`: a broker restores every paper row of the table, whichever run
   wrote it (`execution/paper_broker.py:83`). An account of the laboratory that is
   built while another holds a position takes over that position and its cost,
   against "no account's sizing observes another's"
   (`scripts/run_strategy_lab.py:8`).
   The run's third account is a sports one, which `scripts/run_paper.py` starts over
   the same table (the laboratory refuses that domain, `run_strategy_lab.py:151`);
   the finding needs the two prediction accounts only.

## 7. Divergences seen while modelling

Read from the code, each stated where it matters in a module or hazard. The
first group has a cfg that shows it; they are run by hand and TLC is expected to
report the property named as violated:

- `MCEmergencyLedgerCause.cfg` (`StatusKeepsFirstCause`): a second trigger during
  a halt replaces source, reason and time in `status()`
  (`risk/governance.py:112`), against the comment at `:141` that the first cause
  is not lost.
- `MCEmergencyLedgerCause.cfg` with `HaltsUntilTheirResume` as its `PROPERTY`:
  `storage/models.py:1224` says a halt lasts until a resume with its id;
  `status()` looks at the newest row's action only, so a late resume of an older
  halt lifts a newer one, which its check did not cover.
- `MCEmergencyLedgerCause.cfg` with `ResumeRefusesUnreconciled` as its
  `INVARIANT`, in place of the `PROPERTY`: the console passes `HealthCheck.clean`
  (`execution/operator_cli.py:195`), while `scripts/operate.py:16` says resume
  refuses if unreconciled.
- `MCHaltAndRun.cfg` (`NoFillWhileHalted`): a paper run fills while the ledger
  says halted; only the console constructs `GlobalEmergencyControl`
  (`risk/governance.py:24` says the adapters and the orchestrator call it).
- `MCEmergencyControlSnapshot.cfg` (`SnapshotAgrees`): `snapshot()` names a method
  without calling it (`risk/emergency_control.py:104`), so a daily halt is not
  shown.
- `MCPaperRunStop.cfg` (`NoFillAfterStop`): after a stop signal the rest of the
  cycle may fill (`execution/orchestrator.py:379`).
- `MCCouncilResume.cfg` (`DisputedIsHeld`): an unresolved disagreement holds only
  in the process that revised; a resume with the revised verdicts may take
  (`agents/coordinator.py:220`).
- `MCBacktest.cfg` with `ExitsWerePrinted` as its `INVARIANT`: a bracket exit fills at its level
  although the whole bar traded below it (`backtest/engine.py:852`), while
  `execution/backtest_broker.py:6` promises to understate and never overstate.
- `MCDashboardEngine.cfg` (`OneEngine`): two requests, or a restart of the
  dashboard, launch two paper engines (`web/operations.py:159`), while
  `openspec/changes/trader-dashboard-experience/specs/trader-operations-workflow/spec.md:44` asks to prevent
  duplicate launches.
- `MCDashboardEngine.cfg` with `RunningJobsRun` in place of `OneEngine`: a save that
  raises after a job was marked running ends its thread (`web/operations.py:124`);
  the job is shown as running and the next of its name is refused until a
  restart, while `:132` promises an operator-visible failure.
- `MCPaperAccountsFail.cfg` (`ReconcileEnds`): a row that another account wrote
  after this account's broker was built is found open by its reconciliation, the
  broker answers nothing, and formatting that nothing raises
  (`execution/prediction_adapter.py`, `execution/sports_paper.py:147`).

The second group has none:

- A fill is committed by the adapter and audited by the orchestrator: a crash in
  between leaves a position without a "fill" event. `EndedRunsAreAudited`
  therefore speaks of ended runs without faults.
- An exception inside the loop ends the run row as "completed".
- After a failed write nobody rolls the adapter's session back; the run goes on
  with errors (`wedged`).
- `DrawdownGuard.reset` keeps the all-time peak: the next equity below the halt
  line halts again.
- The legacy loop arms its panel at each start (`run_paper_trading.py:140`) and
  starts with fresh guards. The panel is an object of its process: the kill
  control of a dashboard in another process does not reach it, though
  `docs/paper-operations.md:103` tells the operator to use it.
- The council budget does not cover repairs, unusable answers or what an earlier
  process spent, and `total_timeout_seconds` is not read by the coordinator.
- Two accounts of one ticker: a broker's positions keep the last row only, so the
  earlier one is never settled by it.
- Reconciliation of a perpetual position takes the quote's own time as the
  present (`execution/perp_adapter.py:201`), so the age test described at
  `execution/perp_paper.py:552` compares it with itself. `scripts/run_paper.py`
  makes a fresh run id each time, so a killed run's positions are never restored;
  nothing but tests calls `step` and `apply_funding`; funding has no identity and
  may be applied twice; a take profit beyond a gap fills at the better mark, where
  `execution/perp_paper.py:288` says the worse of two.
- A closed perpetual position blocks its asset until the next reconciliation.
- A backtest decision with a stop and no target is sized by that stop and then
  held without it (`backtest/engine.py:371`, `:447`).
- A market that closes drops out of the trade source's list, so what traded since
  the last poll is lost; the source's docstring says a new ticker gets its most
  recent page, the code reads up to `max_pages`.
- The first save of a dashboard that could not read its history replaces the
  history (`web/operations.py:94`): `OutcomesAreKept` names it as its exception.
  `start()` refuses a second job of a name only while the first is "running", not
  while it is "queued".
- A repair and a revision share attempt number 2; a revision the budget skips
  has attempt 1. The first, unusable answer of a repaired role is not recorded.

## 8. Not modelled

- *Order tracker*: used by tests only; fills carry no identity, so a repeated one
  is counted again up to the requested quantity.
- *Prices, strategies, signals, sizing, reports and walk-forward of backtests, the
  promotion gate*: float computations without interleaving; they enter as whether
  an order is wanted and fills, or as evidence.
- *Discovery, sports data, candle archive, provenance*: idempotent batch
  transformations over stored rows.
- *Capture process of the dashboard*: the same unlocked start as the engine.
- *Live clients*: signing, HTTP and websockets, behind flags that keep them off.
- *Council transport (A2A), persistence, evaluation, rollout*: the coordinator's
  behaviour does not depend on them; the A2A task life cycle is a candidate.
- *Dashboards, reports, AI text, settings, migrations*: reading and formatting.
- In the modelled parts: wording, hashes, payloads, the `ops` audit rows of the
  console, and prices and sizes that the council's boundary only tightens.

## 9. Plan

What is left, most valuable first:

1. **Accounts**: which promises survive the shared table. What one account
   settled stays settled for every other is the candidate for a theorem.
2. **A second domain of `PaperRun`**: the orchestrator over the sports or the
   perpetual adapter, composed from `PaperAccounts` and `PerpPositions`.
3. **A2A tasks and the council lifecycle**; **`OrderTracker`**, once something
   besides tests uses it.
