# A TLA+ verification of llm-mt5-agent

llm-mt5-agent is a trading agent for MetaTrader 5. A loop observes the market,
lets deterministic strategies produce a signal, asks a language model for a
proposal, reviews the proposal with deterministic risk rules, sends an order to
the terminal, and records what happened. This directory models the parts of it
that decide whether an order is sent, checks them with TLC on small instances
and proves the central properties with TLAPS for every value of the constants.

Paths below are relative to the repository; the package is
`src/mt5_agent/`. `PROJECT.json` maps every definition to the lines it models.

## Inventory

| Component | State | Operations | Hard behaviour | What makes it correct |
|---|---|---|---|---|
| Trade executor (`execution/executor.py`) | ledger of records by client id, constructor arguments | `execute` | retries with the same id, lost answers, late fills, crash between `order_send` and the answer | at most one order per client id; a record never misstates what the broker has |
| Risk rules and engine (`risk/rules.py`, `engine.py`, `config.py`) | none | 13 rules, `validate` | None and NaN inputs, limits met exactly | approvals stay inside the documented limits; a stricter configuration or a missing figure never approves more |
| Supervisor (`risk/supervisor.py`) | ledger of decisions | `review`, `check` | two clock readings per review, windows over the ledger | duplicate window and cooldown hold between any two verdicts |
| LLM planner (`ai/planner.py`) | none | `plan`, `validate_proposal` | arbitrary model output | a trade follows the signal inside a bracket without NaN, else HOLD |
| Watchdog (`application/watchdog.py`) | consecutive failures, tripped flag, last observation | `note_*`, `reset`, `status`, `should_halt` | order of failures, trips, resets | the loop halts at the threshold and until recovery |
| Trading agent (`application/agent.py`) | stop event, per-cycle state dictionary | `run`, `run_cycle` and its stages, `stop` | failing stages, stale observations, stop at any moment, orders invisible for a while | no second position on a side, limits over all symbols, no order without its approval, every cycle reported |
| Connection service and adapter (`application/connection_service.py`, `infrastructure/mt5/connection_adapter.py`) | connected flag, attempt counter | `ensure_connected`, `reconnect`, `disconnect`, `check_health` | terminal dying between calls, retries with backoff, failing shutdown | health only after a probe, verification never skipped, bounded waiting |
| Memory store and facades (`memory/`) | SQLite table, open transactions | `append`, `prune`, `recent`, `close` | append and prune are two transactions, failing commits, several processes | persisted rows stay until replaced, scopes stay bounded, readers do not go back |
| Terminal read adapters and mappers (`infrastructure/mt5/*`) | none | raw answers to domain records | None for an error, null, missing and non-numeric fields | limits hold on what the terminal answered; an error is not an empty list |
| Account, position, order, history and market services (`application/*_service.py`) | none | day result, sums, snapshots | missing history, costs of a deal | the figures the rules see are those of the account |
| Strategies (`strategies/`, `application/strategy_service.py`, `domain/strategy.py`) | none | `analyze`, `select_primary` | window edges, short histories, a raising strategy | a direction only with a breakout in the candles |
| LLM providers (`ai/openai_compat.py`, `gemini.py`, `http.py`, `shared.py`, `factory.py`) | none | `generate`, `create_provider` | failures in every layer of one request | a failed status, an error object or text that is no JSON object never trades |
| Settings and loader (`config/`) | none | load, validate, `to_risk_config` | precedence of environment over file, CSV lists | what the operator set is what binds |
| Programs (`scripts/run_agent.py`, `scripts/serve_dashboard.py`) | stop flag, open connection and store | start, work, signal, release | a start that fails halfway, release while handlers read | once the store is open everything is released in order; a signal ends the process |
| Dashboard and health service (`dashboard/`, `application/health.py`) | server, one thread per request | `build`, `check`, GET handlers | concurrent reads, one lock, the terminal leaving between two reads | no stale HEALTHY, every request answered |
| Logging, probe scripts | none | output | - | - |

Interaction. `TradingAgent.run` is one thread; it calls observer, strategies,
planner, supervisor and executor in turn and tells the watchdog how each cycle
ended. `stop()` comes from a signal handler. The supervisor and the executor each
keep a ledger in memory that a restart loses. The executor and the observer share
the terminal connection. The memory database is shared with the dashboard and
the probe scripts, which are other processes. In the dashboard's process the
handler threads share the connection and the store with the main thread, which
closes both without waiting for them. The terminal, the broker behind it
and the operator act at any time.

## Modules

| Module | Models | Kind |
|---|---|---|
| `OrderSubmission` | what `execute` promises per client id | abstract specification |
| `Executor` | `MT5TradeExecutor.execute`, step by step, with terminal and broker | detailed specification, implements `OrderSubmission` |
| `RiskRules` | rules, configuration, `RiskEngine.validate` | operators |
| `Planner` | `LLMPlanner.plan`, `validate_proposal` | operators |
| `Settings` | `load_settings`, `AppSettings`, `to_risk_config` | operators |
| `Observation` | adapters, mappers, services, `Observer.observe`, the risk context | operators |
| `Strategies` | strategies, strategy service, `select_primary` | operators |
| `Provider` | HTTP call, envelopes, `create_provider` | operators |
| `RiskCheck` | planner output or a given proposal through `Supervisor.check` | one case per step |
| `DecisionPath` | one whole decision from raw inputs to the verdict; composes the five modules above with `RiskCheck` | composition |
| `Supervisor` | `review`, the decision ledger and the clock | specification |
| `Watchdog` | the watchdog's methods | actions, used by `Agent` |
| `Agent` | `run`, `run_cycle`, operator, broker; composes `Watchdog`, `Supervisor` and `OrderSubmission` | composition |
| `Connection` | `ConnectionService` over `MT5ConnectionAdapter` | specification |
| `MemoryStore` | `SQLiteMemoryStore` and the scoped memories | specification |
| `Processes` | both programs from start to exit, handler threads, health checks | specification |
| `ExecutorProofs`, `SupervisorProofs`, `ConnectionProofs`, `RiskProofs`, `AgentProofs`, `MemoryStoreProofs`, `ProcessesProofs` | theorems about the module of the name; `RiskProofs` about `RiskCheck` and `DecisionPath` | proofs |
| `SumProofs` | what the sums of the community modules and running totals add up to | lemmas |
| `MC*` | instances for TLC | |

How state and actions correspond to the code:

- **Executor.** `pc` is the position in `execute`/`_run`/`_execute_live`; one
  action per gate or terminal call, so that a crash or an account switch can fall
  between any two. `ledger` is `self._ledger`; `answer` is what callers hold,
  which a crash does not erase. `wire`, `orders` and `sends` are the broker:
  an order whose answer was lost is booked later (`Deliver`) or never (`Lose`).
  `stamp` is a history of the circumstances of each `order_send`.
- **RiskRules.** A rule is the condition under which its `check` returns a
  violation. Prices, volumes, percentages and money are integers in their
  smallest unit, so the percentage of the daily-loss rule is compared times 100.
  `None` is Python's None; `NaN` is the float every comparison with which is false.
- **Planner.** An answer has an action, a raw value for each number (a number,
  null, NaN, something `float()` refuses, or no key) and a rationale that is text,
  blank or empty. All exceptions of `validate_proposal` end in the same HOLD, so
  they are one predicate. Infinity, which also parses, is represented by a
  number above all others: every comparison made here treats it as one.
- **Settings.** A layer (file, environment) is a function from the names it sets to
  values. `Loaded` is `load_settings`: environment, then file, then defaults. A CSV
  is the sequence of its entries. Only the fields that decide about trades are
  there; volumes are in hundredths of a lot, percentages whole. `SettingsOK` refuses a
  value of the wrong type, whichever layer it comes from, as the validation of `AppSettings` does.
- **Observation.** A terminal is a record of raw answers, one per call of the
  package, each None or rows of raw figures (`PositionRow`, `DealRow` and the others say which
  fields the mappers read). `Figure` is `float(x or 0)`; the
  `...OK` predicates say when mapping and the domain model's validation succeed.
  `MarginLevel` and `SpreadPoints` are rounded to the side on which an integer
  limit cannot tell the difference.
- **Provider.** A reply is what each layer yielded. Every exception becomes HOLD in
  the planner, so the module says when an answer gets through. As in the code, only
  an `error` that is an object stops one (`openai_compat.py:78`, `gemini.py:67`); an
  error of another form and the finish reason are in the reply and decide nothing.
- **DecisionPath.** `Decide` is the first cycle of a new process (empty ledger), from
  settings files to the verdict, in one step: nothing on this path keeps state. Later cycles,
  their ledger and their timing are `Supervisor` and `Agent`.
- **Processes.** `pc` is the main thread of either program. A request runs through
  its `Reads`, one entry per call into the terminal or the store: thirteen for the
  page of figures, six for the health verdict, none for the answers that are fixed
  (the page, `/health`, an unknown path, another verb, a bad timeframe). Reads of the
  store take its lock. What a call does without its source depends on where it is:
  the core calls end the request with an error state, a section or a probe fails, and
  some calls are `lost`, because the code takes None for no quote or for an empty
  list (`map_many`). The package answering None and the adapter refusing because it
  is disconnected are told apart. `up` is the environment; `seen` is a history of
  what was there during a request. A call into the terminal may hang: nothing makes
  `ReadTerminal` happen. `Leave`, the end of the process, is a step after
  `Disconnect`, so that handlers also run against a closed store and a closed
  connection. A terminal that answers has candles. `Setups` and `Asked` bound which
  programs run and what each handler is asked for.
- **Supervisor.** `request` is a proposal with its context, stamped with
  `server_time` when it is built; `Review` reads the clock again for
  `decided_at`. The clock may tick in between.
- **Agent.** One action per stage. The supervisor is the module above with the
  agent's context; the executor is `OrderSubmission` with the cycle ids as client
  ids, as `_execute_stage` passes them. The broker books, shows, drops and
  closes orders; `Latency` bounds observation to review, `Delay` bounds approval
  to the order's fate. `run`'s arguments (symbols, interval, cycle limit) are
  chosen initially. The agent assumes that `positions_get()` answers: what
  happens when it does not is `UnreadFailsClosed` of `DecisionPath`. A restart
  follows the end of the loop: in the run about positions it is that of an operator
  who first verifies positions and orders (`settled_restart`); in the run about the
  loop, orders may still be on their way. A process that dies in the middle of a
  cycle is not modelled here; `Executor` has it, between any two of its steps.
- **Connection.** `session` (the package is attached) and `link` (the terminal is
  connected to the trade server) are the environment; `connected` is the
  adapter's flag, which a failed later attempt does not clear.
- **MemoryStore.** `db` is the committed state, `txn` what the process with an
  open transaction sees. Every `record_*` and `note` method is `Append` then
  `Prune` of its scope, each with its own commit.

## Runs

Passing runs:

| Run | Shows | Bounds |
|---|---|---|
| `executor` | `AtMostOneOrder`: retries, crashes, late fills never give a client id a second order. `RefusedNeverSent`, `SuccessIsBooked`: REJECTED and simulated records exclude an order, SUCCESS guarantees one. `SentPassedGates`: everything sent was approved, directional, and on a demo account unless live trading was allowed. `AnswersAreFinal`: a client id's answer never changes. `CallsReturn`. `ImplementsOrderSubmission`: refinement | two client ids, all deployments that the code tells apart. The state is finite without further bounds; two ids are enough to interleave one call with the late fate of another, as no step looks at more than one key. The gate for blank ids is left to the proof |
| `risk_rules` | `ApprovedWithinLimits`, `PlannedTradesFollowSignal`, `TighteningNeverApproves`, `UnknownFailsClosed` on single proposals; `TradesBreakStructure`, `LimitsHoldOnTerminal`, `ConfiguredLimitsHold`, `FailedRepliesHold` on whole decisions, which compare the verdict with the raw inputs across all conversions. `ConfiguredLimitsHold` has a clause for every setting that `to_risk_config` maps, and for the default volume and the provider: a limit lost between file, environment and rule is a violation. Of the two windows, which a first cycle cannot meet, it says that the review uses the ones set. `FailedRepliesHold` says what the code stops (see below for what it does not) | families of inputs that vary together what one rule, mapper or decoder looks at, at, below and above each limit; every raw form of each LLM field; lookback 3 with one, two and four candles, so that the window edge is met from both sides. A volume of NaN is left out of the decisions: `risk_nan_volume` is about it |
| `supervisor_ledger` | `DuplicatesApart`, `QuietBeforeApproval` across the two clock readings | three reviews of two symbols, clock of 7: window (3) and cooldown (2) both run out between the first and the last |
| `agent_positions` | `NoPyramiding`, `PositionsWithinLimits` (count and exposure) | a paced loop on two symbols or two back-to-back cycles on one, three cycles with missing quotes and a settled restart between them, limits of two; see below |
| `agent_loop` | `HaltAfterFailures`, `OrdersMatchApprovals`, `PacedLoopNeverCools`, `StopEndsLoop`, `CyclesFinish` with failures, stop, recovery, and restarts with orders still open | three cycles, watchdog threshold two |
| `connection` | `OkMeansProbed`, `WaitIsCapped`, `CallsReturn` | four attempts with delays 2, 4, 8 capped at 3 |
| `processes` | `AnswersAreCurrent`: a HEALTHY verdict needs terminal, link, database and provider during this very request; a page of figures needs the terminal, and rows of memory the database. `ShutdownInOrder`: a server that accepts has its store, an open store its connection, and at the exit both are released; a start that fails before its store is open leaves at most the connection to the end of the process, with exit code 1 or an exception. `StopExits` although handlers hang. `RequestsAnswered` | both programs with and without a provider; two handlers, one asked for figures and for fixed answers, the other for verdicts, so that one can hold the lock the other or the shutdown waits for; one change of the environment, starting from every combination |
| `memory_store` | `ReturnedRowsStay`, `RetentionHolds`, `ReadsAdvance` | two writers with crossed retention, two scopes, four rows: enough to push a row out of either window |

Two of the agent's properties depend on timing, and the constants are chosen at
the edge. `NoPyramiding` needs `Latency + Delay <= duplicate window` (1 + 1 and
2 here; with `Delay = 2` TLC finds a second position), and a restart only after
the orders of the previous process are settled (with orders still open TLC finds
a second position, because the ledger is empty). `PositionsWithinLimits` is
stated for loops whose interval is longer than `Delay`: otherwise an order still
on its way is in no observation of the next cycle. With the defaults, a 600 s
window and a 60 s interval, both leave ample room, and both are worth knowing
when the settings are changed. `PacedLoopNeverCools` is stated for a loop without a
cycle limit: with one, `run()` returns without the last pause, and a caller who
resets the watchdog and runs again at once meets the cooldown of the last cycle.
The attempt to prove it without that premise failed there, and TLC shows the case.

Violation runs, each a disagreement between the code and what the repository says:

| Run | Says | Does |
|---|---|---|
| `executor_failed_certain` | `domain/execution.py:24`: SUCCESS, REJECTED and FAILED are certain | DONE without an order number ends FAILED: the record's own constructor refuses SUCCESS without a ticket |
| `executor_guided_retry` | `executor.py:144`: reconnect, then retry with the same client_id | the FAILED record is in the ledger, so the retry is answered from it and never tried |
| `risk_nan_volume` | `docs/risk/rules.md:13`: current plus proposed volume within the limit | NaN passes `_opt_float` and the comparison of `MaxExposureRule` |
| `decision_unread` | `README.md:147`: unknown inputs fail closed | `positions_get()` or `history_deals_get()` answering None becomes an empty list: no positions, a day result of 0, and the trade is approved |

Further disagreements met while modelling, without a run of their own:

- `docs/risk/rules.md:11` and `:16` say the daily-loss and spread rules abstain
  when the figure is unknown; the code rejects (and `UnknownFailsClosed` relies
  on it).
- `docs/phases/phase-11.md:31` and `docs/operations/dashboard.md:22` say that the
  dashboard's day P&L is None without history. As in `decision_unread`,
  `history_deals_get()` answering None becomes an empty list, `_day_pnl` raises nothing and
  the floating profit alone is shown as the result of the day. In `Processes` this is
  the call `LenientSection` that is lost once the terminal has left after the core reads;
  `AnswersAreCurrent` therefore says nothing of such lists.
- `ai/planner.py:5` and `docs/operations/hardening.md:30` say that any LLM failure
  degrades to HOLD. An `error` that is no object (a string, say) beside a usable choice
  is passed over (`openai_compat.py:78`, `gemini.py:67`), and a finish reason that
  says the text was cut off or filtered (`openai_compat.py:87`, `gemini.py:76`) is stored
  and never looked at, so a whole JSON object with either mark still trades.
- A restart empties the decision ledger, so the duplicate window of
  `docs/risk/rules.md:19` does not span it.
- `watchdog.py:3` names execution failures; `_execute_stage` reports every record
  as an OK stage, so FAILED and UNKNOWN executions never count.
- After an attempt that connected but probed unhealthy, a failed later attempt
  leaves `is_connected()` True without a terminal (`connection_adapter.py:67-84`).
- The dashboard's day P&L is realised plus floating (`dashboard/provider.py:115`), the
  risk gate's realised only (`account_service.py:35`): the figure shown beside
  `max_daily_loss_pct` is not the one compared with it.
- `loader.py:65` says it never raises for missing files; a file named by argument or
  `MT5_AGENT_CONFIG` that is missing raises `FileNotFoundError` (line 70).
- `market_probe` of `serve_dashboard.py:62` reports DEGRADED for a snapshot without
  candles, but `map_candles` raises for one, so the probe is UNHEALTHY instead.
- With a negative balance the daily-loss limit changes sign;
  `TighteningNeverApproves` therefore asks for a balance that is not negative, and
  no property covers the other case.

## Fairness and assumptions

- `Executor`: weak fairness of the steps of a call in progress. Every terminal
  call of the MetaTrader5 package returns, fails or times out, and the thread runs
  on. Nothing is assumed of the broker, the operator, crashes or restarts.
- `Connection`: weak fairness of the steps of a call, for the same reason
  (`timeout_ms`, `time.sleep`).
- `Agent`: weak fairness of the agent's own steps only. The clock is not fair, so
  `StopEndsLoop` shows that the pause ends on the event and not on its timeout.
- `Processes`: weak fairness of the main thread and of a started query of SQLite.
  Nothing is assumed of calls into the terminal or of clients, so `StopExits` holds
  while handlers hang. `RequestsAnswered` has its own premise, `HandlersRun`: the
  handler threads run on (weak fairness), and one that waits for the lock gets it in
  the end (strong fairness). Python's lock is not a queue, but it is held for
  one short query and the page polls every `dashboard_refresh_s` seconds, so it is free
  most of the time.
- `Supervisor`, `RiskCheck`, `DecisionPath` and `MemoryStore` are checked for safety only.
- `CHECK_DEADLOCK FALSE` in the runs of the agent and of the programs: they end.

Assumptions of the models: the wall clock does not run backwards (both window
rules pass over records from the future by design); client ids are not used again
by a later process (the agent passes a fresh uuid per cycle); the operator does
not log the terminal in to another account between the account check and
`order_send` (`SwitchAccount` says where; the executor re-reads nothing, so
`SentPassedGates` is false without it); the powers of the backoff factor are
floats in range; the volume of an open position is not NaN, as the terminal
reports it. The agent's executor answers do not include simulated ones: dry runs
have no positions to bound.

## Proofs

All proofs are for arbitrary constants that satisfy the assumptions named, and
TLC evaluates those assumptions in the runs. Every invariant and every action
property of a passing run is stated by a theorem.

- **ExecutorProofs** (`ConstantsAssumption`). `TypeCorrect`, `AtMostOnce`,
  `RefusalsAreTrue`, `SuccessIsTrue`, `GatesGuardSends`, `Finality`, `Refinement`.
  None of the safety invariants is
  inductive alone: that a key has at most one order follows only from knowing that
  a key is sent at most once, that it is sent only while neither ledger nor
  earlier processes know it, and what each step of a call in progress has already
  established. The inductive invariant relates `ledger`, `answer`, `wire`,
  `sends`, `orders`, `stamp` and `pc` per key; the refinement maps a broker
  booking to `Reach` and a record to `Answer`, everything else to a stutter.
- **SupervisorProofs** (`SentinelsAssumption` and the assumption on contexts and
  proposals). `SupervisorTyped`, `VerdictsAreSpaced` and `ApprovalsComeAfterQuiet`:
  duplicate window and cooldown for any configuration, contexts and symbols. The
  strengthening says that ledger times are ordered and not later than the clock,
  and that a pending request's `server_time` is between the last verdict and now;
  without it the rules' "ignore the future" clauses could skip entries.
- **ConnectionProofs** (`RetryPolicyAssumption`). `ConnectionTyped`,
  `ConnectionSafe`, `WaitingIsBounded`. The strengthening says what each step has
  established (flag, probe, attempt number).
- **RiskProofs** (`SentinelsAssumption`, `RawAssumption`, `InputsAssumption`,
  `PathAssumption`), about every single case and every whole decision.
  `VerdictFits` is the invariant: the verdict belongs to a well-formed case, and a
  case with an origin is the one its files, environment, terminal answers and
  reply lead to. Types carry through the path in four lemmas: validated settings
  give a configuration (`ConfigFits`), any reply gives a proposal (`PlanFits`), any
  terminal gives a context (`ContextFits`), and so any decision is well formed
  (`DecideIsWellFormed`). `TighteningIsSafe`, `FailsClosed` and `PlansFollowSignal`
  then need one monotonicity step per rule; `FailedRepliesNeverTrade` and
  `TradesNeedBreakout` go back to the layers of the reply and to the candles
  (`PrimaryBreaks`). `TerminalLimitsHold` compares the verdict with the raw rows:
  the exposure and the day's result that the services add up are the totals of the
  raw fields (`ExposureIsRaw`, `DayPnlIsRaw`), and the roundings of the margin level and of
  the spread do not move a comparison with a limit (`MarginKept`, `SpreadKept`).
  `ConfigurationBinds` says the same of what the operator wrote, setting by setting
  (`InForceAllows`), down to the raw margin, quotes and stop distance
  (`MarginOfCycle`, `SpreadOfCycle`, `StopOfCycle`).
  `LimitsHoldForNumbers`, `TerminalLimitsHold` and `ConfigurationBinds` except a
  volume of NaN, the exception the run `risk_nan_volume` exhibits.
  `ConfigurationBinds` also assumes that None is not a set of strings: TLA+ is
  untyped, and an allowlist that is None means no restriction.
- **AgentProofs** (`AgentAssumption` and those of the modules it composes).
  `BaseInv` says what each stage has established about decision, request and
  observation, that counters agree, that an unfinished cycle has no order yet, and
  that orders map one to one to approvals in the ledger (the map is an existential
  in the invariant; each step exhibits the next one). It yields `AgentTyped`, `HaltsInTime` and
  `OrdersAreApproved`, with restarts whether orders are settled or not. Three further invariants
  bring in time. `PaceInv`: the cooldown of every verdict is over when the next
  context is built (`PacedLoopTrades`). `SidesInv`: a position that is live and
  not in the observation is young enough for the duplicate rule to find its
  approval (`SidesStayApart`). `LimitInv`: no order is under way when a cycle
  observes, so that the observed count and exposure are at least those of all live
  positions (`PositionsBounded`).
  `SidesStayApart` assumes that restarts wait for settled orders, that
  `Latency + Delay` fits into a duplicate window, and that the window is not 0, which
  switches the rule off. `PositionsBounded` assumes the first of these, that
  proposals have no NaN volume, and that `run` is not called again at once after
  one with a cycle limit (a failed strategy stage lets the cycle trade and still
  counts as a failure, so `reset` and a new `run` may follow while the order is on its way).
  Each of these is needed: without it TLC finds a second position or a limit
  passed on a small instance; for NaN, `risk_nan_volume` is that run.
- **MemoryStoreProofs** (`KeepAssumption`). `StoreTyped`, `PersistedRowsStay`,
  `RetentionBounded`, `ReadsNeverGoBack`, for any processes, scopes and retentions. The invariant is stated of
  the committed state and of the open transaction alike: a commit makes the
  second the first, and a rollback the reverse. A row that is gone has at least the
  smallest retention of its scope in newer rows, and everything left in its scope is newer.
  The lemmas on `Top` (`TopAtMost`, `TopAtLeast`, `AboveTop`) say what
  `ORDER BY id DESC LIMIT n` keeps.
- **ProcessesProofs.** `ProcessesTyped`, `RepliesAreCurrent`, `ReleaseIsOrdered`,
  for any number of handlers, setups and kinds of requests. The invariant ties every
  call of a request that neither failed nor can be lost to what was there since the request
  began, and the position of the main thread to what is open.
- **SumProofs.** What a recursive function computes is beyond induction here, since the
  library's induction theorems cannot be instantiated. The lemmas take a smallest
  counterexample instead (`HasMin`, `HasSmallestSubset`): they show that a recursive sum exists,
  is a number, agrees on equal summands, and grows with its set.
  `Exposure` and `DayPnl` are thereby proved to be the totals of their lists, and are not
  assumed to be numbers.

Only model-checked: liveness (`CallsReturn` of the executor and of the connection,
`StopEndsLoop`, `CyclesFinish`, `StopExits`, `RequestsAnswered`), because reasoning
about fairness and ENABLED is outside what the prover does, and the four violation runs.

## Not modelled

Logging (`logging_utils.py`, output only), the probe scripts (each calls modelled
services once), prompt and page wording, JSON layout, token costs, row contents of
the memory, prices after slippage, `trade_results`, `triage` and the confidence of
signals, which no decision reads, and a signal that arrives before its
handler is installed (Python's default ends the process). Floats are integers in their
smallest unit; rounding errors are not modelled.

## Plan

Written first, because an order sent twice or without approval is the worst this
program can do: `OrderSubmission`, `Executor`; `RiskRules`, `Supervisor`;
`Watchdog`, `Agent`; then `Planner`, `Connection`, `MemoryStore`. Then the inputs of
a decision, `Settings`, `Observation`, `Strategies`, `Provider`, composed in
`DecisionPath`, and the two programs, `Processes`.
The proofs followed the same order, and every invariant and action property of a
passing run has its theorem. What is left:

1. A theorem that splits `TerminalLimitsHold` by rule: of the limits, only those
   that compare a volume depend on its not being NaN.
2. A second, abstract specification between `Supervisor` and `Agent` (what a
   review promises), so that `SidesStayApart` need not unfold the rules.
3. The hazards of `PROJECT.json` that no property covers; each has a note.
