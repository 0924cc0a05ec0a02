---------------------------- MODULE DecisionPath ----------------------------
(***************************************************************************)
(* From raw inputs to a verdict: settings files and environment, the       *)
(* answers of the terminal and the reply of the LLM vendor go through      *)
(* load_settings, the adapters and mappers, the strategies, the provider,  *)
(* the planner and the rules, as run_agent.py and the first cycle of a new *)
(* process put them together (its ledger is empty, so that review() and    *)
(* check() agree).  The properties compare the verdict with the raw        *)
(* inputs, across all conversions.  RiskCheck's own steps stay possible.   *)
(***************************************************************************)
EXTENDS RiskCheck, Strategies, Provider, Observation, Settings, FiniteSetsExt

(* What the process starts with and reads: files, env, terminal, reply and *)
(* symbol; the registered strategies.                                      *)
CONSTANTS Inputs, StrategyList, NoInput

ASSUME PathAssumption ==
    /\ NoInput \notin Inputs
    /\ \E i \in 1..Len(StrategyList) : StrategyList[i] \in MeasureMoveParams
    /\ StrategyList \in Seq(MeasureMoveParams \union {NullStrategy})
    /\ \A e \in Inputs :
        e.symbol \in STRING /\ e.reply \in Reply /\ e.terminal \in Terminal

VARIABLE origin     \* the input of the decision on show, if it has one

pathVars == <<case, approved, origin>>

SettingsOf(e) == Loaded(FileValues(e.files), e.env)

(* main() gets as far as wiring the agent.                                 *)
Starts(e) ==
    /\ FileOK(e.files)
    /\ SettingsOK(SettingsOf(e))
    /\ RiskConfigOK(SettingsOf(e))

Configured(s) == ProviderOK(s.llm_provider, s.llm_model, s.llm_api_key)

(* An actionable proposal without a volume gets the default volume.        *)
WithVolume(p, volume) ==
    IF p.action # "HOLD" /\ p.volume = None THEN [p EXCEPT !.volume = volume] ELSE p

(* STRATEGY and PLAN: without a provider there is no planner, and it holds.*)
Plan(e) ==
    LET s == SettingsOf(e)
        direction == PrimaryDirection(StrategyList, e.terminal.candles)
        raw == IF Configured(s) THEN AnswerOf(s.llm_provider, e.reply) ELSE NoAnswer
        x == Planned(raw, direction, e.symbol)
    IN [x EXCEPT !.p = WithVolume(x.p, s.execution_default_volume)]

Decide(e) ==
    /\ Starts(e)
    /\ Observes(e.terminal)
    /\ LET cfg == ToRiskConfig(SettingsOf(e))
           c == ContextOf(e.terminal)
       IN Check(Case(Plan(e), c, cfg, cfg, c))
    /\ origin' = e

PathInit == Init /\ origin = NoInput
PathNext ==
    \/ Next /\ origin' = NoInput
    \/ case = Idle /\ \E e \in Inputs : Decide(e)

PathSpec == PathInit /\ [][PathNext]_pathVars
-----------------------------------------------------------------------------
TradedOn == Traded /\ origin # NoInput

(* A trade approved in a cycle has a breakout behind it: in the raw        *)
(* candles the latest close is beyond the high (for a BUY) or the low (for *)
(* a SELL) of every earlier candle of the lookback, and there is one.      *)
TradesBreakStructure ==
    TradedOn =>
        \E s \in {StrategyList[i] : i \in 1..Len(StrategyList)} \ {NullStrategy} :
            LET cs == origin.terminal.candles
                n == Len(cs)
                earlier == {i \in 1..(n - 1) : n - i < s.lookback}
            IN /\ n >= s.minCandles /\ earlier # {}
               /\ \A i \in earlier : IF case.p.action = "BUY" THEN cs[n].close > cs[i].high
                                                              ELSE cs[n].close < cs[i].low

(* The figures of a raw row, absent ones counted as nothing, and their     *)
(* total over an answer of several rows.                                   *)
RawFigure(row, f) == IF row[f] \in Int THEN row[f] ELSE 0
RawTotal(rows, fields) ==
    SumFunction([at \in (1..Len(rows)) \X fields |-> RawFigure(rows[at[1]], at[2])])

(* What an approved trade adds, on top of what the terminal answered, is   *)
(* inside the limits in force: count and volume of all positions, the      *)
(* day's realised result with all costs against the balance, equity in     *)
(* proportion to margin, and the quoted spread.                            *)
LimitsHoldOnTerminal ==
    TradedOn =>
        LET t == origin.terminal
            cfg == case.cfg
        IN /\ t.positions # None =>
                /\ Len(t.positions) < cfg.maxOpenPositions
                /\ case.p.volume + RawTotal(t.positions, {"volume"}) <= cfg.maxExposure
           /\ t.deals # None =>
                100 * RawTotal(t.deals, {"profit", "commission", "swap", "fee"})
                    > -(RawFigure(t.account, "balance") * cfg.maxDailyLossPct)
           /\ RawFigure(t.account, "margin") > 0 =>
                100 * RawFigure(t.account, "equity")
                    >= RawFigure(t.account, "margin") * cfg.minMarginLevel
           /\ cfg.maxSpread # None =>
                /\ t.tick # None /\ t.info # None
                /\ t.tick.ask - t.tick.bid <= cfg.maxSpread * RawFigure(t.info, "point")

(* An allowlist setting allows the trade: null, nothing but blanks, or the *)
(* symbol is on it.                                                        *)
ListsSymbol(csv) ==
    csv = None \/ Entries(csv) \subseteq {""} \/ case.p.symbol \in Entries(csv)

(* Key k of one layer of settings, if the layer sets it, allows the trade  *)
(* on what the terminal answered.  The two windows look at earlier         *)
(* decisions, which a first cycle has none of: the review that follows     *)
(* uses the set ones.  Modes, model and key limit no verdict.              *)
Allows(layer, k) ==
    k \in DOMAIN layer =>
        LET v == layer[k]
            t == origin.terminal
        IN CASE k = "risk_max_exposure" -> case.p.volume + RawTotal(Rows(t.positions), {"volume"}) <= v
             [] k = "risk_max_positions" -> Len(Rows(t.positions)) < v
             [] k = "risk_max_risk_pct" -> case.p.riskPct <= v
             [] k = "risk_max_daily_loss_pct" ->
                    100 * RawTotal(Rows(t.deals), {"profit", "commission", "swap", "fee"})
                        > -(RawFigure(t.account, "balance") * v)
             [] k = "risk_allowed_symbols" -> ListsSymbol(v)
             [] k = "risk_allowed_sessions" -> \E e \in Spans(v) : Contains(e, t.hour)
             [] k = "risk_max_spread_points" ->
                    v # None => /\ t.tick # None /\ t.info # None
                                /\ t.tick.ask - t.tick.bid <= v * RawFigure(t.info, "point")
             [] k = "risk_require_stop_loss" -> v => case.p.stopLoss # None
             [] k = "risk_require_take_profit" -> v => case.p.takeProfit # None
             [] k = "risk_min_stop_points" ->
                    v > 0 => /\ t.info # None
                             /\ Abs(case.p.entry - case.p.stopLoss) >= v * RawFigure(t.info, "point")
             [] k = "risk_min_margin_level_pct" ->
                    RawFigure(t.account, "margin") > 0 =>
                        100 * RawFigure(t.account, "equity") >= RawFigure(t.account, "margin") * v
             [] k = "risk_duplicate_window_s" -> case.cfg.duplicateWindow = v
             [] k = "risk_cooldown_s" -> case.cfg.cooldown = v
             [] k = "execution_default_volume" ->
                    origin.reply.answer.volume \in {None, Missing} => case.p.volume = v
             [] k = "llm_provider" -> v # "none"
             [] k \in {"llm_model", "llm_api_key", "trading_mode", "execution_mode",
                       "enable_live_trading"} -> TRUE

(* Every limit of the risk configuration that the operator exported binds  *)
(* every approved trade, whatever the file says, and one in the selected   *)
(* readable file binds unless it is exported too, measured on the raw      *)
(* figures of the terminal; an allowlist of null or blanks is none, a      *)
(* trade without a volume gets the default one, and no provider no trade.  *)
ConfiguredLimitsHold ==
    TradedOn =>
        LET file == Selected(origin.files)
        IN \A k \in Key :
            /\ Allows(origin.env, k)
            /\ k \notin DOMAIN origin.env /\ file.kind = "mapping" => Allows(file.values, k)

(* README: "Unknown safety-critical inputs fail closed".  Positions or     *)
(* deals that the terminal could not answer for get no trade approved.     *)
UnreadFailsClosed ==
    TradedOn => origin.terminal.positions # None /\ origin.terminal.deals # None

(* A trade has a reply behind it that was answered in full with a status   *)
(* of 2xx, has no error object in its envelope, not even next to a usable  *)
(* choice, and carries a JSON object.  Not every mark of failure counts:   *)
(* an error that is no object and a finish reason of a cut-off or filtered *)
(* text get through, as long as the text is a whole JSON object.           *)
FailedRepliesHold ==
    TradedOn =>
        /\ origin.reply.transport = "answered" /\ origin.reply.status \in 200..299
        /\ origin.reply.error # "object"
        /\ origin.reply.json = "object"
=============================================================================
