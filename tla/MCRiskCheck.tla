----------------------------- MODULE MCRiskCheck ----------------------------
(***************************************************************************)
(* Bounded inputs for RiskCheck and DecisionPath, in families.  Each       *)
(* varies together the figures that some rule or conversion combines, on   *)
(* both sides of every limit and exactly at it, and keeps the others at    *)
(* values that pass.                                                       *)
(***************************************************************************)
EXTENDS DecisionPath, TLC

P0 == [action |-> "BUY", symbol |-> "EURUSD", volume |-> 1, riskPct |-> 1,
       entry |-> 10, stopLoss |-> 8, takeProfit |-> 14]
C0 == [account |-> [tradeAllowed |-> TRUE, equity |-> 100, balance |-> 100,
                    marginLevel |-> None],
       positions |-> <<>>, spread |-> 1, point |-> 1, serverTime |-> 10, hour |-> 9,
       dayPnl |-> 0, recent |-> <<>>]
G0 == [maxRiskPct |-> 1, maxDailyLossPct |-> 3, maxOpenPositions |-> 2, maxExposure |-> 3,
       allowedSymbols |-> None, allowedSessions |-> {[start |-> 0, end |-> 24]},
       maxSpread |-> None, requireStopLoss |-> TRUE, requireTakeProfit |-> TRUE,
       minStopPoints |-> 0, duplicateWindow |-> 4, cooldown |-> 2, minMarginLevel |-> 100]

(* LLM answers: the action and the bracket in every order and kind of      *)
(* value against every signal, then the other fields at and beyond their   *)
(* limits.  A number of 99 stands for Infinity: above every finite one.    *)
R0 == [action |-> "BUY", entry |-> 10, stopLoss |-> 8, takeProfit |-> 14, volume |-> 1,
       riskPct |-> 1, confidence |-> 50, rationale |-> "text"]
PriceAnswers ==
    {[R0 EXCEPT !.action = a, !.entry = e, !.stopLoss = s, !.takeProfit = t] :
        a \in {"BUY", "sell", "hold", "WAIT"}, e \in {Missing, None, NaN, Junk, 0, 10},
        s \in {None, NaN, 8, 10, 14}, t \in {None, NaN, 8, 10, 14, 99}}
FieldAnswers(volumes) ==
    {[R0 EXCEPT !.action = a, !.volume = v, !.riskPct = r, !.confidence = cf, !.rationale = t] :
        a \in {"buy", "HOLD"}, v \in volumes, r \in {Missing, None, NaN, -1, 1, 2, 101},
        cf \in {Missing, NaN, 0, 100, 101}, t \in {"text", "blank", "empty"}}
Answers(raws) ==
    [proposals |-> {}, answers |-> [raw : raws, direction : Direction, symbol : {"EURUSD"}],
     contexts |-> {C0}, configs |-> {G0}, known |-> {C0}]

(* Open volume, proposed volume, risk and the day's P&L.                   *)
Pos(v) == [symbol |-> "GBPUSD", side |-> "BUY", volume |-> v]
MoneyConfigs ==
    {[G0 EXCEPT !.maxOpenPositions = n, !.maxExposure = x, !.maxDailyLossPct = l, !.maxRiskPct = r] :
        n \in 1..2, x \in 2..3, l \in 3..4, r \in 1..2}
MoneyContexts ==
    {[C0 EXCEPT !.positions = ps, !.dayPnl = d] :
        ps \in {<<>>, <<Pos(1)>>, <<Pos(2)>>, <<Pos(1), Pos(1)>>}, d \in {None, -4, -3, -2}}
Money(volumes) ==
    [answers |-> {},
     proposals |-> {[P0 EXCEPT !.volume = v, !.riskPct = r] : v \in volumes, r \in 1..2},
     contexts |-> MoneyContexts, configs |-> MoneyConfigs,
     known |-> {c \in MoneyContexts : c.dayPnl \in {-3, -2}}]

(* Spread, point size, stop distance and the mandatory brackets.           *)
MarketConfigs ==
    {[G0 EXCEPT !.maxSpread = s, !.minStopPoints = m, !.requireStopLoss = b, !.requireTakeProfit = t] :
        s \in {None, 1, 2}, m \in {0, 2, 3}, b \in BOOLEAN, t \in BOOLEAN}
MarketContexts == {[C0 EXCEPT !.spread = s, !.point = pt] : s \in {None, 1, 2}, pt \in {None, 0, 1}}
MarketProposals ==
    {[P0 EXCEPT !.entry = e, !.stopLoss = sl, !.takeProfit = tp] :
        e \in {None, 10}, sl \in {None, 8}, tp \in {None, 14}}
Market ==
    [answers |-> {}, proposals |-> MarketProposals,
     contexts |-> MarketContexts, configs |-> MarketConfigs,
     known |-> {c \in MarketContexts : c.spread # None /\ c.point # None}]

(* Decision history, sessions (one overnight), allowlist, account state.   *)
Past(sym, act, ok, t) == [symbol |-> sym, action |-> act, approved |-> ok, at |-> t]
Histories ==
    {<<>>} \union {<<Past(s, a, ok, t)>> : s \in {"EURUSD", "GBPUSD"}, a \in Directional,
                                           ok \in BOOLEAN, t \in {5, 6, 8, 9, 11}}
TimeConfigs ==
    {[G0 EXCEPT !.duplicateWindow = w, !.cooldown = cd, !.allowedSessions = ss,
                !.allowedSymbols = al] :
        w \in {0, 4}, cd \in {0, 2},
        ss \in {{[start |-> 8, end |-> 10]}, {[start |-> 22, end |-> 9]},
                {[start |-> 8, end |-> 10], [start |-> 22, end |-> 9]}},
        al \in {None, {}, {"EURUSD"}, {"GBPUSD"}}}
Accounts ==
    {[tradeAllowed |-> TRUE, equity |-> 1, balance |-> 100, marginLevel |-> 100],
     [tradeAllowed |-> TRUE, equity |-> 1, balance |-> 100, marginLevel |-> 99],
     [tradeAllowed |-> TRUE, equity |-> 0, balance |-> 100, marginLevel |-> None],
     [tradeAllowed |-> FALSE, equity |-> 1, balance |-> 100, marginLevel |-> None],
     [tradeAllowed |-> TRUE, equity |-> 1, balance |-> -100, marginLevel |-> None]}
Time ==
    [answers |-> {}, proposals |-> {P0}, configs |-> TimeConfigs, known |-> {C0},
     contexts |-> {[C0 EXCEPT !.recent = h, !.hour = hr] : h \in Histories, hr \in {8, 9, 10}}]
Account ==
    [answers |-> {}, proposals |-> {P0}, known |-> {C0},
     configs |-> {[G0 EXCEPT !.minMarginLevel = n, !.maxDailyLossPct = l] : n \in 99..101, l \in {1, 3}},
     contexts |-> {[C0 EXCEPT !.account = a, !.dayPnl = d] : a \in Accounts, d \in {0, 2}}]

AllFamilies ==
    {Money({None, 1, 2}), Market, Time, Account, Answers(PriceAnswers),
     Answers(FieldAnswers({None, Missing, Junk, 0, 1, 99}))}
NaNFamilies == {Answers(FieldAnswers({1, NaN}))}
-----------------------------------------------------------------------------
(* Raw inputs that lead to an approved BUY on EURUSD: a breakout above     *)
(* three earlier candles, 3 of which the lookback covers with the latest.  *)
Donchian == <<NullStrategy, [name |-> "donchian_breakout", lookback |-> 3, minCandles |-> 2]>>
Bar(low, high, close) == [open |-> low, high |-> high, low |-> low, close |-> close, rest |-> TRUE]
Up == <<Bar(4, 6, 5), Bar(4, 5, 5), Bar(4, 5, 4), Bar(5, 8, 7)>>
T0 == [connected |-> TRUE, candles |-> Up,
       tick |-> [bid |-> 20, ask |-> 21, rest |-> TRUE], info |-> [point |-> 1, rest |-> TRUE],
       account |-> [balance |-> 100, equity |-> 100, margin |-> 0, tradeAllowed |-> TRUE, rest |-> TRUE],
       positions |-> <<>>, orders |-> <<>>, deals |-> <<>>, now |-> 10, hour |-> 9]
Answered == [transport |-> "answered", status |-> 200, body |-> "object", error |-> "none",
             finish |-> "complete", content |-> "text", usage |-> "numbers", json |-> "object", answer |-> R0]
Layer(f) == [kind |-> "mapping", values |-> f]
Export(f) == ("llm_provider" :> "openai" @@ "llm_api_key" :> "set") @@ f
Unset == NoFile.values
E0 == [files |-> [explicit |-> NoFile, fromEnv |-> NoFile, default |-> [NoFile EXCEPT !.kind = "missing"]],
       env |-> Export(Unset), terminal |-> T0, reply |-> Answered, symbol |-> "EURUSD"]

(* Candles around the edges of the lookback, for answers of both sides.    *)
Earlier == {Bar(4, 6, 5), Bar(4, 9, 5), Bar(1, 6, 5)}
Latest == {Bar(1, 9, c) : c \in {1, 3, 4, 6, 7, 9}}
Candles ==
    {<<l>> : l \in Latest} \union {<<a, l>> : a \in Earlier, l \in Latest}
        \union {<<d, a, b, l>> : d \in Earlier, a \in Earlier, b \in Earlier, l \in Latest}
SellAnswer == [R0 EXCEPT !.action = "SELL", !.stopLoss = 14, !.takeProfit = 8]
SignalInputs ==
    {[E0 EXCEPT !.terminal.candles = cs, !.reply.answer = a] : cs \in Candles, a \in {R0, SellAnswer}}

(* Terminal answers: nothing, no number, missing figures, rows that do not *)
(* map, figures at the limits of 3 positions, 4 lots and 3 % of 100.       *)
RawPosition(v) ==
    [ticket |-> 1, symbol |-> "GBPUSD", type |-> 1, volume |-> v, rest |-> TRUE]
Positions ==
    {None, <<>>, <<RawPosition(2)>>, <<RawPosition(3)>>, <<RawPosition(4)>>, <<RawPosition(Junk)>>,
     <<RawPosition(1), RawPosition(1)>>, <<RawPosition(1), RawPosition(1), RawPosition(1)>>,
     <<[RawPosition(1) EXCEPT !.symbol = "EURUSD", !.type = 0]>>,
     <<[RawPosition(1) EXCEPT !.type = 2]>>, <<[RawPosition(1) EXCEPT !.ticket = 0]>>}
RawDeal(p, c) ==
    [ticket |-> 1, volume |-> 0, profit |-> p, commission |-> c, swap |-> Missing, fee |-> None,
     rest |-> TRUE]
Deals ==
    {None, <<>>, <<RawDeal(-3, 0)>>, <<RawDeal(-2, 0)>>, <<RawDeal(-2, -1)>>, <<RawDeal(-2, 1), RawDeal(-2, 0)>>,
     <<RawDeal(-2, 0), RawDeal(-1, -1), RawDeal(2, 0)>>, <<RawDeal(Junk, 0)>>}
BookInputs ==
    {[E0 EXCEPT !.env = Export("risk_max_exposure" :> 4), !.terminal.positions = ps,
                !.terminal.deals = ds, !.reply.answer.volume = v] :
        ps \in Positions, ds \in Deals, v \in {None, 1, 2}}

(* Quotes, and the account against the margin level of 100 %.              *)
RawTick(b, a) == [bid |-> b, ask |-> a, rest |-> TRUE]
Quotes ==
    [tick : {None, RawTick(20, 20), RawTick(20, 22), RawTick(20, 25), RawTick(21, 20), RawTick(0, 2), RawTick(Junk, 2)},
     info : {None} \union {[point |-> x, rest |-> TRUE] : x \in {None, 0, 1, 2, Junk}}]
QuoteInputs ==
    {[E0 EXCEPT !.env = Export("risk_max_spread_points" :> m @@ "risk_min_stop_points" :> n),
                !.terminal.tick = q.tick, !.terminal.info = q.info] :
        q \in Quotes, m \in {None, 0, 1, 2}, n \in {0, 2}}
AccountInputs ==
    {[E0 EXCEPT !.terminal.account = [balance |-> 100, equity |-> q, margin |-> m,
                                      tradeAllowed |-> a, rest |-> TRUE]] :
        q \in {Missing, -1, 50, 99, 100, 101}, m \in {None, 0, 50, 100, Junk}, a \in {TRUE, FALSE, None}}
        \union {[E0 EXCEPT !.terminal.account = None], [E0 EXCEPT !.terminal.connected = FALSE],
                [E0 EXCEPT !.terminal.candles = None], [E0 EXCEPT !.terminal.candles = <<>>],
                [E0 EXCEPT !.terminal.orders = <<[ticket |-> 1, symbol |-> "", initial |-> 1,
                                                  current |-> 1, rest |-> TRUE]>>]}

(* Settings in files and environment, one key at different values, and the *)
(* provider, the modes and the sessions.                                   *)
Files(v) ==
    {E0.files, [E0.files EXCEPT !.explicit = Layer(v), !.default = Layer("risk_max_exposure" :> 9)],
     [E0.files EXCEPT !.fromEnv = Layer(v)], [E0.files EXCEPT !.default = Layer(v)],
     [E0.files EXCEPT !.explicit = [Layer(v) EXCEPT !.kind = "unreadable"]],
     [E0.files EXCEPT !.explicit.kind = "missing"],
     [E0.files EXCEPT !.fromEnv.kind = "invalid", !.default = Layer(v)]}
Limits ==
    {Unset, "risk_max_exposure" :> 1, "risk_max_exposure" :> 3, "risk_max_positions" :> 1,
     "risk_max_positions" :> 2, "risk_max_positions" :> 0, "risk_max_risk_pct" :> 2,
     "risk_allowed_symbols" :> <<"EURUSD", "">>, "risk_allowed_symbols" :> <<"GBPUSD">>,
     "risk_allowed_symbols" :> <<"">>, "risk_allowed_symbols" :> None, "risk_max_exposure" :> Junk}
LayerInputs ==
    UNION {{[E0 EXCEPT !.files = f, !.env = Export(e), !.terminal.positions = ps,
                       !.reply.answer.riskPct = r] : f \in Files(v)} :
        v \in Limits, e \in Limits, ps \in {<<>>, <<RawPosition(1)>>}, r \in 1..2}

(* Every other limit in the file, in the environment or in both with a     *)
(* different value, against a terminal at the edge of one of them.         *)
EdgeTerminals ==
    {[T0 EXCEPT !.deals = <<RawDeal(d, 0)>>] : d \in {-3, -2, -1}}
    \union {[T0 EXCEPT !.tick = RawTick(20, a)] : a \in {21, 22, 23}}
    \union {[T0 EXCEPT !.account.equity = q, !.account.margin = 100] : q \in {99, 100, 101}}
    \union {[T0 EXCEPT !.hour = h] : h \in {7, 8, 22}}
Span(a, b) == [kind |-> "span", start |-> a, end |-> b]
Other == [kind |-> "other", start |-> 0, end |-> 0]
Values ==
    [risk_max_daily_loss_pct |-> 1..3, risk_max_spread_points |-> {None, 1, 2},
     risk_min_margin_level_pct |-> 99..101, risk_min_stop_points |-> {0, 2, 3},
     risk_allowed_sessions |-> {<<Span(8, 10)>>, <<Span(22, 8)>>, <<Span(0, 24)>>},
     risk_require_stop_loss |-> BOOLEAN, risk_require_take_profit |-> BOOLEAN,
     risk_duplicate_window_s |-> {0, 600}, risk_cooldown_s |-> {0, 60},
     execution_default_volume |-> {1, 2}]
EdgeInputs ==
    UNION {{[E0 EXCEPT !.files.default = f, !.env = Export(e), !.terminal = t,
                       !.reply.answer.volume = None] :
              f \in {E0.files.default} \union {Layer(k :> v) : v \in Values[k]},
              e \in {Unset} \union {k :> v : v \in Values[k]}, t \in EdgeTerminals} :
           k \in DOMAIN Values}
ModeInputs ==
    {[E0 EXCEPT !.env = Export("trading_mode" :> m @@ "execution_mode" :> x @@ "enable_live_trading" :> b
                               @@ "risk_allowed_sessions" :> ss)] :
        m \in {"dry_run", "live"}, x \in {"dry_run", "live", "LIVE"}, b \in BOOLEAN,
        ss \in {<<Span(8, 10)>>, <<Span(22, 9)>>, <<Span(22, 9), Span(9, 10)>>, <<Span(9, 9)>>,
                <<Span(8, 10), Other>>, <<>>}}

(* Replies that fail at each layer of each vendor's protocol.              *)
Replies ==
    {[Answered EXCEPT !.transport = t, !.status = s] :
        t \in {"answered", "timeout", "cut_off"}, s \in {199, 200, 299, 300, 500}}
    \union {[Answered EXCEPT !.error = x, !.finish = f, !.content = c, !.usage = u, !.json = j] :
        x \in {"none", "object", "other"}, f \in {"complete", "length", "filtered"}, c \in {"text", "parts", "blank", "null", "missing"},
        u \in {"numbers", "infinite"}, j \in {"object", "other_json", "no_json"}}
    \union {[Answered EXCEPT !.body = "other_json"]}
ReplyInputs ==
    {[E0 EXCEPT !.env = "llm_provider" :> v @@ "llm_api_key" :> k @@ "llm_model" :> m, !.reply = r] :
        v \in {"openai", "gemini", "ollama", "none", "unknown"}, k \in {"unset", "blank", "set"},
        m \in {"default", "blank"}, r \in Replies}

AllInputs ==
    SignalInputs \union BookInputs \union QuoteInputs \union AccountInputs \union LayerInputs
        \union EdgeInputs \union ModeInputs \union ReplyInputs
NoInputs == {}
=============================================================================
