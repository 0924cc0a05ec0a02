------------------------------ MODULE Settings ------------------------------
(***************************************************************************)
(* load_settings (config/loader.py), the validation of AppSettings and     *)
(* to_risk_config (config/settings.py) as pure operators.  A layer of      *)
(* settings is a function from the names it sets to values; a CSV setting  *)
(* is the sequence of its entries, of which blank ones are "".             *)
(***************************************************************************)
EXTENDS RiskRules

(* The fields that the decision path reads, with their built-in defaults.  *)
(* Volumes are in hundredths of a lot.                                     *)
Defaults ==
    [trading_mode |-> "dry_run", execution_mode |-> "dry_run", enable_live_trading |-> FALSE,
     llm_provider |-> "none", llm_model |-> "default", llm_api_key |-> "unset",
     execution_default_volume |-> 1,
     risk_max_risk_pct |-> 1, risk_max_daily_loss_pct |-> 3, risk_max_positions |-> 3,
     risk_max_exposure |-> 100, risk_allowed_symbols |-> None,
     risk_allowed_sessions |-> <<[kind |-> "span", start |-> 0, end |-> 24]>>,
     risk_max_spread_points |-> None, risk_require_stop_loss |-> TRUE,
     risk_require_take_profit |-> TRUE, risk_min_stop_points |-> 0,
     risk_duplicate_window_s |-> 600, risk_cooldown_s |-> 60, risk_min_margin_level_pct |-> 100]
Key == DOMAIN Defaults

(* The types of the fields.                                                *)
Entry == [kind : {"span", "blank", "other"}, start : Int, end : Int]
FieldType ==
    [trading_mode |-> STRING, execution_mode |-> STRING, enable_live_trading |-> BOOLEAN,
     llm_provider |-> STRING, llm_model |-> STRING, llm_api_key |-> STRING,
     execution_default_volume |-> Int,
     risk_max_risk_pct |-> Int, risk_max_daily_loss_pct |-> Int, risk_max_positions |-> Int,
     risk_max_exposure |-> Int, risk_allowed_symbols |-> {None} \union Seq(STRING),
     risk_allowed_sessions |-> Seq(Entry),
     risk_max_spread_points |-> {None} \union Int, risk_require_stop_loss |-> BOOLEAN,
     risk_require_take_profit |-> BOOLEAN, risk_min_stop_points |-> Int,
     risk_duplicate_window_s |-> Int, risk_cooldown_s |-> Int, risk_min_margin_level_pct |-> Int]

(* _resolve_config_path: the argument, MT5_AGENT_CONFIG, or the default    *)
(* path if there is a file.  A file is unset, missing, unreadable, invalid *)
(* (no YAML, or no mapping) or a mapping of values.                        *)
NoFile == [kind |-> "unset", values |-> [k \in {} |-> None]]
Selected(files) ==
    IF files.explicit.kind # "unset" THEN files.explicit
    ELSE IF files.fromEnv.kind # "unset" THEN files.fromEnv
    ELSE IF files.default.kind = "missing" THEN NoFile ELSE files.default

(* A selected file that is not there or holds no mapping raises; one that  *)
(* cannot be read counts as empty.                                         *)
FileOK(files) == Selected(files).kind \notin {"missing", "invalid"}
FileValues(files) ==
    IF Selected(files).kind = "mapping" THEN Selected(files).values ELSE NoFile.values

(* Mutant: file values keep their precedence over the environment, as      *)
(* constructor arguments have it in pydantic-settings.                     *)
MutLoaded(file, env) ==
    [k \in Key |-> IF k \in DOMAIN file THEN file[k] ELSE IF k \in DOMAIN env THEN env[k] ELSE Defaults[k]]

(* load_settings drops the file values that the environment overrides.     *)
Loaded(file, env) ==
    [k \in Key |-> IF k \in DOMAIN env THEN env[k] ELSE IF k \in DOMAIN file THEN file[k] ELSE Defaults[k]]

(* The types, the Field bounds and the model validator.  The normalisation *)
(* of the two modes runs after their Literal check and changes nothing.    *)
SettingsOK(s) ==
    /\ \A k \in Key : s[k] \in FieldType[k]
    /\ {s.trading_mode, s.execution_mode} \subseteq {"dry_run", "demo", "live"}
    /\ s.trading_mode = s.execution_mode
    /\ s.execution_mode = "live" => s.enable_live_trading
    /\ s.execution_default_volume > 0
    /\ s.risk_max_risk_pct \in 1..100 /\ s.risk_max_daily_loss_pct \in 1..100
    /\ s.risk_max_positions >= 1 /\ s.risk_max_exposure > 0
    /\ s.risk_min_stop_points >= 0 /\ s.risk_duplicate_window_s >= 0
    /\ s.risk_cooldown_s >= 0 /\ s.risk_min_margin_level_pct > 0

(* The names of a CSV setting; a list without any is no allowlist.         *)
Entries(csv) == {csv[i] : i \in 1..Len(csv)}
AllowedSymbols(csv) ==
    IF csv = None \/ Entries(csv) \subseteq {""} THEN None ELSE Entries(csv) \ {""}

(* _parse_sessions and TradingSession: H-H entries of 0..24, not of zero   *)
(* length, and at least one of them.                                       *)
Spans(csv) == {e \in Entries(csv) : e.kind # "blank"}
SessionsOK(csv) ==
    /\ Spans(csv) # {}
    /\ \A e \in Spans(csv) : e.kind = "span" /\ [start |-> e.start, end |-> e.end] \in TradingSession

(* to_risk_config: the spread limit is checked here for the first time.    *)
RiskConfigOK(s) ==
    /\ SessionsOK(s.risk_allowed_sessions)
    /\ s.risk_max_spread_points = None \/ (s.risk_max_spread_points # None /\ s.risk_max_spread_points > 0)

ToRiskConfig(s) ==
    [maxRiskPct |-> s.risk_max_risk_pct, maxDailyLossPct |-> s.risk_max_daily_loss_pct,
     maxOpenPositions |-> s.risk_max_positions, maxExposure |-> s.risk_max_exposure,
     allowedSymbols |-> AllowedSymbols(s.risk_allowed_symbols),
     allowedSessions |-> {[start |-> e.start, end |-> e.end] : e \in Spans(s.risk_allowed_sessions)},
     maxSpread |-> s.risk_max_spread_points,
     requireStopLoss |-> s.risk_require_stop_loss, requireTakeProfit |-> s.risk_require_take_profit,
     minStopPoints |-> s.risk_min_stop_points, duplicateWindow |-> s.risk_duplicate_window_s,
     cooldown |-> s.risk_cooldown_s, minMarginLevel |-> s.risk_min_margin_level_pct]
=============================================================================
