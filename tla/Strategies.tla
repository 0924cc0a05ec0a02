----------------------------- MODULE Strategies -----------------------------
(***************************************************************************)
(* The deterministic signal: MeasureMoveStrategy.analyze and NullStrategy  *)
(* (strategies/), StrategyService.analyze and select_primary, as pure      *)
(* operators from the candles of a snapshot, oldest first, to the          *)
(* direction the planner may follow.  Confidence, setups and facts only    *)
(* reach the prompt and are left out.                                      *)
(***************************************************************************)
EXTENDS Integers, Sequences

(* MeasureMoveParams, and the observation-only baseline.                   *)
MeasureMoveParams ==
    [name : {"donchian_breakout"}, lookback : Nat \ {0, 1}, minCandles : Nat \ {0}]
NullStrategy == [name |-> "null"]

(* Mutant: the window is one candle short.                                 *)
MutWindow(params, candles) ==
    SubSeq(candles, IF Len(candles) >= params.lookback THEN Len(candles) - params.lookback + 2 ELSE 1,
           Len(candles))

(* candles[-lookback:]                                                     *)
Window(params, candles) ==
    SubSeq(candles, IF Len(candles) > params.lookback THEN Len(candles) - params.lookback + 1 ELSE 1,
           Len(candles))

(* The latest close against max(high) and min(low) of the candles before   *)
(* it in the window; confirm() of DonchianBreakoutStrategy vetoes nothing. *)
Breakout(window) ==
    LET n == Len(window)
    IN CASE \A i \in 1..(n - 1) : window[n].close > window[i].high -> "LONG"
         [] \A i \in 1..(n - 1) : window[n].close < window[i].low -> "SHORT"
         [] OTHER -> "FLAT"

(* analyze() as the service sees it: too few candles observe only, and a   *)
(* window without a prior candle makes max() raise, which the service      *)
(* turns into a FLAT error signal.                                         *)
Analyze(strategy, candles) ==
    IF \/ strategy = NullStrategy
       \/ Len(candles) < strategy.minCandles
       \/ Len(Window(strategy, candles)) < 2
    THEN "FLAT" ELSE Breakout(Window(strategy, candles))

Signals(strategies, candles) ==
    [i \in 1..Len(strategies) |-> Analyze(strategies[i], candles)]

(* The first directional signal, else the first signal.                    *)
SelectPrimary(signals) ==
    LET directional == {i \in 1..Len(signals) : signals[i] # "FLAT"}
    IN IF directional = {} THEN signals[1]
       ELSE signals[CHOOSE i \in directional : \A j \in directional : i <= j]

PrimaryDirection(strategies, candles) == SelectPrimary(Signals(strategies, candles))
=============================================================================
