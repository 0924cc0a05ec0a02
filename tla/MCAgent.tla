------------------------------- MODULE MCAgent ------------------------------
(***************************************************************************)
(* Small instances of Agent: two symbols served in turn, a duplicate       *)
(* window of 2 ticks that just covers one tick of planner latency and one  *)
(* of fill delay, and limits that the positions of three cycles can pass.  *)
(***************************************************************************)
EXTENDS Agent

(* run_agent.py --loop on two symbols or on one, and --cycles 2.           *)
Loop(symbols, interval) == [symbols |-> symbols, interval |-> interval, maxCycles |-> None]
Cycles(symbols, n) == [symbols |-> symbols, interval |-> 0, maxCycles |-> n]
PacedOrTwice == {Loop(<<"EURUSD", "GBPUSD">>, 2), Cycles(<<"EURUSD">>, 2)}
LoopOnOne == {Loop(<<"EURUSD">>, 1)}

Account0 == [tradeAllowed |-> TRUE, equity |-> 100, balance |-> 100, marginLevel |-> None]

Limits(positions, exposure) ==
    [maxRiskPct |-> 1, maxDailyLossPct |-> 3, maxOpenPositions |-> positions,
     maxExposure |-> exposure, allowedSymbols |-> None,
     allowedSessions |-> {[start |-> 0, end |-> 24]}, maxSpread |-> 2,
     requireStopLoss |-> TRUE, requireTakeProfit |-> TRUE, minStopPoints |-> 0,
     duplicateWindow |-> 2, cooldown |-> 1, minMarginLevel |-> 100]
ManyPositions == Limits(4, 8)
TwoPositions == Limits(2, 2)

(* The planner holds, buys or sells, with or without a volume.             *)
Proposes(actions, volumes) ==
    {[action |-> "HOLD", volume |-> None]} \union [action : actions, volume : volumes]
BuyOrHold == Proposes({"BUY"}, {None})
AnyVolume == Proposes({"BUY"}, {None, 2}) \union Proposes({"SELL"}, {None})

Restarts == {"no_quote", "close", "settled_restart"}
Failures == {"observe_fails", "no_quote", "strategy_fails", "plan_fails", "stop", "recover", "restart"}
=============================================================================
