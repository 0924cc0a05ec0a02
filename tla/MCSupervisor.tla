---------------------------- MODULE MCSupervisor ----------------------------
(***************************************************************************)
(* Two symbols, a duplicate window of 3 ticks and a cooldown of 2, enough  *)
(* clock for both to run out between the first and the last review.        *)
(***************************************************************************)
EXTENDS Supervisor

Symbols == {"EURUSD", "GBPUSD"}

Config0 == [maxRiskPct |-> 1, maxDailyLossPct |-> 3, maxOpenPositions |-> 2, maxExposure |-> 3,
            allowedSymbols |-> None, allowedSessions |-> {[start |-> 0, end |-> 24]},
            maxSpread |-> None, requireStopLoss |-> TRUE, requireTakeProfit |-> TRUE,
            minStopPoints |-> 0, duplicateWindow |-> 3, cooldown |-> 2, minMarginLevel |-> 100]

Flat == [account |-> [tradeAllowed |-> TRUE, equity |-> 100, balance |-> 100, marginLevel |-> None],
         positions |-> <<>>, spread |-> None, point |-> None, serverTime |-> 0, hour |-> 9,
         dayPnl |-> 0, recent |-> <<>>]
Contexts0 == {Flat, [Flat EXCEPT !.dayPnl = None]}

Proposals0 == {[action |-> "BUY", symbol |-> "EURUSD", volume |-> 1, riskPct |-> 1,
                entry |-> 10, stopLoss |-> 8, takeProfit |-> 14]}
=============================================================================
