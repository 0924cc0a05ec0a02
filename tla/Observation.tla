---------------------------- MODULE Observation -----------------------------
(***************************************************************************)
(* Observer.observe and the RiskContext of the SUPERVISE stage as a pure   *)
(* function of what the terminal package answered: the market and trading  *)
(* adapters, the field mappers, the domain models that validate, and the   *)
(* account service.  A terminal t holds the raw answer of every call; None *)
(* is the package's None.  A raw figure may be null, missing or no number. *)
(* Fields that no rule reads are one flag, rest: all of them convert.      *)
(***************************************************************************)
EXTENDS Planner

(* The terminal's answers: rows of raw figures, or None.                   *)
RawValue == Int \union {None, Missing, Junk}
CandleRow == [open : RawValue, high : RawValue, low : RawValue, close : RawValue, rest : BOOLEAN]
TickRow == [bid : RawValue, ask : RawValue, rest : BOOLEAN]
SymbolRow == [point : RawValue, rest : BOOLEAN]
AccountRow == [balance : RawValue, equity : RawValue, margin : RawValue,
               tradeAllowed : BOOLEAN \union {None}, rest : BOOLEAN]
PositionRow == [ticket : RawValue, symbol : STRING, type : RawValue, volume : RawValue, rest : BOOLEAN]
OrderRow == [ticket : RawValue, symbol : STRING, initial : RawValue, current : RawValue, rest : BOOLEAN]
DealRow == [ticket : RawValue, volume : RawValue, profit : RawValue, commission : RawValue,
            swap : RawValue, fee : RawValue, rest : BOOLEAN]
Terminal ==
    [connected : BOOLEAN, candles : {None} \union Seq(CandleRow), tick : {None} \union TickRow,
     info : {None} \union SymbolRow, account : {None} \union AccountRow,
     positions : {None} \union Seq(PositionRow), orders : {None} \union Seq(OrderRow),
     deals : {None} \union Seq(DealRow), now : Nat, hour : 0..23]

(* float(data.get(key, 0.0) or 0.0)                                        *)
Converts(v) == v # Junk
Figure(v) == IF v \in {None, Missing} THEN 0 ELSE v
Positive(v) == Converts(v) /\ Figure(v) > 0
NotNegative(v) == Converts(v) /\ Figure(v) >= 0

(* map_tick, map_symbol_info and map_candle with the domain models' own    *)
(* validation.                                                             *)
TickOK(r) == Positive(r.bid) /\ Positive(r.ask) /\ Figure(r.ask) >= Figure(r.bid) /\ r.rest
SymbolInfoOK(r) == Converts(r.point) /\ r.rest
CandleOK(r) ==
    /\ \A v \in {r.open, r.high, r.low, r.close} : Positive(v)
    /\ \A v \in {r.open, r.close} : r.low <= v /\ v <= r.high
    /\ r.rest

(* get_snapshot: candles are needed, and None or no rows raises.  A tick   *)
(* or a symbol the terminal does not have is left out, but a payload that  *)
(* does not map raises MT5DataError, which is no MT5MarketDataError.       *)
SnapshotOK(t) ==
    /\ t.candles # None /\ t.candles # <<>>
    /\ \A i \in 1..Len(t.candles) : CandleOK(t.candles[i])
    /\ t.tick # None => TickOK(t.tick)
    /\ t.info # None => SymbolInfoOK(t.info)

(* map_account_info: a missing figure is 0, a missing permission is False. *)
AccountOK(r) == Converts(r.balance) /\ Converts(r.equity) /\ Converts(r.margin) /\ r.rest

(* map_position, map_order and map_deal; the side is not defaulted when it *)
(* is null.                                                                *)
PositionOK(r) ==
    /\ r.type \in {0, 1, Missing}
    /\ Positive(r.ticket) /\ r.symbol # "" /\ Positive(r.volume) /\ r.rest
OrderOK(r) ==
    /\ Positive(r.ticket) /\ r.symbol # ""
    /\ NotNegative(r.initial) /\ NotNegative(r.current) /\ r.rest
DealOK(r) ==
    /\ Positive(r.ticket) /\ NotNegative(r.volume) /\ r.rest
    /\ \A v \in {r.profit, r.commission, r.swap, r.fee} : Converts(v)

(* map_many: None is an empty collection.                                  *)
Rows(answer) == IF answer = None THEN <<>> ELSE answer
RowSet(answer) == {Rows(answer)[i] : i \in 1..Len(Rows(answer))}

(* observe() returns: every adapter finds the connection up, and market,   *)
(* account, positions, orders and today's deals map.                       *)
Observes(t) ==
    /\ t.connected
    /\ SnapshotOK(t)
    /\ t.account # None /\ AccountOK(t.account)
    /\ \A r \in RowSet(t.positions) : PositionOK(r)
    /\ \A r \in RowSet(t.orders) : OrderOK(r)
    /\ \A r \in RowSet(t.deals) : DealOK(r)
-----------------------------------------------------------------------------
MapPosition(r) ==
    [symbol |-> r.symbol, side |-> IF r.type = 1 THEN "SELL" ELSE "BUY", volume |-> Figure(r.volume)]

(* AccountState.margin_level: none without margin in use.  The whole part  *)
(* is what an integer minimum tells apart.                                 *)
MarginLevel(r) ==
    IF Figure(r.margin) > 0 THEN (Figure(r.equity) * 100) \div Figure(r.margin) ELSE None

(* Mutant: the day's P&L leaves the costs of the trades out.               *)
MutNet(r) == Figure(r.profit)

Net(r) == Figure(r.profit) + Figure(r.commission) + Figure(r.swap) + Figure(r.fee)

(* AccountService.get_state: the net of every deal since midnight UTC.     *)
DayPnl(deals) ==
    LET rows == Rows(deals)
        upTo[i \in 0..Len(rows)] == IF i = 0 THEN 0 ELSE upTo[i - 1] + Net(rows[i])
    IN upTo[Len(rows)]

(* The supervisor's context: spread and point size need a tick, a symbol   *)
(* and a point above 0.  A part of a point counts as a whole one, which no *)
(* integer limit tells apart.                                              *)
Quoted(t) == t.tick # None /\ t.info # None /\ Figure(t.info.point) > 0
SpreadPoints(t) == -((Figure(t.tick.bid) - Figure(t.tick.ask)) \div Figure(t.info.point))

ContextOf(t) ==
    [account |-> [tradeAllowed |-> t.account.tradeAllowed = TRUE,
                  equity |-> Figure(t.account.equity), balance |-> Figure(t.account.balance),
                  marginLevel |-> MarginLevel(t.account)],
     positions |-> [i \in 1..Len(Rows(t.positions)) |-> MapPosition(Rows(t.positions)[i])],
     spread |-> IF Quoted(t) THEN SpreadPoints(t) ELSE None,
     point |-> IF Quoted(t) THEN Figure(t.info.point) ELSE None,
     serverTime |-> t.now, hour |-> t.hour, dayPnl |-> DayPnl(t.deals), recent |-> <<>>]
=============================================================================
