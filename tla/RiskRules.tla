----------------------------- MODULE RiskRules ------------------------------
(***************************************************************************)
(* The deterministic risk rules and RiskEngine.validate (risk/rules.py,    *)
(* risk/engine.py, risk/config.py) as pure operators.  A rule is the       *)
(* condition under which its check returns a violation.                    *)
(*                                                                         *)
(* A proposal p, a context c and a configuration cfg are records with the  *)
(* source's field names.  Volumes, prices, percentages and account money   *)
(* are integers in their smallest unit; None is Python's None, and NaN is  *)
(* the float every comparison with which is false.                         *)
(***************************************************************************)
EXTENDS Integers, Sequences

CONSTANTS None, NaN

ASSUME SentinelsAssumption == None \notin Int /\ NaN \notin Int /\ None # NaN

Directional == {"BUY", "SELL"}
TradeAction == Directional \union {"HOLD"}

(* The types of the rules' inputs: DecisionRecord, RiskContext (with the   *)
(* spread, point size and hour that the rules look up in it) and           *)
(* TradeProposal.                                                          *)
DecisionRecord == [symbol : STRING, action : Directional, approved : BOOLEAN, at : Nat]
RiskContext ==
    [account : [tradeAllowed : BOOLEAN, equity : Int, balance : Int,
                marginLevel : Int \union {None}],
     positions : Seq([symbol : STRING, side : Directional, volume : Nat]),
     spread : Nat \union {None}, point : Nat \union {None},
     serverTime : Nat, hour : 0..23, dayPnl : Int \union {None},
     recent : Seq(DecisionRecord)]
TradeProposal ==
    [action : TradeAction, symbol : STRING, volume : Nat \union {None, NaN}, riskPct : Nat,
     entry : Nat \union {None, NaN}, stopLoss : Nat \union {None, NaN},
     takeProfit : Nat \union {None, NaN}]

(* A session is not of zero length; RiskConfig's own validation.           *)
TradingSession == {s \in [start : 0..24, end : 0..24] : s.start # s.end}
RiskConfig ==
    [maxRiskPct : 1..100, maxDailyLossPct : 1..100,
     maxOpenPositions : Nat \ {0}, maxExposure : Nat \ {0},
     allowedSymbols : (SUBSET STRING) \union {None},
     allowedSessions : (SUBSET TradingSession) \ {{}},
     maxSpread : (Nat \ {0}) \union {None},
     requireStopLoss : BOOLEAN, requireTakeProfit : BOOLEAN,
     minStopPoints : Nat, duplicateWindow : Nat, cooldown : Nat, minMarginLevel : Nat \ {0}]

(* x > y between floats, of which x may be NaN.                            *)
Exceeds(x, y) == x # NaN /\ x > y

(* sum(p.volume for p in positions); volumes of open positions are finite. *)
Exposure(positions) ==
    LET upTo[i \in 0..Len(positions)] ==
            IF i = 0 THEN 0 ELSE upTo[i - 1] + positions[i].volume
    IN upTo[Len(positions)]

Abs(x) == IF x < 0 THEN -x ELSE x
-----------------------------------------------------------------------------
(* TradingSession.contains, overnight spans included.                      *)
Contains(session, hour) ==
    IF session.start < session.end
    THEN session.start <= hour /\ hour < session.end
    ELSE hour >= session.start \/ hour < session.end

AccountSafetyRule(p, c, cfg) ==
    \/ ~c.account.tradeAllowed
    \/ c.account.equity <= 0
    \/ c.account.marginLevel # None /\ c.account.marginLevel < cfg.minMarginLevel

(* Mutant: an empty allowlist is taken for no allowlist.                   *)
MutSymbolAllowlistRule(p, c, cfg) ==
    cfg.allowedSymbols \notin {None, {}} /\ p.symbol \notin cfg.allowedSymbols

SymbolAllowlistRule(p, c, cfg) ==
    cfg.allowedSymbols # None /\ p.symbol \notin cfg.allowedSymbols

SessionRule(p, c, cfg) == ~\E s \in cfg.allowedSessions : Contains(s, c.hour)

MaxRiskRule(p, c, cfg) == p.riskPct > cfg.maxRiskPct

(* day_pnl <= -(balance * max_daily_loss_pct / 100), scaled by 100.        *)
DailyLossRule(p, c, cfg) ==
    \/ c.dayPnl = None
    \/ c.dayPnl # None /\ c.dayPnl * 100 <= -(c.account.balance * cfg.maxDailyLossPct)

MaxPositionsRule(p, c, cfg) == Len(c.positions) >= cfg.maxOpenPositions

(* Mutant: the limit is compared with the open volume only.                *)
MutMaxExposureRule(p, c, cfg) == Exposure(c.positions) > cfg.maxExposure

(* A None volume counts as zero; adding NaN gives NaN.                     *)
MaxExposureRule(p, c, cfg) ==
    LET total == CASE p.volume = None -> Exposure(c.positions)
                   [] p.volume = NaN -> NaN
                   [] OTHER -> Exposure(c.positions) + p.volume
    IN Exceeds(total, cfg.maxExposure)

(* Mutant: an unknown spread passes.                                       *)
MutSpreadRule(p, c, cfg) ==
    cfg.maxSpread # None /\ c.spread # None /\ c.spread > cfg.maxSpread

SpreadRule(p, c, cfg) ==
    /\ cfg.maxSpread # None
    /\ c.spread = None \/ (c.spread # None /\ c.spread > cfg.maxSpread)

StopLossRequiredRule(p, c, cfg) == cfg.requireStopLoss /\ p.stopLoss = None

TakeProfitRequiredRule(p, c, cfg) == cfg.requireTakeProfit /\ p.takeProfit = None

(* Without an entry or a stop there is no distance, and without a point    *)
(* size above 0 no minimum; NaN is no distance below any minimum.          *)
MinStopDistanceRule(p, c, cfg) ==
    /\ cfg.minStopPoints > 0
    /\ p.entry # None /\ p.stopLoss # None
    /\ \/ c.point \in {None, 0}
       \/ /\ c.point \notin {None, 0} /\ p.entry # NaN /\ p.stopLoss # NaN
          /\ Abs(p.entry - p.stopLoss) < cfg.minStopPoints * c.point

(* Mutant: the window ends one tick early.                                 *)
MutDuplicateTradeRule(p, c, cfg) ==
    \/ \E i \in 1..Len(c.positions) :
          c.positions[i].symbol = p.symbol /\ c.positions[i].side = p.action
    \/ /\ cfg.duplicateWindow > 0
       /\ \E i \in 1..Len(c.recent) :
             /\ c.recent[i].approved
             /\ c.recent[i].symbol = p.symbol
             /\ c.recent[i].action = p.action
             /\ c.recent[i].at <= c.serverTime
             /\ c.serverTime - c.recent[i].at < cfg.duplicateWindow

(* An open position on the same side, or an approval of the same action on *)
(* the same symbol not older than the window.  Records from the future     *)
(* (a clock stepped back) are passed over.                                 *)
DuplicateTradeRule(p, c, cfg) ==
    \/ \E i \in 1..Len(c.positions) :
          c.positions[i].symbol = p.symbol /\ c.positions[i].side = p.action
    \/ /\ cfg.duplicateWindow > 0
       /\ \E i \in 1..Len(c.recent) :
             /\ c.recent[i].approved
             /\ c.recent[i].symbol = p.symbol
             /\ c.recent[i].action = p.action
             /\ c.recent[i].at <= c.serverTime
             /\ c.serverTime - c.recent[i].at <= cfg.duplicateWindow

(* Mutant: the cooldown still holds at its very end.                       *)
MutCooldownRule(p, c, cfg) ==
    /\ cfg.cooldown > 0
    /\ \E i \in 1..Len(c.recent) :
          /\ c.recent[i].symbol = p.symbol
          /\ c.recent[i].at <= c.serverTime
          /\ c.serverTime - c.recent[i].at <= cfg.cooldown

(* Mutant: only approved decisions start a cooldown.                       *)
MutCooldownApproved(p, c, cfg) ==
    /\ cfg.cooldown > 0
    /\ \E i \in 1..Len(c.recent) :
          /\ c.recent[i].approved
          /\ c.recent[i].symbol = p.symbol
          /\ c.recent[i].at <= c.serverTime
          /\ c.serverTime - c.recent[i].at < cfg.cooldown

(* The most recent past decision on the symbol, whatever its verdict, is   *)
(* younger than the cooldown.                                              *)
CooldownRule(p, c, cfg) ==
    /\ cfg.cooldown > 0
    /\ \E i \in 1..Len(c.recent) :
          /\ c.recent[i].symbol = p.symbol
          /\ c.recent[i].at <= c.serverTime
          /\ c.serverTime - c.recent[i].at < cfg.cooldown
-----------------------------------------------------------------------------
(* DEFAULT_RULES by violation code: which of them fail.                    *)
Failing(p, c, cfg) ==
    [ACCOUNT_UNSAFE          |-> AccountSafetyRule(p, c, cfg),
     SYMBOL_NOT_ALLOWED      |-> SymbolAllowlistRule(p, c, cfg),
     SESSION_CLOSED          |-> SessionRule(p, c, cfg),
     MAX_RISK_EXCEEDED       |-> MaxRiskRule(p, c, cfg),
     MAX_DAILY_LOSS_EXCEEDED |-> DailyLossRule(p, c, cfg),
     MAX_POSITIONS_EXCEEDED  |-> MaxPositionsRule(p, c, cfg),
     MAX_EXPOSURE_EXCEEDED   |-> MaxExposureRule(p, c, cfg),
     SPREAD_TOO_HIGH         |-> SpreadRule(p, c, cfg),
     STOP_LOSS_REQUIRED      |-> StopLossRequiredRule(p, c, cfg),
     TAKE_PROFIT_REQUIRED    |-> TakeProfitRequiredRule(p, c, cfg),
     STOP_TOO_CLOSE          |-> MinStopDistanceRule(p, c, cfg),
     DUPLICATE_TRADE         |-> DuplicateTradeRule(p, c, cfg),
     COOLDOWN_ACTIVE         |-> CooldownRule(p, c, cfg)]

Violations(p, c, cfg) ==
    LET failing == Failing(p, c, cfg) IN {code \in DOMAIN failing : failing[code]}

(* RiskEngine.validate: HOLD always passes, else every rule must.          *)
Codes(p, c, cfg) == IF p.action = "HOLD" THEN {} ELSE Violations(p, c, cfg)

Approves(p, c, cfg) == Codes(p, c, cfg) = {}
-----------------------------------------------------------------------------
(* tight sets no limit looser than cfg does.                               *)
Tighter(tight, cfg) ==
    /\ tight.maxRiskPct <= cfg.maxRiskPct
    /\ tight.maxDailyLossPct <= cfg.maxDailyLossPct
    /\ tight.maxOpenPositions <= cfg.maxOpenPositions
    /\ tight.maxExposure <= cfg.maxExposure
    /\ \/ cfg.allowedSymbols = None
       \/ tight.allowedSymbols # None /\ tight.allowedSymbols \subseteq cfg.allowedSymbols
    /\ tight.allowedSessions \subseteq cfg.allowedSessions
    /\ \/ cfg.maxSpread = None
       \/ tight.maxSpread # None /\ tight.maxSpread <= cfg.maxSpread
    /\ cfg.requireStopLoss => tight.requireStopLoss
    /\ cfg.requireTakeProfit => tight.requireTakeProfit
    /\ tight.minStopPoints >= cfg.minStopPoints
    /\ tight.duplicateWindow >= cfg.duplicateWindow
    /\ tight.cooldown >= cfg.cooldown
    /\ tight.minMarginLevel >= cfg.minMarginLevel

(* The gates of docs/risk/rules.md that bound what an approved trade adds  *)
(* to the account, stated on values rather than on rule verdicts.          *)
WithinLimits(p, c, cfg) ==
    /\ p.volume # NaN
    /\ Exposure(c.positions) + (IF p.volume = None THEN 0 ELSE p.volume) <= cfg.maxExposure
    /\ Len(c.positions) + 1 <= cfg.maxOpenPositions
    /\ p.riskPct <= cfg.maxRiskPct
    /\ c.dayPnl # None /\ c.dayPnl * 100 > -(c.account.balance * cfg.maxDailyLossPct)

(* c2 is c with some market or account figure that c does not know filled  *)
(* in.                                                                     *)
Completes(c2, c) ==
    /\ c.dayPnl # None => c2.dayPnl = c.dayPnl
    /\ c.spread # None => c2.spread = c.spread
    /\ c.point # None => c2.point = c.point
    /\ c2 = [c EXCEPT !.dayPnl = c2.dayPnl, !.spread = c2.spread, !.point = c2.point]
=============================================================================
