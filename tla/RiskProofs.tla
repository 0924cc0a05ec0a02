----------------------------- MODULE RiskProofs -----------------------------
(***************************************************************************)
(* Facts about a decision for every file, environment, terminal answer,    *)
(* LLM reply, context and configuration.  The invariant says that the      *)
(* verdict belongs to a well-formed case, and that a case with an origin   *)
(* is the one its raw inputs lead to; the rest are lemmas about the        *)
(* operators: rules, planner, settings, mappers, sums and strategies.      *)
(***************************************************************************)
EXTENDS DecisionPath, SequenceTheorems, SumProofs

(* The exposure of a list of positions is its last running total.          *)
LEMMA ExposureAddsUp ==
    ASSUME NEW ps, Len(ps) \in Nat
    PROVE  \E f : /\ AddsUp(f, [i \in 1..Len(ps) |-> ps[i].volume], Len(ps))
                  /\ Exposure(ps) = f[Len(ps)]
<1> DEFINE n == Len(ps)
           w == [i \in 1..n |-> ps[i].volume]
           Sums(f) == f = [i \in 0..n |-> IF i = 0 THEN 0 ELSE f[i - 1] + ps[i].volume]
           G == CHOOSE f : Sums(f)
<1>1. \A f : AddsUp(f, w, n) <=> Sums(f)
  <2> SUFFICES ASSUME NEW f
               PROVE  [i \in 0..n |-> IF i = 0 THEN 0 ELSE f[i - 1] + w[i]]
                        = [i \in 0..n |-> IF i = 0 THEN 0 ELSE f[i - 1] + ps[i].volume]
    BY DEF AddsUp
  <2>1. \A i \in 0..n : i # 0 => w[i] = ps[i].volume
    OBVIOUS
  <2> HIDE DEF w, n
  <2> QED  BY <2>1
<1>2. \E f : AddsUp(f, w, n)
  <2> HIDE DEF w
  <2> QED  BY AddsUpExists
<1>3. Sums(G)
  <2> HIDE DEF w
  <2>1. \E f : Sums(f)
    BY <1>1, <1>2
  <2> HIDE DEF Sums
  <2> QED  BY <2>1
<1>4. Exposure(ps) = G[n]
  BY Zenon DEF Exposure
<1> QED  BY <1>1, <1>3, <1>4

(* The exposure of a context's positions is a number.                      *)
LEMMA ExposureIsNat ==
    ASSUME NEW ps \in Seq([symbol : STRING, side : Directional, volume : Nat])
    PROVE  Exposure(ps) \in Nat
<1> DEFINE n == Len(ps)
           w == [i \in 1..n |-> ps[i].volume]
           P == [symbol : STRING, side : Directional, volume : Nat]
<1>1. n \in Nat /\ \A i \in 1..n : ps[i] \in P
  <2> HIDE DEF P
  <2> QED  BY LenProperties, ElementOfSeq DEF P
<1>2. \A x \in P : x.volume \in Nat
  OBVIOUS
<1>3. \A i \in 1..n : w[i] \in Nat /\ w[i] \in Int
  <2> HIDE DEF P
  <2> QED  BY <1>1, <1>2
<1>4. PICK f : AddsUp(f, w, n) /\ Exposure(ps) = f[n]
  BY <1>1, ExposureAddsUp
<1> HIDE DEF n, w
<1>5. \A i \in 0..n : f[i] \in Nat
  BY <1>1, <1>3, <1>4, RunningTotals
<1> QED  BY <1>1, <1>4, <1>5

(* The fields of the records that the rules compare.                       *)
LEMMA ContextFields ==
    ASSUME NEW c \in RiskContext
    PROVE  /\ c.account.equity \in Int /\ c.account.balance \in Int
           /\ c.account.marginLevel \in Int \union {None}
           /\ c.spread \in Nat \union {None} /\ c.point \in Nat \union {None}
           /\ c.dayPnl \in Int \union {None} /\ c.serverTime \in Nat
           /\ Len(c.positions) \in Nat
           /\ \A i \in 1..Len(c.recent) : c.recent[i].at \in Nat
           /\ Exposure(c.positions) \in Nat
<1>1. c \in RiskContext /\ Exposure(c.positions) \in Nat
  <2>1. c.positions \in Seq([symbol : STRING, side : Directional, volume : Nat])
    BY DEF RiskContext
  <2> QED  BY <2>1, ExposureIsNat
<1>2. c.recent \in Seq(DecisionRecord)
  BY <1>1 DEF RiskContext
<1>3. \A i \in 1..Len(c.recent) : c.recent[i].at \in Nat
  <2>1. \A i \in 1..Len(c.recent) : c.recent[i] \in DecisionRecord
    BY <1>2, ElementOfSeq
  <2>2. \A e \in DecisionRecord : e.at \in Nat
    BY DEF DecisionRecord
  <2> QED  BY <2>1, <2>2
<1>4. Len(c.positions) \in Nat
  BY <1>1, LenProperties DEF RiskContext
<1> QED  BY <1>1, <1>2, <1>3, <1>4 DEF RiskContext

LEMMA ConfigFields ==
    ASSUME NEW cfg \in RiskConfig
    PROVE  /\ cfg.maxRiskPct \in Nat /\ cfg.maxDailyLossPct \in Nat
           /\ cfg.maxOpenPositions \in Nat /\ cfg.maxExposure \in Nat
           /\ cfg.maxSpread \in Nat \union {None} /\ cfg.minStopPoints \in Nat
           /\ cfg.duplicateWindow \in Nat /\ cfg.cooldown \in Nat /\ cfg.minMarginLevel \in Nat
BY DEF RiskConfig

LEMMA ProposalFields ==
    ASSUME NEW p \in TradeProposal
    PROVE  /\ p.riskPct \in Nat /\ p.volume \in Nat \union {None, NaN}
           /\ p.entry \in Nat \union {None, NaN} /\ p.stopLoss \in Nat \union {None, NaN}
BY DEF TradeProposal

(* A verdict of the engine, spelled out.                                   *)
AnyRule(p, c, cfg) ==
    \/ AccountSafetyRule(p, c, cfg) \/ SymbolAllowlistRule(p, c, cfg) \/ SessionRule(p, c, cfg)
    \/ MaxRiskRule(p, c, cfg) \/ DailyLossRule(p, c, cfg) \/ MaxPositionsRule(p, c, cfg)
    \/ MaxExposureRule(p, c, cfg) \/ SpreadRule(p, c, cfg) \/ StopLossRequiredRule(p, c, cfg)
    \/ TakeProfitRequiredRule(p, c, cfg) \/ MinStopDistanceRule(p, c, cfg)
    \/ DuplicateTradeRule(p, c, cfg) \/ CooldownRule(p, c, cfg)

LEMMA ApprovesMeans ==
    ASSUME NEW p, NEW c, NEW cfg
    PROVE  Approves(p, c, cfg) <=> p.action = "HOLD" \/ ~AnyRule(p, c, cfg)
<1> DEFINE f == Failing(p, c, cfg)
<1>1. /\ DOMAIN f = {"ACCOUNT_UNSAFE", "SYMBOL_NOT_ALLOWED", "SESSION_CLOSED", "MAX_RISK_EXCEEDED",
                     "MAX_DAILY_LOSS_EXCEEDED", "MAX_POSITIONS_EXCEEDED", "MAX_EXPOSURE_EXCEEDED",
                     "SPREAD_TOO_HIGH", "STOP_LOSS_REQUIRED", "TAKE_PROFIT_REQUIRED",
                     "STOP_TOO_CLOSE", "DUPLICATE_TRADE", "COOLDOWN_ACTIVE"}
      /\ f["ACCOUNT_UNSAFE"] = AccountSafetyRule(p, c, cfg)
      /\ f["SYMBOL_NOT_ALLOWED"] = SymbolAllowlistRule(p, c, cfg)
      /\ f["SESSION_CLOSED"] = SessionRule(p, c, cfg)
      /\ f["MAX_RISK_EXCEEDED"] = MaxRiskRule(p, c, cfg)
      /\ f["MAX_DAILY_LOSS_EXCEEDED"] = DailyLossRule(p, c, cfg)
      /\ f["MAX_POSITIONS_EXCEEDED"] = MaxPositionsRule(p, c, cfg)
      /\ f["MAX_EXPOSURE_EXCEEDED"] = MaxExposureRule(p, c, cfg)
      /\ f["SPREAD_TOO_HIGH"] = SpreadRule(p, c, cfg)
      /\ f["STOP_LOSS_REQUIRED"] = StopLossRequiredRule(p, c, cfg)
      /\ f["TAKE_PROFIT_REQUIRED"] = TakeProfitRequiredRule(p, c, cfg)
      /\ f["STOP_TOO_CLOSE"] = MinStopDistanceRule(p, c, cfg)
      /\ f["DUPLICATE_TRADE"] = DuplicateTradeRule(p, c, cfg)
      /\ f["COOLDOWN_ACTIVE"] = CooldownRule(p, c, cfg)
  BY DEF Failing
<1>2. Approves(p, c, cfg) <=> p.action = "HOLD" \/ {code \in DOMAIN f : f[code]} = {}
  BY DEF Approves, Codes, Violations
<1> HIDE DEF f
<1> QED  BY ONLY <1>1, <1>2 DEF AnyRule

(* Products with a common factor that is not negative.                     *)
LEMMA Scaled ==
    ASSUME NEW k \in Nat, NEW x \in Nat, NEW y \in Nat, x <= y
    PROVE  k * x <= k * y /\ x * k <= y * k /\ k * x \in Nat /\ k * y \in Nat
<1>1. PICK d \in Nat : y = x + d
  <2>1. y - x \in Nat /\ y = x + (y - x)
    OBVIOUS
  <2> QED  BY <2>1
<1>2. k * y = k * x + k * d /\ k * d \in Nat /\ k * x \in Nat
  BY <1>1
<1> QED  BY <1>1, <1>2

(* Tightening, rule by rule: what the looser setting rejects the tighter   *)
(* one does.                                                               *)
LEMMA TighterRejects ==
    ASSUME NEW p \in TradeProposal, NEW c \in RiskContext, c.account.balance >= 0,
           NEW cfg \in RiskConfig, NEW tight \in RiskConfig, Tighter(tight, cfg),
           ~Approves(p, c, cfg)
    PROVE  ~Approves(p, c, tight)
<1>c. /\ c.account.equity \in Int /\ c.account.balance \in Nat
      /\ c.account.marginLevel \in Int \union {None}
      /\ c.spread \in Nat \union {None} /\ c.point \in Nat \union {None}
      /\ c.dayPnl \in Int \union {None} /\ c.serverTime \in Nat
      /\ \A i \in 1..Len(c.recent) : c.recent[i].at \in Nat
      /\ Len(c.positions) \in Nat /\ Exposure(c.positions) \in Nat
  BY ContextFields
<1>p. /\ p.riskPct \in Nat /\ p.volume \in Nat \union {None, NaN}
      /\ p.entry \in Nat \union {None, NaN} /\ p.stopLoss \in Nat \union {None, NaN}
  BY ProposalFields
<1>0. /\ cfg.maxRiskPct \in Nat /\ cfg.maxDailyLossPct \in Nat
      /\ cfg.maxOpenPositions \in Nat /\ cfg.maxExposure \in Nat
      /\ cfg.maxSpread \in Nat \union {None} /\ cfg.minStopPoints \in Nat
      /\ cfg.duplicateWindow \in Nat /\ cfg.cooldown \in Nat /\ cfg.minMarginLevel \in Nat
      /\ tight.maxRiskPct \in Nat /\ tight.maxDailyLossPct \in Nat
      /\ tight.maxOpenPositions \in Nat /\ tight.maxExposure \in Nat
      /\ tight.maxSpread \in Nat \union {None} /\ tight.minStopPoints \in Nat
      /\ tight.duplicateWindow \in Nat /\ tight.cooldown \in Nat /\ tight.minMarginLevel \in Nat
  BY ONLY ConfigFields, cfg \in RiskConfig, tight \in RiskConfig
<1>t. Tighter(tight, cfg)
  OBVIOUS
<1> HIDE DEF RiskConfig
<1>1. AccountSafetyRule(p, c, cfg) => AccountSafetyRule(p, c, tight)
  <2>1. cfg.minMarginLevel <= tight.minMarginLevel
    BY ONLY <1>t, <1>0 DEF Tighter
  <2>2. ASSUME c.account.marginLevel # None, c.account.marginLevel < cfg.minMarginLevel
        PROVE  c.account.marginLevel < tight.minMarginLevel
    <3>1. c.account.marginLevel \in Int /\ cfg.minMarginLevel \in Nat /\ tight.minMarginLevel \in Nat
      BY ONLY <2>2, <1>c, <1>0
    <3> QED  BY ONLY <3>1, <2>1, <2>2
  <2> QED  BY ONLY <2>2 DEF AccountSafetyRule
<1>2. SymbolAllowlistRule(p, c, cfg) => SymbolAllowlistRule(p, c, tight)
  BY <1>t DEF SymbolAllowlistRule, Tighter
<1>3. SessionRule(p, c, cfg) => SessionRule(p, c, tight)
  BY <1>t DEF SessionRule, Tighter
<1>4. MaxRiskRule(p, c, cfg) => MaxRiskRule(p, c, tight)
  BY ONLY <1>0, <1>t, <1>p DEF MaxRiskRule, Tighter
<1>5. DailyLossRule(p, c, cfg) => DailyLossRule(p, c, tight)
  <2>1. c.account.balance \in Nat /\ tight.maxDailyLossPct <= cfg.maxDailyLossPct
    BY ONLY <1>c, <1>t, <1>0 DEF Tighter
  <2>2. c.account.balance * tight.maxDailyLossPct <= c.account.balance * cfg.maxDailyLossPct
    BY ONLY <2>1, <1>0, Scaled
  <2>3. c.account.balance * tight.maxDailyLossPct \in Int /\ c.account.balance * cfg.maxDailyLossPct \in Int
    BY ONLY <2>1, <1>0
  <2> DEFINE loose == c.account.balance * cfg.maxDailyLossPct
             strict == c.account.balance * tight.maxDailyLossPct
  <2>4. ASSUME c.dayPnl # None, c.dayPnl * 100 <= -loose PROVE c.dayPnl * 100 <= -strict
    <3>1. c.dayPnl \in Int /\ loose \in Int /\ strict \in Int /\ strict <= loose
      BY <2>2, <2>3, <2>4, <1>c
    <3> HIDE DEF loose, strict
    <3> QED  BY ONLY <3>1, <2>4
  <2> QED  BY <2>4 DEF DailyLossRule
<1>6. MaxPositionsRule(p, c, cfg) => MaxPositionsRule(p, c, tight)
  <2>1. tight.maxOpenPositions <= cfg.maxOpenPositions
    BY ONLY <1>t DEF Tighter
  <2>2. Len(c.positions) \in Nat /\ cfg.maxOpenPositions \in Nat /\ tight.maxOpenPositions \in Nat
    BY ONLY <1>c, <1>0
  <2> QED  BY ONLY <2>1, <2>2 DEF MaxPositionsRule
<1>7. MaxExposureRule(p, c, cfg) => MaxExposureRule(p, c, tight)
  <2>1. tight.maxExposure <= cfg.maxExposure
    BY <1>t DEF Tighter
  <2> DEFINE open == Exposure(c.positions)
  <2>2. open \in Nat
    BY <1>c
  <2> HIDE DEF open
  <2>3. CASE p.volume = NaN
    BY ONLY <2>3, SentinelsAssumption DEF MaxExposureRule, Exceeds
  <2>4. CASE p.volume = None
    BY ONLY <2>1, <2>2, <2>4, <1>0, SentinelsAssumption DEF MaxExposureRule, Exceeds, open
  <2>5. CASE p.volume \in Nat
    BY ONLY <2>1, <2>2, <2>5, <1>0, SentinelsAssumption DEF MaxExposureRule, Exceeds, open
  <2> QED  BY <2>3, <2>4, <2>5, <1>p
<1>8. SpreadRule(p, c, cfg) => SpreadRule(p, c, tight)
  <2>1. \/ cfg.maxSpread = None
        \/ tight.maxSpread # None /\ tight.maxSpread <= cfg.maxSpread
    BY <1>t DEF Tighter
  <2>2. c.spread \in Nat \union {None}
    BY <1>c
  <2> QED  BY ONLY <2>1, <2>2, <1>0, SentinelsAssumption DEF SpreadRule
<1>9. StopLossRequiredRule(p, c, cfg) => StopLossRequiredRule(p, c, tight)
  BY <1>t DEF StopLossRequiredRule, Tighter
<1>10. TakeProfitRequiredRule(p, c, cfg) => TakeProfitRequiredRule(p, c, tight)
  BY <1>t DEF TakeProfitRequiredRule, Tighter
<1>11. MinStopDistanceRule(p, c, cfg) => MinStopDistanceRule(p, c, tight)
  <2> SUFFICES ASSUME MinStopDistanceRule(p, c, cfg) PROVE MinStopDistanceRule(p, c, tight)
    OBVIOUS
  <2>1. cfg.minStopPoints <= tight.minStopPoints
    BY <1>t, <1>0 DEF Tighter
  <2>2. cfg.minStopPoints > 0 /\ p.entry # None /\ p.stopLoss # None
    BY DEF MinStopDistanceRule
  <2>3. CASE c.point \in {None, 0}
    BY <2>1, <2>2, <2>3, <1>0 DEF MinStopDistanceRule
  <2>4. CASE c.point \notin {None, 0}
    <3>1. /\ p.entry # NaN /\ p.stopLoss # NaN
          /\ Abs(p.entry - p.stopLoss) < cfg.minStopPoints * c.point
      BY <2>4 DEF MinStopDistanceRule
    <3>2. c.point \in Nat /\ p.entry \in Nat /\ p.stopLoss \in Nat
      BY <2>2, <2>4, <3>1, <1>c, <1>p
    <3>3. /\ cfg.minStopPoints * c.point <= tight.minStopPoints * c.point
          /\ cfg.minStopPoints * c.point \in Nat /\ tight.minStopPoints * c.point \in Nat
      BY ONLY <2>1, <3>2, <1>0, Scaled
    <3>4. Abs(p.entry - p.stopLoss) \in Int
      BY <3>2 DEF Abs
    <3> DEFINE loose == cfg.minStopPoints * c.point
               strict == tight.minStopPoints * c.point
               distance == Abs(p.entry - p.stopLoss)
    <3>5. distance < strict
      <4>1. distance < loose /\ loose <= strict /\ loose \in Nat /\ strict \in Nat /\ distance \in Int
        BY <3>1, <3>3, <3>4
      <4> HIDE DEF loose, strict, distance
      <4> QED  BY ONLY <4>1
    <3> QED  BY <3>1, <3>5, <2>1, <2>2, <2>4, <1>0 DEF MinStopDistanceRule
  <2> QED  BY <2>3, <2>4
<1>12. DuplicateTradeRule(p, c, cfg) => DuplicateTradeRule(p, c, tight)
  <2>1. cfg.duplicateWindow <= tight.duplicateWindow
    BY <1>t, <1>0 DEF Tighter
  <2>2. c.serverTime \in Nat /\ \A i \in 1..Len(c.recent) : c.recent[i].at \in Nat
    BY <1>c
  <2>3. cfg.duplicateWindow \in Nat /\ tight.duplicateWindow \in Nat
    BY <1>0
  <2>4. ASSUME NEW at \in Nat, cfg.duplicateWindow > 0,
               c.serverTime - at <= cfg.duplicateWindow
        PROVE  tight.duplicateWindow > 0 /\ c.serverTime - at <= tight.duplicateWindow
    BY ONLY <2>1, <2>2, <2>3, <2>4
  <2> QED  BY ONLY <2>2, <2>4, Zenon DEF DuplicateTradeRule
<1>13. CooldownRule(p, c, cfg) => CooldownRule(p, c, tight)
  <2>1. cfg.cooldown <= tight.cooldown
    BY <1>t, <1>0 DEF Tighter
  <2>2. c.serverTime \in Nat /\ \A i \in 1..Len(c.recent) : c.recent[i].at \in Nat
    BY <1>c
  <2>3. cfg.cooldown \in Nat /\ tight.cooldown \in Nat
    BY <1>0
  <2>4. ASSUME NEW at \in Nat, cfg.cooldown > 0, c.serverTime - at < cfg.cooldown
        PROVE  tight.cooldown > 0 /\ c.serverTime - at < tight.cooldown
    BY ONLY <2>1, <2>2, <2>3, <2>4
  <2> QED  BY ONLY <2>2, <2>4, Zenon DEF CooldownRule
<1>14. p.action # "HOLD" /\ AnyRule(p, c, cfg)
  BY ApprovesMeans
<1>15. AnyRule(p, c, tight)
  BY ONLY <1>14, <1>1, <1>2, <1>3, <1>4, <1>5, <1>6, <1>7, <1>8, <1>9, <1>10, <1>11, <1>12, <1>13
     DEF AnyRule
<1> QED  BY <1>14, <1>15, ApprovesMeans

(* Filling in an unknown figure takes back no approval: the rules that     *)
(* read it have passed on a known one, or do not apply.                    *)
LEMMA CompletedApproves ==
    ASSUME NEW p, NEW c \in RiskContext, NEW k, NEW cfg, Completes(k, c), Approves(p, c, cfg)
    PROVE  Approves(p, k, cfg)
<1>1. CASE p.action = "HOLD"
  BY <1>1, ApprovesMeans
<1>2. CASE p.action # "HOLD"
  <2>1. ~AnyRule(p, c, cfg)
    BY <1>2, ApprovesMeans
  <2>2. /\ k.account = c.account /\ k.positions = c.positions /\ k.recent = c.recent
        /\ k.serverTime = c.serverTime /\ k.hour = c.hour
    <3>1. c \in RiskContext /\ k = [c EXCEPT !.dayPnl = k.dayPnl, !.spread = k.spread, !.point = k.point]
      BY DEF Completes
    <3> QED  BY ONLY <3>1 DEF RiskContext
  <2>3. /\ c.dayPnl # None => k.dayPnl = c.dayPnl
        /\ c.spread # None => k.spread = c.spread
        /\ c.point # None => k.point = c.point
    BY DEF Completes
  <2>4. ~DailyLossRule(p, k, cfg) /\ ~SpreadRule(p, k, cfg) /\ ~MinStopDistanceRule(p, k, cfg)
    BY ONLY <2>1, <2>2, <2>3 DEF AnyRule, DailyLossRule, SpreadRule, MinStopDistanceRule
  <2>5. ~AccountSafetyRule(p, k, cfg) /\ ~SymbolAllowlistRule(p, k, cfg) /\ ~SessionRule(p, k, cfg)
    BY ONLY <2>1, <2>2 DEF AnyRule, AccountSafetyRule, SymbolAllowlistRule, SessionRule
  <2>6. ~MaxRiskRule(p, k, cfg) /\ ~MaxPositionsRule(p, k, cfg) /\ ~MaxExposureRule(p, k, cfg)
    BY ONLY <2>1, <2>2 DEF AnyRule, MaxRiskRule, MaxPositionsRule, MaxExposureRule
  <2>7. ~StopLossRequiredRule(p, k, cfg) /\ ~TakeProfitRequiredRule(p, k, cfg)
    BY ONLY <2>1 DEF AnyRule, StopLossRequiredRule, TakeProfitRequiredRule
  <2>8. ~DuplicateTradeRule(p, k, cfg) /\ ~CooldownRule(p, k, cfg)
    BY ONLY <2>1, <2>2 DEF AnyRule, DuplicateTradeRule, CooldownRule
  <2>9. ~AnyRule(p, k, cfg)
    BY ONLY <2>4, <2>5, <2>6, <2>7, <2>8 DEF AnyRule
  <2> QED  BY <2>9, ApprovesMeans
<1> QED  BY <1>1, <1>2

(* The limits an approved trade keeps, if its volume is a number or open.  *)
LEMMA ApprovedKeepsLimits ==
    ASSUME NEW p \in TradeProposal, NEW c \in RiskContext, NEW cfg \in RiskConfig,
           Approves(p, c, cfg), p.action # "HOLD", p.volume # NaN
    PROVE  WithinLimits(p, c, cfg)
<1>1. ~AnyRule(p, c, cfg)
  BY ApprovesMeans
<1>2. /\ p.riskPct \in Nat /\ p.volume \in Nat \union {None}
      /\ cfg.maxRiskPct \in Nat /\ cfg.maxDailyLossPct \in Nat
      /\ cfg.maxOpenPositions \in Nat /\ cfg.maxExposure \in Nat
  BY ProposalFields, ConfigFields
<1>3. /\ c.account.balance \in Int /\ c.dayPnl \in Int \union {None}
      /\ Len(c.positions) \in Nat /\ Exposure(c.positions) \in Nat
  BY ContextFields
<1>4. Exposure(c.positions) + (IF p.volume = None THEN 0 ELSE p.volume) <= cfg.maxExposure
  <2>1. ~MaxExposureRule(p, c, cfg)
    BY <1>1 DEF AnyRule
  <2> DEFINE open == Exposure(c.positions)
  <2>2. open \in Nat
    BY <1>3
  <2> HIDE DEF open
  <2>3. CASE p.volume = None
    BY ONLY <2>1, <2>2, <2>3, <1>2, SentinelsAssumption DEF MaxExposureRule, Exceeds, open
  <2>4. CASE p.volume \in Nat
    BY ONLY <2>1, <2>2, <2>4, <1>2, SentinelsAssumption DEF MaxExposureRule, Exceeds, open
  <2> QED  BY <2>3, <2>4, <1>2 DEF open
<1>5. Len(c.positions) + 1 <= cfg.maxOpenPositions
  <2>1. ~(Len(c.positions) >= cfg.maxOpenPositions)
    BY ONLY <1>1 DEF AnyRule, MaxPositionsRule
  <2> QED  BY ONLY <2>1, <1>2, <1>3
<1>6. p.riskPct <= cfg.maxRiskPct
  <2>1. ~(p.riskPct > cfg.maxRiskPct)
    BY ONLY <1>1 DEF AnyRule, MaxRiskRule
  <2> QED  BY ONLY <2>1, <1>2
<1>7. c.dayPnl # None /\ c.dayPnl * 100 > -(c.account.balance * cfg.maxDailyLossPct)
  <2> DEFINE loss == c.account.balance * cfg.maxDailyLossPct
  <2>1. c.dayPnl # None /\ ~(c.dayPnl * 100 <= -loss)
    BY ONLY <1>1 DEF AnyRule, DailyLossRule
  <2>2. c.dayPnl \in Int /\ loss \in Int
    <3>1. c.account.balance \in Int /\ cfg.maxDailyLossPct \in Int
      BY ONLY <1>2, <1>3
    <3>2. loss \in Int
      BY ONLY <3>1
    <3> QED  BY ONLY <2>1, <3>2, <1>3
  <2> HIDE DEF loss
  <2>3. c.dayPnl * 100 > -loss
    BY ONLY <2>1, <2>2
  <2> QED  BY <2>1, <2>3 DEF loss
<1> QED  BY <1>4, <1>5, <1>6, <1>7 DEF WithinLimits

(* What the planner lets through as a trade.                               *)
Follows(p, direction) ==
    p.action # "HOLD" =>
        /\ {p.entry, p.stopLoss, p.takeProfit} \subseteq Nat \ {0}
        /\ \/ /\ p.action = "BUY" /\ direction = "LONG"
              /\ p.stopLoss < p.entry /\ p.entry < p.takeProfit
           \/ /\ p.action = "SELL" /\ direction = "SHORT"
              /\ p.takeProfit < p.entry /\ p.entry < p.stopLoss

LEMMA HoldIsProposal ==
    ASSUME NEW symbol \in STRING, NEW risk \in Nat, NEW direction
    PROVE  /\ HoldProposal(symbol, risk) \in TradeProposal
           /\ Follows(HoldProposal(symbol, risk), direction)
BY DEF HoldProposal, TradeProposal, TradeAction, Follows

(* A field of the answer that passes its parser is a positive number, NaN  *)
(* or None; the risk is a number in range.                                 *)
LEMMA ParsedFields ==
    ASSUME NEW raw \in LLMAnswer, FieldsOK(raw)
    PROVE  /\ OptFloat(raw.entry) \in (Nat \ {0}) \union {None, NaN}
           /\ OptFloat(raw.stopLoss) \in (Nat \ {0}) \union {None, NaN}
           /\ OptFloat(raw.takeProfit) \in (Nat \ {0}) \union {None, NaN}
           /\ OptFloat(raw.volume) \in (Nat \ {0}) \union {None, NaN}
           /\ ReqFloat(raw.riskPct) \in Nat
           /\ Upper[raw.action] \in TradeAction
<1>1. ASSUME NEW v, OptFloatOK(v) PROVE OptFloat(v) \in (Nat \ {0}) \union {None, NaN}
  BY <1>1 DEF OptFloatOK, OptFloat
<1>2. ASSUME NEW v, ReqFloatOK(v), InRange(ReqFloat(v), 100) PROVE ReqFloat(v) \in Nat
  BY <1>2 DEF ReqFloatOK, ReqFloat, InRange
<1>3. Upper[raw.action] \in TradeAction
  BY DEF FieldsOK, Upper, TradeAction, Directional
<1> QED  BY <1>1, <1>2, <1>3 DEF FieldsOK

LEMMA PlanFollows ==
    ASSUME NEW raw \in LLMAnswer, NEW direction, NEW symbol \in STRING
    PROVE  /\ LLMPlan(raw, direction, symbol) \in TradeProposal
           /\ Follows(LLMPlan(raw, direction, symbol), direction)
<1> DEFINE action == Upper[raw.action]
           entry == OptFloat(raw.entry)
           stop == OptFloat(raw.stopLoss)
           target == OptFloat(raw.takeProfit)
           volume == OptFloat(raw.volume)
           risk == ReqFloat(raw.riskPct)
<1>1. CASE ~FieldsOK(raw)
  BY <1>1, HoldIsProposal DEF LLMPlan
<1>2. CASE FieldsOK(raw) /\ action = "HOLD"
  <2>1. (IF raw.rationale = "blank" THEN 0 ELSE risk) \in Nat
    BY <1>2, ParsedFields
  <2> QED  BY <1>2, <2>1, HoldIsProposal DEF LLMPlan
<1>3. CASE FieldsOK(raw) /\ action # "HOLD" /\ ~DirectionalOK(raw, direction)
  BY <1>3, HoldIsProposal DEF LLMPlan
<1>4. CASE FieldsOK(raw) /\ action # "HOLD" /\ DirectionalOK(raw, direction)
  <2>1. /\ {entry, stop, target, volume} \subseteq (Nat \ {0}) \union {None, NaN}
        /\ risk \in Nat /\ action \in {"BUY", "SELL"}
    BY <1>4, ParsedFields DEF TradeAction, Directional
  <2>2. /\ direction = IF action = "BUY" THEN "LONG" ELSE "SHORT"
        /\ BracketOK(action, entry, stop, target)
    BY <1>4 DEF DirectionalOK
  <2>3. LLMPlan(raw, direction, symbol) =
            [action |-> action, symbol |-> symbol, volume |-> volume, riskPct |-> risk,
             entry |-> entry, stopLoss |-> stop, takeProfit |-> target]
    BY <1>4 DEF LLMPlan
  <2> HIDE DEF action, entry, stop, target, volume, risk
  <2>4. LLMPlan(raw, direction, symbol) \in TradeProposal
    BY <2>1, <2>3 DEF TradeProposal, TradeAction, Directional
  <2>5. /\ {entry, stop, target} \subseteq Nat \ {0}
        /\ \/ action = "BUY" /\ direction = "LONG" /\ stop < entry /\ entry < target
           \/ action = "SELL" /\ direction = "SHORT" /\ target < entry /\ entry < stop
    BY <2>1, <2>2 DEF BracketOK, Less
  <2> QED  BY <2>3, <2>4, <2>5 DEF Follows
<1> QED  BY <1>1, <1>2, <1>3, <1>4
-----------------------------------------------------------------------------
(* A case is well formed when its parts are, and a planned one when its    *)
(* proposal is the planner's.                                              *)
WellFormed(x) ==
    /\ x.p \in TradeProposal /\ x.cfg \in RiskConfig /\ x.tight \in RiskConfig
    /\ x.c \in RiskContext /\ x.known \in RiskContext
    /\ x.planned => Follows(x.p, x.direction)

Inv == WellFormed(case) /\ (approved <=> Approves(case.p, case.c, case.cfg))

LEMMA IdleIsWellFormed == WellFormed(Idle) /\ Approves(Idle.p, Idle.c, Idle.cfg)
<1>1. ~FieldsOK(NoAnswer)
  BY DEF FieldsOK, NoAnswer, Upper
<1>2. Idle.p = HoldProposal(AnySymbol, 0)
  BY <1>1 DEF Idle, Case, Planned, LLMPlan
<1>3. Idle.p \in TradeProposal /\ Follows(Idle.p, Idle.direction) /\ Idle.p.action = "HOLD"
  <2>1. AnySymbol \in STRING /\ 0 \in Nat
    BY InputsAssumption
  <2>2. HoldProposal(AnySymbol, 0).action = "HOLD"
    BY DEF HoldProposal
  <2> QED  BY ONLY <1>2, <2>1, <2>2, HoldIsProposal
<1>4. Idle.c \in RiskContext /\ Idle.known \in RiskContext /\ Idle.cfg \in RiskConfig /\ Idle.tight \in RiskConfig
  BY InputsAssumption DEF Idle, Case
<1> QED  BY <1>3, <1>4, ApprovesMeans DEF WellFormed

LEMMA CasesAreWellFormed ==
    ASSUME NEW f \in Families, NEW x \in Sources(f), NEW c \in f.contexts, NEW cfg \in f.configs,
           NEW tight \in f.configs, NEW known \in f.known
    PROVE  WellFormed(Case(x, c, cfg, tight, known))
<1>1. c \in RiskContext /\ known \in RiskContext /\ cfg \in RiskConfig /\ tight \in RiskConfig
  BY InputsAssumption
<1>2. x.p \in TradeProposal /\ (x.planned => Follows(x.p, x.direction))
  <2>1. CASE \E p \in f.proposals : x = Given(p)
    BY <2>1, InputsAssumption DEF Given
  <2>2. CASE \E a \in f.answers : x = Planned(a.raw, a.direction, a.symbol)
    <3>1. PICK a \in f.answers : x = Planned(a.raw, a.direction, a.symbol)
      BY <2>2
    <3>2. a \in [raw : LLMAnswer, direction : Direction, symbol : STRING]
      BY InputsAssumption
    <3>3. a.raw \in LLMAnswer /\ a.symbol \in STRING
      BY ONLY <3>2
    <3> QED  BY <3>1, <3>3, PlanFollows DEF Planned
  <2> QED  BY <2>1, <2>2 DEF Sources
<1> QED  BY <1>1, <1>2 DEF WellFormed, Case

(* Every step of RiskCheck keeps the verdict fitting its case.             *)
LEMMA NextInv == ASSUME Inv, [Next]_vars PROVE Inv'
<1>1. ASSUME NEW x, WellFormed(x), Check(x) PROVE Inv'
  BY <1>1 DEF Check, Inv
<1>2. CASE \E f \in Families :
             \E x \in Sources(f), c \in f.contexts, cfg \in f.configs,
                tight \in f.configs, known \in f.known : Check(Case(x, c, cfg, tight, known))
  BY <1>2, <1>1, CasesAreWellFormed
<1>3. CASE Check(Idle)
  BY <1>3, <1>1, IdleIsWellFormed
<1>4. CASE UNCHANGED vars
  BY <1>4 DEF Inv, vars
<1> QED  BY <1>2, <1>3, <1>4 DEF Next
-----------------------------------------------------------------------------
(* The settings that decide about a trade have their fields' types.        *)
LEMMA SettingsTyped ==
    ASSUME NEW e, Starts(e)
    PROVE  LET s == SettingsOf(e)
           IN /\ s.execution_default_volume \in Int /\ s.risk_max_risk_pct \in Int
              /\ s.risk_max_daily_loss_pct \in Int /\ s.risk_max_positions \in Int
              /\ s.risk_max_exposure \in Int /\ s.risk_min_stop_points \in Int
              /\ s.risk_duplicate_window_s \in Int /\ s.risk_cooldown_s \in Int
              /\ s.risk_min_margin_level_pct \in Int
              /\ s.risk_allowed_symbols \in {None} \union Seq(STRING)
              /\ s.risk_allowed_sessions \in Seq(Entry)
              /\ s.risk_max_spread_points \in {None} \union Int
              /\ s.risk_require_stop_loss \in BOOLEAN /\ s.risk_require_take_profit \in BOOLEAN
<1> DEFINE s == SettingsOf(e)
<1>1. \A k \in Key : s[k] \in FieldType[k]
  BY Zenon DEF Starts, SettingsOK
<1> HIDE DEF s
<1>2. \A k \in {"execution_default_volume", "risk_max_risk_pct", "risk_max_daily_loss_pct",
                 "risk_max_positions", "risk_max_exposure", "risk_min_stop_points",
                 "risk_duplicate_window_s", "risk_cooldown_s", "risk_min_margin_level_pct"} :
          k \in Key /\ FieldType[k] = Int
  BY DEF Key, Defaults, FieldType
<1>3. /\ "risk_allowed_symbols" \in Key /\ FieldType["risk_allowed_symbols"] = {None} \union Seq(STRING)
      /\ "risk_allowed_sessions" \in Key /\ FieldType["risk_allowed_sessions"] = Seq(Entry)
      /\ "risk_max_spread_points" \in Key /\ FieldType["risk_max_spread_points"] = {None} \union Int
  BY DEF Key, Defaults, FieldType
<1>4. /\ "risk_require_stop_loss" \in Key /\ FieldType["risk_require_stop_loss"] = BOOLEAN
      /\ "risk_require_take_profit" \in Key /\ FieldType["risk_require_take_profit"] = BOOLEAN
  BY DEF Key, Defaults, FieldType
<1> QED  BY <1>1, <1>2, <1>3, <1>4 DEF s

(* The names of an allowlist.                                              *)
LEMMA AllowlistTyped ==
    ASSUME NEW csv \in {None} \union Seq(STRING)
    PROVE  AllowedSymbols(csv) \in (SUBSET STRING) \union {None}
<1>1. csv # None => Entries(csv) \subseteq STRING
  <2>1. ASSUME csv # None, NEW i \in 1..Len(csv) PROVE csv[i] \in STRING
    BY <2>1, ElementOfSeq
  <2> QED  BY <2>1, Zenon DEF Entries
<1> QED  BY <1>1, Zenon DEF AllowedSymbols

(* The sessions of settings that pass to_risk_config.                      *)
LEMMA SessionsTyped ==
    ASSUME NEW csv, SessionsOK(csv)
    PROVE  {[start |-> e.start, end |-> e.end] : e \in Spans(csv)} \in (SUBSET TradingSession) \ {{}}
BY Zenon DEF SessionsOK

(* What to_risk_config builds passes RiskConfig's own validation.          *)
LEMMA ConfigFits ==
    ASSUME NEW e \in Inputs, Starts(e)
    PROVE  ToRiskConfig(SettingsOf(e)) \in RiskConfig
<1> DEFINE s == SettingsOf(e)
           symbols == AllowedSymbols(s.risk_allowed_symbols)
           sessions == {[start |-> x.start, end |-> x.end] : x \in Spans(s.risk_allowed_sessions)}
<1>1. SettingsOK(s) /\ RiskConfigOK(s)
  BY DEF Starts
<1>2. symbols \in (SUBSET STRING) \union {None}
  BY SettingsTyped, AllowlistTyped
<1>3. sessions \in (SUBSET TradingSession) \ {{}}
  BY <1>1, SessionsTyped DEF RiskConfigOK
<1>4. /\ s.risk_max_risk_pct \in 1..100 /\ s.risk_max_daily_loss_pct \in 1..100
      /\ s.risk_max_positions \in Nat \ {0} /\ s.risk_max_exposure \in Nat \ {0}
      /\ s.risk_min_stop_points \in Nat /\ s.risk_duplicate_window_s \in Nat
      /\ s.risk_cooldown_s \in Nat /\ s.risk_min_margin_level_pct \in Nat \ {0}
      /\ s.risk_require_stop_loss \in BOOLEAN /\ s.risk_require_take_profit \in BOOLEAN
  <2>1. /\ s.risk_max_risk_pct \in 1..100 /\ s.risk_max_daily_loss_pct \in 1..100
        /\ s.risk_max_positions >= 1 /\ s.risk_max_exposure > 0
        /\ s.risk_min_stop_points >= 0 /\ s.risk_duplicate_window_s >= 0
        /\ s.risk_cooldown_s >= 0 /\ s.risk_min_margin_level_pct > 0
    BY <1>1 DEF SettingsOK
  <2>2. /\ s.risk_max_positions \in Int
        /\ s.risk_max_exposure \in Int /\ s.risk_min_stop_points \in Int
        /\ s.risk_duplicate_window_s \in Int /\ s.risk_cooldown_s \in Int
        /\ s.risk_min_margin_level_pct \in Int
        /\ s.risk_require_stop_loss \in BOOLEAN /\ s.risk_require_take_profit \in BOOLEAN
    BY SettingsTyped
  <2> HIDE DEF s
  <2> QED  BY <2>1, <2>2
<1>5. s.risk_max_spread_points \in (Nat \ {0}) \union {None}
  <2>1. s.risk_max_spread_points \in {None} \union Int
    BY SettingsTyped
  <2>2. s.risk_max_spread_points = None \/ s.risk_max_spread_points > 0
    BY <1>1 DEF RiskConfigOK
  <2> HIDE DEF s
  <2> QED  BY <2>1, <2>2
<1>6. ToRiskConfig(s) =
    [maxRiskPct |-> s.risk_max_risk_pct, maxDailyLossPct |-> s.risk_max_daily_loss_pct,
     maxOpenPositions |-> s.risk_max_positions, maxExposure |-> s.risk_max_exposure,
     allowedSymbols |-> symbols, allowedSessions |-> sessions,
     maxSpread |-> s.risk_max_spread_points,
     requireStopLoss |-> s.risk_require_stop_loss, requireTakeProfit |-> s.risk_require_take_profit,
     minStopPoints |-> s.risk_min_stop_points, duplicateWindow |-> s.risk_duplicate_window_s,
     cooldown |-> s.risk_cooldown_s, minMarginLevel |-> s.risk_min_margin_level_pct]
  BY Zenon DEF ToRiskConfig
<1> HIDE DEF s, symbols, sessions
<1>7. ToRiskConfig(s) \in RiskConfig
  BY <1>2, <1>3, <1>4, <1>5, <1>6 DEF RiskConfig
<1> QED  BY <1>7 DEF s

(* The default volume completes a proposal and changes nothing else.       *)
LEMMA WithVolumeKeeps ==
    ASSUME NEW p \in TradeProposal, NEW v \in Nat, NEW direction, Follows(p, direction)
    PROVE  LET q == WithVolume(p, v)
           IN /\ q \in TradeProposal /\ Follows(q, direction)
              /\ q.symbol = p.symbol /\ q.action = p.action /\ q.riskPct = p.riskPct
              /\ q.action # "HOLD" => q.volume # None
              /\ q.action # "HOLD" /\ p.volume = None => q.volume = v
              /\ p.volume # NaN => q.volume # NaN
<1> DEFINE q == [p EXCEPT !.volume = v]
<1>1. CASE p.action # "HOLD" /\ p.volume = None
  <2>1. WithVolume(p, v) = q
    BY <1>1 DEF WithVolume
  <2>2. /\ q \in TradeProposal /\ q.symbol = p.symbol /\ q.action = p.action /\ q.volume = v
        /\ q.entry = p.entry /\ q.stopLoss = p.stopLoss /\ q.takeProfit = p.takeProfit
        /\ q.riskPct = p.riskPct
    BY DEF TradeProposal
  <2>3. v # None /\ v # NaN
    BY SentinelsAssumption
  <2> HIDE DEF q
  <2> QED  BY <2>1, <2>2, <2>3 DEF Follows
<1>2. CASE ~(p.action # "HOLD" /\ p.volume = None)
  BY <1>2 DEF WithVolume
<1> QED  BY <1>1, <1>2

LEMMA UnusableAnswerHolds ==
    ASSUME NEW direction, NEW symbol \in STRING
    PROVE  LLMPlan(NoAnswer, direction, symbol) = HoldProposal(symbol, 0)
<1>1. ~FieldsOK(NoAnswer)
  BY DEF FieldsOK, NoAnswer, Upper
<1> QED  BY <1>1 DEF LLMPlan

(* The plan of a cycle: a proposal that follows the signal, on the asked   *)
(* symbol, and a trade only from a reply that got through.                 *)
LEMMA PlanFits ==
    ASSUME NEW e \in Inputs, Starts(e)
    PROVE  LET x == Plan(e)
               s == SettingsOf(e)
           IN /\ x.p \in TradeProposal /\ x.planned
              /\ x.direction = PrimaryDirection(StrategyList, e.terminal.candles)
              /\ Follows(x.p, x.direction)
              /\ x.p.symbol = e.symbol
              /\ x.p.action # "HOLD" =>
                    /\ Configured(s) /\ Generates(s.llm_provider, e.reply) /\ e.reply.json = "object"
                    /\ x.p.volume # None
                    /\ e.reply.answer.volume \in {None, Missing} =>
                            x.p.volume = s.execution_default_volume
              /\ e.reply.answer.volume # NaN => x.p.volume # NaN
<1> DEFINE s == SettingsOf(e)
           d == PrimaryDirection(StrategyList, e.terminal.candles)
           raw == IF Configured(s) THEN AnswerOf(s.llm_provider, e.reply) ELSE NoAnswer
           p == LLMPlan(raw, d, e.symbol)
           q == WithVolume(p, s.execution_default_volume)
<1>1. Plan(e).p = q /\ Plan(e).planned /\ Plan(e).direction = d
  <2> DEFINE x == [p |-> p, planned |-> TRUE, direction |-> d]
  <2>1. Plan(e) = [x EXCEPT !.p = WithVolume(x.p, s.execution_default_volume)]
    BY Zenon DEF Plan, Planned
  <2> HIDE DEF p, d, s
  <2>2. x.p = p
    OBVIOUS
  <2>3. ASSUME NEW r
        PROVE  LET y == [x EXCEPT !.p = r] IN y.p = r /\ y.planned /\ y.direction = d
    OBVIOUS
  <2> QED  BY <2>1, <2>2, <2>3, Zenon
<1>2. s.execution_default_volume \in Nat
  <2>1. s.execution_default_volume \in Int /\ s.execution_default_volume > 0
    BY SettingsTyped DEF Starts, SettingsOK
  <2> QED  BY <2>1
<1>3. e.symbol \in STRING /\ e.reply.answer \in LLMAnswer
  <2>1. e.symbol \in STRING /\ e.reply \in Reply
    BY PathAssumption
  <2> QED  BY <2>1 DEF Reply
<1>4. /\ p \in TradeProposal /\ Follows(p, d) /\ p.symbol = e.symbol
      /\ p.action # "HOLD" =>
            Configured(s) /\ Generates(s.llm_provider, e.reply) /\ e.reply.json = "object"
      /\ e.reply.answer.volume # NaN => p.volume # NaN
      /\ p.action # "HOLD" /\ e.reply.answer.volume \in {None, Missing} => p.volume = None
  <2>1. CASE raw = NoAnswer
    <3>1. p = HoldProposal(e.symbol, 0)
      BY <2>1, <1>3, UnusableAnswerHolds
    <3>2. p \in TradeProposal /\ Follows(p, d)
      BY <3>1, <1>3, HoldIsProposal
    <3>3. p.action = "HOLD" /\ p.volume # NaN /\ p.symbol = e.symbol
      BY <3>1, SentinelsAssumption DEF HoldProposal
    <3> QED  BY <3>2, <3>3
  <2>2. CASE /\ raw = e.reply.answer /\ Configured(s)
             /\ Generates(s.llm_provider, e.reply) /\ e.reply.json = "object"
    <3> DEFINE a == e.reply.answer
    <3>1. p = LLMPlan(a, d, e.symbol)
      BY <2>2
    <3>2. p \in TradeProposal /\ Follows(p, d)
      BY <3>1, <1>3, PlanFollows
    <3>3. /\ p.symbol = e.symbol /\ p.volume \in {None, a.volume}
          /\ a.volume \in {None, Missing} => p.volume = None
      <4> HIDE DEF p, d, a
      <4>1. ASSUME NEW risk PROVE HoldProposal(e.symbol, risk).symbol = e.symbol
                                  /\ HoldProposal(e.symbol, risk).volume = None
        BY DEF HoldProposal
      <4>2. /\ OptFloat(a.volume) \in {None, a.volume}
            /\ a.volume \in {None, Missing} => OptFloat(a.volume) = None
        BY DEF OptFloat
      <4> QED  BY <3>1, <4>1, <4>2 DEF LLMPlan
    <3>4. None # NaN
      BY SentinelsAssumption
    <3> QED  BY <2>2, <3>2, <3>3, <3>4
  <2>3. \/ raw = NoAnswer
        \/ /\ raw = e.reply.answer /\ Configured(s)
           /\ Generates(s.llm_provider, e.reply) /\ e.reply.json = "object"
    BY Zenon DEF AnswerOf
  <2> QED  BY <2>1, <2>2, <2>3
<1> HIDE DEF p, d, s
<1>5. /\ q \in TradeProposal /\ Follows(q, d)
      /\ q.symbol = p.symbol /\ q.action = p.action
      /\ q.action # "HOLD" => q.volume # None
      /\ q.action # "HOLD" /\ p.volume = None => q.volume = s.execution_default_volume
      /\ p.volume # NaN => q.volume # NaN
  BY <1>2, <1>4, WithVolumeKeeps
<1> HIDE DEF q
<1> QED  BY <1>1, <1>4, <1>5 DEF s, d
-----------------------------------------------------------------------------
(* The day's P&L is the last running total of the deals' net results.      *)
LEMMA DayPnlAddsUp ==
    ASSUME NEW deals, Len(Rows(deals)) \in Nat
    PROVE  \E f : /\ AddsUp(f, [i \in 1..Len(Rows(deals)) |-> Net(Rows(deals)[i])], Len(Rows(deals)))
                  /\ DayPnl(deals) = f[Len(Rows(deals))]
<1> DEFINE ps == Rows(deals)
           n == Len(ps)
           w == [i \in 1..n |-> Net(ps[i])]
           Sums(f) == f = [i \in 0..n |-> IF i = 0 THEN 0 ELSE f[i - 1] + Net(ps[i])]
           G == CHOOSE f : Sums(f)
<1>1. \A f : AddsUp(f, w, n) <=> Sums(f)
  <2> SUFFICES ASSUME NEW f
               PROVE  [i \in 0..n |-> IF i = 0 THEN 0 ELSE f[i - 1] + w[i]]
                        = [i \in 0..n |-> IF i = 0 THEN 0 ELSE f[i - 1] + Net(ps[i])]
    BY DEF AddsUp
  <2>1. \A i \in 0..n : i # 0 => w[i] = Net(ps[i])
    OBVIOUS
  <2> HIDE DEF w, n, ps
  <2> QED  BY <2>1
<1>2. \E f : AddsUp(f, w, n)
  <2> HIDE DEF w
  <2> QED  BY AddsUpExists
<1>3. Sums(G)
  <2> HIDE DEF w
  <2>1. \E f : Sums(f)
    BY <1>1, <1>2
  <2> HIDE DEF Sums
  <2> QED  BY <2>1
<1>4. DayPnl(deals) = G[n]
  BY Zenon DEF DayPnl
<1> QED  BY <1>1, <1>3, <1>4
(* A table v of n rows with the fields F, in which row i adds w[i] to any  *)
(* sum that it is not part of.                                             *)
RowsAdd(v, w, n, F) ==
    /\ n \in Nat /\ IsFiniteSet(F)
    /\ \A i \in 1..n : w[i] \in Int /\ \A x \in F : v[<<i, x>>] \in Int
    /\ \A i \in 1..n : \A S :
        IsFiniteSet(S) /\ (\A k \in S : v[k] \in Int) /\ (\A x \in F : <<i, x>> \notin S)
            => SumFunctionOnSet(v, S \union ({i} \X F)) = SumFunctionOnSet(v, S) + w[i]

TableTotal(v, n, F) == SumFunctionOnSet(v, (1..n) \X F)

(* The total of the table is the last of the running totals of w.          *)
LEMMA TotalByRow ==
    ASSUME NEW v, NEW n, NEW F, NEW w, RowsAdd(v, w, n, F), NEW f, AddsUp(f, w, n)
    PROVE  TableTotal(v, n, F) = f[n]
<1>0. /\ n \in Nat /\ IsFiniteSet(F)
      /\ \A i \in 1..n : w[i] \in Int /\ \A x \in F : v[<<i, x>>] \in Int
      /\ \A i \in 1..n : \A S :
          IsFiniteSet(S) /\ (\A k \in S : v[k] \in Int) /\ (\A x \in F : <<i, x>> \notin S)
              => SumFunctionOnSet(v, S \union ({i} \X F)) = SumFunctionOnSet(v, S) + w[i]
  BY Zenon DEF RowsAdd
<1> DEFINE T(i) == (1..i) \X F
           h == [i \in 0..n |-> SumFunctionOnSet(v, T(i))]
<1>1. h[0] = 0
  <2>1. T(0) = {} /\ 0 \in 0..n
    BY <1>0
  <2>2. SumFunctionOnSet(v, {}) = 0
    <3>1. IsFiniteSet({}) /\ \A k \in {} : v[k] \in Int
      BY FS_EmptySet
    <3> QED  BY <3>1, SumSplits
  <2> QED  BY <2>1, <2>2
<1>2. ASSUME NEW i \in 1..n PROVE h[i] = h[i - 1] + w[i]
  <2> DEFINE S == T(i - 1)
  <2>1. i - 1 \in 0..n /\ i \in 0..n /\ 1..i = (1..(i - 1)) \union {i} /\ i \notin 1..(i - 1)
    BY <1>0
  <2>2. IsFiniteSet(S)
    <3>1. IsFiniteSet(1..(i - 1))
      BY <2>1, FS_Interval
    <3> QED  BY <3>1, <1>0, FS_Product
  <2>3. \A k \in S : v[k] \in Int
    <3>1. \A j \in 1..(i - 1) : j \in 1..n
      BY <1>0
    <3> QED  BY <3>1, <1>0
  <2>4. \A x \in F : <<i, x>> \notin S
    BY <2>1
  <2>5. T(i) = S \union ({i} \X F)
    BY <2>1, Zenon
  <2>6. h[i] = SumFunctionOnSet(v, T(i)) /\ h[i - 1] = SumFunctionOnSet(v, S)
    BY <2>1
  <2> HIDE DEF S, T, h
  <2> QED  BY <2>2, <2>3, <2>4, <2>5, <2>6, <1>0
<1>3. h[n] = f[n]
  <2> HIDE DEF h
  <2>1. n \in 0..n /\ \A i \in 1..n : w[i] \in Int
    BY <1>0
  <2> QED  BY ONLY <1>0, <1>1, <1>2, <2>1, AddsUp(f, w, n), RunningTotals
<1>4. h[n] = SumFunctionOnSet(v, T(n))
  BY <1>0
<1> QED  BY <1>3, <1>4, Zenon DEF TableTotal

(* What a raw figure that converts counts as.                              *)
LEMMA FigureIsRaw ==
    ASSUME NEW row, NEW k, row[k] \in RawValue, Converts(row[k])
    PROVE  Figure(row[k]) = RawFigure(row, k) /\ Figure(row[k]) \in Int
<1>1. None \notin Int /\ Missing \notin Int /\ Junk \notin Int
  BY SentinelsAssumption, RawAssumption
<1> QED  BY <1>1 DEF Figure, RawFigure, RawValue, Converts

(* An answer's total as a sum over rows and fields.                        *)
LEMMA RawTotalIsSum ==
    ASSUME NEW rows, NEW F
    PROVE  LET v == [at \in (1..Len(rows)) \X F |-> RawFigure(rows[at[1]], at[2])]
           IN /\ RawTotal(rows, F) = TableTotal(v, Len(rows), F)
              /\ \A i \in 1..Len(rows) : \A x \in F : v[<<i, x>>] = RawFigure(rows[i], x)
<1> DEFINE D == (1..Len(rows)) \X F
           v == [at \in D |-> RawFigure(rows[at[1]], at[2])]
<1>1. DOMAIN v = D
  OBVIOUS
<1>2. RawTotal(rows, F) = TableTotal(v, Len(rows), F)
  BY <1>1, Zenon DEF RawTotal, SumFunction, TableTotal
<1>3. ASSUME NEW i \in 1..Len(rows), NEW x \in F PROVE v[<<i, x>>] = RawFigure(rows[i], x)
  <2>1. <<i, x>> \in D /\ <<i, x>>[1] = i /\ <<i, x>>[2] = x
    OBVIOUS
  <2> HIDE DEF D
  <2> QED  BY <2>1, Zenon
<1> QED  BY <1>2, <1>3

(* The rows that observe() reads.                                          *)
LEMMA RowsObserved ==
    ASSUME NEW t \in Terminal, Observes(t)
    PROVE  /\ Rows(t.positions) \in Seq(PositionRow) /\ Rows(t.deals) \in Seq(DealRow)
           /\ Len(Rows(t.positions)) \in Nat /\ Len(Rows(t.deals)) \in Nat
           /\ \A i \in 1..Len(Rows(t.positions)) :
                /\ Rows(t.positions)[i] \in PositionRow /\ PositionOK(Rows(t.positions)[i])
           /\ \A i \in 1..Len(Rows(t.deals)) :
                /\ Rows(t.deals)[i] \in DealRow /\ DealOK(Rows(t.deals)[i])
<1>1. t.positions \in {None} \union Seq(PositionRow) /\ t.deals \in {None} \union Seq(DealRow)
  BY DEF Terminal
<1>2. Rows(t.positions) \in Seq(PositionRow) /\ Rows(t.deals) \in Seq(DealRow)
  <2> HIDE DEF PositionRow, DealRow
  <2>1. ASSUME NEW T, NEW a \in {None} \union Seq(T) PROVE Rows(a) \in Seq(T)
    BY DEF Rows
  <2> QED  BY <1>1, <2>1
<1>3. /\ \A r \in RowSet(t.positions) : PositionOK(r)
      /\ \A r \in RowSet(t.deals) : DealOK(r)
  BY DEF Observes
<1> HIDE DEF PositionRow, DealRow
<1>4. \A i \in 1..Len(Rows(t.positions)) : Rows(t.positions)[i] \in PositionRow
  BY <1>2, ElementOfSeq
<1>5. \A i \in 1..Len(Rows(t.deals)) : Rows(t.deals)[i] \in DealRow
  BY <1>2, ElementOfSeq
<1>6. \A i \in 1..Len(Rows(t.positions)) : Rows(t.positions)[i] \in RowSet(t.positions)
  BY Zenon DEF RowSet
<1>7. \A i \in 1..Len(Rows(t.deals)) : Rows(t.deals)[i] \in RowSet(t.deals)
  BY Zenon DEF RowSet
<1>8. Len(Rows(t.positions)) \in Nat /\ Len(Rows(t.deals)) \in Nat
  BY <1>2, LenProperties
<1> QED  BY <1>2, <1>3, <1>4, <1>5, <1>6, <1>7, <1>8

(* A function on 1..n is a sequence of length n.                           *)
LEMMA FunctionIsSeq ==
    ASSUME NEW T, NEW n \in Nat, NEW s \in [1..n -> T]
    PROVE  s \in Seq(T) /\ Len(s) = n
OBVIOUS

(* A mapped position is one of the rules' positions, of the raw volume.    *)
LEMMA MappedPosition ==
    ASSUME NEW r \in PositionRow, PositionOK(r)
    PROVE  /\ MapPosition(r) \in [symbol : STRING, side : Directional, volume : Nat]
           /\ MapPosition(r).volume = RawFigure(r, "volume")
<1>1. r.volume \in RawValue /\ r.symbol \in STRING /\ r.volume = r["volume"]
  BY DEF PositionRow
<1>2. Converts(r.volume) /\ Figure(r.volume) > 0
  BY Zenon DEF PositionOK, Positive
<1>3. Figure(r.volume) = RawFigure(r, "volume") /\ Figure(r.volume) \in Int
  BY <1>1, <1>2, FigureIsRaw
<1>4. Figure(r.volume) \in Nat
  BY <1>2, <1>3
<1> DEFINE side == IF r.type = 1 THEN "SELL" ELSE "BUY"
           volume == Figure(r.volume)
<1>5. side \in Directional /\ MapPosition(r) = [symbol |-> r.symbol, side |-> side, volume |-> volume]
  BY DEF Directional, MapPosition
<1> HIDE DEF side, volume
<1> QED  BY <1>1, <1>3, <1>4, <1>5 DEF volume

(* The exposure the rules see is the total of the raw volumes.             *)
LEMMA ExposureIsRaw ==
    ASSUME NEW t \in Terminal, Observes(t)
    PROVE  LET ps == ContextOf(t).positions
               rows == Rows(t.positions)
           IN /\ ps \in Seq([symbol : STRING, side : Directional, volume : Nat])
              /\ Len(ps) = Len(rows)
              /\ Exposure(ps) \in Nat /\ Exposure(ps) = RawTotal(rows, {"volume"})
<1> DEFINE rows == Rows(t.positions)
           n == Len(rows)
           ps == [i \in 1..n |-> MapPosition(rows[i])]
           F == {"volume"}
           v == [at \in (1..n) \X F |-> RawFigure(rows[at[1]], at[2])]
           w == [i \in 1..n |-> ps[i].volume]
           P == [symbol : STRING, side : Directional, volume : Nat]
<1>1. ContextOf(t).positions = ps
  BY DEF ContextOf
<1>2. n \in Nat /\ \A i \in 1..n : rows[i] \in PositionRow /\ PositionOK(rows[i])
  BY RowsObserved
<1>3. \A i \in 1..n : ps[i] \in P /\ ps[i].volume \in Nat /\ ps[i].volume = RawFigure(rows[i], "volume")
  <2> TAKE i \in 1..n
  <2>1. ps[i] = MapPosition(rows[i])
    OBVIOUS
  <2>2. ps[i] \in P /\ ps[i].volume = RawFigure(rows[i], "volume")
    BY <1>2, <2>1, MappedPosition
  <2>3. \A x \in P : x.volume \in Nat
    OBVIOUS
  <2> QED  BY <2>2, <2>3
<1>4. ps \in Seq(P) /\ Len(ps) = n
  <2>1. ps \in [1..n -> P]
    BY <1>3
  <2> HIDE DEF ps, P, n
  <2> QED  BY <1>2, <2>1, FunctionIsSeq
<1>5. PICK f : AddsUp(f, [i \in 1..Len(ps) |-> ps[i].volume], Len(ps)) /\ Exposure(ps) = f[Len(ps)]
  <2> HIDE DEF ps, n
  <2> QED  BY <1>2, <1>4, ExposureAddsUp
<1>6. AddsUp(f, w, n) /\ Exposure(ps) = f[n]
  BY <1>4, <1>5
<1>7. \A i \in 1..n : w[i] \in Nat /\ w[i] \in Int /\ w[i] = RawFigure(rows[i], "volume")
  BY <1>3
<1>8. /\ RawTotal(rows, F) = TableTotal(v, n, F)
      /\ \A i \in 1..n : v[<<i, "volume">>] = w[i]
  BY <1>7, RawTotalIsSum
<1>9. Exposure(ps) \in Nat
  BY <1>4, ExposureIsNat
<1>10. TableTotal(v, n, F) = f[n]
  <2>1. IsFiniteSet(F)
    BY FS_Singleton
  <2>2. \A i \in 1..n : \A x \in F : v[<<i, x>>] \in Int
    <3> HIDE DEF v, w, n, rows
    <3> QED  BY <1>7, <1>8
  <2>3. ASSUME NEW i \in 1..n, NEW S, IsFiniteSet(S), \A k \in S : v[k] \in Int,
               \A x \in F : <<i, x>> \notin S
        PROVE  SumFunctionOnSet(v, S \union ({i} \X F)) = SumFunctionOnSet(v, S) + w[i]
    <3> DEFINE y == <<i, "volume">>
    <3>1. {i} \X F = {y} /\ y \notin S
      BY <2>3
    <3>2. v[y] = w[i] /\ v[y] \in Int
      <4> HIDE DEF v, w, n, rows
      <4> QED  BY <1>7, <1>8
    <3> HIDE DEF v, w, y, F
    <3>3. SumFunctionOnSet(v, S \union {y}) = v[y] + SumFunctionOnSet(v, S)
      BY <2>3, <3>1, <3>2, SumAdds
    <3>4. SumFunctionOnSet(v, S) \in Int
      BY <2>3, SumSplits
    <3>5. SumFunctionOnSet(v, S \union {y}) = SumFunctionOnSet(v, S) + w[i]
      BY <3>2, <3>3, <3>4
    <3> QED  BY <3>1, <3>5, Zenon
  <2> HIDE DEF v, w, n, rows, F
  <2>4. n \in Nat /\ \A i \in 1..n : w[i] \in Int /\ \A x \in F : v[<<i, x>>] \in Int
    BY <1>2, <1>7, <2>2
  <2>5. RowsAdd(v, w, n, F)
    BY <2>1, <2>3, <2>4, Zenon DEF RowsAdd
  <2> QED  BY <2>5, <1>6, TotalByRow
<1> QED  BY <1>1, <1>4, <1>6, <1>8, <1>9, <1>10

(* The figures of a deal that maps.                                        *)
LEMMA MappedDeal ==
    ASSUME NEW r \in DealRow, DealOK(r)
    PROVE  /\ \A k \in {"profit", "commission", "swap", "fee"} : RawFigure(r, k) \in Int
           /\ Net(r) = RawFigure(r, "profit") + RawFigure(r, "commission") + RawFigure(r, "swap")
                        + RawFigure(r, "fee")
           /\ Net(r) \in Int
<1>1. /\ r["profit"] \in RawValue /\ r["commission"] \in RawValue
      /\ r["swap"] \in RawValue /\ r["fee"] \in RawValue
  BY DEF DealRow
<1>2. /\ Converts(r["profit"]) /\ Converts(r["commission"])
      /\ Converts(r["swap"]) /\ Converts(r["fee"])
  BY DEF DealOK
<1>3. \A k \in {"profit", "commission", "swap", "fee"} :
          Figure(r[k]) = RawFigure(r, k) /\ RawFigure(r, k) \in Int
  <2> TAKE k \in {"profit", "commission", "swap", "fee"}
  <2>1. r[k] \in RawValue /\ Converts(r[k])
    BY <1>1, <1>2
  <2> QED  BY <2>1, FigureIsRaw
<1>4. Net(r) = Figure(r["profit"]) + Figure(r["commission"]) + Figure(r["swap"]) + Figure(r["fee"])
  BY DEF Net
<1> QED  BY <1>3, <1>4

(* The day's P&L the rules see is the total of the raw figures.            *)
LEMMA DayPnlIsRaw ==
    ASSUME NEW t \in Terminal, Observes(t)
    PROVE  /\ DayPnl(t.deals) \in Int
           /\ DayPnl(t.deals) = RawTotal(Rows(t.deals), {"profit", "commission", "swap", "fee"})
<1> DEFINE rows == Rows(t.deals)
           n == Len(rows)
           F == {"profit", "commission", "swap", "fee"}
           v == [at \in (1..n) \X F |-> RawFigure(rows[at[1]], at[2])]
           w == [i \in 1..n |-> Net(rows[i])]
<1>1. n \in Nat /\ \A i \in 1..n : rows[i] \in DealRow /\ DealOK(rows[i])
  BY RowsObserved
<1>2. PICK f : AddsUp(f, w, n) /\ DayPnl(t.deals) = f[n]
  BY <1>1, DayPnlAddsUp
<1>3. /\ RawTotal(rows, F) = TableTotal(v, n, F)
      /\ \A i \in 1..n : \A x \in F : v[<<i, x>>] = RawFigure(rows[i], x)
  BY RawTotalIsSum
<1>4. /\ \A i \in 1..n : \A x \in F : v[<<i, x>>] \in Int
      /\ \A i \in 1..n : w[i] \in Int
      /\ \A i \in 1..n : w[i] = v[<<i, "profit">>] + v[<<i, "commission">>]
                                  + v[<<i, "swap">>] + v[<<i, "fee">>]
  <2> HIDE DEF v
  <2>1. \A i \in 1..n : w[i] = Net(rows[i])
    OBVIOUS
  <2> HIDE DEF w
  <2>2. ASSUME NEW i \in 1..n
        PROVE  /\ \A x \in F : v[<<i, x>>] \in Int
               /\ w[i] \in Int
               /\ w[i] = v[<<i, "profit">>] + v[<<i, "commission">>]
                           + v[<<i, "swap">>] + v[<<i, "fee">>]
    <3> DEFINE r == rows[i]
    <3>1. r \in DealRow /\ DealOK(r)
      BY <1>1
    <3>2. /\ \A k \in F : RawFigure(r, k) \in Int
          /\ Net(r) = RawFigure(r, "profit") + RawFigure(r, "commission") + RawFigure(r, "swap")
                        + RawFigure(r, "fee")
          /\ Net(r) \in Int
      BY <3>1, MappedDeal
    <3> QED  BY <1>3, <2>1, <3>2
  <2> QED  BY <2>2
<1>5. RowsAdd(v, w, n, F)
  <2> HIDE DEF v, w, n, rows
  <2>1. IsFiniteSet(F)
    <3>1. ASSUME NEW a, NEW b, NEW c, NEW d PROVE IsFiniteSet({a, b, c, d})
      <4> DEFINE B == {a} \union {b}
                 C == B \union {c}
                 D == C \union {d}
      <4>1. D = {a, b, c, d}
        OBVIOUS
      <4> HIDE DEF B, C, D
      <4>2. IsFiniteSet({a})
        BY FS_Singleton
      <4>3. IsFiniteSet(B)
        BY <4>2, FS_AddElement DEF B
      <4>4. IsFiniteSet(C)
        BY <4>3, FS_AddElement DEF C
      <4>5. IsFiniteSet(D)
        BY <4>4, FS_AddElement DEF D
      <4> QED  BY <4>1, <4>5, Zenon
    <3> QED  BY <3>1
  <2>2. ASSUME NEW i \in 1..n, NEW S, IsFiniteSet(S), \A k \in S : v[k] \in Int,
               \A x \in F : <<i, x>> \notin S
        PROVE  SumFunctionOnSet(v, S \union ({i} \X F)) = SumFunctionOnSet(v, S) + w[i]
    <3> DEFINE a == <<i, "profit">>
               b == <<i, "commission">>
               c == <<i, "swap">>
               d == <<i, "fee">>
    <3>1. /\ {i} \X F = {a, b, c, d} /\ a \notin S /\ b \notin S /\ c \notin S /\ d \notin S
          /\ a # b /\ a # c /\ a # d /\ b # c /\ b # d /\ c # d
      BY <2>2
    <3>2. /\ v[a] \in Int /\ v[b] \in Int /\ v[c] \in Int /\ v[d] \in Int
          /\ w[i] = v[a] + v[b] + v[c] + v[d]
      BY <1>4
    <3> DEFINE A == S \union {a}
               B == A \union {b}
               C == B \union {c}
    <3> HIDE DEF a, b, c, d
    <3>3. /\ IsFiniteSet(A) /\ IsFiniteSet(B) /\ IsFiniteSet(C)
          /\ \A k \in A : v[k] \in Int
          /\ \A k \in B : v[k] \in Int
          /\ \A k \in C : v[k] \in Int
      BY <2>2, <3>2, FS_AddElement
    <3>4. b \notin A /\ c \notin B /\ d \notin C
      BY <3>1
    <3>5. S \union ({i} \X F) = C \union {d}
      BY <3>1, Zenon
    <3> HIDE DEF A, B, C, F
    <3>6. SumFunctionOnSet(v, A) = v[a] + SumFunctionOnSet(v, S) /\ SumFunctionOnSet(v, S) \in Int
      BY <2>2, <3>1, <3>2, SumAdds, SumSplits DEF A
    <3>7. SumFunctionOnSet(v, B) = v[b] + SumFunctionOnSet(v, A)
      BY <3>2, <3>3, <3>4, SumAdds DEF B
    <3>8. SumFunctionOnSet(v, C) = v[c] + SumFunctionOnSet(v, B)
      BY <3>2, <3>3, <3>4, SumAdds DEF C
    <3>9. SumFunctionOnSet(v, C \union {d}) = v[d] + SumFunctionOnSet(v, C)
      BY <3>2, <3>3, <3>4, SumAdds
    <3>10. SumFunctionOnSet(v, C \union {d}) = SumFunctionOnSet(v, S) + w[i]
      BY <3>2, <3>6, <3>7, <3>8, <3>9
    <3> QED  BY <3>5, <3>10, Zenon
  <2> HIDE DEF F
  <2>3. n \in Nat /\ \A i \in 1..n : w[i] \in Int /\ \A x \in F : v[<<i, x>>] \in Int
    BY <1>1, <1>4
  <2> QED  BY <2>1, <2>2, <2>3, Zenon DEF RowsAdd
<1>6. TableTotal(v, n, F) = f[n] /\ f[n] \in Int
  <2> HIDE DEF v, w, n, rows, F
  <2>1. TableTotal(v, n, F) = f[n]
    BY <1>5, <1>2, TotalByRow
  <2>2. \A i \in 0..n : f[i] \in Int
    BY <1>1, <1>2, <1>4, RunningTotals
  <2> QED  BY <1>1, <2>1, <2>2
<1> QED  BY <1>2, <1>3, <1>6

(* What observe() hands to the rules is a context of theirs.               *)
LEMMA ContextFits ==
    ASSUME NEW t \in Terminal, Observes(t)
    PROVE  LET c == ContextOf(t)
           IN /\ c \in RiskContext /\ c.dayPnl = DayPnl(t.deals)
              /\ c.account.balance = RawFigure(t.account, "balance")
              /\ c.account.equity = RawFigure(t.account, "equity")
              /\ c.account.marginLevel = MarginLevel(t.account)
              /\ c.spread = IF Quoted(t) THEN SpreadPoints(t) ELSE None
              /\ c.point = (IF Quoted(t) THEN Figure(t.info.point) ELSE None) /\ c.hour = t.hour
<1> DEFINE a == t.account
           account == [tradeAllowed |-> a.tradeAllowed = TRUE, equity |-> Figure(a.equity),
                       balance |-> Figure(a.balance), marginLevel |-> MarginLevel(a)]
           ps == [i \in 1..Len(Rows(t.positions)) |-> MapPosition(Rows(t.positions)[i])]
           spread == IF Quoted(t) THEN SpreadPoints(t) ELSE None
           point == IF Quoted(t) THEN Figure(t.info.point) ELSE None
           pnl == DayPnl(t.deals)
<1>1. ContextOf(t) = [account |-> account, positions |-> ps, spread |-> spread, point |-> point,
                      serverTime |-> t.now, hour |-> t.hour, dayPnl |-> pnl, recent |-> <<>>]
  BY Zenon DEF ContextOf
<1>2. a \in AccountRow /\ AccountOK(a)
  <2>1. t.account \in {None} \union AccountRow
    BY DEF Terminal
  <2> QED  BY <2>1 DEF Observes
<1>3. /\ Figure(a.balance) = RawFigure(a, "balance") /\ Figure(a.balance) \in Int
      /\ Figure(a.equity) = RawFigure(a, "equity") /\ Figure(a.equity) \in Int
      /\ Figure(a.margin) \in Int
  <2>1. /\ a["balance"] \in RawValue /\ a["equity"] \in RawValue /\ a["margin"] \in RawValue
    BY <1>2 DEF AccountRow
  <2>2. Converts(a["balance"]) /\ Converts(a["equity"]) /\ Converts(a["margin"])
    BY <1>2 DEF AccountOK
  <2> HIDE DEF a
  <2> QED  BY <2>1, <2>2, FigureIsRaw
<1>4. MarginLevel(a) \in Int \union {None}
  <2> DEFINE e == Figure(a.equity)
             m == Figure(a.margin)
  <2>1. e \in Int /\ m \in Int
    BY <1>3
  <2>2. MarginLevel(a) = IF m > 0 THEN (e * 100) \div m ELSE None
    BY DEF MarginLevel
  <2> HIDE DEF e, m
  <2>3. m > 0 => (e * 100) \div m \in Int
    <3>1. e * 100 \in Int
      BY <2>1
    <3> QED  BY <2>1, <3>1
  <2> QED  BY <2>2, <2>3
<1>5. spread \in Nat \union {None} /\ point \in Nat \union {None}
  <2>1. CASE ~Quoted(t)
    BY <2>1
  <2>2. CASE Quoted(t)
    <3>1. t.tick \in TickRow /\ TickOK(t.tick) /\ t.info \in SymbolRow /\ SymbolInfoOK(t.info)
      <4>1. t.tick \in {None} \union TickRow /\ t.info \in {None} \union SymbolRow
        BY DEF Terminal
      <4> QED  BY <2>2, <4>1 DEF Quoted, Observes, SnapshotOK
    <3> DEFINE b == Figure(t.tick.bid)
               k == Figure(t.tick.ask)
               p == Figure(t.info.point)
    <3>2. b \in Int /\ k \in Int /\ p \in Int
      <4>1. t.tick["bid"] \in RawValue /\ t.tick["ask"] \in RawValue /\ t.info["point"] \in RawValue
        BY <3>1 DEF TickRow, SymbolRow
      <4>2. Converts(t.tick["bid"]) /\ Converts(t.tick["ask"]) /\ Converts(t.info["point"])
        BY <3>1 DEF TickOK, SymbolInfoOK, Positive
      <4> QED  BY <4>1, <4>2, FigureIsRaw
    <3>3. k >= b /\ p > 0
      BY <2>2, <3>1 DEF Quoted, TickOK
    <3>4. spread = -((b - k) \div p) /\ point = p
      BY <2>2 DEF SpreadPoints
    <3> HIDE DEF b, k, p, spread, point
    <3>5. (b - k) \div p \in Int /\ p * ((b - k) \div p) <= b - k
      <4>1. b - k \in Int
        BY <3>2
      <4> DEFINE x == b - k
      <4> HIDE DEF x
      <4>2. x \div p \in Int /\ p * (x \div p) <= x
        BY <4>1, <3>2, <3>3 DEF x
      <4> QED  BY <4>2 DEF x
    <3> DEFINE q == (b - k) \div p
    <3>6. q \in Int /\ p * q <= b - k
      BY <3>5
    <3> HIDE DEF q
    <3>7. q <= 0
      <4> SUFFICES ASSUME q >= 1 PROVE FALSE
        BY <3>6
      <4>1. p * q >= p
        BY <3>2, <3>3, <3>6, Scaled
      <4> QED  BY <3>2, <3>3, <3>6, <4>1
    <3> QED  BY <3>2, <3>3, <3>4, <3>6, <3>7 DEF q
  <2> QED  BY <2>1, <2>2
<1>6. t.now \in Nat /\ t.hour \in 0..23 /\ pnl \in Int
  BY DayPnlIsRaw DEF Terminal
<1>7. ps \in Seq([symbol : STRING, side : Directional, volume : Nat])
  <2>1. ContextOf(t).positions = ps
    BY <1>1
  <2> HIDE DEF ps
  <2> QED  BY <2>1, ExposureIsRaw
<1>8. account \in [tradeAllowed : BOOLEAN, equity : Int, balance : Int, marginLevel : Int \union {None}]
  BY <1>3, <1>4
<1>9. <<>> \in Seq(DecisionRecord)
  OBVIOUS
<1>10. account.balance = Figure(a.balance) /\ account.equity = Figure(a.equity)
        /\ account.marginLevel = MarginLevel(a)
  OBVIOUS
<1> HIDE DEF account, ps, spread, point, pnl
<1>11. ContextOf(t) \in RiskContext
  BY <1>1, <1>5, <1>6, <1>7, <1>8, <1>9 DEF RiskContext
<1>12. /\ ContextOf(t).account = account /\ ContextOf(t).positions = ps
       /\ ContextOf(t).spread = spread /\ ContextOf(t).dayPnl = pnl
       /\ ContextOf(t).point = point /\ ContextOf(t).hour = t.hour
  BY <1>1
<1> QED  BY <1>3, <1>7, <1>10, <1>11, <1>12 DEF spread, point, pnl
-----------------------------------------------------------------------------
(* The latest close is beyond every earlier candle of s's lookback, on the *)
(* side that direction d asks for.                                         *)
Breaks(s, cs, d) ==
    LET n == Len(cs)
        earlier == {i \in 1..(n - 1) : n - i < s.lookback}
    IN /\ n >= s.minCandles /\ earlier # {}
       /\ \A i \in earlier : IF d = "LONG" THEN cs[n].close > cs[i].high
                                           ELSE cs[n].close < cs[i].low

(* A directional signal of a strategy is a breakout.                       *)
LEMMA SignalBreaks ==
    ASSUME NEW s \in MeasureMoveParams \union {NullStrategy}, NEW cs \in Seq(CandleRow),
           NEW d \in {"LONG", "SHORT"}, Analyze(s, cs) = d
    PROVE  s # NullStrategy /\ Breaks(s, cs, d)
<1> DEFINE n == Len(cs)
           m == IF n > s.lookback THEN n - s.lookback + 1 ELSE 1
           win == Window(s, cs)
           k == Len(win)
<1>1. ~(s = NullStrategy \/ n < s.minCandles \/ k < 2) /\ Breakout(win) = d
  BY DEF Analyze
<1>2. s.lookback \in Nat \ {0, 1} /\ s.minCandles \in Nat \ {0}
  <2>1. s \in MeasureMoveParams
    BY <1>1
  <2> QED  BY <2>1 DEF MeasureMoveParams
<1>3. n \in Nat
  BY LenProperties
<1>4. win = SubSeq(cs, m, n)
  BY DEF Window
<1> HIDE DEF CandleRow
<1>5. m \in 1..(n + 1) /\ (n > s.lookback => m = n - s.lookback + 1) /\ (~(n > s.lookback) => m = 1)
  BY <1>2, <1>3
<1> HIDE DEF m, n
<1>6. k = n - m + 1 /\ \A j \in 1..(n - m + 1) : win[j] = cs[m + j - 1]
  BY <1>3, <1>4, <1>5, SubSeqProperties DEF n
<1> HIDE DEF win, k
<1>7. k \in Nat /\ k >= 2 /\ n >= 2 /\ n >= s.minCandles /\ win[k] = cs[n]
  BY <1>1, <1>2, <1>3, <1>5, <1>6
<1> DEFINE earlier == {i \in 1..(n - 1) : n - i < s.lookback}
<1>8. n - 1 \in earlier
  BY <1>2, <1>3, <1>7
<1>9. ASSUME NEW i \in earlier PROVE i - m + 1 \in 1..(k - 1) /\ win[i - m + 1] = cs[i]
  BY <1>2, <1>3, <1>5, <1>6, <1>7, <1>9
<1>10. \/ d = "LONG" /\ \A j \in 1..(k - 1) : win[k].close > win[j].high
       \/ d = "SHORT" /\ \A j \in 1..(k - 1) : win[k].close < win[j].low
  BY <1>1 DEF Breakout, k
<1>11. \A i \in earlier : IF d = "LONG" THEN cs[n].close > cs[i].high ELSE cs[n].close < cs[i].low
  <2> HIDE DEF earlier
  <2> QED  BY <1>7, <1>9, <1>10
<1> QED  BY <1>1, <1>7, <1>8, <1>11 DEF Breaks, n

(* The primary signal, if directional, is one of the strategies'.          *)
LEMMA PrimaryBreaks ==
    ASSUME NEW cs \in Seq(CandleRow), NEW d \in {"LONG", "SHORT"}, PrimaryDirection(StrategyList, cs) = d
    PROVE  \E i \in 1..Len(StrategyList) :
               StrategyList[i] # NullStrategy /\ Breaks(StrategyList[i], cs, d)
<1> DEFINE n == Len(StrategyList)
           signals == [i \in 1..n |-> Analyze(StrategyList[i], cs)]
           directional == {i \in 1..Len(signals) : signals[i] # "FLAT"}
<1>1. /\ n \in Nat /\ n >= 1
      /\ \A i \in 1..n : StrategyList[i] \in MeasureMoveParams \union {NullStrategy}
  <2>1. StrategyList \in Seq(MeasureMoveParams \union {NullStrategy})
    BY PathAssumption
  <2> HIDE DEF MeasureMoveParams, NullStrategy
  <2>2. n \in Nat /\ \A i \in 1..n : StrategyList[i] \in MeasureMoveParams \union {NullStrategy}
    BY <2>1, LenProperties, ElementOfSeq
  <2>3. \E i \in 1..n : TRUE
    BY PathAssumption
  <2> QED  BY <2>2, <2>3
<1>2. Len(signals) = n
  <2>1. signals \in [1..n -> {Analyze(StrategyList[i], cs) : i \in 1..n}]
    OBVIOUS
  <2> HIDE DEF signals, n
  <2> QED  BY <1>1, <2>1, FunctionIsSeq
<1>3. SelectPrimary(signals) = d
  BY Zenon DEF PrimaryDirection, Signals
<1>4. PICK i \in 1..n : signals[i] = d
  <2> HIDE DEF signals, n
  <2>1. CASE directional = {}
    <3>1. signals[1] = d
      BY <1>3, <2>1 DEF SelectPrimary
    <3> QED  BY <1>1, <3>1
  <2>2. CASE directional # {}
    <3>1. PICK i \in directional : \A j \in directional : i <= j
      <4>1. directional \in SUBSET Nat
        BY <1>1, <1>2
      <4> HIDE DEF directional
      <4> QED  BY <2>2, <4>1, HasMin
    <3> DEFINE first == CHOOSE x \in directional : \A j \in directional : x <= j
    <3>2. first \in directional
      BY <3>1, Zenon
    <3>3. signals[first] = d
      BY <1>3, <2>2, Zenon DEF SelectPrimary
    <3> QED  BY <1>2, <3>2, <3>3
  <2> QED  BY <2>1, <2>2
<1>5. Analyze(StrategyList[i], cs) = d
  BY <1>4
<1> QED  BY <1>1, <1>5, SignalBreaks
-----------------------------------------------------------------------------
(* A decision with an origin is the one its inputs lead to.                *)
DecidedOn(e) ==
    /\ e \in Inputs /\ Starts(e) /\ Observes(e.terminal)
    /\ LET cfg == ToRiskConfig(SettingsOf(e))
           c == ContextOf(e.terminal)
       IN case = Case(Plan(e), c, cfg, cfg, c)

PathInv == Inv /\ (origin # NoInput => DecidedOn(origin))

LEMMA DecideIsWellFormed ==
    ASSUME NEW e \in Inputs, Starts(e), Observes(e.terminal)
    PROVE  LET cfg == ToRiskConfig(SettingsOf(e))
               c == ContextOf(e.terminal)
           IN WellFormed(Case(Plan(e), c, cfg, cfg, c))
<1> DEFINE cfg == ToRiskConfig(SettingsOf(e))
           c == ContextOf(e.terminal)
           x == Plan(e)
<1>1. x.p \in TradeProposal /\ Follows(x.p, x.direction)
  BY PlanFits
<1>2. cfg \in RiskConfig
  BY ConfigFits
<1>3. c \in RiskContext
  <2>1. e.terminal \in Terminal
    BY PathAssumption
  <2> QED  BY <2>1, ContextFits
<1> HIDE DEF cfg, c, x
<1>4. WellFormed(Case(x, c, cfg, cfg, c))
  BY <1>1, <1>2, <1>3 DEF WellFormed, Case
<1> QED  BY <1>4 DEF cfg, c, x

(* Every verdict belongs to a well-formed case, and one with an origin to  *)
(* the files, environment, answers and reply it was reached from.          *)
THEOREM VerdictFits == PathSpec => []PathInv
<1>1. PathInit => PathInv
  BY IdleIsWellFormed DEF PathInit, Init, PathInv, Inv
<1>2. PathInv /\ [PathNext]_pathVars => PathInv'
  <2> SUFFICES ASSUME PathInv, [PathNext]_pathVars PROVE PathInv'
    OBVIOUS
  <2>1. CASE Next /\ origin' = NoInput
    <3>1. Inv'
      BY <2>1, NextInv DEF PathInv
    <3> QED  BY <2>1, <3>1 DEF PathInv
  <2>2. CASE \E e \in Inputs : Decide(e)
    <3>1. PICK e \in Inputs : Decide(e)
      BY <2>2
    <3> DEFINE cfg == ToRiskConfig(SettingsOf(e))
               c == ContextOf(e.terminal)
               x == Case(Plan(e), c, cfg, cfg, c)
    <3>2. Starts(e) /\ Observes(e.terminal) /\ Check(x) /\ origin' = e
      BY <3>1, Zenon DEF Decide
    <3>3. WellFormed(x)
      BY <3>2, DecideIsWellFormed
    <3>4. case' = x /\ (approved' <=> Approves(x.p, x.c, x.cfg))
      BY <3>2 DEF Check
    <3>5. DecidedOn(origin)'
      BY <3>2, <3>4, Zenon DEF DecidedOn
    <3> HIDE DEF x
    <3>6. Inv'
      BY <3>3, <3>4 DEF Inv
    <3> QED  BY <3>5, <3>6 DEF PathInv
  <2>3. CASE UNCHANGED pathVars
    <3>1. case' = case /\ approved' = approved /\ origin' = origin
      BY <2>3 DEF pathVars
    <3>2. Inv'
      BY <3>1 DEF PathInv, Inv
    <3>3. (origin # NoInput => DecidedOn(origin))'
      BY <3>1 DEF PathInv, DecidedOn
    <3> QED  BY <3>2, <3>3 DEF PathInv
  <2> QED  BY <2>1, <2>2, <2>3 DEF PathNext
<1> QED  BY <1>1, <1>2, PTL DEF PathSpec

(* A rejection survives every tightening of RiskConfig, for any proposal,  *)
(* context and pair of configurations: no setting of the 13 rules works    *)
(* against the others.                                                     *)
THEOREM TighteningIsSafe == PathSpec => []TighteningNeverApproves
<1>1. PathInv => TighteningNeverApproves
  BY TighterRejects DEF PathInv, Inv, WellFormed, TighteningNeverApproves
<1> QED  BY <1>1, VerdictFits, PTL

(* An approval given without the day's P&L, the spread or the point size   *)
(* is one that every value of the figure would have got.                   *)
THEOREM FailsClosed == PathSpec => []UnknownFailsClosed
<1>1. PathInv => UnknownFailsClosed
  BY CompletedApproves DEF PathInv, Inv, WellFormed, UnknownFailsClosed
<1> QED  BY <1>1, VerdictFits, PTL

(* Whatever an LLM answers, a trade planned from it follows the signal and *)
(* stands between a stop and a target, none of them missing or NaN.        *)
THEOREM PlansFollowSignal == PathSpec => []PlannedTradesFollowSignal
<1>1. PathInv => PlannedTradesFollowSignal
  BY DEF PathInv, Inv, WellFormed, Follows, PlannedTradesFollowSignal, Traded
<1> QED  BY <1>1, VerdictFits, PTL

(* NaN is the only volume with which an approved trade leaves the limits   *)
(* on positions, exposure, risk and daily loss.                            *)
THEOREM LimitsHoldForNumbers == PathSpec => [](case.p.volume # NaN => ApprovedWithinLimits)
<1>1. PathInv => (case.p.volume # NaN => ApprovedWithinLimits)
  BY ApprovedKeepsLimits DEF PathInv, Inv, WellFormed, ApprovedWithinLimits, Traded
<1> QED  BY <1>1, VerdictFits, PTL
-----------------------------------------------------------------------------
(* A trade approved in a cycle, spelled out.                               *)
LEMMA TradeOfCycle ==
    ASSUME PathInv, TradedOn
    PROVE  /\ origin \in Inputs /\ Starts(origin) /\ Observes(origin.terminal)
           /\ origin.terminal \in Terminal
           /\ case.p = Plan(origin).p /\ case.direction = Plan(origin).direction /\ case.planned
           /\ case.c = ContextOf(origin.terminal) /\ case.cfg = ToRiskConfig(SettingsOf(origin))
           /\ case.p.action # "HOLD" /\ WellFormed(case)
           /\ Approves(case.p, case.c, case.cfg) /\ ~AnyRule(case.p, case.c, case.cfg)
<1>1. DecidedOn(origin) /\ Inv /\ approved /\ case.p.action # "HOLD"
  BY DEF PathInv, TradedOn, Traded
<1>2. Approves(case.p, case.c, case.cfg) /\ WellFormed(case)
  BY <1>1 DEF Inv
<1>3. ~AnyRule(case.p, case.c, case.cfg)
  BY <1>1, <1>2, ApprovesMeans
<1>4. origin \in Inputs /\ Starts(origin) /\ Observes(origin.terminal)
  BY <1>1 DEF DecidedOn
<1>5. origin.terminal \in Terminal
  BY <1>4, PathAssumption
<1> DEFINE cfg == ToRiskConfig(SettingsOf(origin))
           c == ContextOf(origin.terminal)
           x == Plan(origin)
<1>6. case = Case(x, c, cfg, cfg, c)
  BY <1>1, Zenon DEF DecidedOn
<1>7. x.planned
  BY <1>4, PlanFits
<1> HIDE DEF x, c, cfg
<1>8. case.p = x.p /\ case.planned /\ case.direction = x.direction /\ case.c = c /\ case.cfg = cfg
  BY <1>6, <1>7 DEF Case
<1> QED  BY <1>1, <1>2, <1>3, <1>4, <1>5, <1>8, Zenon DEF x, c, cfg

(* A trade needs a reply that was answered with 2xx, without an error      *)
(* object in the envelope, and whose text is a JSON object, for every      *)
(* vendor and whatever else is in the reply.                               *)
THEOREM FailedRepliesNeverTrade == PathSpec => []FailedRepliesHold
<1>1. PathInv => FailedRepliesHold
  <2> SUFFICES ASSUME PathInv, TradedOn
               PROVE  /\ origin.reply.transport = "answered" /\ origin.reply.status \in 200..299
                      /\ origin.reply.error # "object" /\ origin.reply.json = "object"
    BY Zenon DEF FailedRepliesHold
  <2>1. origin \in Inputs /\ Starts(origin) /\ Plan(origin).p.action # "HOLD"
    BY TradeOfCycle
  <2> DEFINE r == origin.reply
             vendor == SettingsOf(origin).llm_provider
  <2>2. Generates(vendor, r) /\ r.json = "object"
    BY <2>1, PlanFits
  <2>3. r.status \in Nat
    <3>1. r \in Reply
      BY <2>1, PathAssumption
    <3> QED  BY <3>1 DEF Reply
  <2>4. r.transport = "answered" /\ 200 <= r.status /\ r.status < 300 /\ r.error # "object"
    BY <2>2 DEF Generates, Delivered
  <2> QED  BY <2>2, <2>3, <2>4
<1> QED  BY <1>1, VerdictFits, PTL

(* A trade has a breakout behind it in the candles the terminal answered,  *)
(* whatever the list of strategies and their parameters.                   *)
THEOREM TradesNeedBreakout == PathSpec => []TradesBreakStructure
<1>1. PathInv => TradesBreakStructure
  <2> SUFFICES ASSUME PathInv, TradedOn PROVE TradesBreakStructure
    BY DEF TradesBreakStructure
  <2> DEFINE cs == origin.terminal.candles
             d == case.direction
  <2>1. /\ origin \in Inputs /\ Starts(origin) /\ Observes(origin.terminal)
        /\ origin.terminal \in Terminal /\ case.p = Plan(origin).p
        /\ d = Plan(origin).direction /\ case.p.action # "HOLD"
    BY TradeOfCycle
  <2>2. d = PrimaryDirection(StrategyList, cs) /\ Follows(case.p, d)
    BY <2>1, PlanFits
  <2>3. \/ case.p.action = "BUY" /\ d = "LONG"
        \/ case.p.action = "SELL" /\ d = "SHORT"
    BY <2>1, <2>2 DEF Follows
  <2>4. cs \in Seq(CandleRow)
    <3>1. cs \in {None} \union Seq(CandleRow) /\ cs # None
      BY <2>1 DEF Terminal, Observes, SnapshotOK
    <3> QED  BY <3>1
  <2> HIDE DEF cs, d
  <2>5. PICK i \in 1..Len(StrategyList) :
            StrategyList[i] # NullStrategy /\ Breaks(StrategyList[i], cs, d)
    BY <2>2, <2>3, <2>4, PrimaryBreaks
  <2> DEFINE s == StrategyList[i]
             n == Len(cs)
             earlier == {j \in 1..(n - 1) : n - j < s.lookback}
  <2>6. s \in {StrategyList[j] : j \in 1..Len(StrategyList)} \ {NullStrategy}
    BY <2>5
  <2>7. /\ n >= s.minCandles /\ earlier # {}
        /\ \A j \in earlier : IF case.p.action = "BUY" THEN cs[n].close > cs[j].high
                                                       ELSE cs[n].close < cs[j].low
    <3>1. /\ n >= s.minCandles /\ earlier # {}
          /\ \A j \in earlier : IF d = "LONG" THEN cs[n].close > cs[j].high
                                              ELSE cs[n].close < cs[j].low
      BY <2>5, Zenon DEF Breaks
    <3>2. case.p.action = "BUY" <=> d = "LONG"
      BY <2>3
    <3> HIDE DEF n, earlier, s
    <3> QED  BY <3>1, <3>2
  <2> QED  BY <2>6, <2>7, Zenon DEF TradesBreakStructure, cs
<1> QED  BY <1>1, VerdictFits, PTL

(* Equity in proportion to margin, from the rounded margin level.          *)
LEMMA MarginKept ==
    ASSUME NEW e \in Int, NEW m \in Nat \ {0}, NEW level \in Nat, (e * 100) \div m >= level
    PROVE  100 * e >= m * level
<1> DEFINE x == e * 100
<1>1. x \in Int /\ x = 100 * e
  OBVIOUS
<1> HIDE DEF x
<1> DEFINE q == x \div m
<1>2. q \in Int /\ m * q <= x
  BY <1>1
<1>3. q >= level
  BY DEF x
<1> HIDE DEF q
<1>4. m * level <= m * q /\ m * level \in Nat /\ m * q \in Nat
  BY <1>2, <1>3, Scaled
<1> QED  BY <1>1, <1>2, <1>4

(* The quoted spread, from the rounded one in points.                      *)
LEMMA SpreadKept ==
    ASSUME NEW bid \in Int, NEW ask \in Int, bid <= ask, NEW point \in Nat \ {0}, NEW limit \in Nat,
           -((bid - ask) \div point) <= limit
    PROVE  ask - bid <= limit * point
<1> DEFINE x == bid - ask
<1>1. x \in Int
  OBVIOUS
<1>2. -(x \div point) <= limit
  OBVIOUS
<1> HIDE DEF x
<1> DEFINE q == x \div point
<1>3. q \in Int /\ point * q <= x
  BY <1>1
<1>4. -q <= limit
  BY <1>2
<1> HIDE DEF q
<1>5. PICK d \in Nat : limit = d - q
  <2>1. limit + q \in Nat /\ limit = (limit + q) - q
    BY <1>3, <1>4
  <2> QED  BY <2>1
<1>6. limit * point = point * d - point * q /\ point * d \in Nat /\ point * q \in Int
  BY <1>3, <1>5
<1> QED  BY <1>1, <1>3, <1>6 DEF x

(* A positive raw figure is the number it stands for.                      *)
LEMMA PositiveIsNumber ==
    ASSUME NEW v \in RawValue, Positive(v)
    PROVE  v \in Int /\ Figure(v) = v /\ v > 0
BY DEF Positive, Converts, Figure, RawValue

(* The trade of a cycle, of a volume that is a number, keeps the limits    *)
(* that the settings set, on the figures of the terminal.                  *)
LEMMA LimitsOfCycle ==
    ASSUME PathInv, TradedOn, case.p.volume # NaN
    PROVE  LET t == origin.terminal
               cfg == case.cfg
           IN /\ Len(Rows(t.positions)) \in Nat /\ Len(Rows(t.positions)) < cfg.maxOpenPositions
              /\ case.p.volume + RawTotal(Rows(t.positions), {"volume"}) <= cfg.maxExposure
              /\ case.p.riskPct <= cfg.maxRiskPct
              /\ 100 * RawTotal(Rows(t.deals), {"profit", "commission", "swap", "fee"})
                    > -(RawFigure(t.account, "balance") * cfg.maxDailyLossPct)
<1> DEFINE t == origin.terminal
           c == case.c
           cfg == case.cfg
           open == RawTotal(Rows(t.positions), {"volume"})
           net == RawTotal(Rows(t.deals), {"profit", "commission", "swap", "fee"})
<1>1. /\ origin \in Inputs /\ Starts(origin) /\ Observes(t) /\ t \in Terminal
      /\ case.p = Plan(origin).p /\ c = ContextOf(t)
      /\ case.p.action # "HOLD" /\ WellFormed(case) /\ Approves(case.p, c, cfg)
  BY TradeOfCycle
<1>2. case.p \in TradeProposal /\ cfg \in RiskConfig /\ c \in RiskContext
  BY <1>1 DEF WellFormed
<1>3. WithinLimits(case.p, c, cfg)
  BY <1>1, <1>2, ApprovedKeepsLimits
<1>4. case.p.volume \in Nat
  <2>1. case.p.volume # None
    BY <1>1, PlanFits
  <2> QED  BY <1>2, <2>1, ProposalFields
<1>5. Exposure(c.positions) = open /\ open \in Nat /\ Len(c.positions) = Len(Rows(t.positions))
  BY <1>1, ExposureIsRaw
<1>6. c.dayPnl = net /\ net \in Int /\ c.account.balance = RawFigure(t.account, "balance")
  BY <1>1, ContextFits, DayPnlIsRaw
<1>7. Len(Rows(t.positions)) \in Nat
  BY <1>1, RowsObserved
<1>8. /\ cfg.maxOpenPositions \in Nat /\ cfg.maxExposure \in Nat
      /\ case.p.volume # None
  BY <1>2, <1>4, ConfigFields, SentinelsAssumption
<1>9. /\ Exposure(c.positions) + case.p.volume <= cfg.maxExposure
      /\ Len(c.positions) + 1 <= cfg.maxOpenPositions
      /\ case.p.riskPct <= cfg.maxRiskPct
      /\ c.dayPnl * 100 > -(c.account.balance * cfg.maxDailyLossPct)
  BY <1>3, <1>8 DEF WithinLimits
<1> HIDE DEF t, c, cfg, open, net
<1>10. case.p.volume + open <= cfg.maxExposure /\ Len(Rows(t.positions)) < cfg.maxOpenPositions
  BY <1>4, <1>5, <1>7, <1>8, <1>9
<1>11. 100 * net > -(RawFigure(t.account, "balance") * cfg.maxDailyLossPct)
  <2>1. 100 * net = net * 100
    BY <1>6
  <2> QED  BY <1>6, <1>9, <2>1, Zenon
<1> QED  BY <1>7, <1>9, <1>10, <1>11 DEF t, cfg, open, net

(* The margin level of an approved trade, on the raw equity and margin.    *)
LEMMA MarginOfCycle ==
    ASSUME PathInv, TradedOn, RawFigure(origin.terminal.account, "margin") > 0
    PROVE  100 * RawFigure(origin.terminal.account, "equity")
              >= RawFigure(origin.terminal.account, "margin") * case.cfg.minMarginLevel
<1> DEFINE t == origin.terminal
           c == case.c
           cfg == case.cfg
<1>0. /\ Observes(t) /\ t \in Terminal /\ c = ContextOf(t) /\ cfg \in RiskConfig
      /\ ~AccountSafetyRule(case.p, c, cfg)
  BY TradeOfCycle DEF WellFormed, AnyRule
<1>a. RawFigure(t.account, "margin") > 0
  OBVIOUS
<1> DEFINE a == t.account
           e == RawFigure(a, "equity")
           m == RawFigure(a, "margin")
<1>1. a \in AccountRow /\ AccountOK(a)
  <2>1. a \in {None} \union AccountRow
    BY <1>0 DEF Terminal
  <2> QED  BY <1>0, <2>1 DEF Observes
<1>2. /\ a["equity"] \in RawValue /\ a["margin"] \in RawValue
      /\ Converts(a["equity"]) /\ Converts(a["margin"])
  BY <1>1 DEF AccountRow, AccountOK
<1>3. /\ Figure(a["equity"]) = e /\ e \in Int /\ Figure(a["margin"]) = m /\ m \in Int
  <2> HIDE DEF a
  <2> QED  BY <1>2, FigureIsRaw
<1>4. MarginLevel(a) = (e * 100) \div m
  BY <1>a, <1>3 DEF MarginLevel
<1>5. c.account.marginLevel = MarginLevel(a) /\ cfg.minMarginLevel \in Nat
  BY <1>0, ContextFits, ConfigFields
<1>6. c.account.marginLevel = None \/ ~(c.account.marginLevel < cfg.minMarginLevel)
  BY <1>0 DEF AccountSafetyRule
<1> HIDE DEF a, e, m, c, cfg
<1>7. m > 0 /\ m \in Nat \ {0}
  BY <1>a, <1>3 DEF m, a
<1>8. (e * 100) \div m \in Int
  <2>1. e * 100 \in Int
    BY <1>3
  <2> QED  BY <2>1, <1>7
<1>9. (e * 100) \div m >= cfg.minMarginLevel
  BY <1>4, <1>5, <1>6, <1>8, SentinelsAssumption
<1>10. 100 * e >= m * cfg.minMarginLevel
  BY <1>3, <1>5, <1>7, <1>9, MarginKept
<1> QED  BY <1>10 DEF e, m, a, cfg

(* Quotes of a terminal that was observed: numbers, and a point above 0.   *)
LEMMA QuotesObserved ==
    ASSUME NEW t \in Terminal, Observes(t), Quoted(t)
    PROVE  /\ t.tick # None /\ t.info # None /\ t.tick \in TickRow /\ TickOK(t.tick)
           /\ Figure(t.info.point) = RawFigure(t.info, "point")
           /\ RawFigure(t.info, "point") \in Nat \ {0}
<1>1. t.tick \in TickRow /\ TickOK(t.tick) /\ t.info \in SymbolRow /\ SymbolInfoOK(t.info)
  <2>1. t.tick \in {None} \union TickRow /\ t.info \in {None} \union SymbolRow
    BY DEF Terminal
  <2> QED  BY <2>1 DEF Quoted, Observes, SnapshotOK
<1>2. t.info["point"] \in RawValue /\ Converts(t.info["point"]) /\ t.info["point"] = t.info.point
  BY <1>1 DEF SymbolRow, SymbolInfoOK
<1>3. Figure(t.info["point"]) = RawFigure(t.info, "point") /\ RawFigure(t.info, "point") \in Int
  BY <1>2, FigureIsRaw
<1>4. RawFigure(t.info, "point") > 0
  BY <1>2, <1>3 DEF Quoted
<1> QED  BY <1>1, <1>2, <1>3, <1>4 DEF Quoted

(* The quoted spread of an approved trade.                                 *)
LEMMA SpreadOfCycle ==
    ASSUME PathInv, TradedOn, case.cfg.maxSpread # None
    PROVE  LET t == origin.terminal
           IN /\ t.tick # None /\ t.info # None
              /\ t.tick.ask - t.tick.bid <= case.cfg.maxSpread * RawFigure(t.info, "point")
<1> DEFINE t == origin.terminal
           c == case.c
           cfg == case.cfg
<1>0. /\ Observes(t) /\ t \in Terminal /\ c = ContextOf(t) /\ cfg \in RiskConfig
      /\ ~SpreadRule(case.p, c, cfg)
  BY TradeOfCycle DEF WellFormed, AnyRule
<1>a. cfg.maxSpread # None
  OBVIOUS
<1>1. c.spread # None /\ ~(c.spread > cfg.maxSpread) /\ cfg.maxSpread \in Nat
  BY <1>0, <1>a, ConfigFields DEF SpreadRule
<1>2. c.spread = (IF Quoted(t) THEN SpreadPoints(t) ELSE None) /\ c.spread \in Nat
  <2>1. c.spread \in Nat \union {None}
    BY <1>0, ContextFits, ContextFields
  <2>2. c.spread = IF Quoted(t) THEN SpreadPoints(t) ELSE None
    BY <1>0, ContextFits
  <2> QED  BY <2>1, <2>2, <1>1
<1>3. Quoted(t) /\ c.spread = SpreadPoints(t)
  BY <1>1, <1>2
<1>4. /\ t.tick # None /\ t.info # None /\ t.tick \in TickRow /\ TickOK(t.tick)
      /\ Figure(t.info.point) = RawFigure(t.info, "point")
      /\ RawFigure(t.info, "point") \in Nat \ {0}
  BY <1>0, <1>3, QuotesObserved
<1> DEFINE b == t.tick.bid
           k == t.tick.ask
           p == RawFigure(t.info, "point")
<1>5. b \in Int /\ k \in Int /\ Figure(b) = b /\ Figure(k) = k /\ b <= k
  <2>1. b \in RawValue /\ k \in RawValue /\ Positive(b) /\ Positive(k) /\ Figure(k) >= Figure(b)
    BY <1>4 DEF TickRow, TickOK
  <2> HIDE DEF b, k
  <2>2. b \in Int /\ Figure(b) = b /\ k \in Int /\ Figure(k) = k
    BY <2>1, PositiveIsNumber
  <2> QED  BY <2>1, <2>2
<1>6. Figure(t.info.point) = p /\ p \in Int /\ p > 0
  BY <1>4
<1>7. c.spread = -((b - k) \div p)
  BY <1>3, <1>5, <1>6 DEF SpreadPoints
<1> HIDE DEF b, k, p, c, cfg
<1>8. -((b - k) \div p) <= cfg.maxSpread /\ p \in Nat \ {0}
  BY <1>1, <1>2, <1>6, <1>7
<1>9. k - b <= cfg.maxSpread * p
  BY <1>1, <1>5, <1>8, SpreadKept
<1> QED  BY <1>4, <1>9 DEF b, k, p, cfg

(* The distance of the stop of an approved trade.                          *)
LEMMA StopOfCycle ==
    ASSUME PathInv, TradedOn, case.cfg.minStopPoints > 0
    PROVE  LET t == origin.terminal
           IN /\ t.info # None
              /\ Abs(case.p.entry - case.p.stopLoss)
                    >= case.cfg.minStopPoints * RawFigure(t.info, "point")
<1> DEFINE t == origin.terminal
           c == case.c
           cfg == case.cfg
           p == case.p
<1>1. /\ Observes(t) /\ t \in Terminal /\ c = ContextOf(t) /\ cfg \in RiskConfig
      /\ ~MinStopDistanceRule(p, c, cfg) /\ Follows(p, case.direction) /\ p.action # "HOLD"
  BY TradeOfCycle DEF WellFormed, AnyRule
<1>2. p.entry \in Nat /\ p.stopLoss \in Nat
  BY <1>1 DEF Follows
<1>3. p.entry # None /\ p.stopLoss # None /\ p.entry # NaN /\ p.stopLoss # NaN
  BY <1>2, SentinelsAssumption
<1>4. c.point \notin {None, 0} /\ ~(Abs(p.entry - p.stopLoss) < cfg.minStopPoints * c.point)
  BY <1>1, <1>3 DEF MinStopDistanceRule
<1>5. c.point = IF Quoted(t) THEN Figure(t.info.point) ELSE None
  BY <1>1, ContextFits
<1>6. Quoted(t) /\ c.point = Figure(t.info.point)
  BY <1>4, <1>5
<1>7. t.info # None /\ c.point = RawFigure(t.info, "point") /\ c.point \in Nat
  BY <1>1, <1>6, QuotesObserved
<1>8. Abs(p.entry - p.stopLoss) \in Int /\ cfg.minStopPoints * c.point \in Int
  BY <1>1, <1>2, <1>7, ConfigFields DEF Abs
<1> DEFINE distance == Abs(p.entry - p.stopLoss)
           least == cfg.minStopPoints * c.point
<1>9. distance \in Int /\ least \in Int /\ ~(distance < least)
  BY <1>4, <1>8
<1> HIDE DEF distance, least
<1>10. distance >= least
  BY <1>9
<1> QED  BY <1>7, <1>10, Zenon DEF distance, least

(* What an approved trade of a volume that is a number adds stays inside   *)
(* the limits in force on the raw figures of the terminal, although the    *)
(* rules compare rounded levels and points.                                *)
THEOREM TerminalLimitsHold == PathSpec => [](case.p.volume # NaN => LimitsHoldOnTerminal)
<1>1. ASSUME PathInv, case.p.volume # NaN, TradedOn PROVE LimitsHoldOnTerminal
  <2> DEFINE t == origin.terminal
             cfg == case.cfg
  <2>2. /\ Len(Rows(t.positions)) < cfg.maxOpenPositions
        /\ case.p.volume + RawTotal(Rows(t.positions), {"volume"}) <= cfg.maxExposure
        /\ 100 * RawTotal(Rows(t.deals), {"profit", "commission", "swap", "fee"})
              > -(RawFigure(t.account, "balance") * cfg.maxDailyLossPct)
    BY <1>1, LimitsOfCycle
  <2>3. /\ t.positions # None => Rows(t.positions) = t.positions
        /\ t.deals # None => Rows(t.deals) = t.deals
    BY DEF Rows
  <2>4. RawFigure(t.account, "margin") > 0 =>
            100 * RawFigure(t.account, "equity") >= RawFigure(t.account, "margin") * cfg.minMarginLevel
    BY <1>1, MarginOfCycle
  <2>5. cfg.maxSpread # None =>
            /\ t.tick # None /\ t.info # None
            /\ t.tick.ask - t.tick.bid <= cfg.maxSpread * RawFigure(t.info, "point")
    BY <1>1, SpreadOfCycle
  <2> QED  BY <2>2, <2>3, <2>4, <2>5, Zenon DEF LimitsHoldOnTerminal
<1>2. PathInv => (case.p.volume # NaN => LimitsHoldOnTerminal)
  BY <1>1 DEF LimitsHoldOnTerminal
<1> QED  BY <1>2, VerdictFits, PTL

(* A setting in force allows the trade of a cycle.                         *)
LEMMA InForceAllows ==
    ASSUME PathInv, TradedOn, case.p.volume # NaN, None \notin SUBSET STRING,
           NEW layer, NEW k \in Key, k \in DOMAIN layer => layer[k] = SettingsOf(origin)[k]
    PROVE  Allows(layer, k)
<1> DEFINE s == SettingsOf(origin)
           cfg == case.cfg
<1>1. /\ origin \in Inputs /\ Starts(origin) /\ cfg = ToRiskConfig(s)
      /\ case.p = Plan(origin).p /\ case.p.action # "HOLD"
      /\ ~SymbolAllowlistRule(case.p, case.c, cfg) /\ ~SessionRule(case.p, case.c, cfg)
  BY TradeOfCycle DEF AnyRule
<1>2. /\ cfg.maxExposure = s["risk_max_exposure"] /\ cfg.maxOpenPositions = s["risk_max_positions"]
      /\ cfg.maxRiskPct = s["risk_max_risk_pct"]
      /\ cfg.maxDailyLossPct = s["risk_max_daily_loss_pct"] /\ cfg.maxSpread = s["risk_max_spread_points"]
      /\ cfg.minStopPoints = s["risk_min_stop_points"]
      /\ cfg.minMarginLevel = s["risk_min_margin_level_pct"]
      /\ cfg.duplicateWindow = s["risk_duplicate_window_s"] /\ cfg.cooldown = s["risk_cooldown_s"]
      /\ cfg.allowedSymbols = AllowedSymbols(s["risk_allowed_symbols"])
      /\ cfg.allowedSessions =
            {[start |-> e.start, end |-> e.end] : e \in Spans(s["risk_allowed_sessions"])}
  <2> HIDE DEF s
  <2> QED  BY <1>1 DEF ToRiskConfig
<1>3. s["llm_provider"] # "none"
  <2>1. Configured(s)
    BY <1>1, PlanFits
  <2> QED  BY <2>1 DEF Configured, ProviderOK
<1>4. ListsSymbol(s["risk_allowed_symbols"])
  <2> DEFINE csv == s["risk_allowed_symbols"]
  <2>1. csv \in {None} \union Seq(STRING)
    BY <1>1, SettingsTyped
  <2>2. AllowedSymbols(csv) = None \/ case.p.symbol \in AllowedSymbols(csv)
    BY <1>1, <1>2 DEF SymbolAllowlistRule
  <2>3. csv # None => Entries(csv) \subseteq STRING
    <3>1. ASSUME csv # None, NEW i \in 1..Len(csv) PROVE csv[i] \in STRING
      BY <2>1, <3>1, ElementOfSeq
    <3> QED  BY <3>1, Zenon DEF Entries
  <2>4. ASSUME csv # None, ~(Entries(csv) \subseteq {""}) PROVE case.p.symbol \in Entries(csv)
    <3>1. AllowedSymbols(csv) = Entries(csv) \ {""}
      BY <2>4, Zenon DEF AllowedSymbols
    <3>2. AllowedSymbols(csv) \in SUBSET STRING
      BY <2>3, <2>4, <3>1, Zenon
    <3>3. AllowedSymbols(csv) # None
      BY <3>2, Zenon
    <3>4. case.p.symbol \in AllowedSymbols(csv)
      BY <2>2, <3>3, Zenon
    <3> QED  BY <3>1, <3>4, Zenon
  <2> QED  BY <2>4, Zenon DEF ListsSymbol
<1>5. LET t == origin.terminal
      IN /\ case.p.volume + RawTotal(Rows(t.positions), {"volume"}) <= cfg.maxExposure
         /\ Len(Rows(t.positions)) < cfg.maxOpenPositions
         /\ case.p.riskPct <= cfg.maxRiskPct
         /\ 100 * RawTotal(Rows(t.deals), {"profit", "commission", "swap", "fee"})
               > -(RawFigure(t.account, "balance") * cfg.maxDailyLossPct)
  BY LimitsOfCycle
<1>6. LET t == origin.terminal
      IN /\ RawFigure(t.account, "margin") > 0 =>
               100 * RawFigure(t.account, "equity")
                  >= RawFigure(t.account, "margin") * cfg.minMarginLevel
         /\ cfg.maxSpread # None =>
               /\ t.tick # None /\ t.info # None
               /\ t.tick.ask - t.tick.bid <= cfg.maxSpread * RawFigure(t.info, "point")
         /\ cfg.minStopPoints > 0 =>
               /\ t.info # None
               /\ Abs(case.p.entry - case.p.stopLoss)
                     >= cfg.minStopPoints * RawFigure(t.info, "point")
  BY MarginOfCycle, SpreadOfCycle, StopOfCycle
<1>7. \E e \in Spans(s["risk_allowed_sessions"]) : Contains(e, origin.terminal.hour)
  <2>1. PICK x \in cfg.allowedSessions : Contains(x, case.c.hour)
    BY <1>1 DEF SessionRule
  <2>2. PICK e \in Spans(s["risk_allowed_sessions"]) : x = [start |-> e.start, end |-> e.end]
    BY <1>2, <2>1
  <2>3. x.start = e.start /\ x.end = e.end
    BY <2>2
  <2>4. case.c.hour = origin.terminal.hour
    BY TradeOfCycle, ContextFits
  <2> QED  BY <2>1, <2>3, <2>4 DEF Contains
<1>8. case.p.stopLoss # None /\ case.p.takeProfit # None
  <2>1. {case.p.entry, case.p.stopLoss, case.p.takeProfit} \subseteq Nat \ {0}
    BY TradeOfCycle DEF WellFormed, Follows
  <2> QED  BY <2>1, SentinelsAssumption
<1>9. origin.reply.answer.volume \in {None, Missing} =>
          case.p.volume = s["execution_default_volume"]
  BY <1>1, PlanFits
<1> HIDE DEF s, cfg
<1>10. SUFFICES ASSUME k \in DOMAIN layer, layer[k] = s[k] PROVE Allows(layer, k)
  BY DEF Allows, s
<1>11. CASE k \in {"risk_max_exposure", "risk_max_positions", "risk_max_risk_pct",
                   "risk_max_daily_loss_pct"}
  BY <1>2, <1>5, <1>10, <1>11 DEF Allows
<1>12. CASE k = "risk_allowed_symbols"
  BY <1>4, <1>10, <1>12 DEF Allows
<1>13. CASE k = "risk_allowed_sessions"
  BY <1>7, <1>10, <1>13 DEF Allows
<1>14. CASE k = "risk_max_spread_points"
  BY <1>2, <1>6, <1>10, <1>14 DEF Allows
<1>15. CASE k = "risk_min_stop_points"
  BY <1>2, <1>6, <1>10, <1>15 DEF Allows
<1>16. CASE k = "risk_min_margin_level_pct"
  BY <1>2, <1>6, <1>10, <1>16 DEF Allows
<1>17. CASE k \in {"risk_require_stop_loss", "risk_require_take_profit"}
  BY <1>8, <1>10, <1>17 DEF Allows
<1>18. CASE k \in {"risk_duplicate_window_s", "risk_cooldown_s"}
  BY <1>2, <1>10, <1>18 DEF Allows, cfg
<1>19. CASE k = "execution_default_volume"
  BY <1>9, <1>10, <1>19 DEF Allows
<1>20. CASE k = "llm_provider"
  BY <1>3, <1>10, <1>20 DEF Allows
<1>21. CASE k \in {"llm_model", "llm_api_key", "trading_mode", "execution_mode", "enable_live_trading"}
  BY <1>21 DEF Allows
<1>22. Key = {"trading_mode", "execution_mode", "enable_live_trading", "llm_provider", "llm_model",
              "llm_api_key", "execution_default_volume", "risk_max_risk_pct",
              "risk_max_daily_loss_pct", "risk_max_positions", "risk_max_exposure",
              "risk_allowed_symbols", "risk_allowed_sessions", "risk_max_spread_points",
              "risk_require_stop_loss", "risk_require_take_profit", "risk_min_stop_points",
              "risk_duplicate_window_s", "risk_cooldown_s", "risk_min_margin_level_pct"}
  BY DEF Key, Defaults
<1> QED  BY <1>11, <1>12, <1>13, <1>14, <1>15, <1>16, <1>17, <1>18, <1>19, <1>20, <1>21, <1>22

(* What the operator configured binds every approved trade of a volume     *)
(* that is a number: every exported limit of the risk configuration        *)
(* whatever the file says, one in the file unless it is exported too.  The *)
(* sentinel for Python's None must be no set of names, or an allowlist     *)
(* could be mistaken for no allowlist.                                     *)
THEOREM ConfigurationBinds ==
    ASSUME None \notin SUBSET STRING
    PROVE  PathSpec => [](case.p.volume # NaN => ConfiguredLimitsHold)
<1>1. ASSUME PathInv, case.p.volume # NaN, TradedOn, NEW k \in Key
      PROVE  LET file == Selected(origin.files)
             IN /\ Allows(origin.env, k)
                /\ k \notin DOMAIN origin.env /\ file.kind = "mapping" => Allows(file.values, k)
  <2> DEFINE file == Selected(origin.files)
             s == SettingsOf(origin)
  <2>1. s[k] = IF k \in DOMAIN origin.env THEN origin.env[k]
               ELSE IF k \in DOMAIN FileValues(origin.files) THEN FileValues(origin.files)[k]
               ELSE Defaults[k]
    BY <1>1 DEF SettingsOf, Loaded
  <2>2. Allows(origin.env, k)
    BY <1>1, <2>1, InForceAllows
  <2>3. ASSUME k \notin DOMAIN origin.env, file.kind = "mapping" PROVE Allows(file.values, k)
    <3>1. FileValues(origin.files) = file.values
      BY <2>3 DEF FileValues
    <3>2. k \in DOMAIN file.values => file.values[k] = s[k]
      BY <2>1, <2>3, <3>1
    <3> QED  BY <1>1, <3>2, InForceAllows
  <2> QED  BY <2>2, <2>3
<1>2. PathInv => (case.p.volume # NaN => ConfiguredLimitsHold)
  BY <1>1, Zenon DEF ConfiguredLimitsHold
<1> QED  BY <1>2, VerdictFits, PTL
=============================================================================
