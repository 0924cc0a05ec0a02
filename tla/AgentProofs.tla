----------------------------- MODULE AgentProofs ----------------------------
(***************************************************************************)
(* Proofs about Agent, for every argument of run(), every configuration,   *)
(* every planner and any number of cycles.                                 *)
(***************************************************************************)
EXTENDS Agent, FiniteSetTheorems, SequenceTheorems, SumProofs

(* Places in the loop: outside a cycle, before the verdict, and between    *)
(* observation and verdict.                                                *)
Outside == {"top", "wait", "done"}
Observed == {"strategy", "plan", "supervise", "review"}
BeforeReview == Observed \union {"observe"}

Trade == [symbol : STRING \union {"none"}, side : Directional, volume : Nat \union {NaN}, at : Nat]

(* Types, the flags excepted.                                              *)
TypeInv ==
    /\ now \in 0..MaxTime /\ wakeAt \in Nat
    /\ pc \in Stages \union Outside
    /\ args \in RunArgs
    /\ index \in Nat /\ cycle \in 0..MaxCycles /\ started \in 0..cycle
    /\ decision \in {"none", "hold", "approved", "rejected"}
    /\ ledger \in Seq(DecisionRecord)
    /\ result \in [CycleId -> Exe!Answers \union {"NONE"}]
    /\ orders \in [CycleId -> {0, 1}]
    /\ trade \in [CycleId -> Trade]
    /\ visible \subseteq CycleId /\ gone \subseteq CycleId
    /\ consecutive \in Nat /\ lastObserved \in -1..MaxTime

Flags == stop \in BOOLEAN /\ failed \in BOOLEAN /\ tripped \in BOOLEAN

(* The counters: a cycle counts once, in the loop, in the ledger and in    *)
(* the watchdog.                                                           *)
CountInv ==
    /\ consecutive <= index /\ index <= cycle /\ Len(ledger) <= cycle
    /\ pc \in Stages => index < cycle /\ consecutive < MaxFailures
    /\ pc \in BeforeReview => Len(ledger) < cycle
    /\ badCycles = consecutive

(* The context of a proposal that was built at time t.                     *)
ContextAt(t) ==
    [account |-> Account, positions |-> obs.positions,
     spread |-> IF obs.quote THEN 1 ELSE None,
     point |-> IF obs.quote THEN 1 ELSE None,
     serverTime |-> t, hour |-> 12, dayPnl |-> 0, recent |-> <<>>]

NumericVolumes == \A x \in Proposable : x.volume # NaN

(* What one stage leaves for the next.                                     *)
Planned(p) == p \in TradeProposal /\ (NumericVolumes => p.volume # NaN)
StageInv ==
    /\ pc \in Outside \union BeforeReview => decision = "none"
    /\ pc \in Outside \union {"observe", "strategy", "plan"} => request = NoRequest
    /\ pc = "supervise" => request = NoRequest \/ Planned(request.p)
    /\ pc \in Observed => obs.at \in Nat
    /\ pc = "review" =>
          /\ Planned(request.p)
          /\ request.p.action # "HOLD" => request.p.volume # None
          /\ \E t \in obs.at..now : request.c = ContextAt(t)

(* Orders and answers: none for a cycle without a verdict, none booked     *)
(* after a refusal, and none that is neither answered nor being executed.  *)
Fresh(k) == orders[k] = 0 /\ result[k] = "NONE" /\ k \notin visible /\ k \notin gone
OrderInv ==
    \A k \in CycleId :
        /\ k > cycle \/ (k = cycle /\ pc \in BeforeReview) => Fresh(k)
        /\ k \in visible => orders[k] = 1
        /\ result[k] \in {"REJECTED", "SIMULATED"} => orders[k] = 0
        /\ orders[k] = 1 /\ result[k] = "NONE" => k = cycle /\ pc = "execute" /\ Executable

(* Every cycle of this process with an order, an answer or an approval has *)
(* its own entry in the ledger.                                            *)
Ordered == {k \in CycleId : /\ k > started
                            /\ orders[k] = 1 \/ result[k] # "NONE" \/ (k = cycle /\ Executable)}
Matches(e, t) == e.approved /\ e.symbol = t.symbol /\ e.action = t.side /\ e.at = t.at
ApprovalInv ==
    \E f \in [Ordered -> 1..Len(ledger)] :
        /\ \A j, k \in Ordered : f[j] = f[k] => j = k
        /\ \A k \in Ordered : Matches(ledger[f[k]], trade[k])

(* Time: verdicts lie in the past, observations are fresh, and an order    *)
(* whose fate is open is young.                                            *)
TimeInv ==
    /\ \A i \in 1..Len(ledger) : ledger[i].at <= now
    /\ pc \in Observed =>
          /\ obs.at <= now /\ now <= obs.at + Latency
          /\ \A i \in 1..Len(ledger) : ledger[i].at <= obs.at
    /\ \A k \in CycleId : Underway(k) => now <= trade[k].at + Delay

BaseInv == TypeInv /\ CountInv /\ StageInv /\ OrderInv /\ ApprovalInv /\ TimeInv
-----------------------------------------------------------------------------
(* The cooldown of every verdict is over when the next context is built.   *)
PaceInv ==
    (args.maxCycles = None /\ args.interval >= Config.cooldown /\ Config.cooldown > 0) =>
        \A i \in 1..Len(ledger) :
            LET over == ledger[i].at + Config.cooldown
            IN /\ pc = "wait" => over <= wakeAt
               /\ pc \in {"top", "done"} => stop \/ cycle = MaxCycles \/ over <= now
               /\ pc \in BeforeReview => over <= now
               /\ pc = "review" => over <= request.c.serverTime

(* Cycles with an open position, or an order that may still become one.    *)
Live == {k \in CycleId : (k \in visible /\ k \notin gone) \/ Underway(k)}

(* What the observation does not show of them was approved lately.         *)
Shown(k) == \E i \in 1..Len(obs.positions) : /\ obs.positions[i].symbol = trade[k].symbol
                                             /\ obs.positions[i].side = trade[k].side
SidesInv ==
    /\ \A j, k \in Live : j # k => ~(trade[j].symbol = trade[k].symbol /\ trade[j].side = trade[k].side)
    /\ \A k \in CycleId : Underway(k) => k > started
    /\ pc \in Stages => started < cycle
    /\ pc \in Observed =>
          \A k \in Live : Shown(k) \/ (k > started /\ obs.at <= trade[k].at + Delay)

(* A pause longer than a fill takes leaves no order open when the agent    *)
(* observes.                                                               *)
VolumeOf(t, S) == SumFunctionOnSet([k \in CycleId |-> t[k].volume], S)
LimitInv ==
    args.interval > Delay =>
        /\ \A k \in CycleId : trade[k].volume \in Nat /\ trade[k].at <= now
        /\ Cardinality(Live) <= Config.maxOpenPositions
        /\ VolumeOf(trade, Live) <= Config.maxExposure
        /\ pc \in BeforeReview => \A k \in CycleId : ~Underway(k)
        /\ pc \in Observed =>
              /\ Len(obs.positions) \in Nat /\ Cardinality(Live) <= Len(obs.positions)
              /\ Exposure(obs.positions) \in Nat /\ VolumeOf(trade, Live) <= Exposure(obs.positions)
        /\ pc = "wait" => \A k \in CycleId : Underway(k) => trade[k].at + Delay < wakeAt
        /\ pc \in {"top", "done"} => \/ stop \/ cycle = MaxCycles
                                     \/ \A k \in CycleId : ~Underway(k)
                                     \/ pc = "done" /\ args.maxCycles # None
-----------------------------------------------------------------------------
(* What the assumptions say of the constants.                              *)
LEMMA Constants ==
    /\ MaxCycles \in Nat /\ MaxTime \in Nat /\ Latency \in Nat /\ Delay \in Nat
    /\ MaxFailures \in Nat \ {0} /\ DefaultVolume \in Nat \ {0}
    /\ Config.cooldown \in Nat /\ Config.duplicateWindow \in Nat
    /\ Config.maxOpenPositions \in Nat \ {0} /\ Config.maxExposure \in Nat \ {0}
    /\ \A a \in RunArgs : /\ a.interval \in Nat /\ Len(a.symbols) \in Nat \ {0}
                          /\ \A i \in 1..Len(a.symbols) : a.symbols[i] \in STRING
<1>1. Config.cooldown \in Nat /\ Config.duplicateWindow \in Nat
      /\ Config.maxOpenPositions \in Nat \ {0} /\ Config.maxExposure \in Nat \ {0}
  BY AgentAssumption DEF RiskConfig
<1>2. ASSUME NEW a \in RunArgs
      PROVE  /\ a.interval \in Nat /\ Len(a.symbols) \in Nat \ {0}
             /\ \A i \in 1..Len(a.symbols) : a.symbols[i] \in STRING
  <2>1. a.symbols \in Seq(STRING) /\ a.symbols # <<>> /\ a.interval \in Nat
    BY AgentAssumption
  <2>2. Len(a.symbols) \in Nat /\ Len(a.symbols) # 0
    BY <2>1, LenProperties, EmptySeq
  <2> QED  BY <2>1, <2>2, ElementOfSeq
<1> QED  BY <1>1, <1>2, AgentAssumption

(* A remainder counts from 0.                                              *)
LEMMA Remainder == ASSUME NEW a \in Nat, NEW n \in Nat \ {0} PROVE (a % n) + 1 \in 1..n
OBVIOUS

(* The symbol of a cycle is one of run()'s symbols.                        *)
LEMMA SymbolIsString == TypeInv => CurrentSymbol \in STRING
<1> SUFFICES ASSUME TypeInv PROVE CurrentSymbol \in STRING
  OBVIOUS
<1>1. Len(args.symbols) \in Nat \ {0} /\ \A i \in 1..Len(args.symbols) : args.symbols[i] \in STRING
  BY Constants DEF TypeInv
<1>2. (index % Len(args.symbols)) + 1 \in 1..Len(args.symbols)
  BY <1>1, Remainder DEF TypeInv
<1> QED  BY <1>1, <1>2 DEF CurrentSymbol

(* The entries of the ledger are decision records with a time.             *)
LEMMA LedgerEntries ==
    ASSUME TypeInv
    PROVE  /\ Len(ledger) \in Nat
           /\ \A i \in 1..Len(ledger) : ledger[i] \in DecisionRecord /\ ledger[i].at \in Nat
<1>1. ledger \in Seq(DecisionRecord)
  BY DEF TypeInv
<1>2. Len(ledger) \in Nat /\ \A i \in 1..Len(ledger) : ledger[i] \in DecisionRecord
  BY <1>1, LenProperties, ElementOfSeq
<1>3. \A e \in DecisionRecord : e.at \in Nat
  BY DEF DecisionRecord
<1> QED  BY <1>2, <1>3

(* The supervisor the agent calls applies the rules of RiskRules.          *)
LEMMA SameRules == ASSUME NEW p, NEW c PROVE Sup!Codes(p, c, Config) = Codes(p, c, Config)
<1>1. Sup!Failing(p, c, Config) = Failing(p, c, Config)
  BY Zenon DEF Sup!Failing, Failing,
     Sup!AccountSafetyRule, AccountSafetyRule, Sup!SymbolAllowlistRule, SymbolAllowlistRule,
     Sup!SessionRule, SessionRule, Sup!Contains, Contains, Sup!MaxRiskRule, MaxRiskRule,
     Sup!DailyLossRule, DailyLossRule, Sup!MaxPositionsRule, MaxPositionsRule,
     Sup!MaxExposureRule, MaxExposureRule, Sup!Exceeds, Exceeds, Sup!Exposure, Exposure,
     Sup!SpreadRule, SpreadRule, Sup!StopLossRequiredRule, StopLossRequiredRule,
     Sup!TakeProfitRequiredRule, TakeProfitRequiredRule,
     Sup!MinStopDistanceRule, MinStopDistanceRule, Sup!Abs, Abs,
     Sup!DuplicateTradeRule, DuplicateTradeRule, Sup!CooldownRule, CooldownRule
<1> QED  BY <1>1 DEF Sup!Codes, Codes, Sup!Violations, Violations

(* The context as the supervisor completes it with its ledger.             *)
Reviewed(t) == [ContextAt(t) EXCEPT !.recent = ledger]

(* What the rules read of it.                                              *)
LEMMA ReviewedFields ==
    ASSUME NEW t
    PROVE  /\ Reviewed(t).recent = ledger /\ Reviewed(t).serverTime = t
           /\ Reviewed(t).positions = obs.positions /\ Reviewed(t).dayPnl = 0
BY DEF Reviewed, ContextAt

Verdict(p) == [symbol |-> p.symbol, action |-> p.action, approved |-> codes' = {}, at |-> now]

(* The step of the SUPERVISE stage that calls review().                    *)
LEMMA ReviewStep ==
    ASSUME BaseInv, Review
    PROVE  /\ pc = "review" /\ pc' = "execute" /\ request' = NoRequest
           /\ UNCHANGED <<now, loopVars, failed, obs, exeVars, brokerVars, wdVars, badCycles>>
           /\ Planned(request.p) /\ (request.p.action # "HOLD" => request.p.volume # None)
           /\ \E t \in obs.at..now : /\ request.c.serverTime = t
                                     /\ codes' = Codes(request.p, Reviewed(t), Config)
           /\ ledger' = IF request.p.action = "HOLD" THEN ledger ELSE Append(ledger, Verdict(request.p))
           /\ decision' \in {"hold", "approved", "rejected"}
           /\ decision' = "approved" <=> request.p.action # "HOLD" /\ codes' = {}
           /\ trade' = IF decision' = "approved" THEN [trade EXCEPT ![cycle] = TradeOf(request.p)]
                                                 ELSE trade
<1>1. /\ pc = "review" /\ pc' = "execute" /\ Sup!Review
      /\ UNCHANGED <<loopVars, failed, obs, exeVars, brokerVars, wdVars, badCycles>>
      /\ trade' = IF decision' = "approved" THEN [trade EXCEPT ![cycle] = TradeOf(request.p)]
                                            ELSE trade
  BY DEF Review
<1>2. decision' = CASE request.p.action = "HOLD" -> "hold"
                    [] request.p.action # "HOLD" /\ codes' = {} -> "approved"
                    [] OTHER -> "rejected"
  BY DEF Review
<1>3. /\ decision' \in {"hold", "approved", "rejected"}
      /\ decision' = "approved" <=> request.p.action # "HOLD" /\ codes' = {}
  BY <1>2
<1>4. PICK t \in obs.at..now : request.c = ContextAt(t)
  BY <1>1 DEF BaseInv, StageInv
<1>5. <<>> \o ledger = ledger
  BY ConcatEmptySeq DEF BaseInv, TypeInv
<1>6. Sup!WithHistory(request.c, ledger) = Reviewed(t)
  <2>1. request.c.recent \o ledger = ledger
    BY <1>4, <1>5 DEF ContextAt
  <2> QED  BY <1>4, <2>1 DEF Sup!WithHistory, Reviewed
<1>7. /\ codes' = Codes(request.p, Reviewed(t), Config)
      /\ request.c.serverTime = t
  BY <1>1, <1>4, <1>6, SameRules DEF Sup!Review, ContextAt
<1>8. /\ now' = now /\ request' = NoRequest
      /\ ledger' = IF request.p.action = "HOLD" THEN ledger ELSE Append(ledger, Verdict(request.p))
  BY <1>1 DEF Sup!Review, Sup!Recorded, Sup!NoRequest, NoRequest, Verdict
<1>9. Planned(request.p) /\ (request.p.action # "HOLD" => request.p.volume # None)
  BY <1>1 DEF BaseInv, StageInv
<1> QED  BY <1>1, <1>3, <1>7, <1>8, <1>9

(* An approved trade passed the rules that the proofs rest on.             *)
LEMMA NoCodesNoViolation ==
    ASSUME NEW p, NEW c, p.action # "HOLD", Codes(p, c, Config) = {}
    PROVE  /\ ~DuplicateTradeRule(p, c, Config) /\ ~MaxPositionsRule(p, c, Config)
           /\ ~MaxExposureRule(p, c, Config)
<1> DEFINE f == Failing(p, c, Config)
<1>1. /\ "DUPLICATE_TRADE" \in DOMAIN f /\ f["DUPLICATE_TRADE"] = DuplicateTradeRule(p, c, Config)
      /\ "MAX_POSITIONS_EXCEEDED" \in DOMAIN f
      /\ f["MAX_POSITIONS_EXCEEDED"] = MaxPositionsRule(p, c, Config)
      /\ "MAX_EXPOSURE_EXCEEDED" \in DOMAIN f
      /\ f["MAX_EXPOSURE_EXCEEDED"] = MaxExposureRule(p, c, Config)
  BY DEF Failing
<1>2. {code \in DOMAIN f : f[code]} = {}
  BY DEF Codes, Violations
<1> HIDE DEF f
<1> QED  BY <1>1, <1>2

(* A trade refused for cooling down violates CooldownRule.                 *)
LEMMA CoolingIsCooldown ==
    ASSUME NEW p, NEW c, "COOLDOWN_ACTIVE" \in Codes(p, c, Config)
    PROVE  CooldownRule(p, c, Config)
<1>1. Failing(p, c, Config)["COOLDOWN_ACTIVE"] = CooldownRule(p, c, Config)
  BY DEF Failing
<1>2. Failing(p, c, Config)["COOLDOWN_ACTIVE"]
  BY DEF Codes, Violations
<1> QED  BY <1>1, <1>2

(* The ledger after a verdict.                                             *)
LEMMA VerdictRecorded ==
    ASSUME BaseInv, Review
    PROVE  /\ ledger' \in Seq(DecisionRecord) /\ Len(ledger') \in Nat
           /\ Len(ledger) <= Len(ledger') /\ Len(ledger') <= Len(ledger) + 1
           /\ \A i \in 1..Len(ledger) : ledger'[i] = ledger[i]
           /\ \A i \in 1..Len(ledger') :
                 i \in 1..Len(ledger) \/ (i = Len(ledger) + 1 /\ ledger'[i] = Verdict(request.p))
           /\ request.p.action # "HOLD" => Len(ledger') = Len(ledger) + 1
           /\ Verdict(request.p).at = now
<1> DEFINE e == Verdict(request.p)
<1>0. Len(ledger) \in Nat /\ ledger \in Seq(DecisionRecord) /\ now \in Nat
  BY LedgerEntries, Constants DEF BaseInv, TypeInv
<1>1. e.at = now /\ e.symbol = request.p.symbol /\ e.action = request.p.action
  BY DEF Verdict
<1>2. CASE request.p.action = "HOLD"
  <2>1. ledger' = ledger
    BY <1>2, ReviewStep
  <2> QED  BY <1>0, <1>1, <1>2, <2>1
<1>3. CASE request.p.action # "HOLD"
  <2>1. ledger' = Append(ledger, e)
    BY <1>3, ReviewStep
  <2>2. request.p.symbol \in STRING /\ request.p.action \in Directional
    BY <1>3, ReviewStep DEF Planned, TradeProposal, TradeAction
  <2>3. e \in DecisionRecord
    BY <1>0, <2>2 DEF Verdict, DecisionRecord
  <2> HIDE DEF e
  <2>4. /\ ledger' \in Seq(DecisionRecord) /\ Len(ledger') = Len(ledger) + 1
        /\ \A i \in 1..Len(ledger) : ledger'[i] = ledger[i]
        /\ ledger'[Len(ledger) + 1] = e
    BY <1>0, <2>1, <2>3, AppendProperties
  <2>5. \A i \in 1..Len(ledger') : i \in 1..Len(ledger) \/ i = Len(ledger) + 1
    BY <1>0, <2>4
  <2> QED  BY <1>0, <1>1, <2>4, <2>5 DEF e
<1> QED  BY <1>2, <1>3
-----------------------------------------------------------------------------
(* The initial state satisfies the base invariant.                         *)
LEMMA InitBase == Init => BaseInv /\ Flags
<1> SUFFICES ASSUME Init PROVE BaseInv /\ Flags
  OBVIOUS
<1>1. TypeInv
  <2>1. trade \in [CycleId -> Trade]
    <3>1. "BUY" \in Directional
      BY DEF Directional
    <3>2. 0 \in Nat /\ 0 \in Nat \union {NaN}
      OBVIOUS
    <3>3. NoTrade \in Trade
      BY <3>1, <3>2, Zenon DEF NoTrade, Trade
    <3> QED  BY <3>3 DEF Init
  <2>2. ledger \in Seq(DecisionRecord)
    BY EmptySeq DEF Init
  <2>3. result \in [CycleId -> Exe!Answers \union {"NONE"}] /\ orders \in [CycleId -> {0, 1}]
    BY DEF Init, Exe!Init
  <2> QED  BY <2>1, <2>2, <2>3, Constants DEF Init, TypeInv, Outside, Wd!WdInit
<1>2. Flags
  BY Zenon DEF Init, Flags, Wd!WdInit
<1>3. Len(ledger) = 0
  BY EmptySeq, LenProperties DEF Init
<1>4. CountInv
  BY <1>3 DEF Init, CountInv, Wd!WdInit, Stages, BeforeReview, Observed
<1>5. StageInv
  BY DEF Init, StageInv, BeforeReview, Observed
<1>6. OrderInv
  BY DEF Init, OrderInv, Fresh, Exe!Init
<1>7. ApprovalInv
  <2>1. Ordered = {}
    BY DEF Init, Ordered, Executable, Exe!Init
  <2>2. [k \in {} |-> 0] \in [Ordered -> 1..Len(ledger)]
    BY <2>1
  <2> QED  BY <2>1, <2>2 DEF ApprovalInv
<1>8. TimeInv
  BY <1>3 DEF Init, TimeInv, Observed, Underway, Exe!Init
<1> QED  BY <1>1, <1>2, <1>4, <1>5, <1>6, <1>7, <1>8 DEF BaseInv

(* Steps keep the types.                                                   *)
LEMMA TypeStep == ASSUME BaseInv, [Next]_vars PROVE TypeInv'
<1> USE DEF loopVars, cycleVars, supVars, exeVars, brokerVars, wdVars
<1>0. TypeInv /\ StageInv
  BY DEF BaseInv
<1>1. CASE Leave
  BY <1>0, <1>1 DEF TypeInv, Leave, Outside
<1>2. CASE Begin
  BY <1>0, <1>2, Constants DEF TypeInv, Begin, Enough, Stages
<1>3. CASE Observe
  BY <1>0, <1>3, Constants DEF TypeInv, Observe, Wd!NoteObservation, Stages
<1>4. CASE StrategyMemory
  BY <1>0, <1>4 DEF TypeInv, StrategyMemory, Stages
<1>5. CASE Plan
  BY <1>0, <1>5 DEF TypeInv, Plan, Stages
<1>6. CASE Supervise
  BY <1>0, <1>6 DEF TypeInv, Supervise, Stages
<1>7. CASE Review
  <2>1. ledger' \in Seq(DecisionRecord)
    BY <1>7, VerdictRecorded
  <2>2. trade' \in [CycleId -> Trade]
    <3>1. CASE decision' = "approved"
      <4>1. request.p.symbol \in STRING /\ request.p.action \in Directional
            /\ request.p.volume \in Nat \union {NaN}
        BY <1>7, <3>1, ReviewStep DEF Planned, TradeProposal, TradeAction
      <4>2. now \in Nat
        BY <1>0, Constants DEF TypeInv
      <4>3. TradeOf(request.p) \in Trade
        BY <1>7, <3>1, <4>1, <4>2, Constants, ReviewStep DEF TradeOf, Trade
      <4> QED  BY <1>0, <1>7, <3>1, <4>3, ReviewStep DEF TypeInv
    <3>2. CASE decision' # "approved"
      BY <1>0, <1>7, <3>2, ReviewStep DEF TypeInv
    <3> QED  BY <3>1, <3>2
  <2> QED  BY <1>0, <1>7, <2>1, <2>2, ReviewStep DEF TypeInv, Stages
<1>8. CASE Skip
  BY <1>0, <1>8 DEF TypeInv, Skip, Stages
<1>9. ASSUME NEW r \in Exe!Answers \ {"SIMULATED"}, Execute(r) PROVE TypeInv'
  BY <1>0, <1>9 DEF TypeInv, Execute, Exe!Answer, Stages
<1>10. CASE Finish
  <2>1. consecutive' \in Nat /\ lastObserved' = lastObserved
    BY <1>0, <1>10 DEF TypeInv, Finish, Wd!NoteFailure, Wd!NoteSuccess
  <2>2. wakeAt' \in Nat /\ pc' \in Outside
    BY <1>0, <1>10, Constants DEF TypeInv, Finish, Outside
  <2> QED  BY <1>0, <1>10, <2>1, <2>2 DEF TypeInv, Finish
<1>11. CASE Wake
  BY <1>0, <1>11 DEF TypeInv, Wake, Outside
<1>12. ASSUME NEW k \in CycleId, Book(k) \/ Show(k) \/ Drop(k) \/ Close(k) PROVE TypeInv'
  BY <1>0, <1>12 DEF TypeInv, Book, Show, Drop, Close, Exe!Reach, Booked
<1>13. CASE Tick
  <2>1. now' \in 0..MaxTime /\ UNCHANGED pc
    BY <1>0, <1>13, Constants DEF TypeInv, Tick
  <2> QED  BY <1>0, <1>13, <2>1 DEF TypeInv, Tick
<1>14. CASE Stop
  BY <1>0, <1>14 DEF TypeInv, Stop
<1>15. CASE Recover
  BY <1>0, <1>15 DEF TypeInv, Recover, Outside, Wd!Reset
<1>16. CASE Restart
  <2>1. ledger' \in Seq(DecisionRecord)
    BY <1>16, EmptySeq DEF Restart
  <2> QED  BY <1>0, <1>16, <2>1, Constants DEF TypeInv, Restart, Outside
<1>17. CASE UNCHANGED vars
  BY <1>0, <1>17 DEF TypeInv, vars
<1> QED  BY <1>1, <1>2, <1>3, <1>4, <1>5, <1>6, <1>7, <1>8, <1>9, <1>10, <1>11, <1>12, <1>13,
            <1>14, <1>15, <1>16, <1>17 DEF Next, AgentStep, Broker

(* Steps keep the flags boolean.                                           *)
LEMMA FlagsStep == ASSUME Flags, [Next]_vars PROVE Flags'
<1> USE DEF loopVars, cycleVars, supVars, exeVars, brokerVars, wdVars
<1>1. stop' \in BOOLEAN
  <2>1. stop' = stop \/ stop' = TRUE \/ stop' = FALSE
    BY DEF Next, AgentStep, Broker, Leave, Begin, Observe, StrategyMemory, Plan, Supervise, Review,
           Skip, Execute, Finish, Wake, Book, Show, Drop, Close, Tick, Stop, Recover, Restart, vars
  <2> QED  BY <2>1, Zenon DEF Flags
<1>2. failed' \in BOOLEAN
  <2>1. failed' = failed \/ failed' = TRUE \/ failed' = FALSE \/ failed' \in BOOLEAN
    BY DEF Next, AgentStep, Broker, Leave, Begin, Observe, StrategyMemory, Plan, Supervise, Review,
           Skip, Execute, Finish, Wake, Book, Show, Drop, Close, Tick, Stop, Recover, Restart, vars
  <2> QED  BY <2>1, Zenon DEF Flags
<1>3. tripped' \in BOOLEAN
  <2>1. CASE Finish
    <3>1. tripped' = tripped \/ tripped' = (tripped \/ consecutive' >= MaxFailures)
      BY <2>1 DEF Finish, Wd!NoteFailure, Wd!NoteSuccess
    <3> QED  BY <3>1, Zenon DEF Flags
  <2>2. CASE ~Finish
    <3>1. tripped' = tripped \/ tripped' = FALSE
      BY <2>2 DEF Next, AgentStep, Broker, Leave, Begin, Observe, StrategyMemory, Plan, Supervise,
             Review, Skip, Execute, Wake, Book, Show, Drop, Close, Tick, Stop, Recover, Restart,
             vars, Wd!NoteObservation, Wd!Reset
    <3> QED  BY <3>1, Zenon DEF Flags
  <2> QED  BY <2>1, <2>2
<1> QED  BY <1>1, <1>2, <1>3 DEF Flags

(* Without a halt, the watchdog has counted fewer failures than it allows. *)
LEMMA NoHalt == ~Wd!ShouldHalt(now) => ~(consecutive >= MaxFailures)
BY DEF Wd!ShouldHalt, Wd!Status

(* Steps keep the counters in step.                                        *)
LEMMA CountStep == ASSUME BaseInv, [Next]_vars PROVE CountInv'
<1> USE DEF loopVars, cycleVars, supVars, exeVars, brokerVars, wdVars
<1>0. TypeInv /\ CountInv /\ Len(ledger) \in Nat
  BY LedgerEntries DEF BaseInv
<1>a. /\ Outside = {"top", "wait", "done"}
      /\ Stages = {"observe", "strategy", "plan", "supervise", "review", "execute", "finish"}
      /\ BeforeReview = {"observe", "strategy", "plan", "supervise", "review"}
  BY DEF Outside, Stages, BeforeReview, Observed
<1>1. CASE Leave
  BY <1>0, <1>a, <1>1 DEF TypeInv, CountInv, Leave
<1>2. CASE Begin
  BY <1>0, <1>a, <1>2, Constants, NoHalt DEF TypeInv, CountInv, Begin
<1>3. CASE Observe
  BY <1>0, <1>a, <1>3 DEF TypeInv, CountInv, Observe, Wd!NoteObservation
<1>4. CASE StrategyMemory
  BY <1>0, <1>a, <1>4 DEF TypeInv, CountInv, StrategyMemory
<1>5. CASE Plan
  BY <1>0, <1>a, <1>5 DEF TypeInv, CountInv, Plan
<1>6. CASE Supervise
  BY <1>0, <1>a, <1>6 DEF TypeInv, CountInv, Supervise
<1>7. CASE Review
  <2>1. Len(ledger') <= Len(ledger) + 1 /\ Len(ledger') \in Nat
    BY <1>7, VerdictRecorded
  <2>2. UNCHANGED <<index, cycle, consecutive, badCycles>> /\ pc = "review" /\ pc' = "execute"
    BY <1>7, ReviewStep
  <2> QED  BY <1>0, <1>a, <2>1, <2>2 DEF TypeInv, CountInv
<1>8. CASE Skip
  BY <1>0, <1>a, <1>8 DEF TypeInv, CountInv, Skip
<1>9. ASSUME NEW r \in Exe!Answers \ {"SIMULATED"}, Execute(r) PROVE CountInv'
  BY <1>0, <1>a, <1>9 DEF TypeInv, CountInv, Execute, Exe!Answer
<1>10. CASE Finish
  <2>1. /\ consecutive' = 0 \/ consecutive' = consecutive + 1
        /\ badCycles' = consecutive'
    BY <1>0, <1>10 DEF CountInv, Finish, Wd!NoteFailure, Wd!NoteSuccess
  <2>2. index' = index + 1 /\ UNCHANGED <<cycle, ledger>> /\ pc = "finish" /\ pc' \in Outside
    BY <1>10 DEF Finish, Outside
  <2> QED  BY <1>0, <1>a, <2>1, <2>2 DEF TypeInv, CountInv
<1>11. CASE Wake
  BY <1>0, <1>a, <1>11 DEF TypeInv, CountInv, Wake
<1>12. ASSUME NEW k \in CycleId, Book(k) \/ Show(k) \/ Drop(k) \/ Close(k) PROVE CountInv'
  BY <1>0, <1>12 DEF TypeInv, CountInv, Book, Show, Drop, Close, Exe!Reach, Booked
<1>13. CASE Tick
  BY <1>0, <1>13 DEF TypeInv, CountInv, Tick
<1>14. CASE Stop
  BY <1>0, <1>14 DEF TypeInv, CountInv, Stop
<1>15. CASE Recover
  BY <1>0, <1>a, <1>15 DEF TypeInv, CountInv, Recover, Wd!Reset
<1>16. CASE Restart
  <2>1. Len(ledger') = 0
    BY <1>16, EmptySeq, LenProperties DEF Restart
  <2> QED  BY <1>0, <1>a, <1>16, <2>1 DEF TypeInv, CountInv, Restart
<1>17. CASE UNCHANGED vars
  BY <1>0, <1>17 DEF TypeInv, CountInv, vars
<1> QED  BY <1>1, <1>2, <1>3, <1>4, <1>5, <1>6, <1>7, <1>8, <1>9, <1>10, <1>11, <1>12, <1>13,
            <1>14, <1>15, <1>16, <1>17 DEF Next, AgentStep, Broker

(* A planner's proposal is well formed.                                    *)
LEMMA PlanProposes ==
    ASSUME TypeInv, NEW x \in Proposable
    PROVE  Planned([action |-> x.action, symbol |-> CurrentSymbol,
                    volume |-> x.volume, riskPct |-> 0, entry |-> Bracket[x.action][1],
                    stopLoss |-> Bracket[x.action][2], takeProfit |-> Bracket[x.action][3]])
<1>1. x.action \in TradeAction /\ x.volume \in Nat \union {None, NaN} /\ CurrentSymbol \in STRING
  BY AgentAssumption, SymbolIsString
<1>2. /\ Bracket[x.action][1] \in Nat \union {None, NaN}
      /\ Bracket[x.action][2] \in Nat \union {None, NaN}
      /\ Bracket[x.action][3] \in Nat \union {None, NaN}
  <2>1. CASE x.action = "BUY"
    BY <2>1 DEF Bracket
  <2>2. CASE x.action = "SELL"
    BY <2>2 DEF Bracket
  <2>3. CASE x.action = "HOLD"
    BY <2>3 DEF Bracket
  <2> QED  BY <1>1, <2>1, <2>2, <2>3 DEF TradeAction, Directional
<1> DEFINE e == Bracket[x.action][1]
           s == Bracket[x.action][2]
           t == Bracket[x.action][3]
           sym == CurrentSymbol
<1> HIDE DEF e, s, t, sym
<1>3. [action |-> x.action, symbol |-> sym, volume |-> x.volume, riskPct |-> 0, entry |-> e,
       stopLoss |-> s, takeProfit |-> t] \in TradeProposal
  BY <1>1, <1>2 DEF TradeProposal, e, s, t, sym
<1> QED  BY <1>3 DEF Planned, NumericVolumes, e, s, t, sym

(* The default volume makes a proposal complete.                           *)
LEMMA FilledPlan ==
    ASSUME NEW p, Planned(p)
    PROVE  Planned(Filled(p)) /\ (Filled(p).action # "HOLD" => Filled(p).volume # None)
<1>1. p \in TradeProposal /\ DefaultVolume \in Nat /\ DefaultVolume # NaN /\ DefaultVolume # None
  BY Constants, SentinelsAssumption DEF Planned
<1>2. CASE p.action # "HOLD" /\ p.volume = None
  <2>1. Filled(p) = [p EXCEPT !.volume = DefaultVolume]
    BY <1>2 DEF Filled
  <2>2. Filled(p) \in TradeProposal /\ Filled(p).volume = DefaultVolume
    BY <1>1, <2>1 DEF TradeProposal
  <2> QED  BY <1>1, <2>2 DEF Planned
<1>3. CASE ~(p.action # "HOLD" /\ p.volume = None)
  BY <1>3 DEF Filled
<1> QED  BY <1>2, <1>3

(* Steps hand on what the next stage needs.                                *)
LEMMA StageStep == ASSUME BaseInv, [Next]_vars PROVE StageInv'
<1> USE DEF loopVars, cycleVars, supVars, exeVars, brokerVars, wdVars
<1>0. TypeInv /\ StageInv /\ now \in Nat
  BY Constants DEF BaseInv, TypeInv
<1>a. /\ Outside = {"top", "wait", "done"}
      /\ Observed = {"strategy", "plan", "supervise", "review"}
      /\ BeforeReview = {"observe", "strategy", "plan", "supervise", "review"}
  BY DEF Outside, Stages, BeforeReview, Observed
<1>b. ASSUME UNCHANGED <<request, decision, obs>>, pc' = pc, now' = now \/ now' = now + 1
      PROVE  StageInv'
  <2>1. pc = "review" => \E t \in obs.at..now : request.c = ContextAt(t)
    BY <1>0 DEF StageInv
  <2>2. pc = "review" => \E t \in obs.at..now' : request'.c = ContextAt(t)'
    BY <1>0, <1>a, <1>b, <2>1 DEF ContextAt, StageInv
  <2> QED  BY <1>0, <1>b, <2>2 DEF StageInv
<1>1. CASE Leave
  BY <1>0, <1>a, <1>1 DEF StageInv, Leave
<1>2. CASE Begin
  BY <1>0, <1>a, <1>2 DEF StageInv, Begin
<1>3. CASE Observe
  BY <1>0, <1>a, <1>3 DEF StageInv, Observe
<1>4. CASE StrategyMemory
  BY <1>0, <1>a, <1>4 DEF StageInv, StrategyMemory
<1>5. CASE Plan
  <2>1. pc = "plan" /\ pc' = "supervise" /\ UNCHANGED <<obs, decision>>
    BY <1>5 DEF Plan
  <2>2. request' = NoRequest \/ Planned(request'.p)
    <3>1. CASE request' = request
      BY <1>0, <2>1, <3>1 DEF StageInv
    <3>2. CASE request' # request
      <4>1. PICK x \in Proposable :
                request'.p = [action |-> x.action, symbol |-> CurrentSymbol,
                    volume |-> x.volume, riskPct |-> 0, entry |-> Bracket[x.action][1],
                    stopLoss |-> Bracket[x.action][2], takeProfit |-> Bracket[x.action][3]]
        BY <1>5, <3>2 DEF Plan
      <4> QED  BY <1>0, <4>1, PlanProposes
    <3> QED  BY <3>1, <3>2
  <2> QED  BY <1>0, <1>a, <2>1, <2>2 DEF StageInv
<1>6. CASE Supervise
  <2>1. pc = "supervise" /\ UNCHANGED <<obs, decision, now>>
    BY <1>6 DEF Supervise
  <2>2. CASE request = NoRequest
    <3>1. pc' = "execute"
      BY <1>6, <2>2 DEF Supervise
    <3> QED  BY <1>a, <3>1 DEF StageInv
  <2>3. CASE request # NoRequest
    <3>1. pc' = "review" /\ request'.p = Filled(request.p) /\ request'.c = ContextNow
      BY <1>6, <2>3 DEF Supervise
    <3>2. Planned(request.p)
      BY <1>0, <2>1, <2>3 DEF StageInv
    <3>3. Planned(request'.p) /\ (request'.p.action # "HOLD" => request'.p.volume # None)
      BY <3>1, <3>2, FilledPlan
    <3>4. request'.c = ContextAt(now)'
      BY <2>1, <3>1 DEF ContextNow, ContextAt
    <3>5. now \in obs'.at..now' /\ obs'.at \in Nat
      BY <1>0, <1>a, <2>1 DEF StageInv, BaseInv, TimeInv
    <3>6. now' = now
      BY <2>1
    <3> QED  BY <1>0, <1>a, <2>1, <3>1, <3>3, <3>4, <3>5, <3>6 DEF StageInv
  <2> QED  BY <2>2, <2>3
<1>7. CASE Review
  <2>1. pc' = "execute"
    BY <1>7, ReviewStep
  <2> QED  BY <1>a, <2>1 DEF StageInv
<1>8. CASE Skip
  BY <1>a, <1>8 DEF StageInv, Skip
<1>9. ASSUME NEW r \in Exe!Answers \ {"SIMULATED"}, Execute(r) PROVE StageInv'
  BY <1>a, <1>9 DEF StageInv, Execute
<1>10. CASE Finish
  <2>1. pc' \in Outside /\ decision' = "none" /\ request' = NoRequest
    BY <1>10 DEF Finish, Outside
  <2> QED  BY <1>a, <2>1 DEF StageInv
<1>11. CASE Wake
  BY <1>0, <1>a, <1>11 DEF StageInv, Wake
<1>12. ASSUME NEW k \in CycleId, Book(k) \/ Show(k) \/ Drop(k) \/ Close(k) PROVE StageInv'
  BY <1>b, <1>12 DEF Book, Show, Drop, Close
<1>13. CASE Tick
  BY <1>b, <1>13 DEF Tick
<1>14. CASE Stop
  BY <1>b, <1>14 DEF Stop
<1>15. CASE Recover
  BY <1>0, <1>a, <1>15 DEF StageInv, Recover
<1>16. CASE Restart
  BY <1>0, <1>a, <1>16 DEF StageInv, Restart
<1>17. CASE UNCHANGED vars
  BY <1>b, <1>17 DEF vars
<1> QED  BY <1>1, <1>2, <1>3, <1>4, <1>5, <1>6, <1>7, <1>8, <1>9, <1>10, <1>11, <1>12, <1>13,
            <1>14, <1>15, <1>16, <1>17 DEF Next, AgentStep, Broker

(* Steps keep orders and answers consistent.                               *)
LEMMA OrderStep == ASSUME BaseInv, [Next]_vars PROVE OrderInv'
<1> USE DEF loopVars, cycleVars, supVars, exeVars, brokerVars, wdVars
<1>0. TypeInv /\ OrderInv /\ StageInv
  BY DEF BaseInv
<1>a. /\ Outside = {"top", "wait", "done"}
      /\ BeforeReview = {"observe", "strategy", "plan", "supervise", "review"}
      /\ CycleId \subseteq Int
  BY DEF Outside, BeforeReview, Observed, CycleId
<1>1. CASE Leave
  BY <1>0, <1>a, <1>1 DEF OrderInv, Fresh, Executable, Leave
<1>2. CASE Begin
  <2>1. /\ cycle' = cycle + 1 /\ cycle \in Int /\ pc = "top" /\ pc' = "observe"
        /\ UNCHANGED <<orders, result, visible, gone, decision>>
    BY <1>0, <1>2 DEF Begin, TypeInv
  <2> QED  BY <1>0, <1>a, <2>1 DEF OrderInv, Fresh, Executable
<1>3. CASE Observe
  BY <1>0, <1>a, <1>3 DEF OrderInv, Fresh, Executable, Observe
<1>4. CASE StrategyMemory
  BY <1>0, <1>a, <1>4 DEF OrderInv, Fresh, Executable, StrategyMemory
<1>5. CASE Plan
  BY <1>0, <1>a, <1>5 DEF OrderInv, Fresh, Executable, Plan
<1>6. CASE Supervise
  BY <1>0, <1>a, <1>6 DEF OrderInv, Fresh, Executable, Supervise
<1>7. CASE Review
  <2>1. /\ UNCHANGED <<cycle, orders, result, visible, gone>> /\ pc = "review" /\ pc' = "execute"
    BY <1>7, ReviewStep
  <2> QED  BY <1>0, <1>a, <2>1 DEF OrderInv, Fresh
<1>8. CASE Skip
  BY <1>0, <1>a, <1>8 DEF OrderInv, Fresh, Executable, Skip
<1>9. ASSUME NEW r \in Exe!Answers \ {"SIMULATED"}, Execute(r) PROVE OrderInv'
  <2>1. /\ UNCHANGED <<cycle, orders, visible, gone>> /\ pc = "execute" /\ pc' = "finish"
        /\ result[cycle] = "NONE" /\ result' = [result EXCEPT ![cycle] = r]
        /\ r \in {"SIMULATED", "REJECTED"} => orders[cycle] = 0
    BY <1>9 DEF Execute, Exe!Answer
  <2>2. r # "NONE"
    BY <1>9 DEF Exe!Answers
  <2>3. \A k \in CycleId : result'[k] = IF k = cycle THEN r ELSE result[k]
    BY <1>0, <2>1 DEF TypeInv
  <2>4. cycle \in Int
    BY <1>0 DEF TypeInv
  <2> QED  BY <1>0, <1>a, <2>1, <2>2, <2>3, <2>4 DEF OrderInv, Fresh
<1>10. CASE Finish
  <2>1. /\ UNCHANGED <<cycle, orders, result, visible, gone>> /\ pc = "finish" /\ pc' \in Outside
    BY <1>10 DEF Finish, Outside
  <2> QED  BY <1>0, <1>a, <2>1 DEF OrderInv, Fresh
<1>11. CASE Wake
  BY <1>0, <1>a, <1>11 DEF OrderInv, Fresh, Executable, Wake
<1>12. ASSUME NEW k \in CycleId, Book(k) PROVE OrderInv'
  <2>1. /\ Underway(k) /\ UNCHANGED <<pc, cycle, decision, result, visible, gone>>
        /\ orders' = [orders EXCEPT ![k] = 1] /\ result[k] \in {"NONE", "FAILED", "UNKNOWN"}
    BY <1>12 DEF Book, Exe!Reach
  <2>2. \A j \in CycleId : orders'[j] = IF j = k THEN 1 ELSE orders[j]
    BY <1>0, <2>1 DEF TypeInv
  <2>3. ~(k > cycle \/ (k = cycle /\ pc \in BeforeReview))
    <3>1. (k = cycle /\ pc = "execute") \/ result[k] # "NONE"
      BY <2>1 DEF Underway
    <3>2. CASE k = cycle /\ pc = "execute"
      BY <1>0, <1>a, <3>2 DEF TypeInv
    <3>3. CASE result[k] # "NONE"
      BY <1>0, <3>3 DEF OrderInv, Fresh
    <3> QED  BY <3>1, <3>2, <3>3
  <2>4. result[k] = "NONE" => k = cycle /\ pc = "execute" /\ Executable
    BY <2>1 DEF Underway
  <2> QED  BY <1>0, <2>1, <2>2, <2>3, <2>4 DEF OrderInv, Fresh, Executable
<1>13. ASSUME NEW k \in CycleId, Show(k) \/ Drop(k) \/ Close(k) PROVE OrderInv'
  <2>1. UNCHANGED <<pc, cycle, decision, result, orders>>
    BY <1>13 DEF Show, Drop, Close
  <2>2. ~Fresh(k)
    BY <1>0, <1>13 DEF Show, Drop, Close, Booked, Fresh
  <2>3. \A j \in CycleId : j # k => (j \in visible' <=> j \in visible) /\ (j \in gone' <=> j \in gone)
    BY <1>13 DEF Show, Drop, Close
  <2>4. k \in visible' => orders[k] = 1
    BY <1>0, <1>13 DEF Show, Drop, Close, Booked, OrderInv
  <2> QED  BY <1>0, <2>1, <2>2, <2>3, <2>4 DEF OrderInv, Fresh, Executable
<1>14. CASE Tick
  BY <1>0, <1>14 DEF OrderInv, Fresh, Executable, Tick
<1>15. CASE Stop
  BY <1>0, <1>15 DEF OrderInv, Fresh, Executable, Stop
<1>16. CASE Recover
  BY <1>0, <1>a, <1>16 DEF OrderInv, Fresh, Executable, Recover
<1>17. CASE Restart
  BY <1>0, <1>a, <1>17 DEF OrderInv, Fresh, Executable, Restart
<1>18. CASE UNCHANGED vars
  BY <1>0, <1>18 DEF OrderInv, Fresh, Executable, vars
<1> QED  BY <1>1, <1>2, <1>3, <1>4, <1>5, <1>6, <1>7, <1>8, <1>9, <1>10, <1>11, <1>12, <1>13,
            <1>14, <1>15, <1>16, <1>17, <1>18 DEF Next, AgentStep, Broker
-----------------------------------------------------------------------------
(* Only a verdict adds to the orders that may become positions and to the  *)
(* cycles that need an approval.                                           *)
LEMMA OthersShrink ==
    ASSUME BaseInv, [Next]_vars, ~Review
    PROVE  /\ trade' = trade
           /\ \A k \in CycleId : Underway(k)' => Underway(k)
           /\ Live' \subseteq Live
           /\ Ordered' \subseteq Ordered
           /\ ledger' = ledger \/ (Restart /\ Ordered' = {})
<1> USE DEF loopVars, cycleVars, supVars, exeVars, brokerVars, wdVars
<1>0. TypeInv /\ OrderInv /\ StageInv
  BY DEF BaseInv
<1>a. Outside = {"top", "wait", "done"} /\ CycleId \subseteq Int
  BY DEF Outside, CycleId
<1>b. ASSUME UNCHANGED <<trade, result, orders, visible, gone, started, ledger>>,
             pc' = "execute" /\ Executable' => pc = "execute" /\ Executable /\ cycle' = cycle,
             Executable' => Executable /\ cycle' = cycle
      PROVE  /\ trade' = trade
             /\ \A k \in CycleId : Underway(k)' => Underway(k)
             /\ Live' \subseteq Live
             /\ Ordered' \subseteq Ordered
             /\ ledger' = ledger
  <2>1. \A k \in CycleId : Underway(k)' => Underway(k)
    BY <1>b DEF Underway
  <2>2. Live' \subseteq Live
    BY <1>b, <2>1 DEF Live
  <2>3. Ordered' \subseteq Ordered
    BY <1>b DEF Ordered
  <2> QED  BY <1>b, <2>1, <2>2, <2>3
<1>1. CASE Leave \/ Begin \/ Observe \/ StrategyMemory \/ Plan \/ Supervise \/ Skip \/ Finish \/ Wake
  <2>1. UNCHANGED <<trade, result, orders, visible, gone, started, ledger>>
    BY <1>1 DEF Leave, Begin, Observe, StrategyMemory, Plan, Supervise, Skip, Finish, Wake
  <2>2. Executable' => Executable /\ cycle' = cycle
    BY <1>0, <1>a, <1>1 DEF Leave, Begin, Observe, StrategyMemory, Plan, Supervise, Skip, Finish, Wake,
          StageInv, Executable
  <2>3. pc' = "execute" => pc = "supervise" /\ ~Executable'
    BY <1>0, <1>1 DEF Leave, Begin, Observe, StrategyMemory, Plan, Supervise, Skip, Finish, Wake,
          StageInv, Executable, BeforeReview, Observed
  <2> QED  BY <1>b, <2>1, <2>2, <2>3
<1>2. ASSUME NEW r \in Exe!Answers \ {"SIMULATED"}, Execute(r)
      PROVE  /\ trade' = trade
             /\ \A k \in CycleId : Underway(k)' => Underway(k)
             /\ Live' \subseteq Live
             /\ Ordered' \subseteq Ordered
             /\ ledger' = ledger
  <2>1. /\ UNCHANGED <<trade, orders, visible, gone, started, ledger, cycle, decision>>
        /\ pc = "execute" /\ pc' = "finish" /\ Executable /\ result' = [result EXCEPT ![cycle] = r]
    BY <1>2 DEF Execute, Exe!Answer
  <2>2. \A k \in CycleId : k # cycle => result'[k] = result[k]
    BY <1>0, <2>1 DEF TypeInv
  <2>3. \A k \in CycleId : Underway(k)' => Underway(k)
    BY <2>1, <2>2 DEF Underway
  <2>4. Live' \subseteq Live
    BY <2>1, <2>3 DEF Live
  <2>5. Ordered' \subseteq Ordered
    BY <2>1, <2>2 DEF Ordered
  <2> QED  BY <2>1, <2>3, <2>4, <2>5
<1>3. ASSUME NEW k \in CycleId, Book(k)
      PROVE  /\ trade' = trade
             /\ \A j \in CycleId : Underway(j)' => Underway(j)
             /\ Live' \subseteq Live
             /\ Ordered' \subseteq Ordered
             /\ ledger' = ledger
  <2>1. /\ UNCHANGED <<trade, result, visible, gone, started, ledger, cycle, decision, pc>>
        /\ Underway(k) /\ orders' = [orders EXCEPT ![k] = 1]
    BY <1>3 DEF Book, Exe!Reach
  <2>2. \A j \in CycleId : j # k => orders'[j] = orders[j]
    BY <1>0, <2>1 DEF TypeInv
  <2>3. \A j \in CycleId : Underway(j)' => Underway(j)
    BY <2>1 DEF Underway, Executable
  <2>4. Live' \subseteq Live
    BY <2>1, <2>3 DEF Live
  <2>5. k > started => k \in Ordered
    BY <2>1 DEF Underway, Ordered
  <2>6. Ordered' \subseteq Ordered
    BY <2>1, <2>2, <2>5 DEF Ordered, Executable
  <2> QED  BY <2>1, <2>3, <2>4, <2>6
<1>4. ASSUME NEW k \in CycleId, Show(k) \/ Drop(k) \/ Close(k)
      PROVE  /\ trade' = trade
             /\ \A j \in CycleId : Underway(j)' => Underway(j)
             /\ Live' \subseteq Live
             /\ Ordered' \subseteq Ordered
             /\ ledger' = ledger
  <2>1. /\ UNCHANGED <<trade, result, orders, started, ledger, cycle, decision, pc>>
        /\ visible \subseteq visible' /\ gone \subseteq gone'
        /\ \A j \in visible' \ visible : j = k /\ orders[k] = 1 /\ k \notin gone
    BY <1>4 DEF Show, Drop, Close, Booked
  <2>2. \A j \in CycleId : Underway(j)' => Underway(j)
    BY <2>1 DEF Underway, Executable
  <2>3. orders[k] = 1 /\ k \notin gone => k \in Live
    BY <1>0 DEF OrderInv, Live, Underway, TypeInv, Exe!Answers
  <2>4. Live' \subseteq Live
    BY <2>1, <2>2, <2>3 DEF Live
  <2>5. Ordered' \subseteq Ordered
    BY <2>1 DEF Ordered, Executable
  <2> QED  BY <2>1, <2>2, <2>4, <2>5
<1>5. CASE Tick \/ Stop \/ UNCHANGED vars
  <2>1. UNCHANGED <<trade, result, orders, visible, gone, started, ledger, decision, pc, cycle>>
    BY <1>5 DEF Tick, Stop, vars
  <2> QED  BY <1>b, <2>1 DEF Executable
<1>6. CASE Recover
  <2>1. UNCHANGED <<trade, result, orders, visible, gone, started, ledger, decision, cycle>> /\ pc' = "top"
    BY <1>6 DEF Recover
  <2> QED  BY <1>b, <2>1 DEF Executable
<1>7. CASE Restart
  <2>1. /\ UNCHANGED <<trade, result, orders, visible, gone, decision, cycle>> /\ pc' = "top"
        /\ pc = "done" /\ started' = cycle
    BY <1>7 DEF Restart
  <2>2. \A k \in CycleId : Underway(k)' => Underway(k)
    BY <2>1 DEF Underway
  <2>3. Live' \subseteq Live
    BY <2>1, <2>2 DEF Live
  <2>4. decision = "none"
    BY <1>0, <1>a, <2>1 DEF StageInv
  <2>5. \A k \in CycleId : k > cycle => orders[k] = 0 /\ result[k] = "NONE"
    BY <1>0 DEF OrderInv, Fresh
  <2>6. Ordered' = {}
    BY <2>1, <2>4, <2>5 DEF Ordered, Executable
  <2> QED  BY <1>7, <2>1, <2>2, <2>3, <2>6
<1> QED  BY <1>1, <1>2, <1>3, <1>4, <1>5, <1>6, <1>7 DEF Next, AgentStep, Broker

(* A verdict adds its own cycle, if it approves.                           *)
LEMMA ReviewAdds ==
    ASSUME BaseInv, Review
    PROVE  /\ cycle \in CycleId /\ cycle \notin Live /\ cycle \notin Ordered
           /\ decision' = "approved" =>
                 /\ trade'[cycle] = TradeOf(request.p)
                 /\ Live' \subseteq Live \union {cycle} /\ Ordered' \subseteq Ordered \union {cycle}
           /\ decision' # "approved" => Live' \subseteq Live /\ Ordered' \subseteq Ordered
           /\ \A k \in CycleId : k # cycle => trade'[k] = trade[k]
           /\ \A k \in CycleId : Underway(k)' => Underway(k) \/ (k = cycle /\ decision' = "approved")
<1>0. TypeInv /\ OrderInv /\ CountInv /\ StageInv
  BY DEF BaseInv
<1>1. /\ pc = "review" /\ pc' = "execute"
      /\ UNCHANGED <<cycle, started, result, orders, visible, gone>>
      /\ trade' = IF decision' = "approved" THEN [trade EXCEPT ![cycle] = TradeOf(request.p)]
                                            ELSE trade
  BY ReviewStep DEF loopVars, exeVars, brokerVars
<1>2. cycle \in CycleId
  BY <1>0, <1>1 DEF TypeInv, CountInv, CycleId, Stages
<1>3. Fresh(cycle) /\ decision = "none"
  BY <1>0, <1>1, <1>2 DEF OrderInv, StageInv, BeforeReview, Observed
<1>4. cycle \notin Live /\ cycle \notin Ordered
  BY <1>1, <1>3 DEF Live, Ordered, Fresh, Underway, Executable
<1>5. /\ decision' = "approved" => trade'[cycle] = TradeOf(request.p)
      /\ \A k \in CycleId : k # cycle => trade'[k] = trade[k]
  BY <1>0, <1>1, <1>2 DEF TypeInv
<1>6. \A k \in CycleId : Underway(k)' => Underway(k) \/ (k = cycle /\ decision' = "approved")
  BY <1>1 DEF Underway, Executable
<1>7. /\ decision' = "approved" => Live' \subseteq Live \union {cycle}
      /\ decision' # "approved" => Live' \subseteq Live
  BY <1>1, <1>6 DEF Live
<1>8. /\ decision' = "approved" => Ordered' \subseteq Ordered \union {cycle}
      /\ decision' # "approved" => Ordered' \subseteq Ordered
  BY <1>1 DEF Ordered, Executable
<1> QED  BY <1>2, <1>4, <1>5, <1>6, <1>7, <1>8
-----------------------------------------------------------------------------
(* Steps keep an approval for every order.                                 *)
LEMMA ApprovalStep == ASSUME BaseInv, [Next]_vars PROVE ApprovalInv'
<1>0. /\ TypeInv /\ Len(ledger) \in Nat
      /\ \A i \in 1..Len(ledger) : ledger[i] \in DecisionRecord
  BY LedgerEntries DEF BaseInv
<1>1. PICK f \in [Ordered -> 1..Len(ledger)] :
          /\ \A j, k \in Ordered : f[j] = f[k] => j = k
          /\ \A k \in Ordered : Matches(ledger[f[k]], trade[k])
  BY DEF BaseInv, ApprovalInv
<1>a. Ordered \subseteq CycleId /\ Ordered' \subseteq CycleId
  BY DEF Ordered, CycleId
<1>2. CASE ~Review
  <2>0. /\ trade' = trade /\ Ordered' \subseteq Ordered
        /\ ledger' = ledger \/ (Restart /\ Ordered' = {})
    BY <1>2, OthersShrink
  <2> DEFINE g == [k \in Ordered' |-> f[k]]
  <2>1. CASE ledger' = ledger
    <3>1. g \in [Ordered' -> 1..Len(ledger')]
      BY <1>1, <2>0, <2>1
    <3>2. \A k \in Ordered' : g[k] = f[k]
      OBVIOUS
    <3> HIDE DEF g
    <3>3. \A k \in Ordered' : Matches(ledger'[g[k]], trade'[k])
      BY <1>1, <2>0, <2>1, <3>2 DEF Matches
    <3>4. \A j, k \in Ordered' : g[j] = g[k] => j = k
      BY <1>1, <2>0, <3>2
    <3> QED  BY <3>1, <3>3, <3>4 DEF ApprovalInv, Matches
  <2>2. CASE Ordered' = {}
    <3>1. [k \in {} |-> 0] \in [Ordered' -> 1..Len(ledger')]
      BY <2>2
    <3> QED  BY <2>2, <3>1 DEF ApprovalInv
  <2> QED  BY <2>0, <2>1, <2>2
<1>3. CASE Review
  <2>1. /\ Len(ledger') \in Nat /\ Len(ledger) <= Len(ledger')
        /\ \A i \in 1..Len(ledger) : i \in 1..Len(ledger') /\ ledger'[i] = ledger[i]
    BY <1>0, <1>3, VerdictRecorded
  <2>2. /\ cycle \in CycleId /\ cycle \notin Ordered
        /\ \A k \in Ordered : trade'[k] = trade[k]
    BY <1>3, <1>a, ReviewAdds
  <2>3. \A k \in Ordered : f[k] \in 1..Len(ledger') /\ Matches(ledger'[f[k]], trade'[k])
    BY <1>1, <2>1, <2>2 DEF Matches
  <2>4. CASE decision' # "approved"
    <3> DEFINE g == [k \in Ordered' |-> f[k]]
    <3>1. Ordered' \subseteq Ordered
      BY <1>3, <2>4, ReviewAdds
    <3>2. g \in [Ordered' -> 1..Len(ledger')] /\ \A k \in Ordered' : g[k] = f[k]
      BY <2>3, <3>1
    <3> HIDE DEF g
    <3>3. /\ \A j, k \in Ordered' : g[j] = g[k] => j = k
          /\ \A k \in Ordered' : Matches(ledger'[g[k]], trade'[k])
      BY <1>1, <2>3, <3>1, <3>2
    <3> QED  BY <3>2, <3>3 DEF ApprovalInv, Matches
  <2>5. CASE decision' = "approved"
    <3> DEFINE n == Len(ledger) + 1
               g == [k \in Ordered' |-> IF k = cycle THEN n ELSE f[k]]
    <3>1. Ordered' \subseteq Ordered \union {cycle} /\ trade'[cycle] = TradeOf(request.p)
      BY <1>3, <2>5, ReviewAdds
    <3>2. request.p.action # "HOLD" /\ codes' = {}
      BY <1>3, <2>5, ReviewStep
    <3>3. Len(ledger') = n /\ ledger'[n] = Verdict(request.p)
      BY <1>0, <1>3, <3>2, VerdictRecorded
    <3>4. Matches(ledger'[n], trade'[cycle])
      <4>1. /\ Verdict(request.p).symbol = request.p.symbol /\ Verdict(request.p).action = request.p.action
            /\ Verdict(request.p).at = now /\ Verdict(request.p).approved
        BY <3>2 DEF Verdict
      <4>2. /\ TradeOf(request.p).symbol = request.p.symbol /\ TradeOf(request.p).side = request.p.action
            /\ TradeOf(request.p).at = now
        BY DEF TradeOf
      <4>3. cycle' = cycle
        BY <1>3, ReviewStep DEF loopVars
      <4> QED  BY <3>1, <3>3, <4>1, <4>2, <4>3 DEF Matches
    <3>5. /\ g \in [Ordered' -> 1..Len(ledger')]
          /\ \A k \in Ordered' : g[k] = IF k = cycle THEN n ELSE f[k]
      BY <1>0, <2>3, <3>1, <3>3
    <3>6. \A k \in Ordered : f[k] # n
      BY <1>0, <1>1
    <3> HIDE DEF g, n
    <3>8. \A j, k \in Ordered' : g[j] = g[k] => j = k
      BY <1>1, <3>1, <3>5, <3>6
    <3>9. ASSUME NEW k \in Ordered' PROVE Matches(ledger'[g[k]], trade'[k])
      BY <2>3, <3>1, <3>4, <3>5 DEF Matches
    <3> QED  BY <3>5, <3>8, <3>9 DEF ApprovalInv, Matches
  <2> QED  BY <2>4, <2>5
<1> QED  BY <1>2, <1>3

(* Steps keep time in order.                                               *)
LEMMA TimeStep == ASSUME BaseInv, [Next]_vars PROVE TimeInv'
<1> USE DEF loopVars, cycleVars, supVars, exeVars, brokerVars, wdVars
<1>0. /\ TypeInv /\ TimeInv /\ StageInv /\ Len(ledger) \in Nat /\ now \in Nat /\ Latency \in Nat
      /\ \A i \in 1..Len(ledger) : ledger[i].at \in Nat
  BY LedgerEntries, Constants DEF BaseInv, TypeInv
<1>a. /\ Outside = {"top", "wait", "done"}
      /\ Observed = {"strategy", "plan", "supervise", "review"}
  BY DEF Outside, Observed
<1>1. \A k \in CycleId : trade[k].at \in Nat
  BY <1>0 DEF TypeInv, Trade
<1>2. CASE Tick
  <2>1. /\ now' = now + 1 /\ UNCHANGED <<pc, obs, ledger>>
        /\ pc \in Observed => now < obs.at + Latency
        /\ \A k \in CycleId : Underway(k) => now < trade[k].at + Delay
    BY <1>2, <1>a DEF Tick
  <2>2. ~Review
    BY <1>0, <2>1 DEF Review, Sup!Review
  <2>3. trade' = trade /\ \A k \in CycleId : Underway(k)' => Underway(k)
    BY <2>2, OthersShrink
  <2>4. \A k \in CycleId : Underway(k)' => now' <= trade'[k].at + Delay
    BY <1>0, <1>1, <2>1, <2>3, Constants
  <2>5. \A i \in 1..Len(ledger) : ledger[i].at <= now'
    BY <1>0, <2>1 DEF TimeInv
  <2>6. pc \in Observed => obs.at \in Nat /\ obs.at <= now' /\ now' <= obs.at + Latency
    BY <1>0, <2>1 DEF TimeInv, StageInv
  <2> QED  BY <1>0, <2>1, <2>4, <2>5, <2>6 DEF TimeInv
<1>3. CASE Review
  <2>1. /\ pc = "review" /\ pc' = "execute" /\ now' = now
    BY <1>3, ReviewStep
  <2>2. \A i \in 1..Len(ledger') : ledger'[i].at <= now
    BY <1>0, <1>3, VerdictRecorded DEF TimeInv
  <2>3. ASSUME NEW k \in CycleId, Underway(k)' PROVE now' <= trade'[k].at + Delay
    <3>1. CASE k # cycle
      BY <1>0, <1>3, <2>1, <2>3, <3>1, ReviewAdds DEF TimeInv
    <3>2. CASE k = cycle
      <4>1. Underway(k) => k \in Live
        BY DEF Live
      <4>2. decision' = "approved" /\ trade'[cycle] = TradeOf(request.p)
        BY <1>3, <2>3, <3>2, <4>1, ReviewAdds
      <4>3. trade'[k].at = now
        BY <3>2, <4>2 DEF TradeOf
      <4> QED  BY <1>0, <2>1, <4>3, Constants
    <3> QED  BY <3>1, <3>2
  <2> QED  BY <1>a, <2>1, <2>2, <2>3 DEF TimeInv
<1>4. CASE ~Tick /\ ~Review
  <2>1. trade' = trade /\ (\A k \in CycleId : Underway(k)' => Underway(k)) /\ now' = now
    <3>1. now' = now
      BY <1>4 DEF Next, AgentStep, Broker, Leave, Begin, Observe, StrategyMemory, Plan, Supervise,
             Skip, Execute, Finish, Wake, Book, Show, Drop, Close, Stop, Recover, Restart, vars
    <3> QED  BY <1>4, <3>1, OthersShrink
  <2>2. \A k \in CycleId : Underway(k)' => now' <= trade'[k].at + Delay
    BY <1>0, <2>1 DEF TimeInv
  <2>3. ledger' = ledger \/ (Restart /\ Len(ledger') = 0)
    <3>1. Restart => Len(ledger') = 0
      BY EmptySeq, LenProperties DEF Restart
    <3> QED  BY <1>4, <3>1, OthersShrink
  <2>4. \A i \in 1..Len(ledger') : ledger'[i].at <= now'
    BY <1>0, <2>1, <2>3 DEF TimeInv
  <2>5. CASE Observe
    <3>1. /\ pc = "observe" /\ ledger' = ledger
          /\ pc' \in Observed => obs'.at = now
      BY <1>a, <2>5 DEF Observe
    <3> QED  BY <1>0, <2>1, <2>2, <2>4, <3>1 DEF TimeInv
  <2>6. CASE ~Observe
    <3>1. pc' \in Observed => pc \in Observed /\ obs' = obs /\ ledger' = ledger
      BY <1>4, <1>a, <2>6 DEF Next, AgentStep, Broker, Leave, Begin, StrategyMemory, Plan, Supervise,
             Skip, Execute, Finish, Wake, Book, Show, Drop, Close, Stop, Recover, Restart, vars
    <3> QED  BY <1>0, <2>1, <2>2, <2>4, <3>1 DEF TimeInv
  <2> QED  BY <2>5, <2>6
<1> QED  BY <1>2, <1>3, <1>4

(* The base invariant holds in every reachable state.                      *)
LEMMA BaseInvariance == Spec => [](BaseInv /\ Flags)
<1>1. BaseInv /\ Flags /\ [Next]_vars => (BaseInv /\ Flags)'
  BY TypeStep, FlagsStep, CountStep, StageStep, OrderStep, ApprovalStep, TimeStep DEF BaseInv
<1> QED  BY <1>1, InitBase, PTL DEF Spec
-----------------------------------------------------------------------------
(* Steps keep the pace.                                                    *)
LEMMA PaceStep == ASSUME BaseInv, PaceInv, [Next]_vars PROVE PaceInv'
<1> USE DEF loopVars, cycleVars, supVars, exeVars, brokerVars, wdVars
<1> DEFINE c == Config.cooldown
<1>0. /\ now \in Nat /\ c \in Nat /\ Len(ledger) \in Nat /\ args.interval \in Nat /\ wakeAt \in Nat
      /\ \A i \in 1..Len(ledger) : ledger[i].at \in Nat /\ ledger[i].at <= now
  BY LedgerEntries, Constants DEF BaseInv, TypeInv, TimeInv
<1>a. BeforeReview = {"observe", "strategy", "plan", "supervise", "review"}
  BY DEF BeforeReview, Observed
<1> HIDE DEF c
<1>b. args' = args
  BY DEF Next, AgentStep, Broker, Leave, Begin, Observe, StrategyMemory, Plan, Supervise, Review,
         Skip, Execute, Finish, Wake, Book, Show, Drop, Close, Tick, Stop, Recover, Restart, vars
<1> SUFFICES ASSUME args.maxCycles = None, args.interval >= c, c > 0, NEW i \in 1..Len(ledger')
             PROVE  /\ pc' = "wait" => ledger'[i].at + c <= wakeAt'
                    /\ pc' \in {"top", "done"} =>
                          stop' \/ cycle' = MaxCycles \/ ledger'[i].at + c <= now'
                    /\ pc' \in BeforeReview => ledger'[i].at + c <= now'
                    /\ pc' = "review" => ledger'[i].at + c <= request'.c.serverTime
  BY <1>b DEF PaceInv, c
<1>1. CASE Review
  BY <1>1, <1>a, ReviewStep
<1>2. CASE Restart
  <2>1. Len(ledger') = 0
    BY <1>2, EmptySeq, LenProperties DEF Restart
  <2> QED  BY <2>1
<1>3. CASE ~Review /\ ~Restart
  <2>1. ledger' = ledger
    BY <1>3, OthersShrink
  <2> DEFINE over == ledger[i].at + c
  <2>2. /\ pc = "wait" => over <= wakeAt
        /\ pc \in {"top", "done"} => stop \/ cycle = MaxCycles \/ over <= now
        /\ pc \in BeforeReview => over <= now
        /\ pc = "review" => over <= request.c.serverTime
    BY <2>1 DEF PaceInv, c
  <2>3. over \in Nat /\ over <= now + c
    BY <1>0, <2>1
  <2> HIDE DEF over
  <2> SUFFICES /\ pc' = "wait" => over <= wakeAt'
               /\ pc' \in {"top", "done"} => stop' \/ cycle' = MaxCycles \/ over <= now'
               /\ pc' \in BeforeReview => over <= now'
               /\ pc' = "review" => over <= request'.c.serverTime
    BY <2>1 DEF over
  <2>4. CASE Leave
    BY <1>a, <2>2, <2>4 DEF Leave
  <2>5. CASE Begin
    BY <1>a, <2>2, <2>5 DEF Begin, Enough
  <2>6. CASE Observe
    BY <1>a, <2>2, <2>6 DEF Observe
  <2>7. CASE StrategyMemory
    BY <1>a, <2>2, <2>7 DEF StrategyMemory
  <2>8. CASE Plan
    BY <1>a, <2>2, <2>8 DEF Plan
  <2>9. CASE Supervise
    <3>1. pc = "supervise" /\ now' = now /\ pc' \in {"execute", "review"}
      BY <2>9 DEF Supervise
    <3>2. pc' = "review" => request'.c.serverTime = now
      BY <2>9 DEF Supervise, ContextNow
    <3> QED  BY <1>a, <2>2, <3>1, <3>2
  <2>10. CASE Skip
    BY <1>a, <2>10 DEF Skip
  <2>11. ASSUME NEW r \in Exe!Answers \ {"SIMULATED"}, Execute(r)
         PROVE  pc' = "finish"
    BY <2>11 DEF Execute
  <2>12. CASE Finish
    <3>1. pc' = "done" => cycle' = MaxCycles
      BY <2>12 DEF Finish, Enough
    <3>2. pc' = "wait" => wakeAt' = now + args.interval
      BY <2>12 DEF Finish
    <3>3. pc' # "top"
      BY <1>0, <2>12 DEF Finish
    <3>4. pc' \in {"done", "wait", "top"}
      BY <2>12 DEF Finish
    <3> QED  BY <1>0, <1>a, <2>3, <3>1, <3>2, <3>3, <3>4
  <2>13. CASE Wake
    BY <1>0, <1>a, <2>2, <2>3, <2>13 DEF Wake
  <2>14. ASSUME NEW k \in CycleId, Book(k) \/ Show(k) \/ Drop(k) \/ Close(k)
         PROVE  UNCHANGED <<pc, wakeAt, stop, cycle, now, request>>
    BY <2>14 DEF Book, Show, Drop, Close
  <2>15. CASE Tick
    BY <1>0, <2>2, <2>3, <2>15 DEF Tick
  <2>16. CASE Stop
    BY <2>2, <2>16 DEF Stop
  <2>17. CASE Recover
    BY <1>a, <2>2, <2>17 DEF Recover
  <2>18. CASE UNCHANGED vars
    BY <2>2, <2>18 DEF vars
  <2> QED  BY <1>3, <1>a, <2>2, <2>4, <2>5, <2>6, <2>7, <2>8, <2>9, <2>10, <2>11, <2>12, <2>13,
              <2>14, <2>15, <2>16, <2>17, <2>18 DEF Next, AgentStep, Broker
<1> QED  BY <1>1, <1>2, <1>3

(* A verdict at that pace does not cool down.                              *)
LEMMA NoCooling == ASSUME BaseInv, PaceInv, PacedLoopNeverCools, [Next]_vars PROVE PacedLoopNeverCools'
<1> USE DEF loopVars, cycleVars, supVars, exeVars, brokerVars, wdVars
<1>1. CASE Review
  <2> SUFFICES ASSUME args.maxCycles = None, args.interval >= Config.cooldown,
                      "COOLDOWN_ACTIVE" \in codes'
               PROVE  FALSE
    BY <1>1, ReviewStep DEF PacedLoopNeverCools
  <2>1. PICK t \in obs.at..now : /\ request.c.serverTime = t
                                 /\ codes' = Codes(request.p, Reviewed(t), Config)
    BY <1>1, ReviewStep
  <2>2. CooldownRule(request.p, Reviewed(t), Config)
    BY <2>1, CoolingIsCooldown
  <2>3. PICK i \in 1..Len(ledger) : t - ledger[i].at < Config.cooldown
    BY <2>2, ReviewedFields DEF CooldownRule
  <2>4. ledger[i].at + Config.cooldown <= t
    <3>1. Config.cooldown > 0 /\ pc = "review"
      BY <1>1, <2>2, ReviewStep DEF CooldownRule
    <3> QED  BY <2>1, <3>1 DEF PaceInv
  <2>5. t \in Int /\ ledger[i].at \in Nat /\ Config.cooldown \in Nat
    BY LedgerEntries, Constants DEF BaseInv
  <2> QED  BY <2>3, <2>4, <2>5
<1>2. CASE ~Review
  <2>1. args' = args /\ (codes' = codes \/ codes' = {})
    BY <1>2 DEF Next, AgentStep, Broker, Leave, Begin, Observe, StrategyMemory, Plan, Supervise,
           Skip, Execute, Finish, Wake, Book, Show, Drop, Close, Tick, Stop, Recover, Restart, vars
  <2> QED  BY <2>1 DEF PacedLoopNeverCools
<1> QED  BY <1>1, <1>2
-----------------------------------------------------------------------------
(* The state of run(), of run_cycle() and of the parts they share keeps    *)
(* its types.                                                              *)
THEOREM AgentTyped == Spec => []TypeOK
<1>1. BaseInv /\ Flags => TypeOK
  <2> SUFFICES ASSUME BaseInv, Flags PROVE TypeOK
    OBVIOUS
  <2>1. index \in 0..MaxCycles /\ consecutive \in 0..MaxCycles /\ Len(ledger) <= cycle
    BY Constants DEF BaseInv, TypeInv, CountInv
  <2>2. stop \in BOOLEAN /\ failed \in BOOLEAN /\ tripped \in BOOLEAN
    BY DEF Flags
  <2> HIDE DEF Flags
  <2> QED  BY <2>1, <2>2 DEF BaseInv, TypeInv, TypeOK, Outside
<1> QED  BY <1>1, BaseInvariance, PTL

(* After max_consecutive_failures cycles in a row that were not ok, no     *)
(* further cycle runs until the operator recovers the agent (run(), the    *)
(* watchdog's should_halt()).                                              *)
THEOREM HaltsInTime == Spec => []HaltAfterFailures
<1>1. BaseInv => HaltAfterFailures
  BY DEF BaseInv, CountInv, HaltAfterFailures
<1> QED  BY <1>1, BaseInvariance, PTL

(* Every order at the broker goes back to an approval of its own in the    *)
(* supervisor's ledger, for its symbol, side and time (run_cycle()).       *)
THEOREM OrdersAreApproved == Spec => []OrdersMatchApprovals
<1>1. BaseInv => OrdersMatchApprovals
  <2> SUFFICES ASSUME BaseInv PROVE OrdersMatchApprovals
    OBVIOUS
  <2> DEFINE own == {k \in Booked : k > started}
  <2>1. PICK f \in [Ordered -> 1..Len(ledger)] :
            /\ \A j, k \in Ordered : f[j] = f[k] => j = k
            /\ \A k \in Ordered : Matches(ledger[f[k]], trade[k])
    BY DEF BaseInv, ApprovalInv
  <2>2. own \subseteq Ordered
    BY DEF Booked, Ordered
  <2> HIDE DEF own
  <2> DEFINE g == [k \in own |-> f[k]]
  <2>3. g \in [own -> 1..Len(ledger)] /\ \A k \in own : g[k] = f[k]
    BY <2>2
  <2> HIDE DEF g
  <2>4. /\ \A j, k \in own : g[j] = g[k] => j = k
        /\ \A k \in own : Matches(ledger[g[k]], trade[k])
    BY <2>1, <2>2, <2>3
  <2>5. \E h \in [own -> 1..Len(ledger)] :
            /\ \A j, k \in own : h[j] = h[k] => j = k
            /\ \A k \in own : Matches(ledger[h[k]], trade[k])
    BY <2>3, <2>4
  <2> QED  BY <2>5 DEF OrdersMatchApprovals, own, Matches
<1> QED  BY <1>1, BaseInvariance, PTL

(* A loop without a cycle limit that pauses for the cooldown never has a   *)
(* trade refused for cooling down (run(), CooldownRule).                   *)
THEOREM PacedLoopTrades == Spec => []PacedLoopNeverCools
<1>1. Init => PaceInv /\ PacedLoopNeverCools
  <2>1. Init => Len(ledger) = 0
    BY EmptySeq, LenProperties DEF Init
  <2> QED  BY <2>1 DEF Init, PaceInv, PacedLoopNeverCools
<1>2. BaseInv /\ PaceInv /\ PacedLoopNeverCools /\ [Next]_vars => (PaceInv /\ PacedLoopNeverCools)'
  BY PaceStep, NoCooling
<1> QED  BY <1>1, <1>2, BaseInvariance, PTL DEF Spec
-----------------------------------------------------------------------------
(* SetToSeq lists every element of a finite set once.                      *)
LEMMA ListsAll ==
    ASSUME NEW S, IsFiniteSet(S)
    PROVE  /\ Cardinality(S) \in Nat
           /\ Ext!SetToSeq(S) \in Injection(1..Cardinality(S), S)
           /\ Ext!SetToSeq(S) \in Surjection(1..Cardinality(S), S)
<1> DEFINE n == Cardinality(S)
           f == Ext!SetToSeq(S)
<1>1. n \in Nat /\ ExistsBijection(1..n, S)
  BY FS_CardinalityType
<1>2. \E g \in [1..n -> S] : Ext!IsInjective(g)
  BY <1>1 DEF ExistsBijection, Bijection, Injection, IsInjective, Ext!IsInjective
<1>3. f \in [1..n -> S] /\ Ext!IsInjective(f)
  BY <1>2, Zenon DEF Ext!SetToSeq, Ext!Cardinality, Cardinality
<1>4. f \in Injection(1..n, S)
  BY <1>3 DEF Injection, IsInjective, Ext!IsInjective
<1>5. Cardinality(1..n) = n
  BY <1>1, FS_Interval
<1> HIDE DEF f, n
<1>6. f \in Surjection(1..n, S)
  BY <1>4, <1>5, FS_Injection DEF n
<1> QED  BY <1>1, <1>4, <1>6 DEF f, n

(* The cycles are finitely many.                                           *)
LEMMA CyclesFinite ==
    ASSUME NEW S \in SUBSET CycleId
    PROVE  IsFiniteSet(S) /\ Cardinality(S) \in Nat
<1>1. IsFiniteSet(CycleId)
  BY Constants, FS_Interval DEF CycleId
<1> QED  BY <1>1, FS_Subset, FS_CardinalityType

(* A function on 1..n is a sequence of length n.                           *)
LEMMA FunctionIsSeq ==
    ASSUME NEW T, NEW n \in Nat, NEW s \in [1..n -> T]
    PROVE  s \in Seq(T) /\ Len(s) = n
OBVIOUS

(* positions_get() shows every visible position, once.                     *)
LEMMA PositionsListed ==
    ASSUME TypeInv
    PROVE  LET n == Cardinality(visible \ gone)
               ids == Ext!SetToSeq(visible \ gone)
           IN /\ n \in Nat /\ Len(PositionsNow) = n
              /\ ids \in Injection(1..n, visible \ gone) /\ ids \in Surjection(1..n, visible \ gone)
              /\ \A i \in 1..n : PositionsNow[i] =
                    [symbol |-> trade[ids[i]].symbol, side |-> trade[ids[i]].side,
                     volume |-> trade[ids[i]].volume]
<1> DEFINE S == visible \ gone
           n == Cardinality(S)
           ids == Ext!SetToSeq(S)
           P(i) == [symbol |-> trade[ids[i]].symbol, side |-> trade[ids[i]].side,
                    volume |-> trade[ids[i]].volume]
<1>1. IsFiniteSet(S) /\ n \in Nat
  BY CyclesFinite DEF TypeInv
<1>2. PositionsNow = [i \in 1..n |-> P(i)]
  BY DEF PositionsNow
<1>3. ids \in Injection(1..n, S) /\ ids \in Surjection(1..n, S)
  <2> HIDE DEF S
  <2> QED  BY <1>1, ListsAll
<1> HIDE DEF ids, n
<1> DEFINE T == {P(i) : i \in 1..n}
<1>4. PositionsNow \in [1..n -> T]
  BY <1>2
<1> HIDE DEF T
<1>5. Len(PositionsNow) = n
  BY <1>1, <1>4, FunctionIsSeq
<1>6. \A i \in 1..n : PositionsNow[i] = P(i)
  BY <1>2
<1> QED  BY <1>1, <1>3, <1>5, <1>6 DEF n, ids

(* So a visible position is found by its symbol and side.                  *)
LEMMA AllShown ==
    ASSUME TypeInv, NEW k \in visible \ gone
    PROVE  \E i \in 1..Len(PositionsNow) : /\ PositionsNow[i].symbol = trade[k].symbol
                                           /\ PositionsNow[i].side = trade[k].side
<1> DEFINE n == Cardinality(visible \ gone)
           ids == Ext!SetToSeq(visible \ gone)
<1>1. /\ Len(PositionsNow) = n /\ ids \in Surjection(1..n, visible \ gone)
      /\ \A i \in 1..n : /\ PositionsNow[i].symbol = trade[ids[i]].symbol
                         /\ PositionsNow[i].side = trade[ids[i]].side
  <2>1. \A i \in 1..n : PositionsNow[i] = [symbol |-> trade[ids[i]].symbol,
                             side |-> trade[ids[i]].side, volume |-> trade[ids[i]].volume]
    BY PositionsListed
  <2>2. Len(PositionsNow) = n /\ ids \in Surjection(1..n, visible \ gone)
    BY PositionsListed
  <2> HIDE DEF ids, n
  <2> QED  BY <2>1, <2>2
<1> HIDE DEF ids, n
<1>2. PICK i \in 1..n : ids[i] = k
  BY <1>1 DEF Surjection
<1> QED  BY <1>1, <1>2

(* An approved trade is not one that the observation shows or that was     *)
(* approved within the window.                                             *)
LEMMA ApprovedIsNew ==
    ASSUME BaseInv, SidesInv, Review, decision' = "approved",
           Latency + Delay <= Config.duplicateWindow, Config.duplicateWindow > 0,
           NEW k \in Live
    PROVE  ~(trade[k].symbol = request.p.symbol /\ trade[k].side = request.p.action)
<1> SUFFICES ASSUME trade[k].symbol = request.p.symbol, trade[k].side = request.p.action PROVE FALSE
  OBVIOUS
<1>1. PICK t \in obs.at..now : codes' = Codes(request.p, Reviewed(t), Config)
  BY ReviewStep
<1>2. pc = "review" /\ ~DuplicateTradeRule(request.p, Reviewed(t), Config)
  BY <1>1, ReviewStep, NoCodesNoViolation
<1>3. CASE Shown(k)
  <2>1. PICK i \in 1..Len(obs.positions) : /\ obs.positions[i].symbol = request.p.symbol
                                           /\ obs.positions[i].side = request.p.action
    BY <1>3 DEF Shown
  <2> QED  BY <1>2, <2>1, ReviewedFields DEF DuplicateTradeRule
<1>4. CASE k > started /\ obs.at <= trade[k].at + Delay
  <2>1. k \in Ordered /\ k \in CycleId
    <3>1. k \in CycleId /\ (k \in visible \/ Underway(k))
      BY DEF Live
    <3>2. CASE k \in visible
      BY <1>4, <3>1, <3>2 DEF BaseInv, OrderInv, Ordered
    <3>3. CASE Underway(k)
      BY <1>4, <3>1, <3>3 DEF Underway, Ordered
    <3> QED  BY <3>1, <3>2, <3>3
  <2>2. PICK i \in 1..Len(ledger) : Matches(ledger[i], trade[k])
    BY <2>1 DEF BaseInv, ApprovalInv
  <2>3. ledger[i].at = trade[k].at /\ ledger[i].at \in Nat /\ ledger[i].at <= obs.at
    BY <1>2, <2>2, LedgerEntries DEF BaseInv, TimeInv, Matches, Observed
  <2>4. /\ obs.at \in Nat /\ t \in Int /\ obs.at <= t /\ t <= now /\ now \in Nat
        /\ now <= obs.at + Latency
    BY <1>2, Constants DEF BaseInv, TimeInv, StageInv, TypeInv, Observed
  <2>5. ledger[i].at <= t /\ t - ledger[i].at <= Config.duplicateWindow
    BY <1>4, <2>3, <2>4, Constants
  <2> QED  BY <1>2, <2>2, <2>5, ReviewedFields DEF DuplicateTradeRule, Matches
<1> QED  BY <1>2, <1>3, <1>4 DEF SidesInv, Observed

(* Steps keep the sides apart, while a restart waits for settled orders.   *)
LEMMA SidesStep ==
    ASSUME BaseInv, SidesInv, [Next]_vars, "restart" \notin Events,
           Latency + Delay <= Config.duplicateWindow, Config.duplicateWindow > 0
    PROVE  SidesInv'
<1> USE DEF loopVars, cycleVars, supVars, exeVars, brokerVars, wdVars
<1>0. TypeInv /\ cycle \in Nat /\ started \in Nat /\ started <= cycle
  BY DEF BaseInv, TypeInv
<1>a. /\ Observed = {"strategy", "plan", "supervise", "review"}
      /\ Stages = {"observe", "strategy", "plan", "supervise", "review", "execute", "finish"}
  BY DEF Observed, Stages
<1>1. CASE Review
  <2>1. UNCHANGED <<started, cycle>> /\ pc = "review" /\ pc' = "execute"
    BY <1>1, ReviewStep
  <2>2. started < cycle
    BY <1>a, <2>1 DEF SidesInv
  <2>3. \A k \in CycleId : Underway(k)' => k > started
    BY <1>1, <2>1, <2>2, ReviewAdds DEF SidesInv
  <2>4. ASSUME NEW j \in Live', NEW k \in Live', j # k
        PROVE  ~(trade'[j].symbol = trade'[k].symbol /\ trade'[j].side = trade'[k].side)
    <3>1. CASE j \in Live /\ k \in Live
      <4>1. trade'[j] = trade[j] /\ trade'[k] = trade[k]
        BY <1>1, <3>1, ReviewAdds DEF Live
      <4> QED  BY <2>4, <3>1, <4>1 DEF SidesInv
    <3>2. ASSUME NEW i \in Live, decision' = "approved"
          PROVE  ~(trade'[i].symbol = trade'[cycle].symbol /\ trade'[i].side = trade'[cycle].side)
      <4>1. trade'[i] = trade[i] /\ trade'[cycle] = TradeOf(request.p)
        BY <1>1, <3>2, ReviewAdds DEF Live
      <4>2. TradeOf(request.p).symbol = request.p.symbol /\ TradeOf(request.p).side = request.p.action
        BY DEF TradeOf
      <4> QED  BY <1>1, <3>2, <4>1, <4>2, ApprovedIsNew
    <3> QED  BY <1>1, <2>4, <3>1, <3>2, ReviewAdds
  <2> QED  BY <1>a, <2>1, <2>2, <2>3, <2>4 DEF SidesInv
<1>2. CASE ~Review
  <2>1. /\ trade' = trade /\ Live' \subseteq Live
        /\ \A k \in CycleId : Underway(k)' => Underway(k)
    BY <1>2, OthersShrink
  <2>2. \A j, k \in Live' : j # k => ~(/\ trade'[j].symbol = trade'[k].symbol
                                       /\ trade'[j].side = trade'[k].side)
    BY <2>1 DEF SidesInv
  <2>3. CASE Restart
    <3>1. pc' = "top" /\ \A k \in CycleId : ~Underway(k)
      BY <2>3 DEF Restart, Settled
    <3> QED  BY <1>a, <2>1, <2>2, <3>1 DEF SidesInv
  <2>4. CASE Observe
    <3>1. /\ UNCHANGED <<started, cycle, visible, gone>> /\ pc = "observe"
          /\ pc' \in Observed => obs'.at = now /\ obs'.positions = PositionsNow
      BY <1>a, <2>4 DEF Observe
    <3>2. ASSUME NEW k \in Live', pc' \in Observed
          PROVE  Shown(k)' \/ (k > started' /\ obs'.at <= trade'[k].at + Delay)
      <4>1. k \in Live /\ k \in CycleId
        BY <2>1 DEF Live
      <4>2. CASE k \in visible \ gone
        BY <1>0, <2>1, <3>1, <3>2, <4>2, AllShown DEF Shown
      <4>3. CASE Underway(k)
        BY <2>1, <3>1, <3>2, <4>1, <4>3 DEF BaseInv, TimeInv, SidesInv
      <4> QED  BY <4>1, <4>2, <4>3 DEF Live
    <3> QED  BY <1>a, <2>1, <2>2, <3>1, <3>2 DEF SidesInv
  <2>5. CASE ~Restart /\ ~Observe
    <3>1. /\ started' = started
          /\ pc' \in Stages => (cycle' = cycle /\ pc \in Stages) \/ cycle' = cycle + 1
          /\ pc' \in Observed => pc \in Observed /\ obs' = obs
      BY <1>2, <1>a, <2>5 DEF Next, AgentStep, Broker, Leave, Begin, StrategyMemory, Plan, Supervise,
             Skip, Execute, Finish, Wake, Book, Show, Drop, Close, Tick, Stop, Recover, vars
    <3>2. pc' \in Stages => started' < cycle'
      BY <1>0, <3>1 DEF SidesInv
    <3>3. \A k : obs' = obs => (Shown(k)' <=> Shown(k))
      BY <2>1 DEF Shown
    <3> QED  BY <2>1, <2>2, <3>1, <3>2, <3>3 DEF SidesInv
  <2> QED  BY <2>3, <2>4, <2>5
<1> QED  BY <1>1, <1>2

(* Open positions are live.                                                *)
LEMMA OpenIsLive == BaseInv => Open \subseteq Live
<1> SUFFICES ASSUME BaseInv, NEW k \in Open PROVE k \in Live
  OBVIOUS
<1>1. k \in CycleId /\ orders[k] = 1 /\ k \notin gone
  BY DEF Open, Booked
<1>2. result[k] \in Exe!Answers \union {"NONE"}
  BY <1>1 DEF BaseInv, TypeInv
<1> QED  BY <1>1, <1>2 DEF BaseInv, OrderInv, Live, Underway, Exe!Answers

(* The agent never holds two open positions on the same side of a symbol,  *)
(* however late the broker fills and shows, when the duplicate window      *)
(* covers the latency of a decision and the delay of a fill and a restart  *)
(* waits for settled orders (run_cycle(), DuplicateTradeRule).             *)
THEOREM SidesStayApart ==
    ASSUME "restart" \notin Events, Latency + Delay <= Config.duplicateWindow,
           Config.duplicateWindow > 0
    PROVE  Spec => []NoPyramiding
<1>1. Init => SidesInv
  <2> SUFFICES ASSUME Init PROVE SidesInv
    OBVIOUS
  <2>1. \A k \in CycleId : ~Underway(k)
    BY DEF Init, Underway, Exe!Init
  <2>2. Live = {} /\ pc = "top"
    BY <2>1 DEF Init, Live
  <2> QED  BY <2>1, <2>2 DEF SidesInv, Stages, Observed
<1>2. BaseInv /\ SidesInv /\ [Next]_vars => SidesInv'
  BY SidesStep
<1>3. BaseInv /\ SidesInv => NoPyramiding
  BY OpenIsLive DEF SidesInv, NoPyramiding
<1> QED  BY <1>1, <1>2, <1>3, BaseInvariance, PTL DEF Spec
-----------------------------------------------------------------------------
(* The exposure of a list of positions is its last running total.          *)
LEMMA ExposureAddsUp ==
    ASSUME NEW ps, Len(ps) \in Nat
    PROVE  \E f : /\ AddsUp(f, [i \in 1..Len(ps) |-> ps[i].volume], Len(ps))
                  /\ Exposure(ps) = f[Len(ps)]
<1> DEFINE n == Len(ps)
           w == [i \in 1..n |-> ps[i].volume]
           Sums(f) == f = [i \in 0..n |-> IF i = 0 THEN 0 ELSE f[i - 1] + ps[i].volume]
           G == CHOOSE f : Sums(f)
<1>1. \A f : AddsUp(f, w, n) <=> Sums(f)
  <2> SUFFICES ASSUME NEW f
               PROVE  [i \in 0..n |-> IF i = 0 THEN 0 ELSE f[i - 1] + w[i]]
                        = [i \in 0..n |-> IF i = 0 THEN 0 ELSE f[i - 1] + ps[i].volume]
    BY DEF AddsUp
  <2>1. \A i \in 0..n : i # 0 => w[i] = ps[i].volume
    OBVIOUS
  <2> HIDE DEF w, n
  <2> QED  BY <2>1
<1>2. \E f : AddsUp(f, w, n)
  <2> HIDE DEF w
  <2> QED  BY AddsUpExists
<1>3. Sums(G)
  <2> HIDE DEF w
  <2>1. \E f : Sums(f)
    BY <1>1, <1>2
  <2> HIDE DEF Sums
  <2> QED  BY <2>1
<1>4. Exposure(ps) = G[n]
  BY Zenon DEF Exposure
<1> QED  BY <1>1, <1>3, <1>4

(* So it is the volume of the cycles listed.                               *)
LEMMA ExposureIsVolume ==
    ASSUME NEW t, NEW S \in SUBSET CycleId, \A k \in S : t[k].volume \in Nat,
           NEW n \in Nat, NEW ids \in Injection(1..n, S), ids \in Surjection(1..n, S),
           NEW ps, Len(ps) = n, \A i \in 1..n : ps[i].volume = t[ids[i]].volume
    PROVE  Exposure(ps) = VolumeOf(t, S)
<1> DEFINE v == [k \in CycleId |-> t[k].volume]
           w == [i \in 1..n |-> ps[i].volume]
           Im(i) == {ids[j] : j \in 1..i}
           h == [i \in 0..n |-> SumFunctionOnSet(v, Im(i))]
<1>1. PICK f : AddsUp(f, w, n) /\ Exposure(ps) = f[n]
  BY ExposureAddsUp
<1>2. /\ \A i \in 1..n : ids[i] \in S
      /\ \A i, j \in 1..n : ids[i] = ids[j] => i = j
      /\ \A k \in S : \E i \in 1..n : ids[i] = k
  BY DEF Injection, Surjection, IsInjective
<1>3. \A k \in S : v[k] = t[k].volume /\ v[k] \in Nat /\ v[k] \in Int
  OBVIOUS
<1>4. \A i \in 1..n : w[i] = v[ids[i]] /\ w[i] \in Int
  BY <1>2, <1>3
<1>5. \A i \in 0..n : Im(i) \in SUBSET S /\ IsFiniteSet(Im(i))
  <2> SUFFICES ASSUME NEW i \in 0..n PROVE Im(i) \in SUBSET S
    BY CyclesFinite
  <2> QED  BY <1>2
<1>6. ASSUME NEW i \in 1..n
      PROVE  /\ i - 1 \in 0..n /\ i \in 0..n /\ ids[i] \notin Im(i - 1) /\ Im(i) = Im(i - 1) \union {ids[i]}
  <2>1. i - 1 \in 0..n /\ i \in 0..n /\ \A j \in 1..(i - 1) : j \in 1..n /\ j # i
    OBVIOUS
  <2>2. ids[i] \notin Im(i - 1)
    BY <1>2, <2>1
  <2>3. \A j : j \in 1..i <=> j \in 1..(i - 1) \/ j = i
    OBVIOUS
  <2> QED  BY <2>1, <2>2, <2>3
<1> HIDE DEF v, w
<1>7. ASSUME NEW i \in 1..n PROVE h[i] = h[i - 1] + w[i]
  <2> DEFINE R == Im(i - 1)
  <2>1. /\ IsFiniteSet(R) /\ R \in SUBSET S /\ ids[i] \notin R /\ ids[i] \in S
        /\ Im(i) = R \union {ids[i]}
    BY <1>2, <1>5, <1>6
  <2>2. h[i] = SumFunctionOnSet(v, Im(i)) /\ h[i - 1] = SumFunctionOnSet(v, R)
    BY <1>6
  <2> HIDE DEF Im, R
  <2>3. SumFunctionOnSet(v, R \union {ids[i]}) = v[ids[i]] + SumFunctionOnSet(v, R)
    BY <1>3, <2>1, SumAdds
  <2>4. SumFunctionOnSet(v, R) \in Int /\ v[ids[i]] \in Int
    BY <1>3, <2>1, SumSplits
  <2> QED  BY <1>4, <2>1, <2>2, <2>3, <2>4
<1>8. h[0] = 0
  <2>1. Im(0) = {} /\ 0 \in 0..n
    OBVIOUS
  <2>2. h[0] = SumFunctionOnSet(v, Im(0))
    BY <2>1
  <2> HIDE DEF Im
  <2>3. IsFiniteSet(Im(0)) /\ \A k \in Im(0) : v[k] \in Int
    BY <1>5, <2>1
  <2> QED  BY <2>1, <2>2, <2>3, SumSplits
<1>9. h[n] = SumFunctionOnSet(v, S)
  <2>1. Im(n) = S /\ n \in 0..n
    BY <1>2
  <2> HIDE DEF Im
  <2> QED  BY <2>1
<1> HIDE DEF h
<1>10. f[n] = h[n]
  BY <1>1, <1>4, <1>7, <1>8, RunningTotals
<1> QED  BY <1>1, <1>9, <1>10 DEF VolumeOf, v
-----------------------------------------------------------------------------
(* The volume of cycles whose trades stay the same does.                   *)
LEMMA VolumeAgrees ==
    ASSUME NEW t, NEW u, NEW S \in SUBSET CycleId, \A k \in S : t[k].volume = u[k].volume
    PROVE  VolumeOf(t, S) = VolumeOf(u, S)
<1> DEFINE v == [k \in CycleId |-> t[k].volume]
           w == [k \in CycleId |-> u[k].volume]
<1>1. IsFiniteSet(S) /\ \A k \in S : v[k] = w[k]
  BY CyclesFinite
<1> HIDE DEF v, w
<1>2. SumFunctionOnSet(v, S) = SumFunctionOnSet(w, S)
  BY <1>1, SumAgrees
<1> QED  BY <1>2 DEF VolumeOf, v, w

(* Fewer live cycles are no more, and hold no more volume.                 *)
LEMMA LiveShrinks ==
    ASSUME NEW t, NEW S \in SUBSET CycleId, NEW T \in SUBSET S,
           \A k \in CycleId : t[k].volume \in Nat
    PROVE  /\ Cardinality(T) \in Nat /\ Cardinality(S) \in Nat /\ Cardinality(T) <= Cardinality(S)
           /\ VolumeOf(t, T) \in Nat /\ VolumeOf(t, S) \in Nat /\ VolumeOf(t, T) <= VolumeOf(t, S)
<1>1. /\ IsFiniteSet(S) /\ IsFiniteSet(T) /\ Cardinality(S) \in Nat /\ Cardinality(T) \in Nat
      /\ T \in SUBSET CycleId
  BY CyclesFinite
<1>2. Cardinality(T) <= Cardinality(S)
  BY <1>1, FS_Subset
<1> DEFINE v == [k \in CycleId |-> t[k].volume]
<1>3. \A k \in CycleId : v[k] \in Nat
  OBVIOUS
<1> HIDE DEF v
<1>4. SumFunctionOnSet(v, T) \in Nat /\ SumFunctionOnSet(v, S) \in Nat
  BY <1>1, <1>3, SumIsNat
<1>5. SumFunctionOnSet(v, T) <= SumFunctionOnSet(v, S)
  BY <1>1, <1>3, SumGrows
<1> QED  BY <1>1, <1>2, <1>4, <1>5 DEF VolumeOf, v

(* One more cycle adds one position and its volume.                        *)
LEMMA LiveGrows ==
    ASSUME NEW t, NEW S \in SUBSET CycleId, NEW c \in CycleId \ S, NEW T \in SUBSET (S \union {c}),
           \A k \in CycleId : t[k].volume \in Nat
    PROVE  /\ Cardinality(T) \in Nat /\ Cardinality(T) <= Cardinality(S) + 1
           /\ VolumeOf(t, T) \in Nat /\ VolumeOf(t, T) <= t[c].volume + VolumeOf(t, S)
<1> DEFINE R == S \union {c}
<1>1. R \in SUBSET CycleId /\ IsFiniteSet(S) /\ IsFiniteSet(R)
  BY CyclesFinite
<1>2. Cardinality(R) = Cardinality(S) + 1
  BY <1>1, FS_AddElement
<1>3. VolumeOf(t, R) = t[c].volume + VolumeOf(t, S)
  <2> DEFINE v == [k \in CycleId |-> t[k].volume]
  <2>1. (\A k \in S : v[k] \in Int) /\ v[c] \in Int /\ v[c] = t[c].volume /\ c \notin S
    OBVIOUS
  <2> HIDE DEF v
  <2>2. SumFunctionOnSet(v, S \union {c}) = v[c] + SumFunctionOnSet(v, S)
    BY <1>1, <2>1, SumAdds
  <2> QED  BY <2>1, <2>2 DEF VolumeOf, v
<1> HIDE DEF R
<1>4. T \in SUBSET R
  BY DEF R
<1>5. /\ Cardinality(T) \in Nat /\ Cardinality(T) <= Cardinality(R)
      /\ VolumeOf(t, T) \in Nat /\ VolumeOf(t, T) <= VolumeOf(t, R)
  BY <1>1, <1>4, LiveShrinks
<1> QED  BY <1>2, <1>3, <1>5

(* Steps keep the limits, while a restart waits for settled orders and a   *)
(* recovery for the pause.                                                 *)
LEMMA LimitStep ==
    ASSUME BaseInv, LimitInv, [Next]_vars, "restart" \notin Events, NumericVolumes,
           "recover" \in Events => \A a \in RunArgs : a.maxCycles = None
    PROVE  LimitInv'
<1> USE DEF loopVars, cycleVars, supVars, exeVars, brokerVars, wdVars
<1>0. /\ TypeInv /\ now \in Nat /\ Delay \in Nat /\ args.interval \in Nat /\ wakeAt \in Nat
      /\ trade \in [CycleId -> Trade] /\ \A k \in CycleId : trade[k].at \in Nat
      /\ Config.maxOpenPositions \in Nat /\ Config.maxExposure \in Nat
      /\ \A k \in CycleId : Underway(k) => now <= trade[k].at + Delay
  BY Constants DEF BaseInv, TypeInv, TimeInv, Trade
<1>a. /\ Observed = {"strategy", "plan", "supervise", "review"}
      /\ BeforeReview = {"observe", "strategy", "plan", "supervise", "review"}
  BY DEF BeforeReview, Observed
<1>b. args' = args /\ args \in RunArgs
  BY <1>0 DEF Next, AgentStep, Broker, Leave, Begin, Observe, StrategyMemory, Plan, Supervise, Review,
         Skip, Execute, Finish, Wake, Book, Show, Drop, Close, Tick, Stop, Recover, Restart, vars, TypeInv
<1>c. Live \subseteq CycleId /\ Live' \subseteq CycleId
  BY DEF Live
<1> SUFFICES ASSUME args.interval > Delay
             PROVE  /\ \A k \in CycleId : trade'[k].volume \in Nat /\ trade'[k].at <= now'
                    /\ Cardinality(Live') <= Config.maxOpenPositions
                    /\ VolumeOf(trade', Live') <= Config.maxExposure
                    /\ pc' \in BeforeReview => \A k \in CycleId : ~Underway(k)'
                    /\ pc' \in Observed =>
                          /\ Len(obs'.positions) \in Nat /\ Cardinality(Live') <= Len(obs'.positions)
                          /\ Exposure(obs'.positions) \in Nat
                          /\ VolumeOf(trade', Live') <= Exposure(obs'.positions)
                    /\ pc' = "wait" => \A k \in CycleId : Underway(k)' => trade'[k].at + Delay < wakeAt'
                    /\ pc' \in {"top", "done"} => \/ stop' \/ cycle' = MaxCycles
                                                  \/ \A k \in CycleId : ~Underway(k)'
                                                  \/ pc' = "done" /\ args'.maxCycles # None
  BY <1>b DEF LimitInv
<1>d. /\ \A k \in CycleId : trade[k].volume \in Nat /\ trade[k].at <= now
      /\ Cardinality(Live) <= Config.maxOpenPositions
      /\ VolumeOf(trade, Live) <= Config.maxExposure
      /\ pc \in BeforeReview => \A k \in CycleId : ~Underway(k)
      /\ pc \in Observed =>
            /\ Len(obs.positions) \in Nat /\ Cardinality(Live) <= Len(obs.positions)
            /\ Exposure(obs.positions) \in Nat /\ VolumeOf(trade, Live) <= Exposure(obs.positions)
      /\ pc = "wait" => \A k \in CycleId : Underway(k) => trade[k].at + Delay < wakeAt
      /\ pc \in {"top", "done"} => \/ stop \/ cycle = MaxCycles
                                   \/ \A k \in CycleId : ~Underway(k)
                                   \/ pc = "done" /\ args.maxCycles # None
  BY DEF LimitInv
<1>1. CASE Review
  <2>1. pc = "review" /\ pc' = "execute" /\ now' = now
    BY <1>1, ReviewStep
  <2>2. /\ cycle \in CycleId \ Live
        /\ \A k \in CycleId : k # cycle => trade'[k] = trade[k]
        /\ decision' # "approved" => Live' \subseteq Live
        /\ decision' = "approved" => trade'[cycle] = TradeOf(request.p) /\ Live' \subseteq Live \union {cycle}
    BY <1>1, ReviewAdds
  <2>3. CASE decision' # "approved"
    <3>1. trade' = trade
      BY <1>1, <2>3, ReviewStep
    <3>2. /\ Cardinality(Live') <= Cardinality(Live) /\ VolumeOf(trade', Live') <= VolumeOf(trade, Live)
          /\ Cardinality(Live') \in Nat /\ Cardinality(Live) \in Nat
          /\ VolumeOf(trade', Live') \in Nat /\ VolumeOf(trade, Live) \in Nat
      BY <1>c, <1>d, <2>2, <2>3, <3>1, LiveShrinks
    <3> QED  BY <1>0, <1>a, <1>d, <2>1, <3>1, <3>2
  <2>4. CASE decision' = "approved"
    <3> DEFINE p == request.p
               v == trade'[cycle].volume
    <3>1. /\ p.action # "HOLD" /\ p.volume # None /\ Planned(p)
      BY <1>1, <2>4, ReviewStep
    <3>2. PICK u \in obs.at..now : codes' = Codes(p, Reviewed(u), Config)
      BY <1>1, ReviewStep
    <3>3. codes' = {}
      BY <1>1, <2>4, ReviewStep
    <3>4. ~MaxPositionsRule(p, Reviewed(u), Config) /\ ~MaxExposureRule(p, Reviewed(u), Config)
      BY <3>1, <3>2, <3>3, NoCodesNoViolation
    <3>5. p.volume \in Nat /\ p.volume # NaN
      BY <3>1 DEF Planned, TradeProposal
    <3>6. v = p.volume /\ trade'[cycle].at = now
      BY <2>2, <2>4, <3>1 DEF TradeOf
    <3>7. Len(obs.positions) \in Nat /\ Exposure(obs.positions) \in Nat
      BY <1>a, <1>d, <2>1
    <3>8. Len(obs.positions) < Config.maxOpenPositions
      BY <1>0, <3>4, <3>7, ReviewedFields DEF MaxPositionsRule
    <3>9. Exposure(obs.positions) + v <= Config.maxExposure
      <4>1. Exposure(obs.positions) + p.volume \in Nat
        BY <3>5, <3>7
      <4>2. ~Exceeds(Exposure(obs.positions) + p.volume, Config.maxExposure)
        BY <3>1, <3>4, <3>5, ReviewedFields DEF MaxExposureRule
      <4> QED  BY <1>0, <3>6, <4>1, <4>2, SentinelsAssumption DEF Exceeds
    <3>10. \A k \in CycleId : trade'[k].volume \in Nat /\ trade'[k].at <= now'
      BY <1>0, <1>d, <2>1, <2>2, <3>5, <3>6
    <3>11. VolumeOf(trade', Live) = VolumeOf(trade, Live)
      <4>1. \A k \in Live : trade'[k].volume = trade[k].volume
        BY <1>c, <2>2
      <4> QED  BY <1>c, <4>1, VolumeAgrees
    <3>12. /\ Cardinality(Live') \in Nat /\ Cardinality(Live') <= Cardinality(Live) + 1
           /\ VolumeOf(trade', Live') \in Nat /\ VolumeOf(trade', Live') <= v + VolumeOf(trade', Live)
      BY <1>c, <2>2, <2>4, <3>10, LiveGrows
    <3>13. Cardinality(Live) <= Len(obs.positions) /\ VolumeOf(trade, Live) <= Exposure(obs.positions)
      BY <1>a, <1>d, <2>1
    <3>14. Cardinality(Live) \in Nat /\ VolumeOf(trade, Live) \in Nat
      BY <1>c, <1>d, LiveShrinks
    <3>15. Cardinality(Live') <= Config.maxOpenPositions
      BY <1>0, <3>7, <3>8, <3>12, <3>13, <3>14
    <3>16. VolumeOf(trade', Live') <= Config.maxExposure
      <4>1. v \in Nat
        BY <3>5, <3>6
      <4> HIDE DEF v
      <4> QED  BY <1>0, <3>7, <3>9, <3>11, <3>12, <3>13, <3>14, <4>1
    <3> QED  BY <1>a, <2>1, <3>10, <3>15, <3>16
  <2> QED  BY <2>3, <2>4
<1>2. CASE ~Review
  <2>1. trade' = trade /\ Live' \subseteq Live /\ \A k \in CycleId : Underway(k)' => Underway(k)
    BY <1>2, OthersShrink
  <2>2. now' \in Nat /\ now <= now'
    BY <1>0, <1>2 DEF Next, AgentStep, Broker, Leave, Begin, Observe, StrategyMemory, Plan, Supervise,
         Skip, Execute, Finish, Wake, Book, Show, Drop, Close, Tick, Stop, Recover, Restart, vars
  <2>3. /\ Cardinality(Live') <= Cardinality(Live) /\ VolumeOf(trade', Live') <= VolumeOf(trade, Live)
        /\ Cardinality(Live') \in Nat /\ Cardinality(Live) \in Nat
        /\ VolumeOf(trade', Live') \in Nat /\ VolumeOf(trade, Live) \in Nat
    BY <1>c, <1>d, <2>1, LiveShrinks
  <2>4. /\ \A k \in CycleId : trade'[k].volume \in Nat /\ trade'[k].at <= now'
        /\ Cardinality(Live') <= Config.maxOpenPositions
        /\ VolumeOf(trade', Live') <= Config.maxExposure
    BY <1>0, <1>d, <2>1, <2>2, <2>3
  <2>5. ASSUME pc' \in Observed, pc \in Observed, obs' = obs
        PROVE  /\ Len(obs'.positions) \in Nat /\ Cardinality(Live') <= Len(obs'.positions)
               /\ Exposure(obs'.positions) \in Nat /\ VolumeOf(trade', Live') <= Exposure(obs'.positions)
    BY <1>d, <2>3, <2>5
  <2>6. CASE Observe
    <3>1. /\ pc = "observe" /\ UNCHANGED <<visible, gone>> /\ pc' \in {"strategy", "finish"}
          /\ pc' = "strategy" => obs'.positions = PositionsNow
      BY <2>6 DEF Observe
    <3>2. \A k \in CycleId : ~Underway(k)
      BY <1>a, <1>d, <3>1
    <3>3. Live = visible \ gone
      BY <1>0, <3>2 DEF Live, TypeInv
    <3>4. Len(PositionsNow) = Cardinality(Live) /\ Exposure(PositionsNow) = VolumeOf(trade, Live)
      <4> DEFINE n == Cardinality(visible \ gone)
                 ids == Ext!SetToSeq(visible \ gone)
                 ps == PositionsNow
      <4>1. /\ n \in Nat /\ Len(ps) = n
            /\ ids \in Injection(1..n, visible \ gone) /\ ids \in Surjection(1..n, visible \ gone)
            /\ \A i \in 1..n : ps[i] = [symbol |-> trade[ids[i]].symbol,
                                        side |-> trade[ids[i]].side, volume |-> trade[ids[i]].volume]
        BY <1>0, PositionsListed
      <4>2. n = Cardinality(Live) /\ ids \in Injection(1..n, Live) /\ ids \in Surjection(1..n, Live)
        BY <3>3, <4>1
      <4> HIDE DEF ids, ps, n
      <4>3. \A i \in 1..n : ps[i].volume = trade[ids[i]].volume
        BY <4>1
      <4>4. Live \in SUBSET CycleId /\ \A k \in Live : trade[k].volume \in Nat
        BY <1>c, <1>d
      <4>5. Exposure(ps) = VolumeOf(trade, Live)
        BY <4>1, <4>3, <4>4, <4>2, ExposureIsVolume
      <4> QED  BY <4>1, <4>2, <4>5 DEF ps
    <3> QED  BY <1>a, <2>1, <2>3, <2>4, <3>1, <3>2, <3>4
  <2>7. CASE Finish
    <3>1. /\ pc' = "done" => cycle' = MaxCycles \/ args.maxCycles # None
          /\ pc' = "wait" => wakeAt' = now + args.interval
          /\ pc' \in {"done", "wait", "top"} /\ pc' # "top"
      BY <1>0, <2>7 DEF Finish, Enough
    <3> QED  BY <1>0, <1>a, <1>b, <1>d, <2>1, <2>4, <3>1
  <2>8. CASE Wake
    <3>1. pc = "wait" /\ pc' = "top" /\ (stop' \/ now >= wakeAt)
      BY <2>8 DEF Wake
    <3>2. now >= wakeAt => \A k \in CycleId : ~Underway(k)
      BY <1>0, <1>d, <3>1
    <3> QED  BY <1>a, <2>1, <2>4, <3>1, <3>2
  <2>9. CASE Restart
    <3>1. pc' = "top" /\ \A k \in CycleId : ~Underway(k)
      BY <2>9 DEF Restart, Settled
    <3> QED  BY <1>a, <2>1, <2>4, <3>1
  <2>10. CASE Recover
    <3>1. pc = "done" /\ pc' = "top" /\ ~stop /\ cycle' = cycle /\ "recover" \in Events
      BY <2>10 DEF Recover
    <3>2. args.maxCycles = None
      BY <1>b, <3>1
    <3> QED  BY <1>a, <1>d, <2>1, <2>4, <3>1, <3>2
  <2>11. CASE Begin
    <3>1. pc = "top" /\ pc' = "observe" /\ ~stop /\ cycle # MaxCycles
      BY <2>11 DEF Begin, Enough
    <3> QED  BY <1>a, <1>d, <2>1, <2>4, <3>1
  <2>12. CASE Leave
    <3>1. pc = "top" /\ pc' = "done" /\ stop' = stop /\ cycle' = cycle
      BY <2>12 DEF Leave
    <3> QED  BY <1>a, <1>d, <2>1, <2>4, <3>1
  <2>13. CASE StrategyMemory \/ Plan \/ Supervise \/ Skip \/ \E r \in Exe!Answers \ {"SIMULATED"} : Execute(r)
    <3>1. /\ pc' \in Observed => pc \in Observed /\ obs' = obs
          /\ pc' \in BeforeReview => pc \in BeforeReview
          /\ pc' \notin {"wait", "top", "done"}
      BY <1>a, <2>13 DEF StrategyMemory, Plan, Supervise, Skip, Execute
    <3> QED  BY <1>d, <2>1, <2>4, <2>5, <3>1
  <2>14. CASE Broker \/ Tick \/ Stop \/ UNCHANGED vars
    <3>1. UNCHANGED <<pc, obs, wakeAt, cycle>> /\ (stop => stop')
      BY <2>14 DEF Broker, Book, Show, Drop, Close, Tick, Stop, vars
    <3> QED  BY <1>b, <1>d, <2>1, <2>4, <2>5, <3>1
  <2> QED  BY <1>2, <2>6, <2>7, <2>8, <2>9, <2>10, <2>11, <2>12, <2>13, <2>14 DEF Next, AgentStep
<1> QED  BY <1>1, <1>2

(* With a pause longer than a fill takes to show, open positions stay      *)
(* within max_open_positions and max_exposure_volume, whatever the planner *)
(* proposes in numbers and however late the broker fills: the observation  *)
(* that the rules judge shows everything (run(), MaxPositionsRule,         *)
(* MaxExposureRule).  A restart must wait for settled orders, and a        *)
(* recovery must not follow a run() that ended at its cycle limit, without *)
(* its last pause.                                                         *)
THEOREM PositionsBounded ==
    ASSUME "restart" \notin Events, NumericVolumes,
           "recover" \in Events => \A a \in RunArgs : a.maxCycles = None
    PROVE  Spec => []PositionsWithinLimits
<1>1. Init => LimitInv
  <2> SUFFICES ASSUME Init PROVE LimitInv
    OBVIOUS
  <2>1. \A k \in CycleId : ~Underway(k)
    BY DEF Init, Underway, Exe!Init
  <2>2. Live = {} /\ pc = "top" /\ now = 0
    BY <2>1 DEF Init, Live
  <2>3. \A k \in CycleId : trade[k].volume = 0 /\ trade[k].at = 0
    BY DEF Init, NoTrade
  <2>4. Cardinality(Live) = 0 /\ IsFiniteSet(Live)
    BY <2>2, FS_EmptySet
  <2>5. VolumeOf(trade, Live) = 0
    <3> DEFINE v == [k \in CycleId |-> trade[k].volume]
    <3>1. \A k \in Live : v[k] \in Int
      BY <2>2
    <3> HIDE DEF v
    <3>2. SumFunctionOnSet(v, Live) = 0
      BY <2>2, <2>4, <3>1, SumSplits
    <3> QED  BY <3>2 DEF VolumeOf, v
  <2> QED  BY <2>1, <2>2, <2>3, <2>4, <2>5, Constants DEF LimitInv, BeforeReview, Observed
<1>2. BaseInv /\ LimitInv /\ [Next]_vars => LimitInv'
  BY LimitStep
<1>3. BaseInv /\ LimitInv => PositionsWithinLimits
  <2> SUFFICES ASSUME BaseInv, LimitInv, args.interval > Delay
               PROVE  /\ Cardinality(Open) <= Config.maxOpenPositions
                      /\ VolumeOf(trade, Open) <= Config.maxExposure
    BY DEF PositionsWithinLimits, VolumeOf
  <2>1. /\ \A k \in CycleId : trade[k].volume \in Nat
        /\ Cardinality(Live) <= Config.maxOpenPositions /\ VolumeOf(trade, Live) <= Config.maxExposure
    BY DEF LimitInv
  <2>2. Live \in SUBSET CycleId /\ Open \in SUBSET Live
    BY OpenIsLive DEF Live
  <2>3. /\ Cardinality(Open) \in Nat /\ Cardinality(Live) \in Nat /\ Cardinality(Open) <= Cardinality(Live)
        /\ VolumeOf(trade, Open) \in Nat /\ VolumeOf(trade, Live) \in Nat
        /\ VolumeOf(trade, Open) <= VolumeOf(trade, Live)
    BY <2>1, <2>2, LiveShrinks
  <2> QED  BY <2>1, <2>3, Constants
<1> QED  BY <1>1, <1>2, <1>3, BaseInvariance, PTL DEF Spec
=============================================================================
