------------------------------ MODULE Planner -------------------------------
(***************************************************************************)
(* LLMPlanner.plan and validate_proposal (ai/planner.py) as pure           *)
(* operators: from the JSON object an LLM answered, or no usable answer,   *)
(* and the direction of the strategy signal to the TradeProposal that the  *)
(* supervisor reviews.  Every exception on the way ends in HOLD, so the    *)
(* conditions under which validation raises are one predicate.             *)
(***************************************************************************)
EXTENDS RiskRules

CONSTANTS
    Junk,       \* a JSON value float() refuses: text, a list, an object
    Missing     \* the key is not in the object

ASSUME RawAssumption == {Junk, Missing} \intersect (Int \union {None, NaN}) = {}

Direction == {"LONG", "SHORT", "FLAT"}

(* A field as json.loads left it; None is null, and NaN parses.  Infinity  *)
(* parses too: in every comparison made here it is a number above all the  *)
(* others, and it is represented by one.                                   *)
RawNumber == Int \union {None, NaN, Junk, Missing}
LLMAnswer ==
    [action : STRING, entry : RawNumber, stopLoss : RawNumber, takeProfit : RawNumber,
     volume : RawNumber, riskPct : RawNumber, confidence : RawNumber,
     rationale : {"text", "blank", "empty"}]

(* The provider failed, or answered something other than a JSON object.    *)
NoAnswer == [action |-> "none", entry |-> Junk, stopLoss |-> Junk, takeProfit |-> Junk,
             volume |-> Junk, riskPct |-> Junk, confidence |-> Junk, rationale |-> "empty"]

(* TradeAction(str(...).upper()), where it does not raise; lower case      *)
(* stands for every mix of cases.                                          *)
Upper == [BUY |-> "BUY", buy |-> "BUY", SELL |-> "SELL", sell |-> "SELL",
          HOLD |-> "HOLD", hold |-> "HOLD"]

(* x < y between floats, either of which may be NaN.                       *)
Less(x, y) == x # NaN /\ y # NaN /\ x < y

(* _opt_float: null and a missing key are None, other values must be       *)
(* numbers and not <= 0, which NaN is not.                                 *)
OptFloatOK(v) == v \in {None, Missing, NaN} \/ (v \in Int /\ v > 0)
OptFloat(v) == IF v = Missing THEN None ELSE v

(* _req_float: a missing key is 0, null is no number.                      *)
ReqFloatOK(v) == v \in Int \union {NaN, Missing}
ReqFloat(v) == IF v = Missing THEN 0 ELSE v

(* _clamp01 and _check_risk: both refuse NaN.                              *)
InRange(x, limit) == x # NaN /\ 0 <= x /\ x <= limit

(* Percent stands for the confidence scale of 0..1 as well.                *)
FieldsOK(raw) ==
    /\ raw.action \in DOMAIN Upper
    /\ \A v \in {raw.entry, raw.stopLoss, raw.takeProfit, raw.volume} : OptFloatOK(v)
    /\ ReqFloatOK(raw.riskPct) /\ InRange(ReqFloat(raw.riskPct), 100)
    /\ ReqFloatOK(raw.confidence) /\ InRange(ReqFloat(raw.confidence), 100)

(* Mutant: only the presence of the prices is checked, not their order.    *)
MutBracketOK(action, entry, stop, target) == None \notin {entry, stop, target}

BracketOK(action, entry, stop, target) ==
    /\ None \notin {entry, stop, target}
    /\ action = "BUY" => Less(stop, entry) /\ Less(entry, target)
    /\ action = "SELL" => Less(target, entry) /\ Less(entry, stop)

(* What a BUY or SELL needs besides: the signal's direction, a bracket on  *)
(* the right sides of the entry, and a rationale.                          *)
DirectionalOK(raw, direction) ==
    LET action == Upper[raw.action]
    IN /\ direction = IF action = "BUY" THEN "LONG" ELSE "SHORT"
       /\ BracketOK(action, OptFloat(raw.entry), OptFloat(raw.stopLoss),
                    OptFloat(raw.takeProfit))
       /\ raw.rationale = "text"

HoldProposal(symbol, risk) ==
    [action |-> "HOLD", symbol |-> symbol, volume |-> None, riskPct |-> risk,
     entry |-> None, stopLoss |-> None, takeProfit |-> None]

(* A HOLD answer needs no rationale, but TradeProposal refuses a blank one;*)
(* that and every other violation give the fallback, HOLD at no risk.      *)
LLMPlan(raw, direction, symbol) ==
    IF ~FieldsOK(raw) THEN HoldProposal(symbol, 0)
    ELSE IF Upper[raw.action] = "HOLD"
         THEN HoldProposal(symbol, IF raw.rationale = "blank" THEN 0 ELSE ReqFloat(raw.riskPct))
    ELSE IF ~DirectionalOK(raw, direction) THEN HoldProposal(symbol, 0)
    ELSE [action |-> Upper[raw.action], symbol |-> symbol, volume |-> OptFloat(raw.volume),
          riskPct |-> ReqFloat(raw.riskPct), entry |-> OptFloat(raw.entry),
          stopLoss |-> OptFloat(raw.stopLoss), takeProfit |-> OptFloat(raw.takeProfit)]
=============================================================================
