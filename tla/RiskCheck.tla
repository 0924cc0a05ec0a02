----------------------------- MODULE RiskCheck ------------------------------
(***************************************************************************)
(* The stateless path of a trade: the planner's validation of an LLM       *)
(* answer and Supervisor.check, the ledger-free use of the rules.  One     *)
(* proposal, context and configuration at a time, next to a second         *)
(* configuration and a second context to compare the verdict with.         *)
(***************************************************************************)
EXTENDS Planner

(* The inputs, in families: proposals, contexts and configurations to be   *)
(* combined with each other, and contexts that fill in unknown figures.    *)
CONSTANTS Families, AnySymbol, AnyContext, AnyConfig

(* A proposal built by a caller of check(), or planned from an LLM answer. *)
Given(p) == [p |-> p, planned |-> FALSE, direction |-> "FLAT"]
Planned(raw, direction, symbol) ==
    [p |-> LLMPlan(raw, direction, symbol), planned |-> TRUE, direction |-> direction]

Sources(f) ==
    {Given(p) : p \in f.proposals}
        \union {Planned(a.raw, a.direction, a.symbol) : a \in f.answers}

ASSUME InputsAssumption ==
    /\ AnySymbol \in STRING /\ AnyContext \in RiskContext /\ AnyConfig \in RiskConfig
    /\ \A f \in Families :
        /\ f.proposals \subseteq TradeProposal
        /\ f.answers \subseteq [raw : LLMAnswer, direction : Direction, symbol : STRING]
        /\ f.configs \subseteq RiskConfig
        /\ f.contexts \union f.known \subseteq RiskContext

VARIABLES case, approved

vars == <<case, approved>>

Case(x, c, cfg, tight, known) ==
    [p |-> x.p, planned |-> x.planned, direction |-> x.direction, c |-> c, cfg |-> cfg,
     tight |-> tight, known |-> known]
Idle == Case(Planned(NoAnswer, "FLAT", AnySymbol), AnyContext, AnyConfig, AnyConfig, AnyContext)

(* Before and between answers the planner holds, which passes.             *)
Init == case = Idle /\ approved = TRUE

Check(x) ==
    /\ case' = x
    /\ approved' = Approves(x.p, x.c, x.cfg)

Next ==
    \/ /\ case = Idle
       /\ \E f \in Families :
            \E x \in Sources(f), c \in f.contexts, cfg \in f.configs,
               tight \in f.configs, known \in f.known : Check(Case(x, c, cfg, tight, known))
    \/ case # Idle /\ Check(Idle)

Spec == Init /\ [][Next]_vars
-----------------------------------------------------------------------------
Traded == approved /\ case.p.action # "HOLD"

(* An approved trade, counted in, stays inside the documented position,    *)
(* exposure, risk and daily-loss limits.                                   *)
ApprovedWithinLimits == Traded => WithinLimits(case.p, case.c, case.cfg)

(* A planned trade that gets approved follows the strategy signal, stands  *)
(* between its stop and its target, and none of the three prices is        *)
(* missing, NaN or not positive, whatever the LLM answered.                *)
PlannedTradesFollowSignal ==
    Traded /\ case.planned =>
        /\ {case.p.entry, case.p.stopLoss, case.p.takeProfit} \subseteq Nat \ {0}
        /\ \/ /\ case.p.action = "BUY" /\ case.direction = "LONG"
              /\ case.p.stopLoss < case.p.entry /\ case.p.entry < case.p.takeProfit
           \/ /\ case.p.action = "SELL" /\ case.direction = "SHORT"
              /\ case.p.takeProfit < case.p.entry /\ case.p.entry < case.p.stopLoss

(* Tightening any setting of RiskConfig, including switching on a rule     *)
(* that was off, never turns a rejection into an approval, as long as the  *)
(* balance is not negative (on a negative one a smaller percentage is a    *)
(* larger allowance for DailyLossRule).                                    *)
TighteningNeverApproves ==
    ~approved /\ Tighter(case.tight, case.cfg) /\ case.c.account.balance >= 0
        => ~Approves(case.p, case.c, case.tight)

(* Not knowing the day's P&L, the spread or the point size never gets a    *)
(* trade approved that would be rejected with the figure known ("fail      *)
(* closed").                                                               *)
UnknownFailsClosed ==
    approved /\ Completes(case.known, case.c) => Approves(case.p, case.known, case.cfg)
=============================================================================
