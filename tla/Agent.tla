------------------------------- MODULE Agent --------------------------------
(***************************************************************************)
(* TradingAgent (application/agent.py): the loop of run() and the stages   *)
(* of run_cycle(), composed with the supervisor's review, the watchdog and *)
(* the executor, which the agent sees through the promise that the         *)
(* detailed Executor is shown to keep (OrderSubmission).  Around it: the   *)
(* clock, the operator who may stop the loop or recover a halted one, and  *)
(* the broker, where an order may be booked late and a booked position     *)
(* shows up in positions_get() late.                                       *)
(***************************************************************************)
EXTENDS RiskRules, FiniteSetsExt

CONSTANTS
    RunArgs,         \* the arguments run() may get: symbols, interval, maxCycles
    Config,          \* the RiskConfig in force
    Account,         \* account figures of the risk context
    DefaultVolume,   \* default_volume, for proposals that leave it open
    Proposable,      \* actions and volumes the planner may propose
    MaxFailures,     \* watchdog: max_consecutive_failures
    StaleAfter,      \* watchdog: stale_after_s
    Latency,         \* environment: longest time from observation to review
    Delay,           \* environment: longest time from approval until the
                     \* order is visible as a position, or will never be
    Events,          \* environment: what may happen (AllEvents)
    MaxCycles,       \* bound: cycles in a behaviour
    MaxTime          \* bound: the clock

(* An exception in the stages of the cycle; a snapshot without quote or    *)
(* symbol data; stop(); reset() of the watchdog; the process restarted     *)
(* once its loop has ended, with orders still open or only after they are  *)
(* settled; a position closed at the broker.                               *)
AllEvents == {"observe_fails", "strategy_fails", "plan_fails", "no_quote",
              "stop", "recover", "restart", "settled_restart", "close"}

ASSUME AgentAssumption ==
    /\ RunArgs # {}
    /\ \A a \in RunArgs : /\ a.symbols \in Seq(STRING) /\ a.symbols # <<>> /\ a.interval \in Nat
                          /\ a.maxCycles \in (Nat \ {0}) \union {None}
    /\ Latency \in Nat /\ Delay \in Nat /\ DefaultVolume \in Nat \ {0}
    /\ Proposable \subseteq [action : TradeAction, volume : Nat \union {None, NaN}]
    /\ MaxCycles \in Nat /\ MaxTime \in Nat /\ Events \subseteq AllEvents
    /\ Config \in RiskConfig
    /\ MaxFailures \in Nat \ {0} /\ StaleAfter \in Nat

CycleId == 1..MaxCycles

VARIABLES
    now,             \* the UTC clock
    pc,              \* where the agent thread is
    stop,            \* the _stop event
    args,            \* run()'s arguments
    index,           \* run()'s local index into the symbols
    cycle,           \* id of the current or last cycle
    started,         \* history: the last cycle of earlier processes
    failed,          \* some stage outcome of this cycle is FAILED
    obs,             \* state["observation"]: positions, quote known, time
    request,         \* state["proposal"] with its risk context
    codes,           \* violation codes of the last review
    decision,        \* state["decision"]: none, hold, approved, rejected
    ledger,          \* the supervisor's ledger
    result, orders,  \* the executor's answers and the broker's orders
    trade,           \* symbol, side, volume and time of each cycle's order
    visible,         \* cycles whose position positions_get() shows
    gone,            \* cycles whose order was dropped or position closed
    consecutive, tripped, lastObserved,  \* the watchdog's state
    wakeAt,          \* when _stop.wait(interval_s) times out
    badCycles        \* history: not-ok cycles in a row since a recovery

loopVars == <<args, started, stop, index, cycle, wakeAt>>
cycleVars == <<failed, obs, request, decision>>
supVars == <<ledger, codes>>
exeVars == <<result, orders>>
brokerVars == <<visible, gone>>
wdVars == <<consecutive, tripped, lastObserved>>
vars == <<now, pc, loopVars, cycleVars, supVars, exeVars, trade, brokerVars, wdVars, badCycles>>

Ext == INSTANCE SequencesExt
Wd == INSTANCE Watchdog
Exe == INSTANCE OrderSubmission WITH ClientId <- CycleId
Sup == INSTANCE Supervisor WITH
          Symbol <- UNION {{a.symbols[i] : i \in 1..Len(a.symbols)} : a \in RunArgs}, Contexts <- {}, Proposals <- {},
          MaxReviews <- MaxCycles

NoRequest == [pending |-> FALSE]
NoObservation == [positions |-> <<>>, quote |-> FALSE, at |-> 0]
NoTrade == [symbol |-> "none", side |-> "BUY", volume |-> 0, at |-> 0]

Stages == {"observe", "strategy", "plan", "supervise", "review", "execute", "finish"}
CurrentSymbol == args.symbols[(index % Len(args.symbols)) + 1]

(* len(cycles) >= max_cycles after n cycles, or the bound of the model.    *)
Enough(n) == cycle = MaxCycles \/ (args.maxCycles # None /\ n >= args.maxCycles)

(* Orders the broker holds or may still book, and open positions.          *)
Booked == {k \in CycleId : orders[k] = 1}
Open == Booked \ gone

(* positions_get() as Position records; no rule depends on their order.    *)
PositionsNow ==
    LET ids == Ext!SetToSeq(visible \ gone)
    IN [i \in 1..Cardinality(visible \ gone) |->
           [symbol |-> trade[ids[i]].symbol, side |-> trade[ids[i]].side,
            volume |-> trade[ids[i]].volume]]
-----------------------------------------------------------------------------
Init ==
    /\ args \in RunArgs /\ started = 0
    /\ now = 0 /\ pc = "top" /\ stop = FALSE /\ index = 0 /\ cycle = 0 /\ wakeAt = 0
    /\ failed = FALSE /\ obs = NoObservation /\ request = NoRequest /\ decision = "none"
    /\ ledger = <<>> /\ codes = {}
    /\ Exe!Init
    /\ trade = [k \in CycleId |-> NoTrade]
    /\ visible = {} /\ gone = {}
    /\ Wd!WdInit
    /\ badCycles = 0

(* The head of run()'s loop and the guard of run_cycle(): stop, cycle      *)
(* limit, watchdog; otherwise a fresh cycle id (state is empty, see        *)
(* Finish).                                                                *)
Leave ==
    /\ pc = "top"
    /\ stop \/ Enough(index) \/ Wd!ShouldHalt(now)
    /\ pc' = "done"
    /\ UNCHANGED <<now, loopVars, cycleVars, supVars, exeVars, trade, brokerVars, wdVars, badCycles>>

Begin ==
    /\ pc = "top"
    /\ ~stop /\ ~Enough(index) /\ ~Wd!ShouldHalt(now)
    /\ cycle' = cycle + 1
    /\ pc' = "observe"
    /\ UNCHANGED <<now, args, started, stop, index, wakeAt, cycleVars, supVars, exeVars, trade, brokerVars, wdVars, badCycles>>

(* _observe: account, positions and quotes are read and the watchdog is    *)
(* told.  An exception, before or after that, ends the cycle.  That the    *)
(* terminal answers for the positions is assumed here (see DecisionPath).  *)
Observe ==
    /\ pc = "observe"
    /\ \/ /\ \E q \in BOOLEAN :
                /\ ~q => "no_quote" \in Events
                /\ obs' = [positions |-> PositionsNow, quote |-> q, at |-> now]
          /\ Wd!NoteObservation(now)
          /\ pc' = "strategy" /\ failed' = FALSE
       \/ /\ "observe_fails" \in Events
          /\ obs' = obs
          /\ Wd!NoteObservation(now) \/ UNCHANGED wdVars
          /\ pc' = "finish" /\ failed' = TRUE
    /\ UNCHANGED <<now, loopVars, request, decision, supVars, exeVars, trade, brokerVars, badCycles>>

(* _strategy_memory_stage: a failure is noted and the cycle goes on.       *)
StrategyMemory ==
    /\ pc = "strategy"
    /\ failed' \in BOOLEAN
    /\ failed' => "strategy_fails" \in Events
    /\ pc' = "plan"
    /\ UNCHANGED <<now, loopVars, obs, request, decision, supVars, exeVars, trade, brokerVars, wdVars, badCycles>>

(* Mutant: a volume the planner left open stays open.                      *)
MutFilled(p) == p

(* An actionable proposal without a volume gets the agent's default.       *)
Filled(p) ==
    IF p.action # "HOLD" /\ p.volume = None THEN [p EXCEPT !.volume = DefaultVolume] ELSE p

(* Entry, stop and target as validate_proposal wants them.                 *)
Bracket == [BUY |-> <<2, 1, 3>>, SELL |-> <<2, 3, 1>>, HOLD |-> <<None, None, None>>]

(* _plan_stage: the planner proposes for the cycle's symbol (its own       *)
(* failures become HOLD), or building its input raises.                    *)
Plan ==
    /\ pc = "plan"
    /\ \/ \E x \in Proposable :
            /\ request' = [pending |-> FALSE,
                           p |-> [action |-> x.action, symbol |-> CurrentSymbol,
                                  volume |-> x.volume, riskPct |-> 0, entry |-> Bracket[x.action][1],
                                  stopLoss |-> Bracket[x.action][2],
                                  takeProfit |-> Bracket[x.action][3]]]
            /\ failed' = failed
       \/ "plan_fails" \in Events /\ request' = request /\ failed' = TRUE
    /\ pc' = "supervise"
    /\ UNCHANGED <<now, loopVars, obs, decision, supVars, exeVars, trade, brokerVars, wdVars, badCycles>>

(* The RiskContext built from the observation, the quotes it may lack, and *)
(* the present time.                                                       *)
ContextNow ==
    [account |-> Account, positions |-> obs.positions,
     spread |-> IF obs.quote THEN 1 ELSE None,
     point |-> IF obs.quote THEN 1 ELSE None,
     serverTime |-> now, hour |-> 12, dayPnl |-> 0, recent |-> <<>>]

(* Mutant: the missing proposal of a failed PLAN stage is not caught.      *)
MutSupervise ==
    /\ pc = "supervise"
    /\ request # NoRequest
    /\ request' = [pending |-> TRUE, p |-> Filled(request.p), c |-> ContextNow]
    /\ failed' = failed /\ pc' = "review"
    /\ UNCHANGED <<now, loopVars, obs, decision, supVars, exeVars, trade, brokerVars, wdVars, badCycles>>

(* _supervise_stage up to review(): without a proposal the stage fails;    *)
(* else the default volume is filled in and the context is built.          *)
Supervise ==
    /\ pc = "supervise"
    /\ \/ /\ request = NoRequest
          /\ failed' = TRUE /\ request' = request /\ pc' = "execute"
       \/ /\ request # NoRequest
          /\ request' = [pending |-> TRUE, p |-> Filled(request.p), c |-> ContextNow]
          /\ failed' = failed /\ pc' = "review"
    /\ UNCHANGED <<now, loopVars, obs, decision, supVars, exeVars, trade, brokerVars, wdVars, badCycles>>

(* The order that executing an approved proposal would place.              *)
TradeOf(p) ==
    [symbol |-> p.symbol, side |-> p.action, at |-> now,
     volume |-> IF p.volume = None THEN DefaultVolume ELSE p.volume]

(* Supervisor.review on the context just built.                            *)
Review ==
    /\ pc = "review"
    /\ Sup!Review
    /\ decision' = CASE request.p.action = "HOLD" -> "hold"
                     [] request.p.action # "HOLD" /\ codes' = {} -> "approved"
                     [] OTHER -> "rejected"
    /\ trade' = IF decision' = "approved" THEN [trade EXCEPT ![cycle] = TradeOf(request.p)]
                                          ELSE trade
    /\ pc' = "execute"
    /\ UNCHANGED <<loopVars, failed, obs, exeVars, brokerVars, wdVars, badCycles>>

(* Mutant: a rejected decision is executed like an approved one.           *)
MutExecutable == decision \in {"approved", "rejected"}

Executable == decision = "approved"

(* _execute_stage: nothing to execute, or the executor's answer (the order *)
(* may reach the broker before it, see Book).  Whatever the record's       *)
(* status, the stage is OK; VERIFY and MEMORY_UPDATE follow in any case.   *)
Skip ==
    /\ pc = "execute" /\ ~Executable
    /\ pc' = "finish"
    /\ UNCHANGED <<now, loopVars, cycleVars, supVars, exeVars, trade, brokerVars, wdVars, badCycles>>

Execute(r) ==
    /\ pc = "execute" /\ Executable
    /\ Exe!Answer(cycle, r)
    /\ pc' = "finish"
    /\ UNCHANGED <<now, loopVars, cycleVars, supVars, trade, brokerVars, wdVars, badCycles>>

(* _finish_watchdog; run_cycle() returns and its local state is gone; then *)
(* run()'s bookkeeping up to _stop.wait(), which the last cycle and an     *)
(* interval of 0 leave out.                                                *)
Finish ==
    /\ pc = "finish"
    /\ IF failed THEN Wd!NoteFailure ELSE Wd!NoteSuccess
    /\ failed' = FALSE /\ obs' = NoObservation /\ request' = NoRequest /\ decision' = "none"
    /\ codes' = {}
    /\ badCycles' = IF failed THEN badCycles + 1 ELSE 0
    /\ index' = index + 1
    /\ IF Enough(index + 1) THEN pc' = "done" /\ wakeAt' = 0
       ELSE IF args.interval > 0 THEN pc' = "wait" /\ wakeAt' = now + args.interval
       ELSE pc' = "top" /\ wakeAt' = 0
    /\ UNCHANGED <<now, args, started, stop, cycle, ledger, exeVars, trade, brokerVars>>

(* Mutant: the pause is a sleep that stop() does not interrupt.            *)
MutWake ==
    /\ pc = "wait"
    /\ now >= wakeAt
    /\ pc' = "top" /\ wakeAt' = 0
    /\ UNCHANGED <<now, args, started, stop, index, cycle, cycleVars, supVars, exeVars, trade, brokerVars, wdVars, badCycles>>

(* _stop.wait(interval_s) returns at its timeout or as soon as stop is set.*)
Wake ==
    /\ pc = "wait"
    /\ stop \/ now >= wakeAt
    /\ pc' = "top" /\ wakeAt' = 0
    /\ UNCHANGED <<now, args, started, stop, index, cycle, cycleVars, supVars, exeVars, trade, brokerVars, wdVars, badCycles>>
-----------------------------------------------------------------------------
(* stop(), from a signal handler, at any moment.                           *)
Stop ==
    /\ "stop" \in Events /\ ~stop
    /\ stop' = TRUE
    /\ UNCHANGED <<now, pc, args, started, index, cycle, wakeAt, cycleVars, supVars, exeVars, trade, brokerVars, wdVars, badCycles>>

(* The operator resets a tripped watchdog and calls run() again.           *)
Recover ==
    /\ "recover" \in Events /\ pc = "done" /\ ~stop /\ Wd!ShouldHalt(now)
    /\ Wd!Reset
    /\ pc' = "top" /\ index' = 0 /\ badCycles' = 0
    /\ UNCHANGED <<now, args, started, stop, cycle, wakeAt, cycleVars, supVars, exeVars, trade, brokerVars>>

(* Cycle k's order is on its way while its execution runs, or after an     *)
(* answer that left it open.                                               *)
Underway(k) ==
    /\ k \notin gone /\ k \notin visible
    /\ \/ k = cycle /\ pc = "execute" /\ Executable
       \/ result[k] \in {"FAILED", "UNKNOWN", "SUCCESS"}

(* Every order's fate is known: none is on its way or booked unseen.       *)
Settled == \A k \in CycleId : ~Underway(k) /\ (k \in Booked => k \in visible \union gone)

(* The process has left its loop, ends and is started again, the recovery  *)
(* that the runbook prescribes: ledger and watchdog live in memory only.   *)
(* A process that dies inside a cycle is left to module Executor.          *)
(* A settled restart is that of an operator who first verifies positions   *)
(* and orders, as the runbook asks for UNKNOWN outcomes.                   *)
Restart ==
    /\ pc = "done" /\ cycle < MaxCycles
    /\ "restart" \in Events \/ ("settled_restart" \in Events /\ Settled)
    /\ pc' = "top" /\ stop' = FALSE /\ index' = 0 /\ wakeAt' = 0 /\ started' = cycle
    /\ ledger' = <<>>
    /\ consecutive' = 0 /\ tripped' = FALSE /\ lastObserved' = -1
    /\ badCycles' = 0
    /\ UNCHANGED <<now, args, cycle, cycleVars, codes, exeVars, trade, brokerVars>>

Book(k) ==
    /\ Underway(k)
    /\ Exe!Reach(k)
    /\ UNCHANGED <<now, pc, loopVars, cycleVars, supVars, trade, brokerVars, wdVars, badCycles>>

(* A booked position becomes visible; an order never booked is dropped; a  *)
(* visible position is closed by its stop, its target or the operator.     *)
Show(k) ==
    /\ k \in Booked \ (visible \union gone)
    /\ visible' = visible \union {k}
    /\ UNCHANGED <<now, pc, loopVars, cycleVars, supVars, exeVars, trade, gone, wdVars, badCycles>>

Drop(k) ==
    /\ Underway(k) /\ orders[k] = 0 /\ result[k] # "NONE"
    /\ gone' = gone \union {k}
    /\ UNCHANGED <<now, pc, loopVars, cycleVars, supVars, exeVars, trade, visible, wdVars, badCycles>>

Close(k) ==
    /\ "close" \in Events /\ k \in visible \ gone
    /\ gone' = gone \union {k}
    /\ UNCHANGED <<now, pc, loopVars, cycleVars, supVars, exeVars, trade, visible, wdVars, badCycles>>

(* Time passes, within Latency between observation and review and within   *)
(* Delay between an approval and its order's fate.                         *)
Tick ==
    /\ now < MaxTime
    /\ pc \in {"strategy", "plan", "supervise", "review"} => now < obs.at + Latency
    /\ \A k \in CycleId : Underway(k) => now < trade[k].at + Delay
    /\ now' = now + 1
    /\ UNCHANGED <<pc, loopVars, cycleVars, supVars, exeVars, trade, brokerVars, wdVars, badCycles>>
-----------------------------------------------------------------------------
AgentStep ==
    \/ Leave \/ Begin \/ Observe \/ StrategyMemory \/ Plan \/ Supervise \/ Review \/ Skip
    \/ \E r \in Exe!Answers \ {"SIMULATED"} : Execute(r)
    \/ Finish \/ Wake

Broker == \E k \in CycleId : Book(k) \/ Show(k) \/ Drop(k) \/ Close(k)

Next == AgentStep \/ Broker \/ Tick \/ Stop \/ Recover \/ Restart

Spec == Init /\ [][Next]_vars
FairSpec == Spec /\ WF_vars(AgentStep)
-----------------------------------------------------------------------------
(* The agent's own state and the state it shares with the supervisor, the  *)
(* executor and the watchdog keep their types.                             *)
TypeOK ==
    /\ now \in 0..MaxTime /\ wakeAt \in Nat
    /\ pc \in Stages \union {"top", "wait", "done"}
    /\ stop \in BOOLEAN /\ failed \in BOOLEAN /\ tripped \in BOOLEAN
    /\ args \in RunArgs
    /\ index \in 0..MaxCycles /\ cycle \in 0..MaxCycles /\ started \in 0..cycle
    /\ decision \in {"none", "hold", "approved", "rejected"}
    /\ ledger \in Seq(DecisionRecord) /\ Len(ledger) <= cycle
    /\ result \in [CycleId -> Exe!Answers \union {"NONE"}]
    /\ orders \in [CycleId -> {0, 1}]
    /\ visible \subseteq CycleId /\ gone \subseteq CycleId
    /\ consecutive \in 0..MaxCycles /\ lastObserved \in -1..MaxTime

(* The agent never holds two open positions on the same side of a symbol.  *)
(* Neither guard of DuplicateTradeRule gives this alone: the approval      *)
(* window covers a fill that positions_get() does not show yet, and the    *)
(* observed positions take over when the window has run out, provided the  *)
(* observation is not older than the part of the window a fill may need    *)
(* (Latency + Delay <= duplicate window).  A restart forgets the window,   *)
(* so orders must be settled before it.                                    *)
NoPyramiding ==
    \A j, k \in Open : j # k => ~(trade[j].symbol = trade[k].symbol /\ trade[j].side = trade[k].side)

(* Over all symbols, open positions stay within max_open_positions and     *)
(* max_exposure_volume, orders the executor reported FAILED or UNKNOWN and *)
(* that the broker filled all the same included, when the loop pauses for  *)
(* longer than a fill takes to show.                                       *)
PositionsWithinLimits ==
    args.interval > Delay =>
        /\ Cardinality(Open) <= Config.maxOpenPositions
        /\ SumFunctionOnSet([k \in CycleId |-> trade[k].volume], Open) <= Config.maxExposure

(* Every order of this process at the broker goes back to an approval of   *)
(* its own in the supervisor's ledger, for its symbol and side and made in *)
(* its cycle: a failed or skipped supervision never leads to an order.     *)
OrdersMatchApprovals ==
    LET own == {k \in Booked : k > started}
    IN \E f \in [own -> 1..Len(ledger)] :
        /\ \A j, k \in own : f[j] = f[k] => j = k
        /\ \A k \in own :    /\ ledger[f[k]].approved
                             /\ ledger[f[k]].symbol = trade[k].symbol
                             /\ ledger[f[k]].action = trade[k].side
                             /\ ledger[f[k]].at = trade[k].at

(* After max_consecutive_failures cycles in a row that were not ok, no     *)
(* further cycle runs until the operator has recovered the agent.          *)
HaltAfterFailures == pc \in Stages => badCycles < MaxFailures

(* stop() lets the current cycle finish and ends the loop, at whatever     *)
(* stage or wait it arrives, without waiting for the clock: only the       *)
(* agent's own steps are assumed fair, so a pause must end on the event.   *)
StopEndsLoop == stop ~> (pc = "done")

(* Every cycle that begins is reported to the watchdog, whichever stages   *)
(* fail in it.                                                             *)
CyclesFinish == (pc = "observe") ~> (pc \in {"wait", "done"})

(* A loop without a cycle limit that pauses for the cooldown (both default *)
(* to 60 s) never has a trade refused for cooling down, after failures and *)
(* recoveries neither: CooldownRule lets go exactly at its limit.  With a  *)
(* limit, run() returns without the last pause and may be called again.    *)
PacedLoopNeverCools ==
    (args.maxCycles = None /\ args.interval >= Config.cooldown) => "COOLDOWN_ACTIVE" \notin codes
=============================================================================
