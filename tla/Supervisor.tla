----------------------------- MODULE Supervisor -----------------------------
(***************************************************************************)
(* Supervisor (risk/supervisor.py): reviews proposals with the risk rules  *)
(* and remembers its own verdicts, which the duplicate and cooldown rules  *)
(* read back.  A review has two clock readings, as in the agent: the       *)
(* caller stamps the context with server_time when it builds it, and       *)
(* review() stamps the verdict with decided_at when it records it.         *)
(***************************************************************************)
EXTENDS RiskRules

CONSTANTS
    Symbol,       \* tradable symbols
    Config,       \* the RiskConfig in force
    Contexts,     \* the rest of the risk context, as the caller may find it
    Proposals,    \* the rest of a proposal, as the planner may fill it in
    MaxTime,      \* bound on the clock
    MaxReviews    \* bound on the length of the ledger

ASSUME ConfigAssumption ==
    /\ Config \in RiskConfig
    /\ MaxTime \in Nat /\ MaxReviews \in Nat
    /\ Symbol \subseteq STRING
    /\ Contexts \subseteq RiskContext /\ Proposals \subseteq TradeProposal

VARIABLES
    now,          \* the UTC clock
    ledger,       \* self._ledger, a sequence of DecisionRecords
    request,      \* the proposal and context handed to review()
    codes         \* violation codes of the last verdict

vars == <<now, ledger, request, codes>>

NoRequest == [pending |-> FALSE]

(* _with_history: the context as the rules see it.                         *)
WithHistory(c, history) == [c EXCEPT !.recent = c.recent \o history]

(* Mutant: HOLD verdicts are recorded too.                                 *)
MutRecorded(history, p, ok, at) ==
    Append(history, [symbol |-> p.symbol, action |-> p.action, approved |-> ok, at |-> at])

(* review() appends its verdict unless the proposal is HOLD.               *)
Recorded(history, p, ok, at) ==
    IF p.action = "HOLD" THEN history
    ELSE Append(history, [symbol |-> p.symbol, action |-> p.action, approved |-> ok, at |-> at])
-----------------------------------------------------------------------------
Init ==
    /\ now = 0
    /\ ledger = <<>>
    /\ request = NoRequest
    /\ codes = {}

Tick ==
    /\ now < MaxTime
    /\ now' = now + 1
    /\ UNCHANGED <<ledger, request, codes>>

(* The caller builds the risk context of its next proposal.                *)
Submit(s, a, p, c) ==
    /\ ~request.pending
    /\ a = "HOLD" \/ Len(ledger) < MaxReviews
    /\ request' = [pending |-> TRUE,
                   p |-> [p EXCEPT !.symbol = s, !.action = a],
                   c |-> [c EXCEPT !.serverTime = now, !.recent = <<>>]]
    /\ UNCHANGED <<now, ledger, codes>>

(* review(): validate against the ledger, record the verdict.              *)
Review ==
    /\ request.pending
    /\ codes' = Codes(request.p, WithHistory(request.c, ledger), Config)
    /\ ledger' = Recorded(ledger, request.p, codes' = {}, now)
    /\ request' = NoRequest
    /\ UNCHANGED now

Next ==
    \/ Tick
    \/ \E s \in Symbol, a \in TradeAction, p \in Proposals, c \in Contexts : Submit(s, a, p, c)
    \/ Review

Spec == Init /\ [][Next]_vars
-----------------------------------------------------------------------------
(* Clock, ledger and pending request are well formed.                      *)
TypeOK ==
    /\ now \in Nat
    /\ ledger \in Seq(DecisionRecord)
    /\ request.pending \in BOOLEAN
    /\ request.pending =>
          /\ request.p \in TradeProposal
          /\ request.c \in RiskContext /\ request.c.recent = <<>>

(* However reviews interleave with the clock, two approvals of the same    *)
(* action on the same symbol are further apart than duplicate_window_s     *)
(* (DuplicateTradeRule measures from server_time, the ledger from          *)
(* decided_at).                                                            *)
DuplicatesApart ==
    Config.duplicateWindow > 0 =>
        \A i, j \in 1..Len(ledger) :
            (/\ i < j /\ ledger[i].approved /\ ledger[j].approved
             /\ ledger[i].symbol = ledger[j].symbol /\ ledger[i].action = ledger[j].action)
            => ledger[j].at - ledger[i].at > Config.duplicateWindow

(* A symbol is approved only after a quiet period: every earlier verdict   *)
(* on it, approved or not, is at least cooldown_s old.                     *)
QuietBeforeApproval ==
    \A i, j \in 1..Len(ledger) :
        (i < j /\ ledger[j].approved /\ ledger[i].symbol = ledger[j].symbol)
            => ledger[j].at - ledger[i].at >= Config.cooldown
=============================================================================
