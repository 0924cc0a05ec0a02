------------------------------ MODULE Executor ------------------------------
(***************************************************************************)
(* MT5TradeExecutor (execution/executor.py): the lifecycle of one          *)
(* execution request, gate by gate and terminal call by terminal call,     *)
(* with the idempotency ledger it keeps in memory.  The terminal and the   *)
(* broker behind it are the environment: a call may answer, answer with    *)
(* nothing, time out or raise, and an order whose answer was lost may be   *)
(* booked later or never.  The process may crash between any two steps     *)
(* and restart with an empty ledger and other settings.                    *)
(***************************************************************************)
EXTENDS Naturals

CONSTANTS
    ClientId,     \* idempotency keys (the agent passes its cycle ids)
    BlankId,      \* keys of spaces only, which OrderRequest refuses
    Deployments   \* constructor arguments the process may be started with

VARIABLES
    conf,         \* constructor arguments: mode, allow_live, connection set
    ledger,       \* self._ledger
    pc,           \* the step of execute() about to be taken
    cur,          \* key, decision and broker ticket of the call in progress
    connected,    \* the connection adapter's is_connected() flag
    realAccount,  \* is the terminal logged in to a REAL account
    wire,         \* keys of orders sent whose fate is still open
    sends,        \* number of order_send calls made for each key
    orders,       \* number of orders the broker has booked for each key
    stamp,        \* circumstances of the last order_send for each key
    answer,       \* the last record each caller got (survives a crash)
    dead          \* keys used before the last crash

execVars == <<conf, ledger, pc, cur>>
envVars  == <<connected, realAccount>>
brokerVars == <<wire, sends, orders, stamp>>
vars == <<execVars, envVars, brokerVars, answer, dead>>
-----------------------------------------------------------------------------
ExecutionMode == {"DRY_RUN", "DEMO", "LIVE"}
ExecutionStatus == {"SUCCESS", "REJECTED", "FAILED", "UNKNOWN"}
Conf == [mode : ExecutionMode, allowLive : BOOLEAN, attached : BOOLEAN]
ASSUME ConstantsAssumption ==
    /\ BlankId \subseteq ClientId
    /\ Deployments \subseteq Conf

(* BUY and SELL differ only in prices here; HOLD is told apart.            *)
Decision == [approved : BOOLEAN, hold : BOOLEAN]
NoDecision == [approved |-> FALSE, hold |-> TRUE]


(* An ExecutionRecord keeps its status, its mode and what its message asks *)
(* the caller to do: retry with the same client_id after reconnecting, or  *)
(* verify positions first.                                                 *)
Record == [status : ExecutionStatus, mode : ExecutionMode,
           advice : {"none", "retry", "verify"}]
NoRecord == [status |-> "NONE", mode |-> "DRY_RUN", advice |-> "none"]
NoStamp == [approved |-> FALSE, hold |-> TRUE, mode |-> "DRY_RUN",
            allowLive |-> FALSE, real |-> TRUE]

(* The steps of a call that talk to the terminal, in code order.           *)
LiveSteps == {"connection", "account", "tick", "check", "send", "verify"}

Rec(status, advice) == [status |-> status, mode |-> conf.mode, advice |-> advice]

(* Mutant: an ambiguous outcome is not entered in the ledger.              *)
MutFinish(rec) ==
    /\ ledger' = IF rec.status = "UNKNOWN" THEN ledger
                                           ELSE [ledger EXCEPT ![cur.key] = rec]
    /\ answer' = [answer EXCEPT ![cur.key] = rec]
    /\ cur' = [cur EXCEPT !.decision = NoDecision, !.ticket = FALSE]
    /\ pc' = "idle"
    /\ UNCHANGED <<conf, dead>>

(* execute() stores the record in the ledger and returns it.               *)
Finish(rec) ==
    /\ ledger' = [ledger EXCEPT ![cur.key] = rec]
    /\ answer' = [answer EXCEPT ![cur.key] = rec]
    /\ cur' = [cur EXCEPT !.decision = NoDecision, !.ticket = FALSE]
    /\ pc' = "idle"
    /\ UNCHANGED <<conf, dead>>

(* _run moves on to its next step.                                         *)
Advance(step) ==
    /\ pc' = step
    /\ UNCHANGED <<conf, ledger, cur, answer, dead>>
-----------------------------------------------------------------------------
Init ==
    /\ conf \in Deployments
    /\ ledger = [k \in ClientId |-> NoRecord]
    /\ pc = "idle"
    /\ cur \in [key : ClientId, decision : {NoDecision}, ticket : {FALSE}]
    /\ connected \in BOOLEAN
    /\ realAccount \in BOOLEAN
    /\ wire = {}
    /\ sends = [k \in ClientId |-> 0]
    /\ orders = [k \in ClientId |-> 0]
    /\ stamp = [k \in ClientId |-> NoStamp]
    /\ answer = [k \in ClientId |-> NoRecord]
    /\ dead = {}

(* Mutant: a client_id is used again after a restart.                      *)
MutCall(k, d) ==
    /\ pc = "idle"
    /\ cur' = [key |-> k, decision |-> d, ticket |-> FALSE]
    /\ pc' = "entry"
    /\ UNCHANGED <<conf, ledger, envVars, brokerVars, answer, dead>>

(* The caller starts execute(decision, client_id=k): a new request or a    *)
(* retry, with the same decision or another.  Keys of an earlier process   *)
(* are not used again: the agent passes a fresh uuid in every cycle.       *)
Call(k, d) ==
    /\ pc = "idle"
    /\ k \notin dead
    /\ cur' = [key |-> k, decision |-> d, ticket |-> FALSE]
    /\ pc' = "entry"
    /\ UNCHANGED <<conf, ledger, envVars, brokerVars, answer, dead>>

(* A key in the ledger is answered from it.                                *)
Replay ==
    /\ pc = "entry"
    /\ ledger[cur.key] # NoRecord
    /\ answer' = [answer EXCEPT ![cur.key] = ledger[cur.key]]
    /\ cur' = [cur EXCEPT !.decision = NoDecision]
    /\ pc' = "idle"
    /\ UNCHANGED <<conf, ledger, envVars, brokerVars, dead>>

(* The gates of _run before any terminal call: supervisor approval, HOLD,  *)
(* the live opt-in, and OrderRequest's own validation.                     *)
Admitted ==
    /\ cur.decision.approved
    /\ ~cur.decision.hold
    /\ conf.mode = "LIVE" => conf.allowLive
    /\ cur.key \notin BlankId

Refuse ==
    /\ pc = "entry"
    /\ ledger[cur.key] = NoRecord
    /\ ~Admitted
    /\ Finish(Rec("REJECTED", "none"))
    /\ UNCHANGED <<envVars, brokerVars>>

Simulate ==
    /\ pc = "entry"
    /\ ledger[cur.key] = NoRecord
    /\ Admitted
    /\ conf.mode = "DRY_RUN"
    /\ Finish(Rec("SUCCESS", "none"))
    /\ UNCHANGED <<envVars, brokerVars>>

Prepare ==
    /\ pc = "entry"
    /\ ledger[cur.key] = NoRecord
    /\ Admitted
    /\ conf.mode # "DRY_RUN"
    /\ Advance("connection")
    /\ UNCHANGED <<envVars, brokerVars>>

(* Mutant: a missing connection is waited for instead of reported.         *)
MutCheckConnection ==
    /\ pc = "connection"
    /\ \/ ~conf.attached /\ Finish(Rec("REJECTED", "none"))
       \/ conf.attached /\ connected /\ Advance("account")
    /\ UNCHANGED <<envVars, brokerVars>>

(* No connection object: rejected.  Flag down: MT5NotConnectedError, a     *)
(* FAILED record that tells the caller to retry.                           *)
CheckConnection ==
    /\ pc = "connection"
    /\ \/ ~conf.attached /\ Finish(Rec("REJECTED", "none"))
       \/ conf.attached /\ ~connected /\ Finish(Rec("FAILED", "retry"))
       \/ conf.attached /\ connected /\ Advance("account")
    /\ UNCHANGED <<envVars, brokerVars>>

(* Mutant: a failed account look-up is ignored (fails open).               *)
MutVerifyAccount ==
    /\ pc = "account"
    /\ \/ Advance("tick")
       \/ conf.mode = "DEMO" /\ realAccount /\ Finish(Rec("REJECTED", "none"))
    /\ UNCHANGED <<envVars, brokerVars>>

(* get_account_info raises (any reason): rejected.  A real account in DEMO *)
(* mode: rejected.                                                         *)
VerifyAccount ==
    /\ pc = "account"
    /\ \/ Finish(Rec("REJECTED", "none"))
       \/ conf.mode = "DEMO" /\ realAccount /\ Finish(Rec("REJECTED", "none"))
       \/ ~(conf.mode = "DEMO" /\ realAccount) /\ Advance("tick")
    /\ UNCHANGED <<envVars, brokerVars>>

(* A terminal query before the send: usable, empty or an error code        *)
(* (FAILED), TimeoutError/OSError (UNKNOWN), any other exception (FAILED). *)
Query(here, next) ==
    /\ pc = here
    /\ \/ Advance(next)
       \/ Finish(Rec("FAILED", "none"))
       \/ Finish(Rec("UNKNOWN", "verify"))
    /\ UNCHANGED <<envVars, brokerVars>>

GetTick == Query("tick", "check")
OrderCheck == Query("check", "send")

(* What the broker's side records of an order_send of the current call.    *)
Transmit ==
    /\ sends' = [sends EXCEPT ![cur.key] = @ + 1]
    /\ stamp' = [stamp EXCEPT ![cur.key] =
                    [approved |-> cur.decision.approved, hold |-> cur.decision.hold,
                     mode |-> conf.mode, allowLive |-> conf.allowLive,
                     real |-> realAccount]]

(* order_send answers DONE or DONE_PARTIAL, with or without a ticket.      *)
SendDone ==
    /\ pc = "send"
    /\ Transmit
    /\ orders' = [orders EXCEPT ![cur.key] = @ + 1]
    /\ \E t \in BOOLEAN : cur' = [cur EXCEPT !.ticket = t]
    /\ pc' = "verify"
    /\ UNCHANGED <<conf, ledger, envVars, wire, answer, dead>>

(* Mutant: the retcode of order_send is not looked at.                     *)
MutSendRefused ==
    /\ pc = "send"
    /\ Transmit
    /\ cur' = [cur EXCEPT !.ticket = TRUE]
    /\ pc' = "verify"
    /\ UNCHANGED <<conf, ledger, envVars, wire, orders, answer, dead>>

(* order_send answers with another retcode: the broker refused.            *)
SendRefused ==
    /\ pc = "send"
    /\ Transmit
    /\ Finish(Rec("FAILED", "none"))
    /\ UNCHANGED <<envVars, wire, orders>>

(* No usable answer: None or an exception other than a timeout (FAILED),   *)
(* TimeoutError or OSError (UNKNOWN).  The order may be on its way.        *)
SendSilent ==
    /\ pc = "send"
    /\ Transmit
    /\ wire' \in {wire, wire \union {cur.key}}
    /\ \/ Finish(Rec("FAILED", "none"))
       \/ Finish(Rec("UNKNOWN", "verify"))
    /\ UNCHANGED <<envVars, orders>>

(* Mutant: the record of a fill is returned without a status.              *)
MutVerify ==
    /\ pc = "verify"
    /\ Finish(Rec("NONE", "none"))
    /\ UNCHANGED <<envVars, brokerVars>>

(* After the positions_get look-up, whose result only words the message,   *)
(* the SUCCESS record is built; without a ticket its constructor raises    *)
(* ValueError and the call ends FAILED.                                    *)
Verify ==
    /\ pc = "verify"
    /\ Finish(IF cur.ticket THEN Rec("SUCCESS", "none") ELSE Rec("FAILED", "none"))
    /\ UNCHANGED <<envVars, brokerVars>>
-----------------------------------------------------------------------------
(* The process dies.  During order_send the request may already be out.    *)
Crash ==
    /\ pc # "down"
    /\ pc' = "down"
    /\ ledger' = [k \in ClientId |-> NoRecord]
    /\ dead' = dead \union {k \in ClientId : ledger[k] # NoRecord}
                    \union (IF pc = "idle" THEN {} ELSE {cur.key})
    /\ connected' = FALSE
    /\ \/ UNCHANGED brokerVars
       \/ pc = "send" /\ Transmit /\ wire' = wire \union {cur.key} /\ UNCHANGED orders
    /\ cur' = [cur EXCEPT !.decision = NoDecision, !.ticket = FALSE]
    /\ UNCHANGED <<conf, realAccount, answer>>

(* A new process, possibly with other settings.                            *)
Restart ==
    /\ pc = "down"
    /\ pc' = "idle"
    /\ conf' \in Deployments
    /\ UNCHANGED <<ledger, cur, envVars, brokerVars, answer, dead>>

(* connect() and disconnect() run on the thread that runs execute().       *)
Reconnect ==
    /\ pc = "idle"
    /\ connected' = ~connected
    /\ UNCHANGED <<execVars, realAccount, brokerVars, answer, dead>>

(* The operator logs the terminal in to another account, not in the        *)
(* instants between the account check and order_send.                      *)
SwitchAccount ==
    /\ pc \notin {"tick", "check", "send"}
    /\ realAccount' = ~realAccount
    /\ UNCHANGED <<execVars, connected, brokerVars, answer, dead>>

(* An order sent without an answer is booked late, or never.               *)
Deliver(k) ==
    /\ k \in wire
    /\ wire' = wire \ {k}
    /\ orders' = [orders EXCEPT ![k] = @ + 1]
    /\ UNCHANGED <<execVars, envVars, sends, stamp, answer, dead>>

Lose(k) ==
    /\ k \in wire
    /\ wire' = wire \ {k}
    /\ UNCHANGED <<execVars, envVars, sends, orders, stamp, answer, dead>>
-----------------------------------------------------------------------------
Step ==
    \/ Replay \/ Refuse \/ Simulate \/ Prepare
    \/ CheckConnection \/ VerifyAccount \/ GetTick \/ OrderCheck
    \/ SendDone \/ SendRefused \/ SendSilent \/ Verify

Next ==
    \/ \E k \in ClientId, d \in Decision : Call(k, d)
    \/ Step
    \/ Crash \/ Restart \/ Reconnect \/ SwitchAccount
    \/ \E k \in ClientId : Deliver(k) \/ Lose(k)

Spec == Init /\ [][Next]_vars

(* A terminal call answers, fails or times out, and the thread runs on.    *)
FairSpec == Spec /\ WF_vars(Step)
-----------------------------------------------------------------------------
(* Every variable keeps its type through every lifecycle step, crash and   *)
(* restart of the executor.                                                *)
TypeOK ==
    /\ conf \in Conf
    /\ ledger \in [ClientId -> Record \union {NoRecord}]
    /\ pc \in {"idle", "entry", "down"} \union LiveSteps
    /\ cur \in [key : ClientId, decision : Decision, ticket : BOOLEAN]
    /\ connected \in BOOLEAN
    /\ realAccount \in BOOLEAN
    /\ wire \in SUBSET ClientId
    /\ sends \in [ClientId -> Nat]
    /\ orders \in [ClientId -> Nat]
    /\ stamp \in [ClientId -> [approved : BOOLEAN, hold : BOOLEAN, mode : ExecutionMode,
                             allowLive : BOOLEAN, real : BOOLEAN]]
    /\ answer \in [ClientId -> Record \union {NoRecord}]
    /\ dead \in SUBSET ClientId

(* However often a caller retries a client_id, and wherever the process    *)
(* crashes, the broker never holds or can still receive more than one      *)
(* order for it ("idempotent replay: never resend").                       *)
AtMostOneOrder ==
    \A k \in ClientId : /\ sends[k] <= 1
                        /\ orders[k] <= 1
                        /\ k \in wire => orders[k] = 0

(* A caller told REJECTED, or told SUCCESS by a dry run, may rely on the   *)
(* terminal never having been asked to place that order.                   *)
RefusedNeverSent ==
    \A k \in ClientId :
        (\/ answer[k].status = "REJECTED"
         \/ answer[k].status = "SUCCESS" /\ answer[k].mode = "DRY_RUN") => sends[k] = 0

(* A non-dry SUCCESS record stands for an order that the broker booked.    *)
SuccessIsBooked ==
    \A k \in ClientId :
        answer[k].status = "SUCCESS" /\ answer[k].mode # "DRY_RUN" => orders[k] = 1

(* Every order that left the process carried an approved directional       *)
(* decision, in a mode that trades, with the live opt-in if LIVE, and not  *)
(* to a real account in DEMO mode: no path of _execute_live goes round a   *)
(* gate, whatever the terminal answers.                                    *)
SentPassedGates ==
    \A k \in ClientId : sends[k] > 0 =>
        /\ stamp[k].approved
        /\ ~stamp[k].hold
        /\ stamp[k].mode # "DRY_RUN"
        /\ stamp[k].mode = "LIVE" => stamp[k].allowLive
        /\ ~(stamp[k].mode = "DEMO" /\ stamp[k].real)

(* The first record a caller gets for a client_id is the one every retry   *)
(* gets: the ledger never changes its mind, not even after a late fill.    *)
AnswersAreFinal ==
    [][\A k \in ClientId : answer[k] # NoRecord => answer'[k] = answer[k]]_vars

(* execute() always comes back with a record unless the process dies: no   *)
(* gate, terminal error or missing connection leaves the call hanging.     *)
CallsReturn ==
    \A k \in ClientId :
        (pc = "entry" /\ cur.key = k) ~> (pc = "down" \/ (pc = "idle" /\ answer[k] # NoRecord))

(* ExecutionStatus: "SUCCESS/REJECTED/FAILED are terminal and certain",    *)
(* so the broker holds no order of a FAILED request.                       *)
FailedIsCertain ==
    \A k \in ClientId :
        answer[k].status = "FAILED" => orders[k] = 0

(* The not-connected record tells the caller to reconnect and "then retry  *)
(* with the same client_id": that retry gets past the ledger.              *)
GuidedRetryIsTried ==
    [][(pc = "entry" /\ connected /\ ledger[cur.key].advice = "retry")
            => pc' # "idle"]_vars
-----------------------------------------------------------------------------
(* The caller's view: one answer and at most one order per client_id.      *)
AnswerOf(rec) ==
    IF rec.status = "SUCCESS" /\ rec.mode = "DRY_RUN" THEN "SIMULATED" ELSE rec.status

Abs == INSTANCE OrderSubmission WITH
          result <- [k \in ClientId |-> AnswerOf(answer[k])],
          orders <- orders

(* The executor implements OrderSubmission: the ledger, the exception      *)
(* handlers and the crash behaviour together give final answers and at     *)
(* most one order, and no order ever arrives for a refused request.        *)
ImplementsOrderSubmission == Abs!Spec
=============================================================================
