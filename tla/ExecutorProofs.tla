--------------------------- MODULE ExecutorProofs ---------------------------
(***************************************************************************)
(* Proofs about Executor, for any set of client ids and any deployments.   *)
(***************************************************************************)
EXTENDS Executor, TLAPS

(* The ledger and the callers agree: what is in the ledger was answered,   *)
(* and what was answered is in the ledger unless a crash has wiped it.     *)
LedgerInv ==
    \A k \in ClientId :
        /\ ledger[k] # NoRecord => k \notin dead /\ answer[k] = ledger[k]
        /\ answer[k] # NoRecord => k \in dead \/ ledger[k] = answer[k]

(* A call past the ledger look-up works on a key that was never answered,  *)
(* has passed the gates, and past the account check is not a DEMO call on  *)
(* a real account.                                                         *)
CallInv ==
    /\ pc \in LiveSteps \union {"entry"} => cur.key \notin dead
    /\ pc \in LiveSteps =>
          ledger[cur.key] = NoRecord /\ Admitted /\ conf.mode # "DRY_RUN"
    /\ pc \in {"tick", "check", "send"} => ~(conf.mode = "DEMO" /\ realAccount)

(* An order that was sent belongs to an answered key, a dead key, or the   *)
(* call now waiting to verify it; and sends, orders and wire add up.       *)
SendInv ==
    /\ \A k \in ClientId :
          /\ sends[k] \in {0, 1}
          /\ orders[k] <= sends[k]
          /\ k \in wire => sends[k] = 1 /\ orders[k] = 0
          /\ sends[k] = 1 => \/ ledger[k] # NoRecord
                             \/ k \in dead
                             \/ pc = "verify" /\ cur.key = k
    /\ pc = "verify" => orders[cur.key] = 1 /\ cur.key \notin wire

IInv ==
    /\ TypeOK /\ LedgerInv /\ CallInv /\ SendInv
    /\ RefusedNeverSent /\ SuccessIsBooked /\ SentPassedGates
-----------------------------------------------------------------------------
(* Records the executor builds are records, and none of them is NoRecord.  *)
LEMMA RecordFacts ==
    /\ NoRecord \notin Record
    /\ conf \in Conf =>
         \A s \in ExecutionStatus, a \in {"none", "retry", "verify"} :
            /\ Rec(s, a) \in Record
            /\ Rec(s, a).status = s
            /\ Rec(s, a).mode = conf.mode
BY DEF NoRecord, Record, Rec, Conf, ExecutionStatus

(* Storing and answering a record keeps the type invariant.                *)
LEMMA FinishType ==
    ASSUME TypeOK, NEW rec \in Record, Finish(rec)
    PROVE  /\ conf' \in Conf
           /\ ledger' \in [ClientId -> Record \union {NoRecord}]
           /\ pc' = "idle"
           /\ cur' \in [key : ClientId, decision : Decision, ticket : BOOLEAN]
           /\ cur'.key = cur.key
           /\ answer' \in [ClientId -> Record \union {NoRecord}]
           /\ dead' \in SUBSET ClientId
<1>1. NoDecision \in Decision
  BY DEF NoDecision, Decision
<1>2. QED
  BY <1>1 DEF TypeOK, Finish

(* order_send bookkeeping keeps the types.                                 *)
LEMMA TransmitType ==
    ASSUME TypeOK, Transmit
    PROVE  /\ sends' \in [ClientId -> Nat]
           /\ stamp' \in [ClientId -> [approved : BOOLEAN, hold : BOOLEAN, mode : ExecutionMode,
                                       allowLive : BOOLEAN, real : BOOLEAN]]
<1>1. cur.key \in ClientId /\ sends[cur.key] + 1 \in Nat
  BY DEF TypeOK
<1>2. [approved |-> cur.decision.approved, hold |-> cur.decision.hold, mode |-> conf.mode,
       allowLive |-> conf.allowLive, real |-> realAccount]
        \in [approved : BOOLEAN, hold : BOOLEAN, mode : ExecutionMode,
             allowLive : BOOLEAN, real : BOOLEAN]
  BY DEF TypeOK, Decision, Conf
<1>3. QED
  BY <1>1, <1>2 DEF TypeOK, Transmit

(* The initial states are well typed.                                      *)
LEMMA InitType == Init => TypeOK
<1> SUFFICES ASSUME Init PROVE TypeOK
  OBVIOUS
<1>1. NoDecision \in Decision
  BY DEF NoDecision, Decision
<1>2. NoStamp \in [approved : BOOLEAN, hold : BOOLEAN, mode : ExecutionMode,
                   allowLive : BOOLEAN, real : BOOLEAN]
  BY DEF NoStamp, ExecutionMode
<1>3. QED
  BY <1>1, <1>2, ConstantsAssumption DEF Init, TypeOK, Conf

(* Every step of the executor and of its environment keeps the types.      *)
LEMMA NextType == TypeOK /\ [Next]_vars => TypeOK'
<1> SUFFICES ASSUME TypeOK, [Next]_vars PROVE TypeOK'
  OBVIOUS
<1> USE RecordFacts
<1>0. /\ conf \in Conf /\ NoDecision \in Decision
      /\ \A s \in ExecutionStatus, a \in {"none", "retry", "verify"} : Rec(s, a) \in Record
  BY DEF TypeOK, NoDecision, Decision
<1>rec. /\ Rec("REJECTED", "none") \in Record /\ Rec("SUCCESS", "none") \in Record
        /\ Rec("FAILED", "none") \in Record /\ Rec("FAILED", "retry") \in Record
        /\ Rec("UNKNOWN", "verify") \in Record
  BY <1>0 DEF ExecutionStatus
<1>1. ASSUME NEW k \in ClientId, NEW d \in Decision, Call(k, d) PROVE TypeOK'
  BY <1>1 DEF TypeOK, Call, envVars, brokerVars
<1>2. CASE Replay
  BY <1>2, <1>0 DEF TypeOK, Replay, envVars, brokerVars
<1>3. CASE Refuse
  BY <1>3, <1>rec, FinishType DEF TypeOK, Refuse, envVars, brokerVars
<1>4. CASE Simulate
  BY <1>4, <1>rec, FinishType DEF TypeOK, Simulate, envVars, brokerVars
<1>5. CASE Prepare
  BY <1>5 DEF TypeOK, Prepare, Advance, LiveSteps, envVars, brokerVars
<1>6. CASE CheckConnection
  <2>1. CASE Advance("account")
    BY <1>6, <2>1 DEF TypeOK, CheckConnection, Advance, LiveSteps, envVars, brokerVars
  <2>2. CASE ~Advance("account")
    BY <1>6, <2>2, <1>rec, FinishType DEF TypeOK, CheckConnection, envVars, brokerVars
  <2>3. QED BY <2>1, <2>2
<1>7. CASE VerifyAccount
  <2>1. CASE Advance("tick")
    BY <1>7, <2>1 DEF TypeOK, VerifyAccount, Advance, LiveSteps, envVars, brokerVars
  <2>2. CASE ~Advance("tick")
    BY <1>7, <2>2, <1>rec, FinishType DEF TypeOK, VerifyAccount, envVars, brokerVars
  <2>3. QED BY <2>1, <2>2
<1>8. ASSUME NEW h, NEW n \in LiveSteps, Query(h, n) PROVE TypeOK'
  <2>1. CASE Advance(n)
    BY <1>8, <2>1 DEF TypeOK, Query, Advance, LiveSteps, envVars, brokerVars
  <2>2. CASE ~Advance(n)
    BY <1>8, <2>2, <1>rec, FinishType DEF TypeOK, Query, envVars, brokerVars
  <2>3. QED BY <2>1, <2>2
<1>9. CASE SendDone
  BY <1>9, TransmitType DEF TypeOK, SendDone, LiveSteps, envVars
<1>10. CASE SendRefused
  BY <1>10, <1>rec, TransmitType, FinishType DEF TypeOK, SendRefused, envVars
<1>11. CASE SendSilent
  <2>1. wire' \in SUBSET ClientId
    BY <1>11 DEF TypeOK, SendSilent
  <2>2. QED
    BY <1>11, <2>1, <1>rec, TransmitType, FinishType DEF TypeOK, SendSilent, envVars
<1>12. CASE Verify
  <2>1. PICK rec \in Record : Finish(rec)
    BY <1>12, <1>rec DEF Verify
  <2>2. QED
    BY <1>12, <2>1, FinishType DEF TypeOK, Verify, envVars, brokerVars
<1>13. CASE Crash
  <2>1. dead' \in SUBSET ClientId /\ cur.key \in ClientId
    BY <1>13 DEF TypeOK, Crash
  <2>2. CASE UNCHANGED brokerVars
    BY <1>13, <2>1, <2>2, <1>0 DEF TypeOK, Crash, brokerVars
  <2>3. CASE Transmit /\ wire' = wire \union {cur.key} /\ UNCHANGED orders
    BY <1>13, <2>1, <2>3, <1>0, TransmitType DEF TypeOK, Crash
  <2>4. QED BY <1>13, <2>2, <2>3 DEF Crash
<1>14. CASE Restart
  BY <1>14, ConstantsAssumption DEF TypeOK, Restart, envVars, brokerVars
<1>15. CASE Reconnect
  BY <1>15 DEF TypeOK, Reconnect, execVars, brokerVars
<1>16. CASE SwitchAccount
  BY <1>16 DEF TypeOK, SwitchAccount, execVars, brokerVars
<1>17. ASSUME NEW k \in ClientId, Deliver(k) PROVE TypeOK'
  BY <1>17 DEF TypeOK, Deliver, execVars, envVars
<1>18. ASSUME NEW k \in ClientId, Lose(k) PROVE TypeOK'
  BY <1>18 DEF TypeOK, Lose, execVars, envVars
<1>19. CASE UNCHANGED vars
  BY <1>19 DEF TypeOK, vars, execVars, envVars, brokerVars
<1>20. QED
  BY <1>1, <1>2, <1>3, <1>4, <1>5, <1>6, <1>7, <1>8, <1>9, <1>10, <1>11, <1>12, <1>13,
     <1>14, <1>15, <1>16, <1>17, <1>18, <1>19
     DEF Next, Step, GetTick, OrderCheck, LiveSteps

(* The executor's state is well typed in every behaviour.                  *)
THEOREM TypeCorrect == Spec => []TypeOK
BY InitType, NextType, PTL DEF Spec
-----------------------------------------------------------------------------
(* The inductive invariant holds initially.                                *)
LEMMA InitInv == Init => IInv
<1> SUFFICES ASSUME Init PROVE IInv
  OBVIOUS
<1>1. TypeOK
  BY InitType
<1>2. LedgerInv /\ CallInv /\ SendInv
  BY DEF Init, LedgerInv, CallInv, SendInv, LiveSteps
<1>3. RefusedNeverSent /\ SuccessIsBooked /\ SentPassedGates
  BY DEF Init, RefusedNeverSent, SuccessIsBooked, SentPassedGates, NoRecord
<1>4. QED
  BY <1>1, <1>2, <1>3 DEF IInv

(* A call on an unanswered key that has not reached order_send ends with a *)
(* record that claims no booked order.                                     *)
LEMMA FinishUnsent ==
    ASSUME IInv, TypeOK', NEW rec \in Record, Finish(rec),
           pc \in (LiveSteps \ {"verify"}) \union {"entry"},
           ledger[cur.key] = NoRecord,
           rec.status = "SUCCESS" => rec.mode = "DRY_RUN",
           UNCHANGED <<envVars, brokerVars>>
    PROVE  IInv'
<1> USE DEF IInv
<1>0. /\ pc' = "idle" /\ cur.key \in ClientId /\ cur.key \notin dead
      /\ ledger' = [ledger EXCEPT ![cur.key] = rec]
      /\ answer' = [answer EXCEPT ![cur.key] = rec]
      /\ UNCHANGED <<dead, wire, sends, orders, stamp>>
      /\ rec # NoRecord /\ pc # "verify"
  BY RecordFacts DEF Finish, TypeOK, CallInv, brokerVars, LiveSteps
<1>1. sends[cur.key] = 0
  BY <1>0 DEF SendInv
<1>2. LedgerInv'
  BY <1>0 DEF LedgerInv, TypeOK
<1>3. CallInv'
  BY <1>0 DEF CallInv, LiveSteps
<1>4. SendInv'
  BY <1>0, <1>1 DEF SendInv, TypeOK
<1>5. RefusedNeverSent'
  BY <1>0, <1>1 DEF RefusedNeverSent, TypeOK
<1>6. SuccessIsBooked'
  BY <1>0 DEF SuccessIsBooked, TypeOK
<1>7. SentPassedGates'
  BY <1>0 DEF SentPassedGates
<1>8. QED
  BY <1>2, <1>3, <1>4, <1>5, <1>6, <1>7

(* Moving on to the next step of a call before order_send.                 *)
LEMMA AdvanceInv ==
    ASSUME IInv, TypeOK', NEW step \in LiveSteps \ {"verify"}, Advance(step),
           pc \in (LiveSteps \ {"verify"}) \union {"entry"},
           ledger[cur.key] = NoRecord, Admitted, conf.mode # "DRY_RUN",
           step \in {"tick", "check", "send"} => ~(conf.mode = "DEMO" /\ realAccount),
           UNCHANGED <<envVars, brokerVars>>
    PROVE  IInv'
<1> USE DEF IInv
<1>0. /\ pc' = step /\ step # "verify" /\ pc # "verify" /\ step # "entry"
      /\ UNCHANGED <<conf, ledger, cur, answer, dead, realAccount, wire, sends, orders, stamp>>
  BY DEF Advance, envVars, brokerVars, LiveSteps
<1>1. LedgerInv'
  BY <1>0 DEF LedgerInv
<1>2. CallInv'
  BY <1>0 DEF CallInv, Admitted
<1>3. SendInv'
  BY <1>0 DEF SendInv
<1>4. RefusedNeverSent' /\ SuccessIsBooked' /\ SentPassedGates'
  BY <1>0 DEF RefusedNeverSent, SuccessIsBooked, SentPassedGates
<1>5. QED
  BY <1>1, <1>2, <1>3, <1>4

(* A step that leaves the ledger, the answers and the broker alone, and    *)
(* brings no call nearer to order_send.                                    *)
LEMMA QuietInv ==
    ASSUME IInv, TypeOK', UNCHANGED <<ledger, answer, dead, brokerVars>>,
           pc # "verify", pc' \in {"idle", "entry"},
           pc' = "entry" => cur'.key \notin dead
    PROVE  IInv'
<1> USE DEF IInv, brokerVars
<1>1. LedgerInv'
  BY DEF LedgerInv
<1>2. CallInv'
  BY DEF CallInv, LiveSteps
<1>3. SendInv'
  BY DEF SendInv
<1>4. RefusedNeverSent' /\ SuccessIsBooked' /\ SentPassedGates'
  BY DEF RefusedNeverSent, SuccessIsBooked, SentPassedGates
<1>5. QED
  BY <1>1, <1>2, <1>3, <1>4

(* An order_send of the current call: it was never sent before, and the    *)
(* circumstances written down are those that passed the gates.             *)
LEMMA TransmitFacts ==
    ASSUME IInv, pc = "send", Transmit
    PROVE  /\ cur.key \in ClientId /\ cur.key \notin dead /\ cur.key \notin wire
           /\ sends[cur.key] = 0 /\ orders[cur.key] = 0
           /\ ledger[cur.key] = NoRecord /\ answer[cur.key] = NoRecord
           /\ sends' = [sends EXCEPT ![cur.key] = 1]
           /\ \A k \in ClientId : k # cur.key => stamp'[k] = stamp[k]
           /\ stamp'[cur.key].approved /\ ~stamp'[cur.key].hold
           /\ stamp'[cur.key].mode # "DRY_RUN"
           /\ stamp'[cur.key].mode = "LIVE" => stamp'[cur.key].allowLive
           /\ ~(stamp'[cur.key].mode = "DEMO" /\ stamp'[cur.key].real)
<1> USE DEF IInv
<1>1. /\ cur.key \in ClientId /\ cur.key \notin dead /\ ledger[cur.key] = NoRecord
      /\ Admitted /\ conf.mode # "DRY_RUN" /\ ~(conf.mode = "DEMO" /\ realAccount)
  BY DEF TypeOK, CallInv, LiveSteps
<1>2. /\ sends[cur.key] = 0 /\ cur.key \notin wire /\ answer[cur.key] = NoRecord
      /\ orders[cur.key] = 0
  BY <1>1 DEF SendInv, LedgerInv, TypeOK
<1>3. sends' = [sends EXCEPT ![cur.key] = 1]
  BY <1>2 DEF Transmit
<1>4. stamp'[cur.key] = [approved |-> cur.decision.approved, hold |-> cur.decision.hold,
                         mode |-> conf.mode, allowLive |-> conf.allowLive, real |-> realAccount]
  BY <1>1 DEF Transmit, TypeOK
<1>5. \A k \in ClientId : k # cur.key => stamp'[k] = stamp[k]
  BY DEF Transmit, TypeOK
<1>6. QED
  BY <1>1, <1>2, <1>3, <1>4, <1>5 DEF Admitted

(* A call that ends FAILED or UNKNOWN right after order_send, with or      *)
(* without the order on the wire.                                          *)
LEMMA FinishSent ==
    ASSUME IInv, TypeOK', NEW rec \in Record, Finish(rec), pc = "send", Transmit,
           rec.status \in {"FAILED", "UNKNOWN"},
           wire' \in {wire, wire \union {cur.key}}, UNCHANGED orders
    PROVE  IInv'
<1> USE DEF IInv
<1>0. /\ pc' = "idle" /\ UNCHANGED dead /\ rec # NoRecord
      /\ ledger' = [ledger EXCEPT ![cur.key] = rec]
      /\ answer' = [answer EXCEPT ![cur.key] = rec]
  BY RecordFacts DEF Finish
<1>1. LedgerInv'
  BY <1>0, TransmitFacts DEF LedgerInv, TypeOK
<1>2. CallInv'
  BY <1>0 DEF CallInv, LiveSteps
<1>3. SendInv'
  BY <1>0, TransmitFacts DEF SendInv, TypeOK
<1>4. RefusedNeverSent'
  BY <1>0, TransmitFacts DEF RefusedNeverSent, TypeOK
<1>5. SuccessIsBooked'
  BY <1>0, TransmitFacts DEF SuccessIsBooked, TypeOK
<1>6. SentPassedGates'
  BY TransmitFacts DEF SentPassedGates, TypeOK
<1>7. QED
  BY <1>1, <1>2, <1>3, <1>4, <1>5, <1>6

(* The inductive invariant is kept by every step.                          *)
LEMMA NextInv == IInv /\ [Next]_vars => IInv'
<1> SUFFICES ASSUME IInv, [Next]_vars PROVE IInv'
  OBVIOUS
<1>0. TypeOK /\ TypeOK'
  BY NextType DEF IInv
<1>rec. ASSUME NEW s \in ExecutionStatus, NEW a \in {"none", "retry", "verify"}
        PROVE  /\ Rec(s, a) \in Record /\ Rec(s, a).status = s
               /\ Rec(s, a).mode = conf.mode /\ Rec(s, a) # NoRecord
  BY <1>0, RecordFacts DEF TypeOK
<1>ref. /\ Rec("REJECTED", "none") \in Record /\ Rec("REJECTED", "none").status # "SUCCESS"
        /\ Rec("FAILED", "none") \in Record /\ Rec("FAILED", "none").status = "FAILED"
        /\ Rec("FAILED", "retry") \in Record /\ Rec("FAILED", "retry").status = "FAILED"
        /\ Rec("UNKNOWN", "verify") \in Record /\ Rec("UNKNOWN", "verify").status = "UNKNOWN"
        /\ Rec("SUCCESS", "none") \in Record /\ Rec("SUCCESS", "none").mode = conf.mode
        /\ Rec("SUCCESS", "none").status = "SUCCESS" /\ Rec("SUCCESS", "none") # NoRecord
        /\ Rec("FAILED", "none") # NoRecord /\ Rec("FAILED", "none").mode = conf.mode
  BY <1>rec DEF ExecutionStatus
<1>1. ASSUME NEW k \in ClientId, NEW d \in Decision, Call(k, d) PROVE IInv'
  BY <1>0, <1>1, QuietInv DEF Call
<1>2. CASE Replay
  <2>1. answer' = answer
    BY <1>2, <1>0 DEF Replay, IInv, LedgerInv, TypeOK
  <2>2. QED
    BY <1>0, <1>2, <2>1, QuietInv DEF Replay
<1>3. CASE Refuse
  BY <1>0, <1>3, <1>ref, FinishUnsent DEF Refuse
<1>4. CASE Simulate
  BY <1>0, <1>4, <1>ref, FinishUnsent DEF Simulate
<1>5. CASE Prepare
  BY <1>0, <1>5, AdvanceInv DEF Prepare, LiveSteps
<1>live. ASSUME pc \in LiveSteps
         PROVE  ledger[cur.key] = NoRecord /\ Admitted /\ conf.mode # "DRY_RUN"
  BY <1>live DEF IInv, CallInv
<1>6. CASE CheckConnection
  BY <1>0, <1>6, <1>ref, <1>live, FinishUnsent, AdvanceInv DEF CheckConnection, LiveSteps
<1>7. CASE VerifyAccount
  BY <1>0, <1>7, <1>ref, <1>live, FinishUnsent, AdvanceInv DEF VerifyAccount, LiveSteps
<1>8. CASE GetTick \/ OrderCheck
  <2>1. pc \in {"tick", "check"} /\ ~(conf.mode = "DEMO" /\ realAccount)
    BY <1>8 DEF GetTick, OrderCheck, Query, IInv, CallInv
  <2>2. QED
    BY <1>0, <1>8, <1>ref, <1>live, <2>1, FinishUnsent, AdvanceInv
       DEF GetTick, OrderCheck, Query, LiveSteps
<1>9. CASE SendDone
  <2>0. /\ pc = "send" /\ Transmit /\ pc' = "verify" /\ cur'.key = cur.key
        /\ cur'.decision = cur.decision
        /\ orders' = [orders EXCEPT ![cur.key] = @ + 1]
        /\ UNCHANGED <<conf, ledger, wire, answer, dead, realAccount>>
    BY <1>0, <1>9 DEF SendDone, TypeOK, envVars
  <2>1. LedgerInv'
    BY <2>0 DEF IInv, LedgerInv
  <2>2. CallInv'
    BY <2>0 DEF IInv, CallInv, LiveSteps, Admitted
  <2>3. SendInv'
    BY <1>0, <2>0, TransmitFacts DEF IInv, SendInv, TypeOK
  <2>4. RefusedNeverSent'
    BY <1>0, <2>0, TransmitFacts DEF IInv, RefusedNeverSent, TypeOK, NoRecord
  <2>5. SuccessIsBooked'
    BY <1>0, <2>0, TransmitFacts DEF IInv, SuccessIsBooked, TypeOK, NoRecord
  <2>6. SentPassedGates'
    BY <1>0, <2>0, TransmitFacts DEF IInv, SentPassedGates, TypeOK
  <2>7. QED
    BY <1>0, <2>1, <2>2, <2>3, <2>4, <2>5, <2>6 DEF IInv
<1>10. CASE SendRefused
  BY <1>0, <1>10, <1>ref, FinishSent DEF SendRefused
<1>11. CASE SendSilent
  BY <1>0, <1>11, <1>ref, FinishSent DEF SendSilent
<1>12. CASE Verify
  <2>1. PICK rec \in Record : /\ Finish(rec) /\ rec.status \in {"SUCCESS", "FAILED"}
                              /\ rec # NoRecord /\ rec.mode = conf.mode
    BY <1>12, <1>ref DEF Verify
  <2>2. /\ pc = "verify" /\ pc' = "idle" /\ cur.key \in ClientId /\ cur.key \notin dead
        /\ ledger' = [ledger EXCEPT ![cur.key] = rec]
        /\ answer' = [answer EXCEPT ![cur.key] = rec]
        /\ UNCHANGED <<dead, wire, sends, orders, stamp>>
        /\ ledger[cur.key] = NoRecord
        /\ conf.mode # "DRY_RUN"
        /\ orders[cur.key] = 1
    BY <1>0, <1>12, <1>live, <2>1 DEF Verify, Finish, IInv, TypeOK, CallInv, SendInv, LiveSteps, brokerVars
  <2>m. rec.mode # "DRY_RUN"
    BY <2>1, <2>2
  <2>3. LedgerInv'
    BY <1>0, <2>1, <2>2 DEF IInv, LedgerInv, TypeOK
  <2>4. CallInv'
    BY <2>2 DEF CallInv, LiveSteps
  <2>5. SendInv'
    BY <1>0, <2>1, <2>2 DEF IInv, SendInv, TypeOK
  <2>6. RefusedNeverSent'
    BY <1>0, <2>1, <2>2, <2>m DEF IInv, RefusedNeverSent, TypeOK
  <2>7. SuccessIsBooked'
    BY <1>0, <2>1, <2>2 DEF IInv, SuccessIsBooked, TypeOK
  <2>8. SentPassedGates'
    BY <2>2 DEF IInv, SentPassedGates
  <2>9. QED
    BY <1>0, <2>3, <2>4, <2>5, <2>6, <2>7, <2>8 DEF IInv
<1>13. CASE Crash
  <2>0. /\ pc' = "down" /\ UNCHANGED <<orders, answer>>
        /\ \A k \in ClientId : ledger'[k] = NoRecord
        /\ dead \subseteq dead'
        /\ \A k \in ClientId : ledger[k] # NoRecord => k \in dead'
        /\ pc # "idle" => cur.key \in dead'
    BY <1>13 DEF Crash, brokerVars
  <2>1. LedgerInv'
    BY <2>0 DEF IInv, LedgerInv
  <2>2. CallInv'
    BY <2>0 DEF CallInv, LiveSteps
  <2>3. CASE UNCHANGED brokerVars
    <3>1. SendInv'
      BY <2>0, <2>3 DEF IInv, SendInv, brokerVars
    <3>2. RefusedNeverSent' /\ SuccessIsBooked' /\ SentPassedGates'
      BY <2>0, <2>3 DEF IInv, RefusedNeverSent, SuccessIsBooked, SentPassedGates, brokerVars
    <3>3. QED
      BY <1>0, <2>1, <2>2, <3>1, <3>2 DEF IInv
  <2>4. CASE pc = "send" /\ Transmit /\ wire' = wire \union {cur.key}
    <3>1. SendInv'
      BY <1>0, <2>0, <2>4, TransmitFacts DEF IInv, SendInv, TypeOK
    <3>2. RefusedNeverSent'
      BY <1>0, <2>0, <2>4, TransmitFacts DEF IInv, RefusedNeverSent, TypeOK, NoRecord
    <3>3. SuccessIsBooked'
      BY <2>0 DEF IInv, SuccessIsBooked
    <3>4. SentPassedGates'
      BY <1>0, <2>4, TransmitFacts DEF IInv, SentPassedGates, TypeOK
    <3>5. QED
      BY <1>0, <2>1, <2>2, <3>1, <3>2, <3>3, <3>4 DEF IInv
  <2>5. QED
    BY <1>13, <2>3, <2>4 DEF Crash
<1>14. CASE Restart
  BY <1>0, <1>14, QuietInv DEF Restart
<1>15. CASE Reconnect
  BY <1>0, <1>15, QuietInv DEF Reconnect, execVars
<1>16. CASE SwitchAccount
  <2>1. UNCHANGED <<conf, ledger, pc, cur, wire, sends, orders, stamp, answer, dead>>
    BY <1>16 DEF SwitchAccount, execVars, brokerVars
  <2>2. CallInv'
    BY <1>16, <2>1 DEF SwitchAccount, IInv, CallInv, Admitted
  <2>3. LedgerInv' /\ SendInv' /\ RefusedNeverSent' /\ SuccessIsBooked' /\ SentPassedGates'
    BY <2>1 DEF IInv, LedgerInv, SendInv, RefusedNeverSent, SuccessIsBooked, SentPassedGates
  <2>4. QED
    BY <1>0, <2>2, <2>3 DEF IInv
<1>17. ASSUME NEW k \in ClientId, Deliver(k) \/ Lose(k) PROVE IInv'
  <2>1. /\ UNCHANGED <<conf, ledger, pc, cur, realAccount, sends, stamp, answer, dead>>
        /\ k \in wire /\ wire' = wire \ {k}
        /\ orders' = orders \/ orders' = [orders EXCEPT ![k] = @ + 1]
    BY <1>17 DEF Deliver, Lose, execVars, envVars
  <2>2. LedgerInv' /\ CallInv' /\ RefusedNeverSent' /\ SentPassedGates'
    BY <2>1 DEF IInv, LedgerInv, CallInv, Admitted, RefusedNeverSent, SentPassedGates
  <2>3. SendInv'
    BY <1>0, <2>1 DEF IInv, SendInv, TypeOK
  <2>4. SuccessIsBooked'
    BY <1>0, <2>1 DEF IInv, SuccessIsBooked, SendInv, TypeOK
  <2>5. QED
    BY <1>0, <2>2, <2>3, <2>4 DEF IInv
<1>18. CASE UNCHANGED vars
  <2>1. UNCHANGED <<conf, ledger, pc, cur, connected, realAccount, wire, sends, orders, stamp, answer, dead>>
    BY <1>18 DEF vars, execVars, envVars, brokerVars
  <2>2. LedgerInv' /\ CallInv' /\ SendInv'
    BY <2>1 DEF IInv, LedgerInv, CallInv, SendInv, Admitted
  <2>3. RefusedNeverSent' /\ SuccessIsBooked' /\ SentPassedGates'
    BY <2>1 DEF IInv, RefusedNeverSent, SuccessIsBooked, SentPassedGates
  <2>4. QED
    BY <1>0, <2>2, <2>3 DEF IInv
<1>19. QED
  BY <1>1, <1>2, <1>3, <1>4, <1>5, <1>6, <1>7, <1>8, <1>9, <1>10, <1>11, <1>12, <1>13,
     <1>14, <1>15, <1>16, <1>17, <1>18 DEF Next, Step

(* The inductive invariant holds throughout.                               *)
LEMMA Invariance == Spec => []IInv
BY InitInv, NextInv, PTL DEF Spec

(* At most one order per client_id, over retries, crashes and late fills.  *)
THEOREM AtMostOnce == Spec => []AtMostOneOrder
<1>1. IInv => AtMostOneOrder
  <2> SUFFICES ASSUME IInv, NEW k \in ClientId
               PROVE  sends[k] <= 1 /\ orders[k] <= 1 /\ (k \in wire => orders[k] = 0)
    BY DEF AtMostOneOrder
  <2>1. sends[k] \in {0, 1} /\ orders[k] \in Nat /\ orders[k] <= sends[k]
    BY DEF IInv, TypeOK, SendInv
  <2>2. k \in wire => orders[k] = 0
    BY DEF IInv, SendInv
  <2>3. QED
    BY <2>1, <2>2
<1>2. QED
  BY <1>1, Invariance, PTL

(* A record that denies an order is true: what ends REJECTED, or SUCCESS   *)
(* in a dry run, never reaches order_send, by any process.                 *)
THEOREM RefusalsAreTrue == Spec => []RefusedNeverSent
<1>1. IInv => RefusedNeverSent
  BY DEF IInv
<1> QED  BY <1>1, Invariance, PTL

(* A record that claims an order is true: SUCCESS outside a dry run is     *)
(* only ever recorded for an order that the broker has booked.             *)
THEOREM SuccessIsTrue == Spec => []SuccessIsBooked
<1>1. IInv => SuccessIsBooked
  BY DEF IInv
<1> QED  BY <1>1, Invariance, PTL

(* Whatever reached order_send was approved and directional, in a mode     *)
(* that trades, with the live opt-in, and to no real account in DEMO mode. *)
THEOREM GatesGuardSends == Spec => []SentPassedGates
<1>1. IInv => SentPassedGates
  BY DEF IInv
<1> QED  BY <1>1, Invariance, PTL
-----------------------------------------------------------------------------
(* One step changes answers only by a first answer for the current key, or *)
(* not at all; and orders only by one.  This is what both the action       *)
(* property and the refinement need of the steps.                          *)
LEMMA FinishAnswers ==
    ASSUME IInv, NEW rec \in Record, Finish(rec), ledger[cur.key] = NoRecord,
           pc \in LiveSteps \union {"entry"}
    PROVE  /\ cur.key \in ClientId /\ answer[cur.key] = NoRecord
           /\ answer' = [answer EXCEPT ![cur.key] = rec]
BY DEF IInv, Finish, LedgerInv, CallInv, TypeOK

(* A record that says the order was never sent.                            *)
Refuses(rec) ==
    \/ rec.status = "REJECTED"
    \/ rec.status = "SUCCESS" /\ rec.mode = "DRY_RUN"

(* A FAILED or UNKNOWN answer, or a SUCCESS or a refusal the broker's      *)
(* state bears out, given to the current key while orders stay put; or an  *)
(* order booked for an unanswered or open key while answers stay put; or   *)
(* neither.                                                                *)
StepShape ==
    \/ answer' = answer /\ orders' = orders
    \/ \E k \in ClientId :
          /\ answer' = answer
          /\ orders[k] = 0 /\ orders' = [orders EXCEPT ![k] = 1]
          /\ answer[k].status \in {"NONE", "FAILED", "UNKNOWN"}
    \/ \E k \in ClientId, rec \in Record :
          /\ orders' = orders
          /\ answer[k] = NoRecord /\ answer' = [answer EXCEPT ![k] = rec]
          /\ rec.status = "SUCCESS" /\ rec.mode # "DRY_RUN" => orders[k] = 1
          /\ Refuses(rec)
                => orders[k] = 0

(* Every step has one of those shapes.                                     *)
LEMMA StepsHaveShape == ASSUME IInv, [Next]_vars PROVE StepShape
<1>0. IInv' /\ TypeOK /\ TypeOK'
  BY NextInv, NextType DEF IInv
<1>fin. ASSUME NEW rec \in Record, Finish(rec), ledger[cur.key] = NoRecord,
               pc \in LiveSteps \union {"entry"}, UNCHANGED orders
        PROVE  StepShape
  <2>1. /\ cur.key \in ClientId /\ answer[cur.key] = NoRecord
        /\ answer' = [answer EXCEPT ![cur.key] = rec]
        /\ answer'[cur.key] = rec
    BY <1>0, <1>fin, FinishAnswers DEF TypeOK
  <2>2. rec.status = "SUCCESS" /\ rec.mode # "DRY_RUN" => orders[cur.key] = 1
    BY <1>0, <1>fin, <2>1 DEF IInv, SuccessIsBooked
  <2>3. Refuses(rec)
            => sends'[cur.key] = 0
    BY <1>0, <2>1 DEF IInv, RefusedNeverSent, Refuses
  <2>4. sends'[cur.key] = 0 => orders[cur.key] = 0
    BY <1>0, <1>fin, <2>1 DEF IInv, SendInv, TypeOK
  <2>5. QED
    BY <1>fin, <2>1, <2>2, <2>3, <2>4 DEF StepShape
<1>rec. /\ Rec("REJECTED", "none") \in Record /\ Rec("FAILED", "none") \in Record
        /\ Rec("FAILED", "retry") \in Record /\ Rec("UNKNOWN", "verify") \in Record
        /\ Rec("SUCCESS", "none") \in Record
  BY <1>0, RecordFacts DEF TypeOK, ExecutionStatus
<1>live. pc \in LiveSteps => ledger[cur.key] = NoRecord
  BY DEF IInv, CallInv
<1>1. ASSUME NEW k \in ClientId, NEW d \in Decision, Call(k, d) PROVE StepShape
  BY <1>1 DEF Call, StepShape, brokerVars
<1>2. CASE Replay
  <2>1. answer' = answer
    BY <1>2, <1>0 DEF Replay, IInv, LedgerInv, TypeOK
  <2>2. QED
    BY <1>2, <2>1 DEF Replay, StepShape, brokerVars
<1>3. CASE Refuse \/ Simulate
  BY <1>3, <1>fin, <1>rec DEF Refuse, Simulate, brokerVars
<1>4. CASE Prepare
  BY <1>4 DEF Prepare, Advance, StepShape, brokerVars
<1>5. CASE CheckConnection
  BY <1>5, <1>fin, <1>rec, <1>live DEF CheckConnection, Advance, StepShape, brokerVars, LiveSteps
<1>6. CASE VerifyAccount
  BY <1>6, <1>fin, <1>rec, <1>live DEF VerifyAccount, Advance, StepShape, brokerVars, LiveSteps
<1>7. CASE GetTick \/ OrderCheck
  BY <1>7, <1>fin, <1>rec, <1>live
     DEF GetTick, OrderCheck, Query, Advance, StepShape, brokerVars, LiveSteps
<1>8. CASE SendDone
  <2>1. /\ cur.key \in ClientId /\ orders[cur.key] = 0 /\ answer[cur.key] = NoRecord
    BY <1>8, TransmitFacts DEF SendDone
  <2>2. orders' = [orders EXCEPT ![cur.key] = 1] /\ answer' = answer
    BY <1>8, <2>1 DEF SendDone
  <2>3. answer[cur.key].status = "NONE"
    BY <2>1 DEF NoRecord
  <2>4. QED
    BY <2>1, <2>2, <2>3 DEF StepShape
<1>9. CASE SendRefused \/ SendSilent
  BY <1>9, <1>fin, <1>rec, <1>live DEF SendRefused, SendSilent, LiveSteps
<1>10. CASE Verify
  BY <1>10, <1>fin, <1>rec, <1>live DEF Verify, LiveSteps, brokerVars
<1>11. CASE Crash \/ Restart \/ Reconnect \/ SwitchAccount
  BY <1>11 DEF Crash, Restart, Reconnect, SwitchAccount, StepShape, brokerVars
<1>12. ASSUME NEW k \in ClientId, Deliver(k) PROVE StepShape
  <2>1. orders[k] = 0 /\ sends[k] = 1 /\ answer' = answer
    BY <1>12 DEF Deliver, IInv, SendInv
  <2>2. orders' = [orders EXCEPT ![k] = 1]
    BY <1>12, <2>1 DEF Deliver
  <2>3. answer[k].status \in {"NONE", "FAILED", "UNKNOWN"}
    <3>1. answer[k] \in Record \union {NoRecord}
      BY <1>0 DEF TypeOK
    <3>2. answer[k].status \in ExecutionStatus \union {"NONE"}
      BY <3>1 DEF Record, NoRecord
    <3>3. answer[k].status # "REJECTED" /\ answer[k].status # "SUCCESS"
      BY <2>1 DEF IInv, RefusedNeverSent, SuccessIsBooked
    <3>4. QED
      BY <3>2, <3>3 DEF ExecutionStatus
  <2>4. QED
    BY <2>1, <2>2, <2>3 DEF StepShape
<1>13. ASSUME NEW k \in ClientId, Lose(k) PROVE StepShape
  BY <1>13 DEF Lose, StepShape
<1>14. CASE UNCHANGED vars
  BY <1>14 DEF vars, StepShape, brokerVars
<1>15. QED
  BY <1>1, <1>2, <1>3, <1>4, <1>5, <1>6, <1>7, <1>8, <1>9, <1>10, <1>11, <1>12, <1>13, <1>14
     DEF Next, Step

(* A caller's first answer is the last word on its client_id.              *)
THEOREM Finality == Spec => AnswersAreFinal
<1>1. ASSUME IInv, [Next]_vars
      PROVE  \A k \in ClientId : answer[k] # NoRecord => answer'[k] = answer[k]
  <2>1. StepShape
    BY <1>1, StepsHaveShape
  <2>2. QED
    BY <1>1, <2>1 DEF StepShape, IInv, TypeOK
<1>2. QED
  BY <1>1, Invariance, PTL DEF Spec, AnswersAreFinal

(* The executor implements OrderSubmission.                                *)
THEOREM Refinement == Spec => ImplementsOrderSubmission
<1> DEFINE res == [k \in ClientId |-> AnswerOf(answer[k])]
<1>1. Init => Abs!Init
  BY DEF Init, Abs!Init, AnswerOf, NoRecord
<1>2. ASSUME IInv, [Next]_vars PROVE [Abs!Next]_(Abs!vars)
  <2>0. StepShape /\ TypeOK
    BY <1>2, StepsHaveShape DEF IInv
  <2>1. CASE answer' = answer /\ orders' = orders
    BY <2>1 DEF Abs!vars
  <2>2. ASSUME NEW k \in ClientId, answer' = answer, orders[k] = 0,
               orders' = [orders EXCEPT ![k] = 1],
               answer[k].status \in {"NONE", "FAILED", "UNKNOWN"}
        PROVE  Abs!Next
    <3>1. AnswerOf(answer[k]) \in {"NONE", "FAILED", "UNKNOWN"}
      BY <2>2 DEF AnswerOf
    <3>2. Abs!Reach(k)
      BY <2>2, <3>1 DEF Abs!Reach
    <3>3. QED
      BY <3>2 DEF Abs!Next
  <2>3. ASSUME NEW k \in ClientId, NEW rec \in Record, orders' = orders,
               answer[k] = NoRecord, answer' = [answer EXCEPT ![k] = rec],
               rec.status = "SUCCESS" /\ rec.mode # "DRY_RUN" => orders[k] = 1,
               Refuses(rec)
                   => orders[k] = 0
        PROVE  Abs!Next
    <3>1. AnswerOf(rec) \in Abs!Answers
      BY DEF AnswerOf, Abs!Answers, Record, ExecutionStatus
    <3>2. res' = [res EXCEPT ![k] = AnswerOf(rec)] /\ res[k] = "NONE"
      <4>1. res' = [j \in ClientId |-> AnswerOf(answer'[j])]
        BY DEF AnswerOf
      <4>2. \A j \in ClientId : answer'[j] = IF j = k THEN rec ELSE answer[j]
        BY <2>0, <2>3 DEF TypeOK
      <4>3. AnswerOf(answer[k]) = "NONE"
        BY <2>3 DEF AnswerOf, NoRecord
      <4>4. QED
        BY <4>1, <4>2, <4>3
    <3>3. /\ AnswerOf(rec) = "SUCCESS" => orders[k] = 1
          /\ AnswerOf(rec) \in {"SIMULATED", "REJECTED"} => orders[k] = 0
      <4>1. CASE rec.status = "SUCCESS" /\ rec.mode = "DRY_RUN"
        BY <2>3, <4>1 DEF AnswerOf, Refuses
      <4>2. CASE ~(rec.status = "SUCCESS" /\ rec.mode = "DRY_RUN")
        <5>1. AnswerOf(rec) = rec.status /\ rec.status # "SIMULATED"
          BY <4>2 DEF AnswerOf, Record, ExecutionStatus
        <5>2. QED
          BY <2>3, <4>2, <5>1 DEF Refuses
      <4>3. QED
        BY <4>1, <4>2
    <3>4. Abs!Answer(k, AnswerOf(rec))
      BY <2>3, <3>2, <3>3 DEF Abs!Answer
    <3>5. QED
      BY <3>1, <3>4 DEF Abs!Next
  <2>4. QED
    BY <2>0, <2>1, <2>2, <2>3 DEF StepShape
<1>3. QED
  BY <1>1, <1>2, Invariance, PTL DEF Spec, ImplementsOrderSubmission, Abs!Spec
=============================================================================
