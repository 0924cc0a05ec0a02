--------------------------- MODULE OrderSubmission ---------------------------
(***************************************************************************)
(* What TradeExecutor.execute promises its caller, seen from outside: one  *)
(* final answer per client_id and at most one order per client_id at the   *)
(* broker.  REJECTED and a simulated fill promise that no order exists or  *)
(* ever will; SUCCESS promises that one does; FAILED and UNKNOWN promise   *)
(* nothing, because the order may still arrive after the answer.           *)
(***************************************************************************)
EXTENDS Naturals

CONSTANT ClientId       \* idempotency keys of execution requests

VARIABLES
    result,             \* result[k]: the answer for k, "NONE" before it
    orders              \* orders[k]: how many orders for k the broker holds

vars == <<result, orders>>

Answers == {"SIMULATED", "SUCCESS", "REJECTED", "FAILED", "UNKNOWN"}

Init ==
    /\ result = [k \in ClientId |-> "NONE"]
    /\ orders = [k \in ClientId |-> 0]

(* The broker books the single order of k: before the answer, or after an  *)
(* answer that left the outcome open.                                      *)
Reach(k) ==
    /\ orders[k] = 0
    /\ result[k] \in {"NONE", "FAILED", "UNKNOWN"}
    /\ orders' = [orders EXCEPT ![k] = 1]
    /\ UNCHANGED result

(* The caller gets the answer of k, once and for all.                      *)
Answer(k, r) ==
    /\ result[k] = "NONE"
    /\ r = "SUCCESS" => orders[k] = 1
    /\ r \in {"SIMULATED", "REJECTED"} => orders[k] = 0
    /\ result' = [result EXCEPT ![k] = r]
    /\ UNCHANGED orders

Next == \E k \in ClientId : Reach(k) \/ \E r \in Answers : Answer(k, r)

Spec == Init /\ [][Next]_vars

=============================================================================
