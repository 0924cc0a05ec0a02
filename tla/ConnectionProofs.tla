-------------------------- MODULE ConnectionProofs --------------------------
(***************************************************************************)
(* A health record is trustworthy and waiting is capped, for every retry   *)
(* policy.  OkMeansProbed is strengthened by what each step of a call has  *)
(* established: the flag is set once connect() passed, the probe was good  *)
(* once verify() is reached, and an outcome exists only between calls.     *)
(***************************************************************************)
EXTENDS Connection, TLAPS

Established ==
    /\ outcome = "ok" => pc = "idle"
    /\ pc \in {"terminal", "verify"} => connected
    /\ pc = "verify" => probe.session /\ probe.link
    /\ pc # "idle" => attempt > 0
    /\ pc = "pause" => attempt < MaxAttempts

IInv == TypeOK /\ Established /\ OkMeansProbed /\ WaitIsCapped

(* DelayFor is a number, below the cap if there is one.                    *)
LEMMA DelayBounds ==
    ASSUME NEW n \in 1..MaxAttempts
    PROVE  /\ DelayFor(n) \in Nat
           /\ MaxDelay # NoLimit => DelayFor(n) <= MaxDelay
<1>1. n - 1 \in 0..MaxAttempts
  BY RetryPolicyAssumption
<1>2. BackoffFactor ^ (n - 1) \in Nat
  BY <1>1, RetryPolicyAssumption
<1> DEFINE power == BackoffFactor ^ (n - 1)
<1>3. DelaySeconds * power \in Nat
  <2> HIDE DEF power
  <2>1. power \in Nat
    BY <1>2 DEF power
  <2> QED  BY <2>1, RetryPolicyAssumption
<1> QED  BY <1>3, RetryPolicyAssumption DEF DelayFor

(* One more pause keeps the total under one cap per attempt made.          *)
LEMMA OneMorePause ==
    ASSUME NEW a \in Nat \ {0}, NEW w \in Nat, NEW d \in Nat, NEW cap \in Nat,
           d <= cap, w <= (a - 1) * cap
    PROVE  w + d <= (a + 1 - 1) * cap
<1>1. (a + 1 - 1) * cap = (a - 1) * cap + cap
  OBVIOUS
<1>2. (a - 1) * cap \in Nat
  OBVIOUS
<1> QED  BY <1>1, <1>2

(* Records of two Booleans.                                                *)
LEMMA OpAndProbeTypes ==
    /\ \A creds, verify \in BOOLEAN : Op(creds, verify) \in [creds : BOOLEAN, verify : BOOLEAN]
    /\ NoProbe \in [session : BOOLEAN, link : BOOLEAN]
BY Zenon DEF Op, NoProbe

(* The states before the first call.                                       *)
LEMMA InitIInv == Init => IInv
<1> SUFFICES ASSUME Init PROVE IInv
  OBVIOUS
<1> USE RetryPolicyAssumption DEF Init
<1>1. TypeOK
  <2>1. op \in [creds : BOOLEAN, verify : BOOLEAN] /\ probe \in [session : BOOLEAN, link : BOOLEAN]
    BY OpAndProbeTypes
  <2>2. connected \in BOOLEAN /\ session \in BOOLEAN /\ link \in BOOLEAN /\ verified \in BOOLEAN
    OBVIOUS
  <2>3. attempt \in 0..MaxAttempts /\ waited \in Nat
    OBVIOUS
  <2> QED  BY <2>1, <2>2, <2>3 DEF TypeOK, Working
<1>2. Established /\ OkMeansProbed
  BY DEF Established, OkMeansProbed
<1>3. WaitIsCapped
  BY DEF WaitIsCapped
<1> QED  BY <1>1, <1>2, <1>3 DEF IInv

(* Every step of a call, of the adapter and of the terminal keeps IInv.    *)
LEMMA NextIInv == IInv /\ [Next]_vars => IInv'
<1> SUFFICES ASSUME IInv, [Next]_vars PROVE IInv'
  OBVIOUS
<1> USE RetryPolicyAssumption
        DEF IInv, TypeOK, Established, OkMeansProbed, WaitIsCapped, Working, callVars, adapterVars,
            seenVars
<1>1. ASSUME NEW creds \in BOOLEAN, EnsureConnected(creds) PROVE IInv'
  BY <1>1 DEF EnsureConnected, Start, Op, NoProbe
<1>2. ASSUME NEW creds \in BOOLEAN, NEW verify \in BOOLEAN, Reconnect(creds, verify) PROVE IInv'
  <2> USE <1>2 DEF Reconnect, Detach, Start
  <2>1. op' \in [creds : BOOLEAN, verify : BOOLEAN] /\ probe' \in [session : BOOLEAN, link : BOOLEAN]
    BY OpAndProbeTypes
  <2>2. session' \in BOOLEAN /\ connected' \in BOOLEAN /\ pc' = "connect" /\ attempt' = 1 /\ waited' = 0
    OBVIOUS
  <2>3. TypeOK'
    <3>1. link' \in BOOLEAN /\ verified' \in BOOLEAN /\ outcome' = "none"
      OBVIOUS
    <3>2. attempt' \in 0..MaxAttempts /\ waited' \in Nat
      BY <2>2
    <3> QED  BY ONLY <2>1, <2>2, <3>1, <3>2 DEF TypeOK, Working
  <2>4. Established' /\ OkMeansProbed'
    BY <2>2
  <2>5. WaitIsCapped'
    BY <2>2
  <2> QED  BY <2>3, <2>4, <2>5
<1>3. CASE Disconnect
  BY <1>3 DEF Disconnect, Detach
<1>4. CASE Initialize
  BY <1>4 DEF Initialize, AttemptFailed, Return
<1>5. CASE Login
  BY <1>5 DEF Login, AttemptFailed, Return
<1>6. CASE CheckHealth
  BY <1>6 DEF CheckHealth, Healthy, AttemptFailed, Return
<1>7. CASE Pause
  <2>1. attempt \in 1..MaxAttempts /\ attempt + 1 \in 1..MaxAttempts /\ waited \in Nat
    BY <1>7 DEF Pause
  <2>2. DelayFor(attempt) \in Nat /\ (MaxDelay # NoLimit => DelayFor(attempt) <= MaxDelay)
    BY <2>1, DelayBounds
  <2>3. waited' \in Nat
    BY <1>7, <2>1, <2>2 DEF Pause
  <2>4. WaitIsCapped'
    <3>1. MaxDelay # NoLimit => waited + DelayFor(attempt) <= (attempt + 1 - 1) * MaxDelay
      <4> SUFFICES ASSUME MaxDelay # NoLimit
                   PROVE  waited + DelayFor(attempt) <= (attempt + 1 - 1) * MaxDelay
        OBVIOUS
      <4>1. MaxDelay \in Nat /\ attempt \in Nat \ {0} /\ waited <= (attempt - 1) * MaxDelay
        BY <2>1
      <4> QED  BY ONLY <4>1, <2>1, <2>2, OneMorePause, MaxDelay # NoLimit
    <3> QED  BY <3>1, <1>7 DEF Pause
  <2> QED  BY <1>7, <2>1, <2>3, <2>4 DEF Pause
<1>8. CASE Verify
  BY <1>8 DEF Verify, Return
<1>9. CASE TerminalExits \/ LinkChanges
  BY <1>9 DEF TerminalExits, LinkChanges
<1>10. CASE UNCHANGED vars
  BY <1>10 DEF vars
<1> QED  BY <1>1, <1>2, <1>3, <1>4, <1>5, <1>6, <1>7, <1>8, <1>9, <1>10 DEF Next, Step

(* The inductive invariant holds of every behaviour.                       *)
LEMMA Invariance == Spec => []IInv
BY InitIInv, NextIInv, PTL DEF Spec

(* The types of the service's and the adapter's state, for every policy.   *)
THEOREM ConnectionTyped == Spec => []TypeOK
<1>1. IInv => TypeOK
  BY DEF IInv
<1> QED  BY <1>1, Invariance, PTL

(* For every retry policy, ensure_connected and reconnect hand out a       *)
(* health record only for a terminal that was probed (and, if asked,       *)
(* verified) in that call.                                                 *)
THEOREM ConnectionSafe == Spec => []OkMeansProbed
<1>1. IInv => OkMeansProbed
  BY DEF IInv
<1> QED  BY <1>1, Invariance, PTL

(* For every retry policy with a cap, all pauses of a call together are no *)
(* longer than the cap times the attempts that failed.                     *)
THEOREM WaitingIsBounded == Spec => []WaitIsCapped
<1>1. IInv => WaitIsCapped
  BY DEF IInv
<1> QED  BY <1>1, Invariance, PTL
=============================================================================
