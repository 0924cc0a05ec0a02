----------------------------- MODULE Connection -----------------------------
(***************************************************************************)
(* ConnectionService over MT5ConnectionAdapter                             *)
(* (application/connection_service.py, infrastructure/mt5/                 *)
(* connection_adapter.py): connecting with retries and backoff, the health *)
(* probe that decides whether an attempt counted, disconnecting, and       *)
(* reconnecting with verification.  The MetaTrader5 package, the terminal  *)
(* process and its link to the trade server are the environment: a call    *)
(* may succeed, fail or raise, and the terminal may die or lose its link   *)
(* between any two steps.                                                  *)
(***************************************************************************)
EXTENDS Naturals

CONSTANTS
    MaxAttempts,     \* RetryPolicy.max_attempts
    DelaySeconds,    \* RetryPolicy.delay_seconds
    BackoffFactor,   \* RetryPolicy.backoff_factor
    MaxDelay,        \* RetryPolicy.max_delay_seconds, or NoLimit
    NoLimit

(* RetryPolicy's validation; the powers of the factor are floats in range. *)
ASSUME RetryPolicyAssumption ==
    /\ MaxAttempts \in Nat \ {0} /\ DelaySeconds \in Nat /\ BackoffFactor \in Nat \ {0}
    /\ MaxDelay \in Nat \union {NoLimit} /\ NoLimit \notin Nat
    /\ \A n \in 0..MaxAttempts : BackoffFactor ^ n \in Nat

VARIABLES
    connected,    \* the adapter's _connected
    session,      \* the package is attached to a terminal process
    link,         \* that terminal is connected to the trade server
    pc,           \* the step of the call in progress
    op,           \* verify, creds: arguments of the call in progress
    attempt,      \* attempt of ensure_connected's loop
    waited,       \* seconds slept by the call in progress or last made
    outcome,      \* how the last call ended
    probe,        \* what the last probe read: session and link
    verified      \* verify() passed since the last disconnect()

adapterVars == <<connected, session>>
callVars == <<op, attempt, waited>>
seenVars == <<probe, verified>>
vars == <<adapterVars, link, pc, callVars, outcome, seenVars>>

Op(creds, verify) == [creds |-> creds, verify |-> verify]
NoProbe == [session |-> FALSE, link |-> FALSE]

(* An attempt to connect is under way, before and after initialize().      *)
Working == {"connect", "login", "terminal", "pause", "verify"}
-----------------------------------------------------------------------------
(* Mutant: the cap is not applied.                                         *)
MutDelayFor(n) == DelaySeconds * BackoffFactor ^ (n - 1)

(* RetryPolicy.delay_for.                                                  *)
DelayFor(n) ==
    LET delay == DelaySeconds * BackoffFactor ^ (n - 1)
    IN IF MaxDelay # NoLimit /\ MaxDelay < delay THEN MaxDelay ELSE delay

Init ==
    /\ connected = FALSE /\ session = FALSE
    /\ link \in BOOLEAN
    /\ pc = "idle" /\ op = Op(FALSE, FALSE) /\ attempt = 0 /\ waited = 0
    /\ outcome = "none"
    /\ probe = NoProbe
    /\ verified = FALSE

(* The call ends by returning, or by raising the last MT5Error or another  *)
(* exception, which the retry loop does not catch.                         *)
Return(how) ==
    /\ pc' = "idle" /\ outcome' = how
    /\ UNCHANGED callVars

(* ensure_connected begins its first attempt at once.                      *)
Start(args) ==
    /\ pc' = "connect" /\ op' = args /\ attempt' = 1 /\ waited' = 0
    /\ outcome' = "none" /\ probe' = NoProbe

EnsureConnected(creds) ==
    /\ pc = "idle"
    /\ Start(Op(creds, FALSE))
    /\ UNCHANGED <<adapterVars, link, verified>>

(* disconnect() of the adapter: shutdown() may raise, the flag is cleared. *)
Detach ==
    /\ session' \in {FALSE, session}
    /\ connected' = FALSE

(* reconnect: disconnect, whatever it raises, then ensure_connected.       *)
Reconnect(creds, verify) ==
    /\ pc = "idle"
    /\ Detach
    /\ Start(Op(creds, verify))
    /\ verified' = FALSE
    /\ UNCHANGED link

Disconnect ==
    /\ pc = "idle"
    /\ Detach
    /\ outcome' \in {"disconnected", "raised"}
    /\ outcome' = "disconnected" => session' = FALSE
    /\ verified' = FALSE
    /\ UNCHANGED <<link, pc, callVars, probe>>

(* Mutant: the last attempt is followed by a pause and one more attempt.   *)
MutAttemptFailed ==
    IF attempt <= MaxAttempts THEN pc' = "pause" /\ UNCHANGED <<callVars, outcome>>
                              ELSE Return("error")

(* Mutant: a failed attempt is repeated without being counted.             *)
MutAttemptRepeated == pc' = "connect" /\ UNCHANGED <<callVars, outcome>>

(* The attempt ended in an MT5Error or an unhealthy probe: pause unless it *)
(* was the last.                                                           *)
AttemptFailed ==
    IF attempt < MaxAttempts THEN pc' = "pause" /\ UNCHANGED <<callVars, outcome>>
                             ELSE Return("error")

(* connect(): initialize() attaches to a terminal, starting one if there   *)
(* is none; on a failure the earlier attachment may be gone or not.        *)
Initialize ==
    /\ pc = "connect"
    /\ \/ session' = TRUE /\ UNCHANGED <<callVars, outcome>>
          /\ IF op.creds THEN pc' = "login" /\ UNCHANGED connected
                         ELSE pc' = "terminal" /\ connected' = TRUE
       \/ session' \in {session, FALSE} /\ AttemptFailed /\ UNCHANGED connected
       \/ session' \in {session, FALSE} /\ Return("raised") /\ UNCHANGED connected
    /\ UNCHANGED <<link, seenVars>>

(* connect(): login() with the credentials.  A refusal shuts the package   *)
(* down and leaves the flag as it was; shutdown() may raise in its turn.   *)
Login ==
    /\ pc = "login"
    /\ \/ /\ session
          /\ pc' = "terminal" /\ connected' = TRUE
          /\ UNCHANGED <<session, callVars, outcome>>
       \/ session' = FALSE /\ AttemptFailed /\ UNCHANGED connected
       \/ session' \in {session, FALSE} /\ Return("raised") /\ UNCHANGED connected
    /\ UNCHANGED <<link, seenVars>>

(* Mutant: the probe trusts the terminal's answer without its link state.  *)
MutHealthy == connected /\ session

(* check_health(): terminal_info() answers and reports its link up.        *)
Healthy == connected /\ session /\ link

(* The probe after connect(); terminal_info() may also answer None or      *)
(* raise, and check_health never lets that out.                            *)
CheckHealth ==
    /\ pc = "terminal"
    /\ probe' = [session |-> session, link |-> link]
    /\ \/ /\ Healthy
          /\ IF op.verify THEN pc' = "verify" /\ UNCHANGED <<callVars, outcome>>
                          ELSE Return("ok")
       \/ AttemptFailed
    /\ UNCHANGED <<adapterVars, link, verified>>

(* time.sleep(delay_for(attempt)), and the next attempt.                   *)
Pause ==
    /\ pc = "pause"
    /\ waited' = waited + DelayFor(attempt)
    /\ attempt' = attempt + 1
    /\ pc' = "connect"
    /\ UNCHANGED <<adapterVars, link, op, outcome, seenVars>>

(* verify() re-reads account, positions and orders, and raises when the    *)
(* intended action is no longer valid.                                     *)
Verify ==
    /\ pc = "verify"
    /\ \/ session /\ verified' = TRUE /\ Return("ok")
       \/ verified' = FALSE /\ Return("raised")
    /\ UNCHANGED <<adapterVars, link, probe>>
-----------------------------------------------------------------------------
(* The terminal exits, or its link to the trade server comes or goes.      *)
TerminalExits ==
    /\ session
    /\ session' = FALSE
    /\ UNCHANGED <<connected, link, pc, callVars, outcome, seenVars>>

LinkChanges ==
    /\ link' = ~link
    /\ UNCHANGED <<adapterVars, pc, callVars, outcome, seenVars>>
-----------------------------------------------------------------------------
Step == Initialize \/ Login \/ CheckHealth \/ Pause \/ Verify

Next ==
    \/ \E creds \in BOOLEAN :
          EnsureConnected(creds) \/ \E verify \in BOOLEAN : Reconnect(creds, verify)
    \/ Disconnect
    \/ Step
    \/ TerminalExits \/ LinkChanges

Spec == Init /\ [][Next]_vars

(* Terminal calls answer, fail or time out (timeout_ms), and the thread    *)
(* runs on.                                                                *)
FairSpec == Spec /\ WF_vars(Step)
-----------------------------------------------------------------------------
(* The states of the adapter and of a call in progress.                    *)
TypeOK ==
    /\ connected \in BOOLEAN /\ session \in BOOLEAN /\ link \in BOOLEAN
    /\ pc \in {"idle"} \union Working
    /\ op \in [creds : BOOLEAN, verify : BOOLEAN]
    /\ attempt \in 0..MaxAttempts /\ waited \in Nat
    /\ outcome \in {"none", "ok", "error", "raised", "disconnected"}
    /\ probe \in [session : BOOLEAN, link : BOOLEAN]
    /\ verified \in BOOLEAN

(* A health record is returned only after a probe of this call found the   *)
(* terminal attached and linked, and a reconnect that was asked to verify  *)
(* only after verify() passed on the new session ("never submit an order   *)
(* after reconnecting without re-verification").                           *)
OkMeansProbed ==
    outcome = "ok" =>
        /\ connected /\ probe.session /\ probe.link
        /\ op.verify => verified

(* However the attempts fail, the call sleeps only between two of them,    *)
(* and never longer than max_delay_seconds at a time: an outage neither    *)
(* hammers the terminal nor blocks the caller for long.                    *)
WaitIsCapped ==
    MaxDelay # NoLimit /\ attempt > 0 => waited <= (attempt - 1) * MaxDelay

(* Every call comes back, whatever the terminal does in between.           *)
CallsReturn == (pc # "idle") ~> (pc = "idle")
=============================================================================
