------------------------------ MODULE Watchdog ------------------------------
(***************************************************************************)
(* The fail-safe watchdog (application/watchdog.py): consecutive-failure   *)
(* counters, a trip that latches until reset(), and the time of the last   *)
(* observation.  The agent composes these operations; totals and the last  *)
(* error text, which only feed snapshot(), are left out.                   *)
(***************************************************************************)
EXTENDS Integers

CONSTANTS
    MaxFailures,    \* max_consecutive_failures
    StaleAfter      \* stale_after_s, 0 turns the staleness check off

VARIABLES
    consecutive,    \* _consecutive["cycle"], the only kind the agent notes
    tripped,        \* _tripped_at is set
    lastObserved    \* _last_observation_at, -1 before the first

wdVars == <<consecutive, tripped, lastObserved>>

WdInit == consecutive = 0 /\ tripped = FALSE /\ lastObserved = -1

NoteSuccess ==
    /\ consecutive' = 0
    /\ UNCHANGED <<tripped, lastObserved>>

(* Mutant: the counter of consecutive failures does not add up.            *)
MutNoteFailure ==
    /\ consecutive' = 1
    /\ tripped' = (tripped \/ consecutive' >= MaxFailures)
    /\ UNCHANGED lastObserved

NoteFailure ==
    /\ consecutive' = consecutive + 1
    /\ tripped' = (tripped \/ consecutive' >= MaxFailures)
    /\ UNCHANGED lastObserved

NoteObservation(at) ==
    /\ lastObserved' = at
    /\ UNCHANGED <<consecutive, tripped>>

Reset ==
    /\ consecutive' = 0
    /\ tripped' = FALSE
    /\ UNCHANGED lastObserved

Status(at) ==
    CASE tripped \/ consecutive >= MaxFailures -> "UNHEALTHY"
      [] ~(tripped \/ consecutive >= MaxFailures) /\ lastObserved # -1 /\ StaleAfter > 0
            /\ at - lastObserved > StaleAfter -> "DEGRADED"
      [] OTHER -> "HEALTHY"

ShouldHalt(at) == Status(at) = "UNHEALTHY"
=============================================================================
