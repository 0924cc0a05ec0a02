----------------------------- MODULE MCProcesses -----------------------------
(***************************************************************************)
(* Two handler threads, so that one can hold the lock that the other or    *)
(* the shutdown waits for, and one change of the environment.  One handler *)
(* is asked for pages of figures and for what is answered at once, the     *)
(* other for health verdicts: both read the terminal and the store.        *)
(***************************************************************************)
EXTENDS Processes

CONSTANTS h1, h2

Handlers == {h1, h2}
AskedOf == [h \in Handlers |-> IF h = h1 THEN {"state", "fixed"} ELSE {"health"}]
=============================================================================
