---------------------------- MODULE MCMemoryStore ---------------------------
(***************************************************************************)
(* Two writers with different retention on two scopes; four rows are       *)
(* enough to push a returned one out of either window.                     *)
(***************************************************************************)
EXTENDS MemoryStore

Scopes == {"trade", "strategy"}
Processes == {"agent", "probe"}
Keeps == [agent |-> [trade |-> 2, strategy |-> 1], probe |-> [trade |-> 1, strategy |-> 2]]
=============================================================================
