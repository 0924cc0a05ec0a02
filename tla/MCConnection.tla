---------------------------- MODULE MCConnection ----------------------------
(***************************************************************************)
(* Four attempts, so that the backoff of 2, 4, 8 seconds meets its cap of  *)
(* 3 well before the last one.                                             *)
(***************************************************************************)
EXTENDS Connection
=============================================================================
