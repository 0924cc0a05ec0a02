----------------------------- MODULE MCExecutor -----------------------------
(***************************************************************************)
(* Small instances of Executor: two client ids, so that retries of both    *)
(* interleave around crashes, and one where a single id tells the story.   *)
(* The gate for blank ids is left to the proofs, which hold for any ids.   *)
(***************************************************************************)
EXTENDS Executor

CONSTANTS k1, k2

TwoIds == {k1, k2}
OneId == {k1}
NoIds == {}

(* One deployment per combination of arguments that the code tells apart.  *)
Deploy(m, live, att) == [mode |-> m, allowLive |-> live, attached |-> att]
AllDeployments ==
    {Deploy("DRY_RUN", FALSE, TRUE), Deploy("DEMO", FALSE, TRUE),
     Deploy("DEMO", FALSE, FALSE), Deploy("LIVE", FALSE, TRUE), Deploy("LIVE", TRUE, TRUE)}
DemoDeployments == {Deploy("DEMO", FALSE, TRUE)}
=============================================================================
