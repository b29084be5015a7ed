----------------------------- MODULE MCExecutor -----------------------------
(* Instances of Executor for TLC.                                           *)
EXTENDS Executor, TLC

CONSTANTS j1, j2, d1

OneDest == (j1 :> d1) @@ (j2 :> d1)
=============================================================================
