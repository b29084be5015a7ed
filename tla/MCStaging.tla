----------------------------- MODULE MCStaging -----------------------------
(* Instances of Staging for TLC: a job, two enrich requests, a prepare      *)
(* request that stages the loader, two builds of it.                        *)
EXTENDS Staging, TLC

CONSTANTS job, e1, e2, prepare, b1, b2

(* Both handlers do the same. *)
Symmetric == Permutations({e1, e2})
=============================================================================
