----------------------------- MODULE MCJobLock -----------------------------
(* An instance of JobLock for TLC: three one-shot processes, one run each. *)
EXTENDS JobLock, TLC

CONSTANTS launchd, cron, api, none, l1, c1, a1

OneRunEach == (l1 :> launchd) @@ (c1 :> cron) @@ (a1 :> api)
=============================================================================
