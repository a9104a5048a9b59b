------------------------ MODULE MCSchedulerHeartbeat ------------------------
(* Two schedulers, launchd's and the API's, for SchedulerHeartbeat.        *)
EXTENDS SchedulerHeartbeat, TLC

CONSTANTS launchd, api, none, l1, a1

OneRunEach == (l1 :> launchd) @@ (a1 :> api)
=============================================================================
