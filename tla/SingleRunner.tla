---------------------------- MODULE SingleRunner ----------------------------
(***************************************************************************)
(* What utils/job_lock.py gives its callers: of all the runs of one job    *)
(* that launchd, cron and n8n may start, at most one executes while it     *)
(* holds a good lease, and nobody is let in beside it.  The promise ends   *)
(* with the lease: a run whose lease has lapsed goes on without it, and a  *)
(* run that could not ask is let in without it.  A run leaves when it      *)
(* finishes or when its process dies.                                      *)
(***************************************************************************)
CONSTANT Runs

VARIABLES
  running,    \* the runs between "acquired" and the end of the with-block
  leased      \* those of them whose lease is good

vars == <<running, leased>>

Init == running = {} /\ leased = {}

Enter(r) == /\ r \notin running
            /\ leased = {}
            /\ running' = running \cup {r}
            /\ leased' = {r}

\* The lock could not be asked.
EnterBlind(r) == /\ r \notin running
                 /\ running' = running \cup {r}
                 /\ UNCHANGED leased

Lapse(r) == /\ r \in leased
            /\ leased' = leased \ {r}
            /\ UNCHANGED running

\* A run whose lease lapsed renews it before another run asks.
Regain(r) == /\ r \in running
             /\ leased = {}
             /\ leased' = {r}
             /\ UNCHANGED running

Leave(r) == /\ r \in running
            /\ running' = running \ {r}
            /\ leased' = leased \ {r}

Next == \E r \in Runs : Enter(r) \/ EnterBlind(r) \/ Lapse(r) \/ Regain(r) \/ Leave(r)

Spec == Init /\ [][Next]_vars
=============================================================================
