------------------------------ MODULE JobLock ------------------------------
(***************************************************************************)
(* The lease that keeps a scheduled job single: utils/job_lock.py and the  *)
(* two SQL functions it calls (critical5_critical6_migration.sql, C5.5).   *)
(*                                                                         *)
(* One job_key is modelled; the rows of different jobs never meet.  An     *)
(* OS process has one owner id (job_lock.py:52) however many runs it       *)
(* hosts: a cron or launchd process hosts one, the API process runs the    *)
(* worker endpoints on a pool of two threads (api/main.py:97).             *)
(*                                                                         *)
(* Time is counted in ticks.  The row's expires_at is kept as the time     *)
(* `spent` since it was last taken or extended: expires_at < now is        *)
(* spent > TTL.  Both clocks stop one past TTL, where nothing changes any  *)
(* more.                                                                   *)
(***************************************************************************)
EXTENDS Naturals

CONSTANTS
  Procs,      \* operating system processes, the owners of leases
  Runs,       \* runs of the job
  Host,       \* the process a run executes in
  NoOwner,    \* there is no lease row
  TTL,        \* JOB_LOCK_TTL_SECONDS, in ticks
  Outages     \* may calls to the database fail?

ASSUME JobLockAssumption ==
  /\ Host \in [Runs -> Procs]
  /\ NoOwner \notin Procs
  /\ TTL \in Nat \ {0}
  /\ Outages \in BOOLEAN

VARIABLES
  alive,      \* is the process up?
  pc,         \* "idle", or "working": inside "with job_lock(...) as acquired"
  granted,    \* the run's last answered lease call said yes
  age,        \* time since that answer
  holder,     \* job_locks.owner, NoOwner when there is no row
  spent       \* time since the row's expires_at was last written

lease == <<holder, spent>>
vars == <<alive, pc, granted, age, holder, spent>>

Working == {r \in Runs : pc[r] = "working"}

Init ==
  /\ alive = [p \in Procs |-> FALSE]
  /\ pc = [r \in Runs |-> "idle"]
  /\ granted = [r \in Runs |-> FALSE]
  /\ age = [r \in Runs |-> 0]
  /\ holder = NoOwner
  /\ spent = 0

-----------------------------------------------------------------------------
(* The SQL functions.                                                      *)

\* Mutants: a row is taken however fresh it is; expired rows are not taken.
ObtainableFresh(p) == TRUE
ObtainableNeverStolen(p) == holder = NoOwner \/ holder = p

\* try_acquire_job_lock inserts the row, steals an expired one or extends
\* the caller's own; in every other case the caller does not own it.
Obtainable(p) == holder = NoOwner \/ spent > TTL \/ holder = p

\* Mutant: the owner of a row it already holds does not get a new expiry.
TakeLeaseOnce(p) ==
  IF Obtainable(p) THEN holder' = p /\ spent' = IF holder = p THEN spent ELSE 0
                   ELSE UNCHANGED lease

\* What the function leaves in the table.
TakeLease(p) ==
  IF Obtainable(p) THEN holder' = p /\ spent' = 0
                   ELSE UNCHANGED lease

\* Mutant: whoever releases deletes the row.
DropAnyLease(p) == holder' = NoOwner /\ spent' = 0

\* release_job_lock deletes the row only when the caller owns it.
DropLease(p) ==
  /\ holder' = IF holder = p THEN NoOwner ELSE holder
  /\ spent' = IF holder = p THEN 0 ELSE spent

-----------------------------------------------------------------------------
(* A process starts with a fresh owner id.  The model reuses a name once   *)
(* no row carries it.                                                      *)
Boot(p) ==
  /\ ~alive[p]
  /\ holder # p
  /\ alive' = [alive EXCEPT ![p] = TRUE]
  /\ UNCHANGED <<pc, granted, age, lease>>

\* try_acquire answered TRUE.  A refused run changes nothing and returns.
Start(r) ==
  /\ alive[Host[r]]
  /\ pc[r] = "idle"
  /\ Obtainable(Host[r])
  /\ TakeLease(Host[r])
  /\ pc' = [pc EXCEPT ![r] = "working"]
  /\ granted' = [granted EXCEPT ![r] = TRUE]
  /\ age' = [age EXCEPT ![r] = 0]
  /\ UNCHANGED alive

\* The call raised: no client, no function, or an answer lost after the
\* commit.  try_acquire fails open and the run starts all the same.
StartBlind(r) ==
  /\ Outages
  /\ alive[Host[r]]
  /\ pc[r] = "idle"
  /\ TakeLease(Host[r]) \/ UNCHANGED lease
  /\ pc' = [pc EXCEPT ![r] = "working"]
  /\ granted' = [granted EXCEPT ![r] = FALSE]
  /\ age' = [age EXCEPT ![r] = 0]
  /\ UNCHANGED alive

\* renew is a second try_acquire, and the scheduler drops its answer: a run
\* that has lost the lease goes on.
Heartbeat(r) ==
  /\ pc[r] = "working"
  /\ TakeLease(Host[r])
  /\ granted' = [granted EXCEPT ![r] = Obtainable(Host[r])]
  /\ age' = [age EXCEPT ![r] = 0]
  /\ UNCHANGED <<alive, pc>>

\* The renewal raised, before or after its commit.
HeartbeatBlind(r) ==
  /\ Outages
  /\ pc[r] = "working"
  /\ TakeLease(Host[r]) \/ UNCHANGED lease
  /\ UNCHANGED <<alive, pc, granted, age>>

\* The end of the with-block: every run that got in releases.
Finish(r) ==
  /\ pc[r] = "working"
  /\ DropLease(Host[r]) \/ (Outages /\ UNCHANGED lease)
  /\ pc' = [pc EXCEPT ![r] = "idle"]
  /\ granted' = [granted EXCEPT ![r] = FALSE]
  /\ age' = [age EXCEPT ![r] = 0]
  /\ UNCHANGED alive

\* A process is killed, or exits: its runs are gone, its row stays.
Crash(p) ==
  /\ alive[p]
  /\ alive' = [alive EXCEPT ![p] = FALSE]
  /\ pc' = [r \in Runs |-> IF Host[r] = p THEN "idle" ELSE pc[r]]
  /\ granted' = [r \in Runs |-> IF Host[r] = p THEN FALSE ELSE granted[r]]
  /\ age' = [r \in Runs |-> IF Host[r] = p THEN 0 ELSE age[r]]
  /\ UNCHANGED lease

Older(t) == IF t > TTL THEN t ELSE t + 1

\* Nothing bounds how long a run goes between two lease calls: an SMTP call
\* has no timeout.
Tick ==
  /\ spent' = IF holder = NoOwner THEN 0 ELSE Older(spent)
  /\ age' = [r \in Runs |-> IF pc[r] = "working" THEN Older(age[r]) ELSE 0]
  /\ UNCHANGED <<alive, pc, granted, holder>>

Next ==
  \/ \E p \in Procs : Boot(p) \/ Crash(p)
  \/ \E r \in Runs : \/ Start(r)
                     \/ StartBlind(r)
                     \/ Heartbeat(r)
                     \/ HeartbeatBlind(r)
                     \/ Finish(r)
  \/ Tick

Spec == Init /\ [][Next]_vars

-----------------------------------------------------------------------------
TypeOK ==
  /\ alive \in [Procs -> BOOLEAN]
  /\ pc \in [Runs -> {"idle", "working"}]
  /\ granted \in [Runs -> BOOLEAN]
  /\ age \in [Runs -> 0..(TTL + 1)]
  /\ holder \in Procs \cup {NoOwner}
  /\ spent \in 0..(TTL + 1)

\* A run that was told yes no longer than TTL ago.
Covered(r) == r \in Working /\ granted[r] /\ age[r] <= TTL

\* The row still backs every run that believes in it: whatever the other
\* processes do (steal, fail open, release, die), a yes is good for TTL.
LeaseBacksCoveredRun ==
  \A r \in Runs : Covered(r) => holder = Host[r] /\ spent <= age[r]

\* Two runs that both hold an unexpired yes are the same run.
CoveredRunsExclude ==
  \A r, s \in Runs : Covered(r) /\ Covered(s) => r = s

\* job_lock.py:9 "guarantees only ONE run of a given job executes at a time".
OneRunPerJob == \A r, s \in Working : r = s

\* A live lease leaves its process only when a run of that very process
\* ends: nobody else's release, renewal or failed-open start takes it.
LiveLeaseIsKept ==
  [][\A p \in Procs :
        holder = p /\ spent <= TTL /\ holder' # p
          => \E r \in Runs : Host[r] = p /\ pc[r] = "working" /\ pc'[r] = "idle"]_vars

\* The lease implements what it promises its callers, however long a run
\* takes and whatever fails: nobody is told yes beside a run that was told
\* yes no longer than TTL ago.
Promise == INSTANCE SingleRunner WITH
             running <- Working, leased <- {r \in Working : Covered(r)}
ImplementsSingleRunner == Promise!Spec

\* The row a dead process left behind does not stop the job: when processes
\* no longer die, the job runs again and again.
CrashesCease == <>[][\A p \in Procs : ~Crash(p)]_vars
JobKeepsRunning == CrashesCease => []<>(Working # {})
=============================================================================
