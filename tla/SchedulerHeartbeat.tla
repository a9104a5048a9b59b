------------------------- MODULE SchedulerHeartbeat -------------------------
(***************************************************************************)
(* The campaign scheduler under its lease: the two nested loops of         *)
(* campaign_scheduler.py (main over campaigns, process_campaign over due   *)
(* leads), the calls and the sleep of every send and the renewal every     *)
(* fifth lead, composed with JobLock.  It asks whether the loop renews     *)
(* often enough for the lease never to run out under a live run.           *)
(*                                                                         *)
(* A lead takes its sleep (MIN_SEND_DELAY to MAX_SEND_DELAY) and its SMTP  *)
(* and HTTP calls, of which the SMTP calls have no timeout: any time at    *)
(* all.  Its share of the lease is TTL / RenewEvery, 180 s, which is       *)
(* MAX_SEND_DELAY itself; a run is slow once a lead has taken more than    *)
(* that.  The database is up (JobLock covers outages) and a process may be *)
(* killed at any point.                                                    *)
(***************************************************************************)
EXTENDS JobLock

CONSTANTS
  Campaigns,    \* active campaigns, processed one after the other
  DueLeads,     \* due leads of each
  RenewEvery,   \* the 5 of "idx > 0 and idx % 5 == 0"
  Share,        \* a lead's share of the lease, in ticks
  MaxLead       \* bound on the time of a lead

ASSUME SchedulerHeartbeatAssumption ==
  /\ Campaigns \in Nat
  /\ DueLeads \in Nat
  /\ RenewEvery \in Nat \ {0}
  /\ Share \in Nat
  /\ RenewEvery * Share <= TTL
  /\ MaxLead \in Nat

VARIABLES
  camp,       \* campaigns a run has finished
  idx,        \* the loop index over the due leads of the current one
  renewed,    \* this index has passed the renewal
  asleep,     \* ticks left of the calls and the sleep of the lead at idx - 1
  since,      \* history: leads since the run's last lease call
  slow,       \* history: a lead of this run took more than its share
  behind      \* history: more than RenewEvery leads passed without a lease call

history == <<since, slow, behind>>
loopVars == <<camp, idx, renewed, asleep, history>>
hbVars == <<vars, loopVars>>

LoopInit ==
  /\ camp = [r \in Runs |-> 0]
  /\ idx = [r \in Runs |-> 0]
  /\ renewed = [r \in Runs |-> FALSE]
  /\ asleep = [r \in Runs |-> 0]
  /\ since = [r \in Runs |-> 0]
  /\ slow = [r \in Runs |-> FALSE]
  /\ behind = [r \in Runs |-> FALSE]

\* Mutant: the first stretch gets no renewal.
RenewalFromTwo(i) == i > RenewEvery /\ i % RenewEvery = 0

RenewalDue(i) == i > 0 /\ i % RenewEvery = 0

\* The run is in the loop body and its last send is over.
Ready(r) == pc[r] = "working" /\ asleep[r] = 0

Enter(r) ==
  /\ Start(r)
  /\ camp' = [camp EXCEPT ![r] = 0]
  /\ idx' = [idx EXCEPT ![r] = 0]
  /\ renewed' = [renewed EXCEPT ![r] = FALSE]
  /\ since' = [since EXCEPT ![r] = 0]
  /\ slow' = [slow EXCEPT ![r] = FALSE]
  /\ behind' = [behind EXCEPT ![r] = FALSE]
  /\ UNCHANGED asleep

Renew(r) ==
  /\ Ready(r)
  /\ idx[r] < DueLeads
  /\ RenewalDue(idx[r]) /\ ~renewed[r]
  /\ Heartbeat(r)
  /\ renewed' = [renewed EXCEPT ![r] = TRUE]
  /\ since' = [since EXCEPT ![r] = 0]
  /\ UNCHANGED <<camp, idx, asleep, slow, behind>>

\* process_lead, with the queries that come before the first lead.  A call
\* may take longer than the lease.
ProcessLead(r) ==
  /\ Ready(r)
  /\ camp[r] < Campaigns /\ idx[r] < DueLeads
  /\ RenewalDue(idx[r]) => renewed[r]
  /\ idx' = [idx EXCEPT ![r] = @ + 1]
  /\ renewed' = [renewed EXCEPT ![r] = FALSE]
  /\ since' = [since EXCEPT ![r] = @ + 1]
  /\ behind' = [behind EXCEPT ![r] = @ \/ since[r] + 1 > RenewEvery]
  /\ \E d \in 0..MaxLead :
       /\ asleep' = [asleep EXCEPT ![r] = d]
       /\ slow' = [slow EXCEPT ![r] = @ \/ d > Share]
  /\ UNCHANGED <<vars, camp>>

\* The next campaign starts again at index 0.
NextCampaign(r) ==
  /\ Ready(r)
  /\ camp[r] < Campaigns /\ idx[r] = DueLeads
  /\ camp' = [camp EXCEPT ![r] = @ + 1]
  /\ idx' = [idx EXCEPT ![r] = 0]
  /\ UNCHANGED <<vars, renewed, asleep, history>>

Leave(r) ==
  /\ Ready(r)
  /\ camp[r] = Campaigns
  /\ Finish(r)
  /\ UNCHANGED loopVars

\* Time passes while every run is in a lead: what comes between two leads
\* counts to the next one.
Sleep ==
  /\ \A r \in Working : asleep[r] > 0
  /\ Tick
  /\ asleep' = [r \in Runs |-> IF asleep[r] > 0 THEN asleep[r] - 1 ELSE 0]
  /\ UNCHANGED <<camp, idx, renewed, history>>

Launch(p) == Boot(p) /\ UNCHANGED loopVars

\* The process is killed; its sleep ends with it.
Kill(p) ==
  /\ Crash(p)
  /\ asleep' = [r \in Runs |-> IF Host[r] = p THEN 0 ELSE asleep[r]]
  /\ UNCHANGED <<camp, idx, renewed, history>>

HbInit == Init /\ LoopInit

HbNext ==
  \/ \E p \in Procs : Launch(p) \/ Kill(p)
  \/ \E r \in Runs : Enter(r) \/ Renew(r) \/ ProcessLead(r) \/ NextCampaign(r) \/ Leave(r)
  \/ Sleep

HbSpec == HbInit /\ [][HbNext]_hbVars

\* A run goes on, time passes, and launchd starts processes and jobs.
HbFairness ==
  /\ WF_hbVars(Sleep)
  /\ \A r \in Runs : /\ WF_hbVars(Enter(r))
                     /\ WF_hbVars(Renew(r) \/ ProcessLead(r) \/ NextCampaign(r) \/ Leave(r))
  /\ \A p \in Procs : WF_hbVars(Launch(p))

HbFairSpec == HbSpec /\ HbFairness

-----------------------------------------------------------------------------
\* Two runs at once need a run that was late for its renewal: a lead beyond
\* its share, or a stretch of more than RenewEvery leads without a call.
OverlapNeedsLateRun ==
  \A r, s \in Working :
     r = s \/ slow[r] \/ behind[r] \/ slow[s] \/ behind[s]

\* Within one campaign the renewal every fifth lead leaves no such stretch:
\* only a lead beyond its share makes two runs of one.
OverlapNeedsSlowLead ==
  Campaigns <= 1 => \A r, s \in Working : r = s \/ slow[r] \/ slow[s]
=============================================================================
