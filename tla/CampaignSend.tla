---------------------------- MODULE CampaignSend ----------------------------
(***************************************************************************)
(* One campaign of campaign_scheduler.py: runs that snapshot the due       *)
(* leads, screen each one, claim it, mail it and advance it, against       *)
(* everything else that writes the same rows: the reaper of stranded       *)
(* sends, opt-outs, hard bounces, routed replies and the operator.         *)
(*                                                                         *)
(* A run is a sequence of separate database calls and one SMTP call, each  *)
(* an action here; between two of them any other action may happen.  The   *)
(* job lock is abstracted to Overlap (JobLock says when runs overlap).     *)
(* Text, inbox choice, the funnel stage and leads.status are left out: the *)
(* scheduler never reads them back to decide on a send.  So are two checks *)
(* of process_lead that never hold.  The one for stop_on_reply looks for a *)
(* reply_inbox row of this campaign, and no writer of reply_inbox fills in *)
(* campaign_id; the one for the company filters on a column email_events   *)
(* does not have, and the error is swallowed.                              *)
(***************************************************************************)
EXTENDS Naturals, FiniteSets

CONSTANTS
  Runs,          \* scheduler runs
  Leads,         \* the campaign's leads
  NSteps,        \* length of the sequence
  Conditional,   \* steps with a condition_type other than "always"
  SkipTo,        \* condition_skip_to of each step, 0 for none
  Company,       \* the mail domain of each lead
  DailyLimit,    \* campaigns.daily_limit
  Threshold,     \* campaigns.bounce_threshold, in percent
  Overlap,       \* may two runs be inside main() at the same time?
  Events,        \* which writers outside the scheduler are active
  MaxFaults,     \* bound: crashes and lost answers
  MaxHangs,      \* bound: SMTP calls that outlast the reaper's patience
  MaxRefusals    \* bound: SMTP refusals logged as "bounced"

Steps == 1..NSteps

ASSUME CampaignSendAssumption ==
  /\ IsFiniteSet(Leads) /\ NSteps \in Nat \ {0}
  /\ Conditional \subseteq Steps
  /\ SkipTo \in [Steps -> 0..(NSteps + 1)]
  /\ DailyLimit \in Nat /\ Threshold \in Nat
  /\ Overlap \in BOOLEAN
  /\ Leads \subseteq DOMAIN Company
  /\ Events \subseteq {"optout", "lift", "bounce", "stop", "postpone", "pause"}
  /\ MaxFaults \in Nat /\ MaxHangs \in Nat /\ MaxRefusals \in Nat

VARIABLES
  \* campaign_leads
  status,        \* "active", "sending", "completed", "bounced", "unsubscribed"
  step,          \* current_step
  due,           \* next_send_at <= now
  aged,          \* status_changed_at is older than REAP_STRANDED_MINUTES
  \* the other tables
  campaign,      \* campaigns.status
  suppressed,    \* addresses with a row in suppression_list
  bounced,       \* addresses with a hard row in bounce_log
  sentLog,       \* email_events 'sent' rows, <<lead, step>>: unique by index
  sentToday,     \* those of them with today's timestamp
  refusals,      \* email_events 'bounced' rows of this campaign
  \* the runs
  pc, todo, cur, room, sentAny,
  \* the world
  mailed,        \* mailed[l][k]: messages that left for l at step k
  today,         \* messages that left today
  faults,        \* crashes and lost answers so far
  hangs          \* claims that aged under a live run so far

row == <<status, step, due, aged>>
tables == <<campaign, suppressed, bounced, sentLog, sentToday, refusals>>
local == <<pc, todo, cur, room, sentAny>>
world == <<mailed, today>>
bad == <<faults, hangs>>
vars == <<row, tables, local, world, bad>>

NoLead == <<>>

Init ==
  /\ status = [l \in Leads |-> "active"]
  /\ step = [l \in Leads |-> 1]
  /\ due = [l \in Leads |-> TRUE]
  /\ aged = [l \in Leads |-> FALSE]
  /\ campaign = "active"
  /\ suppressed = {} /\ bounced = {}
  /\ sentLog = {} /\ sentToday = {} /\ refusals = 0
  /\ pc = [r \in Runs |-> "idle"]
  /\ todo = [r \in Runs |-> {}]
  /\ cur = [r \in Runs |-> NoLead]
  /\ room = [r \in Runs |-> 0]
  /\ sentAny = [r \in Runs |-> FALSE]
  /\ mailed = [l \in Leads |-> [k \in Steps |-> 0]]
  /\ today = 0
  /\ faults = 0 /\ hangs = 0

-----------------------------------------------------------------------------
(* Helpers.                                                                *)

Goto(r, label) == pc' = [pc EXCEPT ![r] = label]

\* Every writer of status that also writes status_changed_at.
SetStatus(l, s) == /\ status' = [status EXCEPT ![l] = s]
                   /\ aged' = [aged EXCEPT ![l] = FALSE]

\* mark_campaign_lead and its like: an unconditional write of one column.
Mark(l, s) == /\ status' = [status EXCEPT ![l] = s]
              /\ UNCHANGED <<step, due, aged>>

\* update({"status": s}).eq("lead_id", l).in_("status", ["active", "pending"])
MarkOpen(l, s) == Mark(l, IF status[l] = "active" THEN s ELSE status[l])

Fault == /\ faults < MaxFaults
         /\ faults' = faults + 1
         /\ UNCHANGED hangs

\* is_suppressed compares the address and the domain column, and every
\* writer of suppression_list fills in the domain.
IsSuppressed(l) == \E m \in suppressed : m = l \/ Company[m] = Company[l]

IsHardBounced(l) == l \in bounced

\* A claimed lead is in the hands of r.
InFlight(r) == pc[r] \in {"smtp", "revert", "log", "advance"}
CurLead(r) == cur[r][1]
CurStep(r) == cur[r][2]

\* Mutant: the quota starts afresh with every run.
QuotaPerRun == DailyLimit

\* remaining_today, with daily_limit reached as 0.
Quota == IF Cardinality(sentToday) >= DailyLimit THEN 0
                                                 ELSE DailyLimit - Cardinality(sentToday)

\* Mutant: current_step is not read, and defaults to 1.
DueFromStart == {<<l, 1>> : l \in {m \in Leads : status[m] = "active" /\ due[m]}}

\* load_due_campaign_leads, with the step each row has now.
DueRows == {<<l, step[l]>> : l \in {m \in Leads : status[m] = "active" /\ due[m]}}

\* calculate_bounce_rate > bounce_threshold, both from email_events.
OverThreshold ==
  /\ sentLog # {}
  /\ refusals * 100 > Threshold * Cardinality(sentLog)

-----------------------------------------------------------------------------
(* A run.                                                                  *)

\* main: the lock is taken and load_active_campaigns returns the campaign.
Begin(r) ==
  /\ pc[r] = "idle"
  /\ Overlap \/ \A s \in Runs : pc[s] = "idle"
  /\ campaign = "active"
  /\ Goto(r, "begun")
  /\ UNCHANGED <<row, tables, todo, cur, room, sentAny, world, bad>>

\* The head of process_campaign: the quota and the due leads are read once.
Load(r) ==
  /\ pc[r] = "begun"
  /\ room' = [room EXCEPT ![r] = Quota]
  /\ todo' = [todo EXCEPT ![r] = DueRows]
  /\ sentAny' = [sentAny EXCEPT ![r] = FALSE]
  /\ Goto(r, "loop")
  /\ UNCHANGED <<row, tables, cur, world, bad>>

\* The loop takes the next lead of the snapshot, with the step it had then.
Take(r, l, k) ==
  /\ pc[r] = "loop" /\ room[r] > 0
  /\ <<l, k>> \in todo[r]
  /\ todo' = [todo EXCEPT ![r] = @ \ {<<l, k>>}]

\* Outside the recipient's office hours: next_send_at is put off.
Defer(r, l, k) ==
  /\ Take(r, l, k)
  /\ due' = [due EXCEPT ![l] = FALSE]
  /\ UNCHANGED <<status, step, aged, tables, pc, cur, room, sentAny, world, bad>>

StopSuppressed(r, l, k) ==
  /\ Take(r, l, k)
  /\ IsSuppressed(l)
  /\ Mark(l, "unsubscribed")
  /\ UNCHANGED <<tables, pc, cur, room, sentAny, world, bad>>

\* A condition that skipped past the last step leaves no rows for it.
StopExhausted(r, l, k) ==
  /\ Take(r, l, k)
  /\ ~IsSuppressed(l) /\ k > NSteps
  /\ Mark(l, "completed")
  /\ UNCHANGED <<tables, pc, cur, room, sentAny, world, bad>>

\* check_step_condition fails; whether it does depends on opens and clicks.
\* The jump goes through update_campaign_lead_after_send, which writes the
\* row whatever it holds.  _next_send_at(0, ...) is the opening of today's
\* window plus up to an hour: due now, or later today.
SkipStep(r, l, k) ==
  /\ Take(r, l, k)
  /\ ~IsSuppressed(l) /\ k \in Conditional
  /\ IF SkipTo[k] # 0
       THEN /\ SetStatus(l, "active")
            /\ step' = [step EXCEPT ![l] = SkipTo[k]]
            /\ \E d \in BOOLEAN : due' = [due EXCEPT ![l] = d]
       ELSE Mark(l, "completed")
  /\ UNCHANGED <<tables, pc, cur, room, sentAny, world, bad>>

\* The cross-campaign filter, no inbox, no password, empty text, the hourly
\* cap or a query that raises: try again next run.
PassOver(r, l, k) ==
  /\ Take(r, l, k)
  /\ UNCHANGED <<row, tables, pc, cur, room, sentAny, world, bad>>

StopBounced(r, l, k) ==
  /\ Take(r, l, k)
  /\ ~IsSuppressed(l) /\ k <= NSteps /\ IsHardBounced(l)
  /\ Mark(l, "bounced")
  /\ UNCHANGED <<tables, pc, cur, room, sentAny, world, bad>>

\* is_email_hard_bounced takes a failure for a no, so that a bounced lead may
\* pass as well; like the queries of PassOver that raise, it is not counted.
Select(r, l, k) ==
  /\ Take(r, l, k)
  /\ ~IsSuppressed(l) /\ k <= NSteps
  /\ cur' = [cur EXCEPT ![r] = <<l, k>>]
  /\ Goto(r, "claim")
  /\ UNCHANGED <<row, tables, room, sentAny, world, bad>>

\* Mutant: the claim does not ask for status = 'active'.
ClaimAnyway(r) ==
  /\ pc[r] = "claim"
  /\ SetStatus(CurLead(r), "sending") /\ Goto(r, "smtp")
  /\ UNCHANGED <<step, due, tables, todo, cur, room, sentAny, world, bad>>

\* update({"status": "sending"}).eq("id", l).eq("status", "active"): the
\* loser of a race gets no row back and skips the lead.
Claim(r) ==
  LET l == CurLead(r) IN
  /\ pc[r] = "claim"
  /\ IF status[l] = "active"
       THEN SetStatus(l, "sending") /\ Goto(r, "smtp") /\ UNCHANGED <<step, due>>
       ELSE Goto(r, "loop") /\ UNCHANGED row
  /\ UNCHANGED <<tables, todo, cur, room, sentAny, world, bad>>

\* The claim was committed and its answer lost: the lead is skipped.
ClaimLost(r) ==
  LET l == CurLead(r) IN
  /\ pc[r] = "claim" /\ status[l] = "active"
  /\ Fault
  /\ SetStatus(l, "sending") /\ UNCHANGED <<step, due>>
  /\ Goto(r, "loop")
  /\ UNCHANGED <<tables, todo, cur, room, sentAny, world>>

\* The message leaves for the lead's mailbox.
MailLeaves(l, k) ==
  /\ mailed' = [mailed EXCEPT ![l][k] = @ + 1]
  /\ today' = today + 1

Send(r) ==
  /\ pc[r] = "smtp"
  /\ MailLeaves(CurLead(r), CurStep(r))
  /\ Goto(r, "log")
  /\ UNCHANGED <<row, tables, todo, cur, room, sentAny, bad>>

\* log_email_event "bounced"; an insert that fails is swallowed.
LogRefusal(r) ==
  /\ \/ refusals < MaxRefusals /\ refusals' = refusals + 1
     \/ UNCHANGED refusals
  /\ Goto(r, "revert")
  /\ UNCHANGED <<row, campaign, suppressed, bounced, sentLog, sentToday,
                 todo, cur, room, sentAny>>

\* SMTP raises before the message is accepted: logged as "bounced".
SendRefused(r) ==
  /\ pc[r] = "smtp"
  /\ LogRefusal(r)
  /\ UNCHANGED <<world, bad>>

\* SMTP raises after the message is accepted (the answer to QUIT is bad).
SendUnsure(r) ==
  /\ pc[r] = "smtp"
  /\ Fault
  /\ MailLeaves(CurLead(r), CurStep(r))
  /\ LogRefusal(r)

\* The claim is released, if it still stands.
Revert(r) ==
  LET l == CurLead(r) IN
  /\ pc[r] = "revert"
  /\ IF status[l] = "sending"
       THEN SetStatus(l, "active") /\ UNCHANGED <<step, due>>
       ELSE UNCHANGED row
  /\ Goto(r, "loop")
  /\ UNCHANGED <<tables, todo, cur, room, sentAny, world, bad>>

\* The release failed and the error is swallowed: the lead is stranded.
RevertLost(r) ==
  /\ pc[r] = "revert"
  /\ Fault
  /\ Goto(r, "loop")
  /\ UNCHANGED <<row, tables, todo, cur, room, sentAny, world>>

\* log_email_event: a second 'sent' row for the step breaks the unique
\* index, and the error is swallowed.
LogSent(r) ==
  /\ pc[r] = "log"
  /\ sentLog' = sentLog \cup {cur[r]}
  /\ sentToday' = IF cur[r] \in sentLog THEN sentToday ELSE sentToday \cup {cur[r]}
  /\ Goto(r, "advance")
  /\ UNCHANGED <<row, campaign, suppressed, bounced, refusals,
                 todo, cur, room, sentAny, world, bad>>

\* The insert failed for another reason; the run goes on.
LogLost(r) ==
  /\ pc[r] = "log"
  /\ Fault
  /\ Goto(r, "advance")
  /\ UNCHANGED <<row, tables, todo, cur, room, sentAny, world>>

CountSend(r) ==
  /\ room' = [room EXCEPT ![r] = @ - 1]
  /\ sentAny' = [sentAny EXCEPT ![r] = TRUE]

\* Mutant: the step mailed is written back.
NextStepSame(r) == CurStep(r)

\* Mutant: the row's step is increased, instead of the snapshot's.
NextStepOfRow(r) == IF step[CurLead(r)] > NSteps THEN NSteps + 1 ELSE step[CurLead(r)] + 1

NextStep(r) == CurStep(r) + 1

\* update_campaign_lead_after_send, whatever the row holds by now.  The
\* next step is due in wait_days, at least a day.
Advance(r) ==
  LET l == CurLead(r)
      last == CurStep(r) = NSteps
  IN
  /\ pc[r] = "advance"
  /\ SetStatus(l, IF last THEN "completed" ELSE "active")
  /\ step' = [step EXCEPT ![l] = NextStep(r)]
  /\ due' = [due EXCEPT ![l] = last]
  /\ CountSend(r)
  /\ Goto(r, "loop")
  /\ UNCHANGED <<tables, todo, cur, world, bad>>

\* The update failed; the error is logged and the send counts.
AdvanceLost(r) ==
  /\ pc[r] = "advance"
  /\ Fault
  /\ CountSend(r)
  /\ Goto(r, "loop")
  /\ UNCHANGED <<row, tables, todo, cur, world>>

\* The loop is over: the bounce check, then the lock is released.
Close(r) ==
  /\ pc[r] = "loop" /\ (todo[r] = {} \/ room[r] = 0)
  /\ campaign' = IF sentAny[r] /\ OverThreshold THEN "paused" ELSE campaign
  /\ todo' = [todo EXCEPT ![r] = {}]
  /\ Goto(r, "idle")
  /\ UNCHANGED <<row, suppressed, bounced, sentLog, sentToday, refusals,
                 cur, room, sentAny, world, bad>>

\* The process is killed.
Crash(r) ==
  /\ pc[r] # "idle"
  /\ Fault
  /\ todo' = [todo EXCEPT ![r] = {}]
  /\ Goto(r, "idle")
  /\ UNCHANGED <<row, tables, cur, room, sentAny, world>>

-----------------------------------------------------------------------------
(* The reaper and the clock.                                               *)

\* Thirty minutes pass over a lead in 'sending'.  While a live run is still
\* mailing it that takes a hung SMTP call: send_campaign_email sets no
\* timeout.
Age(l) ==
  /\ status[l] = "sending" /\ ~aged[l]
  /\ aged' = [aged EXCEPT ![l] = TRUE]
  /\ IF \E r \in Runs : InFlight(r) /\ CurLead(r) = l
       THEN hangs < MaxHangs /\ hangs' = hangs + 1
       ELSE UNCHANGED hangs
  /\ UNCHANGED faults
  /\ UNCHANGED <<status, step, due, tables, local, world>>

\* Mutant: the age is compared the wrong way round.
StrandedLately == {l \in Leads : status[l] = "sending" /\ ~aged[l]}

\* reap_stranded_sends.reap: one conditional UPDATE over the table.
Stranded == {l \in Leads : status[l] = "sending" /\ aged[l]}

Reap ==
  /\ Stranded # {}
  /\ status' = [l \in Leads |-> IF l \in Stranded THEN "active" ELSE status[l]]
  /\ aged' = [l \in Leads |-> IF l \in Stranded THEN FALSE ELSE aged[l]]
  /\ UNCHANGED <<step, due, tables, local, world, bad>>

\* Days pass until every row is due.  A run of the evening may go on.
NextDay ==
  /\ due' = [l \in Leads |-> TRUE]
  /\ sentToday' = {}
  /\ today' = 0
  /\ UNCHANGED <<status, step, aged, campaign, suppressed, bounced, sentLog,
                 refusals, local, mailed, bad>>

-----------------------------------------------------------------------------
(* The other writers.                                                      *)

\* suppress_and_cancel: the opt-out link, or a reply that says stop.
OptOut(l) ==
  /\ "optout" \in Events
  /\ suppressed' = suppressed \cup {l}
  /\ MarkOpen(l, "unsubscribed")
  /\ UNCHANGED <<campaign, bounced, sentLog, sentToday, refusals, local, world, bad>>

\* DELETE /suppression/{id}: the address may be mailed again.
LiftSuppression(l) ==
  /\ "lift" \in Events
  /\ l \in suppressed
  /\ suppressed' = suppressed \ {l}
  /\ UNCHANGED <<row, campaign, bounced, sentLog, sentToday, refusals, local, world, bad>>

\* bounce_handler: a hard bounce is logged, then open rows are closed.
HardBounce(l) ==
  /\ "bounce" \in Events
  /\ bounced' = bounced \cup {l}
  /\ MarkOpen(l, "bounced")
  /\ UNCHANGED <<campaign, suppressed, sentLog, sentToday, refusals, local, world, bad>>

\* A reply classified not_interested is routed to stop_sequence ...
StopSequence(l) ==
  /\ "stop" \in Events
  /\ MarkOpen(l, "completed")
  /\ UNCHANGED <<tables, local, world, bad>>

\* ... and out_of_office pushes next_send_at three days ahead. The other classes
\* leave campaign_leads alone.
Postpone(l) ==
  /\ "postpone" \in Events
  /\ due' = [due EXCEPT ![l] = IF status[l] = "active" THEN FALSE ELSE @]
  /\ UNCHANGED <<status, step, aged, tables, local, world, bad>>

\* PATCH /campaigns/{id}/status.
Operate(s) ==
  /\ "pause" \in Events
  /\ campaign' = s
  /\ UNCHANGED <<row, suppressed, bounced, sentLog, sentToday, refusals,
                 local, world, bad>>

-----------------------------------------------------------------------------
Screen(r) ==
  \E l \in Leads, k \in 1..(NSteps + 1) :
    \/ Defer(r, l, k)
    \/ StopSuppressed(r, l, k)
    \/ StopExhausted(r, l, k)
    \/ SkipStep(r, l, k)
    \/ PassOver(r, l, k)
    \/ StopBounced(r, l, k)
    \/ Select(r, l, k)

Deliver(r) ==
  \/ Claim(r) \/ ClaimLost(r)
  \/ Send(r) \/ SendRefused(r) \/ SendUnsure(r)
  \/ Revert(r) \/ RevertLost(r)
  \/ LogSent(r) \/ LogLost(r)
  \/ Advance(r) \/ AdvanceLost(r)

Scheduler(r) == Begin(r) \/ Load(r) \/ Screen(r) \/ Deliver(r) \/ Close(r) \/ Crash(r)

Outside(l) ==
  \/ OptOut(l) \/ LiftSuppression(l) \/ HardBounce(l)
  \/ StopSequence(l) \/ Postpone(l)

Next ==
  \/ \E r \in Runs : Scheduler(r)
  \/ \E l \in Leads : Age(l) \/ Outside(l)
  \/ Reap
  \/ NextDay
  \/ \E s \in {"active", "paused"} : Operate(s)

Spec == Init /\ [][Next]_vars

\* A started run goes on unless it is killed, and launchd starts the reaper
\* again and again (install_launchd.sh).
RunStep(r) == Load(r) \/ Screen(r) \/ Deliver(r) \/ Close(r)

Fairness ==
  /\ \A r \in Runs : WF_vars(RunStep(r))
  /\ \A l \in Leads : WF_vars(Age(l))
  /\ WF_vars(Reap)

FairSpec == Spec /\ Fairness

-----------------------------------------------------------------------------
Closed == {"completed", "bounced", "unsubscribed"}
Labels == {"idle", "begun", "loop", "claim", "smtp", "revert", "log", "advance"}

RowsOK ==
  /\ status \in [Leads -> {"active", "sending"} \cup Closed]
  /\ step \in [Leads -> 1..(NSteps + 1)]
  /\ due \in [Leads -> BOOLEAN] /\ aged \in [Leads -> BOOLEAN]

TablesOK ==
  /\ campaign \in {"active", "paused"}
  /\ suppressed \subseteq Leads /\ bounced \subseteq Leads
  /\ sentToday \subseteq sentLog /\ sentLog \subseteq Leads \X Steps
  /\ refusals \in 0..MaxRefusals

RunsOK ==
  /\ pc \in [Runs -> Labels]
  /\ todo \in [Runs -> SUBSET (Leads \X (1..(NSteps + 1)))]
  /\ cur \in [Runs -> (Leads \X Steps) \cup {NoLead}]
  /\ room \in [Runs -> 0..DailyLimit] /\ sentAny \in [Runs -> BOOLEAN]

WorldOK ==
  /\ mailed \in [Leads -> [Steps -> Nat]]
  /\ today \in Nat
  /\ faults \in 0..MaxFaults /\ hangs \in 0..MaxHangs

TypeOK == RowsOK /\ TablesOK /\ RunsOK /\ WorldOK

\* campaign_scheduler.py:967 "Atomic claim": of two overlapping runs only one
\* has a lead in its hands, unless the reaper took it from a run that hung.
ClaimExclusive ==
  hangs = 0 =>
    \A r, s \in Runs : r # s /\ InFlight(r) /\ InFlight(s) => CurLead(r) # CurLead(s)

\* No row moves past a step that was not mailed, whatever crashes, overlaps
\* or is refused; only a condition that jumps over it excuses it.
NoStepLost ==
  \A l \in Leads, k \in Steps :
    k < step[l] => \/ mailed[l][k] > 0
                   \/ \E c \in Conditional : c <= k /\ k < SkipTo[c]

\* The second and every later copy of a step.
ExtraCopies == UNION {{<<l, k>>} \X (2..mailed[l][k]) : l \in Leads, k \in Steps}

\* A single scheduler mails a step twice only after a crash or a lost answer,
\* and each of those costs at most one extra copy; a hung call costs none.
DuplicatesNeedFaults == Cardinality(ExtraCopies) <= faults

\* campaign_scheduler.py:20 "Respect campaign daily_limit": a single scheduler
\* stays below it, but for one message per crash or lost answer.
DailyLimitHeld == today <= DailyLimit + faults

\* A closed row stays closed: nothing a run does on a stale snapshot, and no
\* revert or reap, brings it back.
ClosedStaysClosed ==
  [][\A l \in Leads : hangs = 0 /\ status[l] \in Closed => status'[l] \in Closed]_vars

\* reap_stranded_sends.py: no lead stays in 'sending' for good.
StrandedIsReleased == \A l \in Leads : status[l] = "sending" ~> status[l] # "sending"

\* What a campaign promises its leads, met by a single scheduler that neither
\* crashes nor loses answers.
Sequence == INSTANCE SequenceDelivery WITH mailed <- mailed
ImplementsSequenceDelivery == Sequence!Spec
=============================================================================
