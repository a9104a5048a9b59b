# TLA+ models of Warmr

Warmr warms up mailboxes and sends campaigns of follow-up mails from them.  It
is a set of Python programs (`warmup_engine.py`, `campaign_scheduler.py`,
`imap_processor.py`, ...) that launchd, cron, n8n and the API's worker endpoints
start again and again, next to a FastAPI server.  They have no memory of their
own between runs: all state is in Postgres tables, read and written over
stateless HTTP, one call at a time.  What goes wrong in such a system goes wrong
between two calls: another run, another job, a webhook, a crash or a lost
answer comes in between.  That is what these modules are about.

## 1. Inventory

State is in the tables named; "calls" are the database or network calls of an
operation, in order.

| component | state | operations | hard part | what makes it correct | module |
|---|---|---|---|---|---|
| job lock (`utils/job_lock.py`, C5.5 of `critical5_critical6_migration.sql`) | `job_locks`, owner id of a process | try_acquire, renew, release | expiry, crash, fail-open, two threads with one owner, renewals that come too late | a yes is good for the TTL; two runs need a late renewal; a dead holder does not stop the job | `JobLock`, `SchedulerHeartbeat` |
| campaign scheduler (`campaign_scheduler.py`) | `campaigns`, `campaign_leads`, `email_events`; a snapshot in memory | load due leads, screen, claim, send, log, advance, auto-pause | stale snapshot, crash around SMTP, overlapping runs | each step once and in order, limit held, closed rows stay closed | `CampaignSend` |
| reaper (`reap_stranded_sends.py`) | `campaign_leads.status_changed_at` | revert aged 'sending' rows | hung sends look dead | nothing stays in 'sending' | `CampaignSend` |
| webhook dispatcher (`webhook_dispatcher.py`) | `webhook_events`, `webhook_logs`, `webhooks` | deliver, retry, give up | crash after POST; lost answers | nothing forgotten, attempts bounded | `WebhookDelivery` |
| inbox row: warmup (`warmup_engine.py`, `daily_reset.py`), status (`auto_promote.py`, `diagnostics_engine.py`), reputation, rotator, bounce rate, operator | `inboxes`, `warmup_logs`, `inbox_status_log` | send, count, reset, self-heal; promote, pause, resume; score | ten writers of one row, each on a row read earlier; diagnostics loops that pile up | no count or score lost; pauses last and end; off means off | `Inboxes` |
| funnel (`funnel_engine.py`) and what a send leaves on the lead | `leads.funnel_stage`, `leads.status` | ask for opt-out and bounce, claim, mail; move, progress, nurture, re-engage | asked, claimed and written in different calls; a look-up that fails open | nurture only after the whole sequence; a bound on mails nobody may get | `Funnel` |
| replies (`imap_processor.py`, `utils/events.py`, `utils/event_handlers.py`) | the mailbox, `reply_inbox` | scan, store, publish, route | reading a message marks it, so it has one chance; crash between fetch, store and publish | a reply has its effects, once; a lost one has its failure | `Replies` |
| engagement (`engagement_scorer.py`) | `leads.engagement_score` | add, decay, track | read then write, from five callers | the score is what was earned less what decayed | `Engagement` |
| bounces (`bounce_handler.py`) | `bounce_log`, lead and campaign rows | scan, count strikes, close | the same message at every scan | one bounce is one strike | `Bounces` |
| enrichment (`enrichment_queue.py`) | `enrichment_queue` | enqueue, claim, complete, fail | a dead worker's job, an old claim | a job settles | `Enrichment` |
| ways out and back in (`api/main.py`, `api/public_api.py`) | `suppression_list`, `unsubscribe_tokens`, all tables of a lead | link, list, erasure, import | token first, tombstone last | an opt-out is kept | `Erasure` |
| Claude budget (`utils/cost_tracker.py`) | `api_cost_log` | check, call, log | check then act; two midnights | spending bounded | `Budget` |
| end of a client (`utils/client_deletion.py`, `retention_engine.py`) | all tables of a client | delete table by table, purge by age | foreign keys; mail still running | nothing remains; no opted-out lead mailed | `Accounts` |
| domain monitor (`dns_monitor.py`, API) | `domains`, `blacklist_recoveries` | drift, blacklist, recovery steps, sweep | look up, then write; count, then clear; overlapping monitors | an open recovery is shown; the row follows the world | `Domains` |
| mails by hand (`utils/smtp_retry.py`, API) | `reply_inbox`, the list | answer, preview, retry | acceptance not heard of | copies explained | `Answers` |
| analytics (`analytics_engine.py`, API pages) | `analytics_cache` | count a day, upsert, show | late events, overlapping runs, the window | a counted day is exact | `Analytics` |
| CRM, experiments, placement tests, reports, content, notifier, secrets, frontend, scripts | – | – | – | – | not modelled (section 8) |

Who starts what: `install_launchd.sh` and `crontab_warmr.sh` give every job an
interval (reaper 600 s, scheduler 300 s), n8n posts to `/worker/...`, and the API
runs those on a pool of two threads (`api/main.py:97`).

## 2. How the modules fit

    SingleRunner <= JobLock <- SchedulerHeartbeat
    SequenceDelivery <= CampaignSend
    WebhookDelivery
    Inboxes
    Casting <- LeadTable <- Funnel, Engagement <- Replies <- Erasure
                         <- Bounces, Enrichment           } LeadLife
    Casting <- Budget, Accounts, Domains, Answers, Analytics } ClientLife

`<=` is a refinement checked by TLC and proved (section 6), `<-` is EXTENDS.
The families around one table are composed: `LeadLife` has every writer of one
lead, `ClientLife` what is kept for a client.  Each program's module has its own
variables and its own `...Step`; the composition says what each leaves alone.

Everything at once is out of TLC's reach.  The initial states of `Inboxes`,
`LeadLife` and `ClientLife` therefore choose a **cast**: the set of programs and
disturbances that meet in this behaviour, in `Casting` with the number of times
each disturbance may come (`Event`) and the number of calls that may fail or
processes that may be killed (`Fault`).  A program a cast does not name stays
away.  The casts bring together who writes the same columns; the properties are
invariants of every cast, and the theorems of section 6 hold for any set of casts.

`CampaignSend` takes the lock as a constant (`Overlap`).  Composing it with
`JobLock` instead was considered and left: what decides is
whether the lease holds, which `SchedulerHeartbeat` asks, and the product of the two
state spaces is out of TLC's reach.

A definition that starts with a comment "Mutant" is no part of a model: it is a
plausible bug of the definition after it, kept to see that the properties notice.

## 3. Modules

### JobLock (with SingleRunner, MCJobLock, JobLock_proofs)

One `job_key`.  `holder` and `spent` are the row of `job_locks`: its owner, and
the time since `expires_at` was last written, so `expires_at < now()` is `spent >
TTL`.  A process has one owner id however many runs it hosts (`Host`).  `pc`,
`granted` and `age` are the run: inside the with-block or not, the last answer
it got, and how long ago.

| action | code |
|---|---|
| `Boot`, `Crash` | a process starts with a new `_OWNER`; it is killed or exits, its row stays |
| `Start` / `StartBlind` | `try_acquire` answered TRUE / raised (or its answer was lost after the commit) and failed open |
| `Heartbeat` / `HeartbeatBlind` | `renew`, whose answer the scheduler ignores / that raised |
| `Finish` | the `finally` of `job_lock`: release, which may fail |
| `Tick` | time; nothing bounds how long a run goes without a call |

`SingleRunner` is what the lock can keep of the docstring's "only ONE run of a given
job executes at a time": nobody is let in beside a run whose lease is good.  A run
goes on when its lease has lapsed (`Lapse`), may renew it before another asks
(`Regain`), and a run that cannot ask is let in (`EnterBlind`).  The mapping calls
`leased` the runs that were told yes no longer than TTL ago (`Covered`).

### SchedulerHeartbeat

Extends `JobLock` with the loop of `main` over campaigns and of
`process_campaign` over due leads; the renewal comes at `idx > 0 and idx % 5 == 0`.
A lead takes its sleep of up to 180 s and its SMTP and HTTP calls, of which the SMTP
calls have no timeout: any time up to `MaxLead`, which is longer than the lease.  So
the lease may run out under a live run in the model as in the code.  What is asked is
when: `Share` is what each of `RenewEvery` leads may take for the renewal to be in
time (180 s, the longest sleep, with nothing left for the calls), `slow` remembers that
a lead of this run took more, `behind` that more than `RenewEvery` leads passed without
a lease call.  `Kill` is `Crash` of the lock in the middle of the loop.

### CampaignSend (with SequenceDelivery, MCCampaignSend, CampaignSend_proofs)

One campaign.  `status`, `step`, `due`, `aged` are the columns of
`campaign_leads` (`due`: `next_send_at <= now`; `aged`: `status_changed_at` older
than 30 minutes).  `suppressed`, `bounced` and `sentLog` are rows of
the other tables; `refusals` counts the "bounced" rows of `email_events`.  `todo`
is a run's snapshot of `<<lead, step>>` pairs, `cur` the pair in its hands,
`room` what is left of the daily limit.  `mailed` and `today` count
what really left and are read by no action; the copies are the mails of a step after
the first (`ExtraCopies`).

| actions | code |
|---|---|
| `Begin`, `Load`, `Close` | `main` under the lock; the head of `process_campaign`; its end with the bounce check |
| `Defer`, `StopSuppressed`, `StopExhausted`, `SkipStep`, `PassOver`, `StopBounced`, `Select` | the exits of `process_lead` before the claim, in the order of its checks; `Select` lets a bounced lead through when the look-up fails (`:295`) |
| `Claim`, `ClaimLost` | the conditional UPDATE, and its answer lost |
| `Send`, `SendRefused`, `SendUnsure` | SMTP accepts; raises before, or after it accepted |
| `Revert`, `RevertLost` | the release of the claim after a refused send |
| `LogSent`, `LogLost`, `Advance`, `AdvanceLost` | `log_email_event` and `update_campaign_lead_after_send`, whose errors are swallowed |
| `Crash` | the process is killed at any point |
| `Age`, `Reap` | thirty minutes pass over a 'sending' row; the reaper's UPDATE |
| `OptOut`, `LiftSuppression`, `HardBounce`, `StopSequence`, `Postpone`, `Operate` | the other writers |
| `NextDay` | enough days pass for every row to be due |

Left out, because the scheduler never reads it back to decide on a send: text,
tracking, the funnel stage and `leads.status` (`Funnel` has those).  Left out
because it never takes effect: the stop-on-reply check (`has_lead_replied` looks
for a `campaign_id` no writer of `reply_inbox` fills in) and the company check (it
filters `email_events` on a column that does not exist and swallows the error).  An
opt-out's two writes are one step here and three in `Replies`.  `draft` and
`archived` campaigns are as `paused` to the scheduler.  The checks of the
recipient's address are per address: leads are identified with their addresses.

`Overlap` says whether two runs may be inside at once.  It stands for the lock:
FALSE is what a good lease gives, TRUE is what happens when it is not good
(threads, fail-open, late renewal).  `SequenceDelivery` is the
promise to the lead: steps arrive in order, each at most once.

### WebhookDelivery (with MCWebhookDelivery, WebhookDelivery_proofs)

The events, webhooks and log rows of one client.  `event`, `hook`, `log` are the
tables; a row's `retry` is `next_retry_at` (null, in the future, past).  A worker
is a cycle: `retries` and `batch` are what it read at its beginning, `targets` the
webhooks it still posts the event in hand (`at`) to.

| actions | code |
|---|---|
| `LoadRetries`, `CheckRetry`, `ClearRetry`, `SkipRetry`, `Repost`, `UpdateRow` | `process_retries`, call by call |
| `LoadEvents`, `Match`, `Post`, `LogAttempt`, `MarkDispatched`, `EndCycle` | the rest of `run_cycle` and `process_event` |
| `...Fails`, `...Lost` | the same calls failing; each error is swallowed |
| `Crash` | the process is killed, or an exception or a failed read of the events ends the cycle |
| `Emit`, `BackoffEnds`, `SwitchHook` | the producers, time, and the client's PATCH and DELETE |

Left out: the circuit breaker, which never opens (it sets `disabled_reason` and
`disabled_at`, columns `webhooks` does not have, and swallows the error), the
limits of 100 retries and 200 events of a cycle, and subscription to event types
(every webhook takes every event).  A refused URL or secret is a post that failed.
DELETE is one step: a row logged between its two statements goes with the webhook.

### Inboxes (with MCInboxes, Inboxes_proofs)

`box` is the row of an inbox, with ages and dates as the windows the code asks
for: `reset` is `auto_pause_reset_at` (future, past, more than a day past), `ripe`
four weeks of warmup, `spam` a complaint in the last two weeks, `stamped`
`last_reset_date = today`.  `log` is what the log tables hold of the inbox: mails
of today and of the last hour, errors of the last hour, pauses of the last week.
`engine`, `diag`, `judge`, `rate`, `scan`, `sched` are the programs, with the rows
they read; `audit`, `renewed` and `late` are history.  `diag` is one cycle for each of
`Loops`: `crontab_warmr.sh:33` starts `diagnostics_engine.py` every hour, its `main`
never returns and takes no lock, so that loops pile up.  `renewed` has the pauses that
another loop has renewed since a loop read the row it is about to resume.

| actions | code |
|---|---|
| `EngineLoad`, `Heal`, `Aim`, `NoRecipient`, `NoText`, `WarmupMail`, `SmtpError`, `CountMail`, `RewardMail` | a run of `warmup_engine.py` under its lock |
| `DailyReset`, `ResetCounts` | `daily_reset.py`, and the API's reset, which asks for no date |
| `DriftLoad` ... `SmtpLog` | the pauses and resumes of `diagnostics_engine.py`, in the order of a cycle |
| `PromoteLoad`, `CycleJudges`, `ApiJudges`, `Judge`, `Promote` | `auto_promote.py`, from the cycles and from the API |
| `RateExceeded`, `RatePause`, `RateLog` | the bounce-rate check of `bounce_handler.py` |
| `RescueSpam`, `NetworkReads`, `ReplyBack`, `BounceFound`, `ScanBump` | reputation updates of the scanners, by RPC or by its read-then-write fallback |
| `SelectInbox`, `CampaignMail` | `inbox_rotator.py` and the campaign mail sent from its choice |
| `CreateInbox`, `PauseInbox`, `PatchInbox`, `DeleteLogs`, `DeleteInbox` | the operator; a deletion is two calls, and a foreign key may keep the row |

### LeadLife (with Casting, LeadTable, Funnel, Engagement, Replies, Bounces, Enrichment, Erasure, MCLeadLife, LeadLife_proofs)

`db` is everything the database holds about one lead.  Each module adds programs
that write it, one step per call, and `Call(change)` is a call that happens or
fails.  `Funnel` has the scheduler at this lead (`ListDue`, the look-ups
`AskSuppressed` and `AskBounced`, `CloseRow`, `Claim`, `Mail`, `Advance` and the stage
moves after it, each a call of its own; a failing `AskBounced` is a no, as
`campaign_scheduler.py:295` has it), the nurture job and the operator's move;
`Engagement` the two read-then-write updates of the score; `Replies` the mailbox,
its scan, the handlers of a published reply in their order and the routing, which
the API can start too (`router` has one place for each of scan, API and unsubscribe
link); `Bounces` the mailbox of bounce messages and its scan; `Enrichment` the
workers; `Erasure` the link, the list, the purge table by table and the lead that
is added again.

`Replies` keeps the mark of every message: `ListUnseen` searches for unseen ones,
`Fetch` reads one in a mailbox selected for writing and so marks it as seen
(`imap_processor.py:614`, `:624`), and `RescueSpam` does so in the spam folder before
it copies the message to INBOX (`:510`, `:520`).  A message the scan passed over, could
not store or was killed at is not looked at again, unless the operator marks it as
unread (`MarkUnread`).  The scan of `bounce_handler.py` reads its messages whether seen
or not (`Bounces`).  The cycle of `imap_processor.py` runs under its lock, one at a
time as far as `JobLock` goes.  An erasure takes the stored row with it; `given` says
so, since the scan then takes a message marked as unread for a new one.

### ClientLife (with Budget, Accounts, Domains, Answers, Analytics, MCClientLife, Casting_proofs, Budget_proofs, ClientLife_proofs)

`Budget`: `rows` is `api_cost_log` by day and scope (with a client, or none), `call`
the tracked calls from check to row, `clock` the day on the host and in the
database, which are not always the same.  `ask` walks the requests that call
Claude without check and row through their stages.  A call costs one unit: the
dearest there is, so that `Limit` counts calls.

`Accounts`: `tab` has the rows of a client by table and age; `del` a run of
`hard_delete_client` at its place in `DeletionOrder`, the order of the code's four
lists; `night` the two purges of `retention_engine.py`; `mailer` the scheduler at
one lead, `RowComesIn` the scanners and the warmup log.  `Keeps` are the foreign
keys without a cascade.

`Domains`: `live` is the world's DNS and blacklists, `dom` and `cases` the rows,
`drift` and `hunt` runs of the monitor (a record is looked up in one step, a new DMARC
phase written in the next, as it was looked up), `desk` PATCH of a recovery step, `sweep` the
API's own check.

`Answers`: a request to answer a reply or to preview a step, with the attempts of
`send_with_retry`.

`Analytics`: `happened` is `email_events` by day, `cache` the rows of
`analytics_cache`, `agg` a run, nightly or by hand.

The API's handlers are `async def` with blocking calls, so that two of them in the
same process do not really interleave at their database calls; background tasks,
worker endpoints and other processes do.  The models let all of them interleave.

## 4. Runs

| run | bounds | shows |
|---|---|---|
| `JobLockLease` | 3 processes, one run each, TTL 2, outages, no bound between two calls of a run | an answered yes is good for the TTL, whatever anybody else does; the lock keeps the promise of `SingleRunner` |
| `Heartbeat` | 2 processes, 1 campaign, 7 leads, renewal every 5, TTL 10, share 2, a lead of up to 11, kills, fair | two runs at once need a lead beyond its share; the job goes on after a kill |
| `HeartbeatManyCampaigns` (violation) | 2 campaigns of 5 leads | the index restarts, nothing is renewed, two runs overlap |
| `CampaignSingle` | 1 run at a time, 2 leads, 2 steps, limit 1, 1 fault | one extra copy, one mail over the limit per fault; closed rows stay closed |
| `CampaignSequence` | 1 run, 1 lead, 4 steps with jumps forward, past the end and to the end, no fault, 1 hang | implements `SequenceDelivery` |
| `CampaignOverlap` | 2 overlapping runs, 1 lead, 2 steps, fault, hang, fair | claims exclude, no step is lost, stranded leads are released |
| `WebhookCycle` | 1 worker, 1 event, 2 webhooks, 2 attempts, 1 fault, 1 lost answer, 1 switch, fair | nothing is forgotten but by a fault; attempts and duplicates are bounded by the faults; events are dispatched, retries end |
| `InboxLife` | 1 inbox, 2 diagnostics loops, 10 casts, fair (975 thousand states) | no mail goes uncounted and no score is lost without a failing call; a pause for SMTP errors lasts its two hours, unless another loop renewed it, and ends; who is switched off stays off and mails at most twice more |
| `LeadLife` | 1 lead, 2 steps, 2 replies, 1 bounce message, 12 casts, fair | the score is exact, nurture means a finished sequence, a reply is handled once, a lost one has its failure, an opt-out is kept, and honoured in the end; one late mail and one for each bounce that was not seen; jobs settle (587 thousand states) |
| `RescuedReplyIsLost` (violation) | 1 reply in the spam folder, no fault | a rescued reply is marked as seen and never scanned |
| `OneBounceThreeStrikes` (violation) | 1 soft bounce, no fault | three scans of one message close the lead |
| `ClientLife` | 13 casts, fair (814 thousand states) | the day's bill is bounded; a deletion leaves nothing and mails no one who opted out; an open recovery is marked; copies are explained; a counted day is exact; retention and drift get there |

Two or three of everything is where the cases differ: a second run to race
with, a second lead to share the limit, a further step to jump to, one fault to
recover from; a second fault repeats the first, except where it lets a fallback
fail too (`claude`, `enrich`), and those casts have two.  Two webhooks are
needed for one to fail while the other succeeds; two attempts, for one that is
retried and one that is the last.  Two zones and three cases of a domain are
needed for one listing to end while another is open, two replies for one that
comes with no Message-ID.  Thresholds (quota, targets, error limit, score, strikes)
are the smallest that keep their order; `Strikes` is the code's 3.

`MaxFaults`, `MaxHangs`, `MaxRefusals`, `MaxLost`, `MaxSwitches` and the numbers of
a cast bound the counters, and the properties are stated relative to the counts,
so that a bound never hides a violation.  The heartbeat's tick is 90 s: the TTL of
900 s is ten of them, a lead's share two.  `MaxLead` is one tick more than the TTL,
after which a longer call changes nothing any more; seven leads have a renewal before
the sixth and go on after it.

What a cast leaves apart is apart in the tables too, or is bounded by a neighbour:
bounces and replies of one lead meet only through the lead's status and the
scheduler's row, and each of them meets the scheduler.  Deadlock is not checked
where a behaviour may stop: a cast's disturbances run out and its requests come
to their end.

### What the violation runs found

| run | what happens |
|---|---|
| `RescuedReplyIsLost` | fetching a message marks it as seen, the scan takes unseen ones; a reply rescued from the spam folder arrives marked |
| `HeartbeatManyCampaigns` | campaigns of up to five due leads are mailed without a renewal; the lease ends under a live run and a second one starts |
| `OneBounceThreeStrikes` | the scan looks for a `raw_response` equal to `MID:<id>`, the log stores that and the text after it; the message is new at every scan, and the third scan suppresses the address |

### Observed while modelling

Not separate runs, since the code shows them directly or they follow from the
properties' conditions:

* Two threads of one process share the lock's owner id, so both hold the lease
  (`api/main.py` runs workers on two threads; `LeaseIsSound` assumes one run per
  process).
* Overlapping runs can mail a step twice: the claim guards the status, not the
  step, and an older snapshot claims a row that has been advanced
  (`DuplicatesNeedFaults` is checked for one run at a time).  `stop_sequence`
  matches no row that is 'sending', and the advance reopens it.
* Five sleeps of 180 s are the lease of 900 s already, and the SMTP calls have no timeout:
  also within one campaign the lease can end under a live run.  `OverlapNeedsSlowLead`
  says that nothing else ends it there.
* An opt-out or a hard bounce that comes after its look-up does not stop the mail (the
  look-ups and the claim are calls of their own), and `is_email_hard_bounced` answers no
  when it fails; a row closed under a send is reopened by it.  Hence `blind` in
  `LateMailsNeedBlindChecks`.
* A reply is marked as seen before it is stored: if it cannot be stored, or the scan is
  killed, no later scan takes it up (`LostRepliesNeedFaults`; the docstring of
  `scan_client_inbox_for_prospect_replies` says the scan does not mark messages).
  Mail that is no reply of a known lead is marked as well.
* `stop_on_reply` has no effect: `has_lead_replied` looks for a `campaign_id` no
  writer of `reply_inbox` fills in.  The company check has none either.
* One person's opt-out suppresses their whole domain, and so closes the rows of
  every colleague (`suppress_and_cancel`, mirrored in `OptOut`).
* A conditional skip writes 'active' over a row closed since the snapshot; this is
  why `ClosedStaysClosed` speaks of unconditional steps.
* When every send of a run is refused, the bounce check is skipped and nothing
  pauses the campaign.
* The webhook circuit breaker never opens, and notifies after every further
  failure.  `webhook_dispatcher.py:18` says three failed attempts, the code makes
  four, and two overlapping cycles more.
* `cost_tracker.py:3` says it wraps every Claude API call; seven kinds of request
  use a client of their own.  While host and database are on different dates the
  check sums the rows of the other day, hence `loose`.
* `hard_delete_client` collects errors that `purge_closed_accounts` does not look
  at: it reports the client as purged.  No code writes `clients.closed_at`.
* The diagnostics loops pile up, since cron starts an endless program every hour: one
  may lift, on an old reading, a pause that another has just renewed (`renewed` in
  `SmtpPauseLasts`; `diagnostics_engine.py:570` speaks of pauses "whose pause window has
  expired").
* 'ready' is written over whatever status the row has by then (`auto_promote.py:206`):
  an inbox paused after the check had read it becomes 'ready'.  Its switch stays off
  (`SwitchedOffStaysOff`), but the rotator asks for the status only and takes it for
  campaigns.
* The nightly aggregation ends its window on `date.today()`; started at 00:30 with a
  look-back of one day it counts the half hour of the day that has begun, and never the
  day that ended, while `GET /analytics/campaigns/{id}` takes the cached row.
  `CountedDayIsExact` speaks of the days that a run has covered after their last event.
* Two writers of an engagement score that overlap lose one update; an aggregation that
  counted a day before rows of it were erased or came in may write last.  Both are
  conditions of `ScoreIsExact` and `CountedDayIsExact`, as is a recovery opened while
  another is being closed in `OpenCaseIsMarked`.
* `dns_monitor.py` counts open recoveries and clears the flag in two calls; ticking
  a step of a closed recovery does not reopen it; the API's sweep clears the flag
  when the address cannot be resolved.  Its notifications have no client, because
  the query omits `client_id`.
* `send_reply` asks for the address on the list and not for the company, goes on
  when the list cannot be read, and does not ask whether the reply has been
  answered.  A preview through a named inbox may use a retired one.
* Nothing writes 'replied' rows of `email_events`: reply rates are 0.
* `weekly_report.py` selects `email_events.created_at` and `sequence_analyzer.py`
  `sequence_step_number`, which do not exist.

## 5. Fairness

`SchedulerHeartbeat` (`HbFairness`): time passes, a run goes on through its loop,
launchd restarts a dead process and a job that may start is started (every job
has a StartInterval); `JobKeepsRunning` assumes that kills cease.
`CampaignSend`: a started run goes on unless it is killed (`RunStep`; no fairness
on `Begin`, `Crash` or any fault), thirty minutes pass, and the reaper's UPDATE
is run (StartInterval 600).  `WebhookDelivery`: the dispatcher's loop never ends,
and the time of a retry comes.  `Inboxes`: every loop of `diagnostics_engine.py`
goes on for ever and judges in each cycle, and the time of a pause passes.
`LeadLife`: the jobs the schedules start (sender, nurture, the scan of replies, the
workers) come back, and a run that was not killed goes on; the cooldown of a
funnel stage passes.  `ClientLife`: the nightly retention and the monitors in
`Steady`.  Nothing else is fair: no operator or request is obliged to act, no
endpoint to answer, no fault to come or to stay away.

## 6. Proofs

`JobLock_proofs`, for any number of processes and runs and any TTL:

* `TypeCorrect`.
* `LeaseIsSound`, `LeaseExcludes`: assuming one run per process, a run that was
  told yes no longer than TTL ago is backed by the row.  `LeaseBacksCoveredRun`
  is inductive together with the types: an unexpired row is taken only by its
  owner, and the owner is that run's process.
* `LeaseIsKept`, without that assumption.
* `LockIsSingleRunner`, with one run per process and nothing assumed of outages or of the
  time a run takes: a process that would be told yes hosts every covered run
  (`ObtainableMeansOwn`), so `Enter` finds nobody leased; `Promise` maps `Tick` to the
  lapse of a lease, and a renewal to a stutter or to `Regain`.
* `LateRunNeeded`, `SlowLeadNeeded`, for any campaigns, leads and durations: a run that was
  never late is covered (`InTime`), because `since` leads within their shares have
  passed since its last call and `RenewEvery` shares fit into the lease; two covered
  runs are one.  Within one campaign the index is a multiple of `RenewEvery` and `since`
  (`Stretches`), so that no stretch is too long and only a slow lead is left.

`CampaignSend_proofs`, for any number of runs, leads, steps, crashes:

* `TypeCorrect`; the strengthening `BusyOK` says that a run past `Select` knows
  its lead and has room for it, without which `room - 1` may leave its type.
* `ClaimIsExclusive`, for any number of overlapping runs of sequences whose conditions
  do not jump (`NoJumps`): `ClaimInv` adds that the row of a lead in a run's hands is
  neither claimable nor aged.  A jump breaks that: it writes 'active' without a claim.
* `NoStepIsLost`: `StepInv` adds that a snapshot's step, too, was reached by
  mailing or jumping, which is what makes a stale snapshot harmless here.

  The other four are about a single scheduler (`~Overlap`, which is what the lock
  gives): `OneRunInv` says that at most one run is awake and that its snapshot agrees
  with the rows.
* `CopiesCostFaults`: a crash between the mail and the advance copies nothing yet.
  `CopyInv` counts the leads whose row is at a step that was mailed (`Risk`) together
  with the copies.  Jumps go forward (`Forward`): a jump back mails a step again by
  design.
* `LimitIsHeld`: the quota is read from the log, and a unique index keeps a second
  mail of a step out of the log.  `LimitInv` counts the rows whose next mail will not
  be logged (`Debt`) and the mail that is not logged yet (`Unlogged`), and says that
  what a run may still send fits below the limit (`RoomFits`).  Each is paid for by a
  fault.
* `ClosedIsFinal`: as long as no call outlasts the reaper's patience, the row in a
  run's hands is 'sending' (`FlightInv`), which no other writer closes; `NoJumps`,
  since a jump writes the row whatever its status.
* `DeliversTheSequence`: with `MaxFaults = 0` each step of `CampaignSend` is a step of
  `SequenceDelivery` or a stutter.  With faults the promise does not hold;
  `CopiesCostFaults` says what each of them costs.

`WebhookDelivery_proofs`, for any number of overlapping cycles, events, webhooks,
attempts and failures, unless said otherwise:

* `TypeCorrect`, with `HandOK` (a cycle holds a row or an event as its next call
  needs) and `RetriesOK` (a row waits only below the limit).
* `SilentWhenOff`: `QuietInv` counts, for a webhook that is off, its late posts and
  the cycles that are past their check of it (`PoisedAt`); nobody joins those, and
  a post takes one out.
* `NothingIsForgotten`: `Missed` is the set of deliveries that some cycle is done
  with, or that belong to a dispatched event, without a row and without the endpoint
  having it.  A step adds at most one to it, and only `LogLost` does, whose failure
  is counted (`MissedInv`); `DeliveryInv` says that a row with no attempts left to
  come was delivered or has had them all (a success in hand was received, a row is
  cleared only for a webhook that has been off).
* `AttemptsAreBounded` and `DuplicatesCostFaults`, for one cycle at a time
  (`SingleCycle`): two that overlap read the same due retry, both post it, and write
  the count from the one they read.  `SnapInv`: what the cycle has read is what the
  tables hold.  `AttemptsInv` adds to the posts made those a row may still ask for
  (`Owed`) and those there is no row for yet (`Fresh`); a crash or failed write adds
  at most `MaxAttempts`.  `SpareInv` is about `Chances`, the deliveries received and
  the ones still open: of those beyond the first, over all events and webhooks, every
  one has its lost answer or its failure, and a failure gives each webhook at most one.

`Inboxes_proofs`, for any sets of inboxes and diagnostics loops and any limits, with every program and
disturbance at once:

* `TypeCorrect`.
* `CounterCorrect`: between a warmup mail and the write of its count the row is one
  behind (`Due`), and a run's list holds only rows that are there (`CounterInv`).
* `ScoreCorrect`: `ScoreInv` is the equality of row and history itself, as long as no
  call has failed, and the score a row to come begins with.
* `LateMailsCorrect`: `Pending` are the mails the warmup run and the scheduler have
  decided on.  For an inbox that is off they and the late mails are at most two.
* `PauseLastsCorrect`, for any number of loops: the rows a cycle is about to resume are
  not paused anew before it has, but by another loop, which `renewed` then knows
  (`RenewInv`): the pauses of a cycle come after its resumes.
* `SwitchCorrect`: straight from the steps.

`Casting_proofs` has what `LeadLife_proofs`, `Budget_proofs` and `ClientLife_proofs`
share: no step changes a cast, and the count of failing calls only grows (`EnvNext`),
so that while it is 0 no step has failed.  A part's invariant is kept by its own
steps, and the steps of the others leave its variables alone or change the shared
row in a few stated ways (the `...Effect` lemmas).  All hold for any set of casts.

`LeadLife_proofs`, also for any number of steps, jobs and messages:

* `TypeCorrect`: `PlaceInv` says that a row that waits has a step to send, `MoveInv`
  that only the last step moves a lead to 'nurture'.
* `LateMailCorrect`: a sender past the look-up of bounces with a lead that is there has
  a late mail to spare: either the lead still wanted mail when it was asked for, or the
  look-up was blind (`LateInv`).
* `OptOutCorrect`: a used token has a link on its way to the list (`OptInv`).
* `NurtureCorrect`: the row follows the step in the sender's hands, and after the last
  one nothing is left (`NurtureInv`).
* `ScoreCorrect`: the row agrees with the ledger in points and in days, unless two
  writers overlapped (`ScoreInv`).
* `HandledCorrect`: what was handed on has its row in `reply_inbox`, where the look-up
  finds it, unless it was erased, and a message about to be stored was not handed on
  (`HandledInv`).
* `LostCorrect`: the messages given up (`Gone`: marked as seen or stored, heard of by no
  handler, and not in the hands of the scan) are no more than the failures (`LostInv`);
  a step adds at most one to them and then fails (`GivingUp`).

`Budget_proofs`, `SpendingIsBounded`: for any budget, days and finite sets of callers.
The bound alone is not inductive, as a call is let through before it is billed.
`Afforded` counts, on the host's day, those who may still use Claude (`N("use", s)`)
and those who owe their row (`N("log", s)`): the bill and the former fit into
`Limit - 1` and the number of callers; the bill is in the rows or owed.  When a check
lets a caller through, less than `Limit` is in the rows, and those who use and those
who owe are different callers.

`ClientLife_proofs`:

* `TypeCorrect`, for all the parts.
* `DeletionIsComplete`: `DeletedSoFar` says that the tables an unspoiled deletion has
  passed are empty.  The order of the deletion is what makes it inductive: whatever
  keeps a table under the foreign keys comes before it (`NotBlocked`).
  `OptOutHolds`: `ListLast` says that, while no call has failed, an empty opt-out list
  means no row left for the scheduler to claim.
* `CopiesAreExplained`, for any number of attempts: `CopyInv` sets aside one click for
  the request that may still mail, `OffInv` one copy for the answer that was on its way
  when the address was listed.
* `OpenCasesAreMarked`, for any monitors, zones and guide: `MarkInv` adds the monitor
  that is about to mark the domain, and that the desk clears the flag only with no
  recovery open.
* `CountsAreExact`, for any days and look-back: `CountInv` says of a run that is alone
  that the rows it has passed are exact, and of any run that what it is about to write
  is the day's number, unless the day changed meanwhile.

Every safety property of a passing run is stated by a theorem; the type invariants are
proved as well, and `InboxLife` checks one.  Model-checked only is
what must eventually happen, which TLAPS cannot prove: `JobKeepsRunning`,
`StrandedIsReleased`, `EventsAreDispatched`, `RetriesEnd`, `SmtpPauseEnds`,
`OptOutReplyHonoured`, `JobSettles`, `RetentionSettles` and `DriftSettles`.

The hypotheses of the theorems are conditions on the constants, which the instances of
the runs satisfy: `CampaignSingle` has one scheduler and no conditions,
`CampaignSequence` jumps forward and no fault, `WebhookCycle` one worker.  Exceptional
conditions (failed calls, hangs, crossings) are in the properties, as counts, and
not in the hypotheses.

## 7. Plan

Modelled so far is what sections 3 and 4 name.  Next, in this order:

1. What `SequenceDelivery` becomes with faults: a promise in which each fault may
   repeat one step, and the proof that `CampaignSend` keeps it.
2. Overlapping dispatchers and overlapping schedulers: a bound on attempts and copies
   in the number of workers.
3. The hazards of `PROJECT.json` that have no property yet.

## 8. Not modelled

* Text and presentation: content, spintax, tracking links, time zones of leads,
  frontend, notifications, metrics, briefings: no state a later step decides on.
* Pure I/O and cryptography: secrets, password policy, start-up checks,
  authentication and rate limits of the API, and the API's endpoints that are one
  query each.
* The CRM dispatcher: one synchronous HTTP call per event, no retry, no state.
* Code whose writes never take effect: `ab_optimizer.py` (decides on 'replied' events
  nobody writes and conflicts with a unique index), `sequence_analyzer.py`,
  `weekly_report.py` and the CSV import of leads (columns that do not exist),
  the start of a placement test (its 'running' row is never completed), the
  webhook circuit breaker, and the crontab line of `daily_briefing.py` (without its
  argument).
* Inside modelled components: several campaigns that share inboxes, the matching of
  senders to leads, the health checks of `diagnostics_engine.py` that only write a log
  row, the answers of the enrichment services, the CSV import of the suppression
  list.
