---------------------------- MODULE Inboxes ----------------------------
(* The row of an inbox and everybody who writes it: the warmup engine, the *)
(* hourly daily_reset, the diagnostics loops with their pauses, resumes    *)
(* and promotions, the bounce-rate check, the reputation updates of the    *)
(* mailbox scanners, the campaign scheduler's choice of a sender, and the  *)
(* operator. Every database call and every mail is a step of its own: each *)
(* of these programs acts on rows it read earlier. The schedule starts     *)
(* another diagnostics loop every hour, and none of them ends.             *)
EXTENDS Integers, FiniteSets

CONSTANTS
  Boxes,        \* inboxes, whether or not they exist yet
  Loops,        \* diagnostics loops
  FullTarget,   \* warmup mails a day
  MaintTarget,  \* the same for an inbox that is 'ready'
  MaxHourly,    \* mails of an inbox in an hour
  Quota,        \* daily_campaign_target of an inbox in use
  ErrLimit,     \* SMTP errors in an hour that pause an inbox
  MaxPauses,    \* automatic pauses before a human is called
  Critical, Good, MaxScore,   \* the two thresholds of the score, and 100
  Casts,        \* sets of programs and disturbances that meet in a behaviour
  MaxEvents,    \* and how many disturbances
  MaxFaults,    \* database calls that fail, and kills
  MaxDay        \* midnights

ASSUME InboxAssumption ==
  /\ {FullTarget, MaintTarget, MaxHourly, Quota, ErrLimit, MaxPauses} \subseteq Nat \ {0}
  /\ {Critical, Good, MaxScore, MaxEvents, MaxFaults, MaxDay} \subseteq Nat
  /\ Critical <= Good /\ Good <= MaxScore /\ MaintTarget <= FullTarget
  /\ Boxes # {} /\ "api" \notin Loops

VARIABLES
  box,     \* the inboxes table
  log,     \* what the log tables hold of each inbox, by window
  engine,  \* the run of warmup_engine
  diag,    \* the cycle of each diagnostics loop
  judge,   \* the promotion checks, of the cycles and of the API
  rate,    \* the bounce-rate check
  scan,    \* a mailbox scanner with a reputation update to make
  sched,   \* the campaign scheduler and the sender it chose
  env,     \* midnights, faults and disturbances so far
  audit,   \* history: the day's mails, those the counter missed, the exact score
  removal, \* inboxes whose deletion has come to the row itself
  renewed, \* history: pauses that another loop renewed before this one lifts them
  late     \* history: mails of an inbox since it was switched off

vars == <<box, log, engine, diag, judge, rate, scan, sched, env, audit, removal, renewed, late>>

Statuses == {"warmup", "ready", "paused", "retired"}
Judges == Loops \cup {"api"}
Kinds == {"received", "rescued", "bounce", "complaint"}

Fresh == [status |-> "warmup", active |-> TRUE, reset |-> "none", pauses |-> 0,
          daily |-> 0, stamped |-> FALSE, score |-> Critical,
          ripe |-> FALSE, spam |-> FALSE, reached |-> FALSE, quota |-> 0]
Gone == [Fresh EXCEPT !.status = "none", !.active = FALSE]
Seasoned == [Fresh EXCEPT !.ripe = TRUE, !.reached = TRUE, !.score = Good, !.quota = Quota]
NoLog == [sent |-> 0, hour |-> 0, csent |-> 0, chour |-> 0, errors |-> 0,
          hist |-> FALSE, auto |-> FALSE]

\* A new inbox has a new id: a deleted one does not come back.
Absent == {"none", "deleted"}
Exists(b) == box[b].status \notin Absent
Off(b) == box[b].status \in Absent \cup {"paused", "retired"} /\ ~box[b].active
\* An UPDATE of a row that is gone changes nothing, nor does a log row of it.
Write(b, row) == box' = IF Exists(b) THEN [box EXCEPT ![b] = row] ELSE box
Log(b, row) == log' = IF Exists(b) THEN [log EXCEPT ![b] = row] ELSE log

Fault == env.faults < MaxFaults /\ env' = [env EXCEPT !.faults = @ + 1]
Plays(e) == e \in env.cast
Event(e) == Plays(e) /\ env.events < MaxEvents /\ env' = [env EXCEPT !.events = @ + 1]

AnyBox == CHOOSE b \in Boxes : TRUE
\* What a run uses of the rows it loads.
Snapshot(b) == [daily |-> box[b].daily, ready |-> box[b].status = "ready",
                ripe |-> box[b].ripe, score |-> box[b].score]
NoSnapshot == [b \in Boxes |-> [daily |-> 0, ready |-> FALSE, ripe |-> FALSE, score |-> 0]]
IdleEngine == [pc |-> "idle", at |-> AnyBox, todo |-> {}, rows |-> NoSnapshot]
IdleDiag == [pc |-> "idle", at |-> AnyBox, todo |-> {}, failing |-> {}, pauses |-> [b \in Boxes |-> 0]]
IdleJudge == [pc |-> "idle", at |-> AnyBox, fit |-> FALSE]
IdleScan == [pc |-> "idle", at |-> AnyBox, kind |-> "received", seen |-> 0]
IdleAt == [pc |-> "idle", at |-> AnyBox]

Init ==
  /\ box \in [Boxes -> {Gone, Seasoned}]
  /\ log = [b \in Boxes |-> NoLog]
  /\ engine = IdleEngine
  /\ diag = [c \in Loops |-> IdleDiag]
  /\ judge = [w \in Judges |-> IdleJudge]
  /\ rate = IdleAt
  /\ scan = IdleScan
  /\ sched = IdleAt
  /\ env \in [day : {0}, faults : {0}, events : {0}, cast : Casts]
  /\ audit = [b \in Boxes |-> [warm |-> 0, camp |-> 0, lost |-> 0, score |-> box[b].score]]
  /\ removal = {}
  /\ renewed = {}
  /\ late = [b \in Boxes |-> 0]

---------------------------------------------------------------------------
(* utils/reputation.py. The SQL function adds in the row itself; without it *)
(* the code writes back a score it read before, plus the change.            *)
\* Mutant: no lower end.
ClampTop(n) == IF n > MaxScore THEN MaxScore ELSE n

Clamp(n) == IF n < 0 THEN 0 ELSE IF n > MaxScore THEN MaxScore ELSE n
Delta == [sent |-> 1, received |-> 1, rescued |-> 1, bounce |-> -1, complaint |-> -1]

Rescored(b, kind, row, base) ==
  [row EXCEPT !.score = Clamp(base + Delta[kind]), !.spam = @ \/ kind = "complaint"]

\* Mutant: always the fallback.
BumpFromRead(b, kind, seen) ==
  /\ Write(b, Rescored(b, kind, box[b], seen))
  /\ UNCHANGED env
  /\ audit' = IF Exists(b) THEN [audit EXCEPT ![b].score = Clamp(@ + Delta[kind])] ELSE audit

BumpReputation(b, kind, seen) ==
  /\ \/ /\ Write(b, Rescored(b, kind, box[b], box[b].score))
        /\ UNCHANGED env
     \/ /\ Fault
        /\ Write(b, Rescored(b, kind, box[b], seen))
  /\ audit' = IF Exists(b) THEN [audit EXCEPT ![b].score = Clamp(@ + Delta[kind])] ELSE audit

---------------------------------------------------------------------------
(* warmup_engine.py: one run at a time, under its job lock.                 *)
Target(row) == IF row.ready THEN MaintTarget ELSE FullTarget

EngineNext(b) ==
  engine' = IF engine.todo = {b} THEN IdleEngine
            ELSE [engine EXCEPT !.pc = "work", !.at = AnyBox, !.todo = @ \ {b}]

\* Mutant: the status is asked, the switch is not.
LoadableByStatus(b) == Exists(b) /\ box[b].status # "retired"

\* load_active_inboxes: switched on and not retired; 'paused' is not asked.
Loadable(b) == box[b].active /\ box[b].status # "retired"

EngineLoad ==
  LET active == {b \in Boxes : Loadable(b)} IN
  /\ Plays("engine") /\ engine.pc = "idle" /\ active # {}
  /\ engine' = [IdleEngine EXCEPT !.pc = "heal", !.todo = active,
                  !.rows = [b \in Boxes |-> IF b \in active THEN Snapshot(b) ELSE @[b]]]
  /\ UNCHANGED <<box, log, diag, judge, rate, scan, sched, env, audit>>

\* A counter without a 'sent' row of today is taken for yesterday's.
Heal ==
  LET stale == {b \in engine.todo : engine.rows[b].daily > 0 /\ log[b].sent = 0} IN
  /\ engine.pc = "heal"
  /\ box' = [b \in Boxes |-> IF b \in stale /\ Exists(b) THEN [box[b] EXCEPT !.daily = 0] ELSE box[b]]
  /\ audit' = [b \in Boxes |-> IF b \in stale THEN [audit[b] EXCEPT !.lost = audit[b].warm] ELSE audit[b]]
  /\ engine' = [engine EXCEPT !.pc = "work", !.rows =
                  [b \in Boxes |-> IF b \in stale THEN [@[b] EXCEPT !.daily = 0] ELSE @[b]]]
  /\ UNCHANGED <<log, diag, judge, rate, scan, sched, env>>

\* The target goes back to the row, and the two caps decide: the day's by the
\* counter read at the start, the hour's by the log. The hour's is passed over
\* when the query fails.
Aim(b) ==
  LET row == engine.rows[b] IN
  /\ engine.pc = "work" /\ b \in engine.todo
  /\ Write(b, [box[b] EXCEPT !.reached = row.ripe /\ ~row.ready])
  /\ \/ /\ row.daily >= Target(row) \/ log[b].hour >= MaxHourly
        /\ EngineNext(b)
        /\ UNCHANGED env
     \/ /\ row.daily < Target(row)
        /\ \/ log[b].hour < MaxHourly /\ UNCHANGED env
           \/ log[b].hour >= MaxHourly /\ Fault
        /\ engine' = [engine EXCEPT !.pc = "mail", !.at = b]
  /\ UNCHANGED <<log, diag, judge, rate, scan, sched, audit>>

\* No recipient left for today; no text, which leaves a row nobody counts.
Passed(why) ==
  /\ engine.pc = "mail"
  /\ Event(why)
  /\ EngineNext(engine.at)
  /\ UNCHANGED <<box, log, diag, judge, rate, scan, sched, audit>>
NoRecipient == Passed("norecipient")
NoText == Passed("notext")

\* The mail leaves after a pause of up to half a minute; its row may be lost.
WarmupMail ==
  LET b == engine.at IN
  /\ engine.pc = "mail"
  /\ \/ /\ Log(b, [log[b] EXCEPT !.sent = @ + 1, !.hour = @ + 1])
        /\ UNCHANGED env
     \/ /\ Fault
        /\ UNCHANGED log
  /\ audit' = [audit EXCEPT ![b].warm = @ + 1]
  /\ engine' = [engine EXCEPT !.pc = "count"]
  /\ UNCHANGED <<box, diag, judge, rate, scan, sched>>

SmtpError ==
  /\ engine.pc = "mail"
  /\ Event("smtp")
  /\ Log(engine.at, [log[engine.at] EXCEPT !.errors = @ + 1])
  /\ EngineNext(engine.at)
  /\ UNCHANGED <<box, diag, judge, rate, scan, sched, audit>>

\* Mutant: an inbox that was promoted or paused meanwhile is not counted.
CountedInWarmup(row) == IF row.status = "warmup" THEN [row EXCEPT !.daily = @ + 1] ELSE row

Counted(row) == [row EXCEPT !.daily = @ + 1]

\* The SQL function adds one; without it the snapshot's number plus one is
\* written, and that may fail too.
CountMail ==
  LET b == engine.at IN
  /\ engine.pc = "count"
  /\ \/ /\ Write(b, Counted(box[b]))
        /\ UNCHANGED <<env, audit>>
     \/ /\ Fault
        /\ Write(b, [box[b] EXCEPT !.daily = engine.rows[b].daily + 1])
        /\ UNCHANGED audit
     \/ /\ Fault
        /\ audit' = [audit EXCEPT ![b].lost = @ + 1]
        /\ UNCHANGED box
  /\ engine' = [engine EXCEPT !.pc = "bump"]
  /\ UNCHANGED <<log, diag, judge, rate, scan, sched>>

RewardMail ==
  LET b == engine.at IN
  /\ engine.pc = "bump"
  /\ BumpReputation(b, "sent", engine.rows[b].score)
  /\ EngineNext(b)
  /\ UNCHANGED <<log, diag, judge, rate, scan, sched>>

EngineKilled ==
  /\ engine.pc # "idle"
  /\ Fault
  /\ audit' = IF engine.pc = "count" THEN [audit EXCEPT ![engine.at].lost = @ + 1] ELSE audit
  /\ engine' = IdleEngine
  /\ UNCHANGED <<box, log, diag, judge, rate, scan, sched>>

---------------------------------------------------------------------------
(* Resets of the counters.                                                  *)
Erase(hit) ==
  audit' = [b \in Boxes |-> IF b \in hit THEN [audit[b] EXCEPT !.lost = audit[b].warm] ELSE audit[b]]

\* daily_reset.py runs every hour; only rows not stamped with today's date change.
DailyReset ==
  LET hit == {b \in Boxes : Exists(b) /\ box[b].status # "retired" /\ ~box[b].stamped} IN
  /\ hit # {}
  /\ box' = [b \in Boxes |-> IF b \in hit THEN [box[b] EXCEPT !.daily = 0, !.stamped = TRUE] ELSE box[b]]
  /\ Erase(hit)
  /\ UNCHANGED <<log, engine, diag, judge, rate, scan, sched, env>>

\* POST /inboxes/reset-daily-counts asks for no date.
ResetCounts ==
  LET hit == {b \in Boxes : Exists(b)} IN
  /\ Event("reset")
  /\ box' = [b \in Boxes |-> IF b \in hit THEN [box[b] EXCEPT !.daily = 0] ELSE box[b]]
  /\ Erase(hit)
  /\ UNCHANGED <<log, engine, diag, judge, rate, scan, sched>>

---------------------------------------------------------------------------
(* diagnostics_engine.py: pauses for a low score, then resumes and pauses   *)
(* for SMTP errors, then promotions, each on rows read at its start.        *)
Paused(row) == [row EXCEPT !.status = "paused", !.active = FALSE]

Goes(c, cycle) == diag' = [diag EXCEPT ![c] = cycle]

DriftLoad(c) ==
  /\ Plays(c) /\ diag[c].pc = "idle"
  /\ Goes(c, [IdleDiag EXCEPT !.pc = "drift", !.todo =
       {b \in Boxes : box[b].score < Critical /\ box[b].status \notin Absent \cup {"paused", "retired"}}])
  /\ UNCHANGED <<box, log, engine, judge, rate, scan, sched, env, audit, renewed>>

DriftPause(c, b) ==
  /\ diag[c].pc = "drift" /\ b \in diag[c].todo
  /\ \/ /\ Write(b, Paused(box[b]))
        /\ Goes(c, [diag[c] EXCEPT !.pc = "driftlog", !.at = b, !.todo = @ \ {b}])
        /\ UNCHANGED env
     \/ /\ Fault
        /\ Goes(c, [diag[c] EXCEPT !.todo = @ \ {b}])
        /\ UNCHANGED box
  /\ UNCHANGED <<log, engine, judge, rate, scan, sched, audit, renewed>>

\* inbox_status_log, the history that promotions read; its insert may fail.
LogPause(b) ==
  \/ Log(b, [log[b] EXCEPT !.hist = TRUE]) /\ UNCHANGED env
  \/ Fault /\ UNCHANGED log

DriftLog(c) ==
  /\ diag[c].pc = "driftlog"
  /\ LogPause(diag[c].at)
  /\ Goes(c, [diag[c] EXCEPT !.pc = "drift", !.at = AnyBox])
  /\ UNCHANGED <<box, engine, judge, rate, scan, sched, audit, renewed>>

\* Mutant: every pause is the first.
PausesForgotten(row) == 0

\* The number of pauses is the snapshot's, and zero again a day after the last.
PausesSeen(row) == IF row.reset = "stale" THEN 0 ELSE row.pauses

\* Mutant: the two hours are not waited for.
ResumableAnyTime(b) == box[b].status = "paused" /\ box[b].reset # "none"

Resumable(b) == box[b].status = "paused" /\ box[b].reset \in {"past", "stale"}

\* Mutant: the resume also switches on.
ResumedAndOn(row) == [row EXCEPT !.status = "warmup", !.active = TRUE, !.reset = "none", !.pauses = 0]

Resumed(row) == [row EXCEPT !.status = "warmup", !.reset = "none", !.pauses = 0]

\* The rows and the errors of the last hour; resumes come before pauses.
SmtpLoad(c) ==
  LET failing == {b \in Boxes : /\ box[b].status \notin Absent \cup {"retired"}
                               /\ log[b].errors >= ErrLimit}
  IN
  /\ diag[c].pc = "drift" /\ diag[c].todo = {}
  /\ Goes(c, [IdleDiag EXCEPT !.pc = "resume",
       !.todo = {b \in Boxes : Resumable(b)},
       !.failing = failing,
       !.pauses = [b \in Boxes |-> IF b \in failing THEN PausesSeen(box[b]) ELSE 0]])
  /\ UNCHANGED <<box, log, engine, judge, rate, scan, sched, env, audit, renewed>>

\* Whatever the row holds by now.
AutoResume(c, b) ==
  /\ diag[c].pc = "resume" /\ b \in diag[c].todo
  /\ \/ /\ Write(b, Resumed(box[b]))
        /\ UNCHANGED env
     \/ Fault /\ UNCHANGED box
  /\ Goes(c, [diag[c] EXCEPT !.todo = @ \ {b}])
  /\ renewed' = renewed \ {<<c, b>>}
  /\ UNCHANGED <<log, engine, judge, rate, scan, sched, audit>>

ToResume(c, b) == diag[c].pc = "resume" /\ b \in diag[c].todo

SmtpPause(c, b) ==
  LET seen == diag[c].pauses[b]
      done == [diag[c] EXCEPT !.failing = @ \ {b}]
  IN
  /\ diag[c].pc = "resume" /\ diag[c].todo = {} /\ b \in diag[c].failing
  /\ \/ /\ seen < MaxPauses
        /\ Write(b, [box[b] EXCEPT !.status = "paused", !.pauses = seen + 1, !.reset = "future"])
        /\ Goes(c, [done EXCEPT !.pc = "smtplog", !.at = b])
        /\ renewed' = renewed \cup {<<d, b>> : d \in {e \in Loops : ToResume(e, b)}}
        /\ UNCHANGED env
     \/ /\ seen >= MaxPauses          \* a human is called, nothing is written
        /\ Goes(c, done)
        /\ UNCHANGED <<box, env, renewed>>
     \/ /\ Fault
        /\ Goes(c, done)
        /\ UNCHANGED <<box, renewed>>
  /\ UNCHANGED <<log, engine, judge, rate, scan, sched, audit>>

\* Two inserts, the first of which skips the second when it fails.
SmtpLog(c) ==
  LET b == diag[c].at IN
  /\ diag[c].pc = "smtplog"
  /\ \/ Log(b, [log[b] EXCEPT !.auto = TRUE, !.hist = TRUE]) /\ UNCHANGED env
     \/ Fault /\ Log(b, [log[b] EXCEPT !.auto = TRUE])
     \/ Fault /\ UNCHANGED log
  /\ Goes(c, [diag[c] EXCEPT !.pc = "resume", !.at = AnyBox])
  /\ UNCHANGED <<box, engine, judge, rate, scan, sched, audit, renewed>>

PromoteLoad(c) ==
  /\ diag[c].pc = "resume" /\ diag[c].todo = {} /\ diag[c].failing = {}
  /\ Goes(c, [IdleDiag EXCEPT !.pc = "promote", !.todo = {b \in Boxes : box[b].status = "warmup"}])
  /\ UNCHANGED <<box, log, engine, judge, rate, scan, sched, env, audit, renewed>>

CycleEnds(c) ==
  /\ diag[c].pc = "promote" /\ diag[c].todo = {} /\ judge[c].pc = "idle"
  /\ Goes(c, IdleDiag)
  /\ UNCHANGED <<box, log, engine, judge, rate, scan, sched, env, audit, renewed>>

---------------------------------------------------------------------------
(* auto_promote.py, called by the cycles and by POST check-promotion.       *)
\* Every criterion but the pauses of the last week comes from the row.
Qualifies(row) ==
  row.active /\ row.ripe /\ row.score >= Good /\ ~row.spam /\ row.reached

JudgeRow(w, b) ==
  judge' = IF box[b].status \in Absent \cup {"ready"} THEN judge
           ELSE [judge EXCEPT ![w] = [pc |-> "judge", at |-> b, fit |-> Qualifies(box[b])]]

CycleJudges(c, b) ==
  /\ diag[c].pc = "promote" /\ b \in diag[c].todo /\ judge[c].pc = "idle"
  /\ Goes(c, [diag[c] EXCEPT !.todo = @ \ {b}])
  /\ JudgeRow(c, b)
  /\ UNCHANGED <<box, log, engine, rate, scan, sched, env, audit, renewed>>

ApiJudges(b) ==
  /\ judge["api"].pc = "idle" /\ Exists(b)
  /\ Event("check")
  /\ JudgeRow("api", b)
  /\ UNCHANGED <<box, log, engine, diag, rate, scan, sched, audit>>

PausedLately(b) == log[b].hist

\* The pauses come from inbox_status_log, or from warmup_logs when that
\* cannot be read, and count as many when neither can.
Judge(w) ==
  LET b == judge[w].at
      verdict(clean) == judge' = IF clean /\ judge[w].fit
                                 THEN [judge EXCEPT ![w].pc = "write"]
                                 ELSE [judge EXCEPT ![w] = IdleJudge]
  IN
  /\ judge[w].pc = "judge"
  /\ \/ verdict(~PausedLately(b)) /\ UNCHANGED env
     \/ Fault /\ verdict(~log[b].auto)
     \/ Fault /\ verdict(FALSE)
  /\ UNCHANGED <<box, log, engine, diag, rate, scan, sched, audit>>

\* 'ready' is written whatever the row holds by now.
Promote(w) ==
  /\ judge[w].pc = "write"
  /\ \/ Write(judge[w].at, [box[judge[w].at] EXCEPT !.status = "ready"]) /\ UNCHANGED env
     \/ Fault /\ UNCHANGED box
  /\ judge' = [judge EXCEPT ![w] = IdleJudge]
  /\ UNCHANGED <<log, engine, diag, rate, scan, sched, audit>>

---------------------------------------------------------------------------
(* bounce_handler.py: the bounce rate, and the mailbox scanners' updates.   *)
RateExceeded(b) ==
  /\ rate.pc = "idle" /\ box[b].status \notin Absent \cup {"paused"}
  /\ Event("rate")
  /\ rate' = [pc |-> "pause", at |-> b]
  /\ UNCHANGED <<box, log, engine, diag, judge, scan, sched, audit>>

RatePause ==
  /\ rate.pc = "pause"
  /\ \/ Write(rate.at, Paused(box[rate.at])) /\ rate' = [rate EXCEPT !.pc = "log"] /\ UNCHANGED env
     \/ Fault /\ rate' = IdleAt /\ UNCHANGED box
  /\ UNCHANGED <<log, engine, diag, judge, scan, sched, audit>>

RateLog ==
  /\ rate.pc = "log"
  /\ LogPause(rate.at)
  /\ rate' = IdleAt
  /\ UNCHANGED <<box, engine, diag, judge, scan, sched, audit>>

\* The score a fallback would start from is read some calls earlier.
Scored(b, kind) ==
  /\ scan.pc = "idle" /\ Exists(b)
  /\ Event(kind)
  /\ scan' = [pc |-> "bump", at |-> b, kind |-> kind, seen |-> box[b].score]
  /\ UNCHANGED <<box, log, engine, diag, judge, rate, sched, audit>>

\* imap_processor.py: mails taken out of the spam folder of the inbox; a mail of
\* the inbox read by the network account it went to; the answer read here.
RescueSpam(b) == Scored(b, "rescued")
NetworkReads(b) == Scored(b, "received")
ReplyBack(b) == Scored(b, "received")

\* bounce_handler.py
BounceFound(b) == \E kind \in {"bounce", "complaint"} : Scored(b, kind)

ScanBump ==
  /\ scan.pc = "bump"
  /\ BumpReputation(scan.at, scan.kind, scan.seen)
  /\ scan' = IdleScan
  /\ UNCHANGED <<log, engine, diag, judge, rate, sched>>

\* A login that fails, or a network account that cannot answer, is logged as an
\* error of the client's inbox.
NetworkError(b) ==
  /\ Exists(b)
  /\ Event("neterror")
  /\ log' = [log EXCEPT ![b].errors = @ + 1]
  /\ UNCHANGED <<box, engine, diag, judge, rate, scan, sched, audit>>

---------------------------------------------------------------------------
(* inbox_rotator.py and its caller, campaign_scheduler.process_lead.        *)
Eligible(b) ==
  /\ box[b].quota > 0
  /\ \/ box[b].status = "ready"
     \/ box[b].status = "warmup" /\ box[b].score >= Good

Available == {b \in Boxes : Eligible(b) /\ log[b].csent < box[b].quota}

\* The best score among the available; a matching provider may come first.
SelectInbox(b) ==
  /\ Plays("campaign") /\ sched.pc = "idle" /\ b \in Available
  /\ log[b].hour + log[b].chour < MaxHourly
  /\ sched' = [pc |-> "send", at |-> b]
  /\ UNCHANGED <<box, log, engine, diag, judge, rate, scan, env, audit>>

CampaignMail ==
  LET b == sched.at IN
  /\ sched.pc = "send"
  /\ \/ /\ Log(b, [log[b] EXCEPT !.csent = @ + 1, !.chour = @ + 1])
        /\ UNCHANGED env
     \/ Fault /\ UNCHANGED log
  /\ audit' = [audit EXCEPT ![b].camp = @ + 1]
  /\ sched' = IdleAt
  /\ UNCHANGED <<box, engine, diag, judge, rate, scan>>

---------------------------------------------------------------------------
(* The operator, through api/main.py.                                       *)
Operated(b, row) ==
  /\ box' = [box EXCEPT ![b] = row]
  /\ UNCHANGED <<log, engine, diag, judge, rate, scan, sched>>

CreateInbox(b) ==
  /\ box[b].status = "none"
  /\ Event("create")
  /\ Operated(b, Fresh)
  /\ UNCHANGED audit

\* Neither the end of an automatic pause nor their number is touched, and
\* inbox_status_log gets no row.
PauseInbox(b, on) ==
  /\ Exists(b)
  /\ Event(IF on THEN "resume" ELSE "pause")
  /\ Operated(b, [box[b] EXCEPT !.active = on, !.status = IF on THEN "warmup" ELSE "paused"])
  /\ UNCHANGED audit

\* Any status, whatever it was; or the switch alone; or the quota.
PatchInbox(b) ==
  /\ Exists(b)
  /\ Event("patch")
  /\ \/ \E st \in Statuses : Operated(b, [box[b] EXCEPT !.status = st])
     \/ Operated(b, [box[b] EXCEPT !.active = ~@])
     \/ Operated(b, [box[b] EXCEPT !.quota = Quota - @])
  /\ UNCHANGED audit

\* delete_inbox takes warmup_logs first, then the row. A foreign key keeps a row
\* that has mails or bounces, of whatever age, or that was mailed from meanwhile.
DeleteLogs(b) ==
  /\ Exists(b)
  /\ Event("delete")
  /\ log' = [log EXCEPT ![b] = [@ EXCEPT !.sent = 0, !.hour = 0, !.errors = 0, !.auto = FALSE]]
  /\ removal' = removal \cup {b}
  /\ UNCHANGED <<box, engine, diag, judge, rate, scan, sched, audit>>

Referenced(b) == log[b].sent + log[b].errors + log[b].csent > 0 \/ log[b].auto

DeleteInbox(b) ==
  /\ b \in removal
  /\ \/ /\ ~Referenced(b)
        /\ box' = [box EXCEPT ![b] = [Gone EXCEPT !.status = "deleted"]]
        /\ log' = [log EXCEPT ![b] = NoLog]
        /\ audit' = [audit EXCEPT ![b].lost = audit[b].warm]
     \/ UNCHANGED <<box, log, audit>>
  /\ removal' = removal \ {b}
  /\ UNCHANGED <<engine, diag, judge, rate, scan, sched, env>>

---------------------------------------------------------------------------
(* Time: the windows the code counts in.                                    *)
Midnight ==
  /\ Plays("midnight") /\ env.day < MaxDay
  /\ env' = [env EXCEPT !.day = @ + 1]
  /\ box' = [b \in Boxes |-> [box[b] EXCEPT !.stamped = FALSE]]
  /\ log' = [b \in Boxes |-> [log[b] EXCEPT !.sent = 0, !.csent = 0]]
  /\ audit' = [b \in Boxes |-> [audit[b] EXCEPT !.warm = 0, !.camp = 0, !.lost = 0]]
  /\ UNCHANGED <<engine, diag, judge, rate, scan, sched>>

HourPasses ==
  /\ Plays("hour")
  /\ \E b \in Boxes : log[b].hour + log[b].chour + log[b].errors > 0
  /\ log' = [b \in Boxes |-> [log[b] EXCEPT !.hour = 0, !.chour = 0, !.errors = 0]]
  /\ UNCHANGED <<box, engine, diag, judge, rate, scan, sched, env, audit>>

\* The two hours of an automatic pause, and the day after which its number lapses.
PauseAges(b) ==
  /\ box[b].reset \in {"future", "past"}
  /\ box' = [box EXCEPT ![b].reset = IF @ = "future" THEN "past" ELSE "stale"]
  /\ UNCHANGED <<log, engine, diag, judge, rate, scan, sched, env, audit>>

WeekPasses(b) ==
  /\ Plays("weeks")
  /\ log[b].hist \/ log[b].auto
  /\ log' = [log EXCEPT ![b].hist = FALSE, ![b].auto = FALSE]
  /\ UNCHANGED <<box, engine, diag, judge, rate, scan, sched, env, audit>>

\* Four weeks of warmup; two weeks without a complaint.
Ripens(b) ==
  /\ Plays("weeks")
  /\ Exists(b) /\ (box[b].spam \/ ~box[b].ripe)
  /\ box' = [box EXCEPT ![b].spam = FALSE, ![b].ripe = TRUE]
  /\ UNCHANGED <<log, engine, diag, judge, rate, scan, sched, env, audit>>

---------------------------------------------------------------------------
EngineStep == EngineLoad \/ Heal \/ (\E b \in Boxes : Aim(b)) \/ NoRecipient \/ NoText \/ WarmupMail
              \/ SmtpError \/ CountMail \/ RewardMail \/ EngineKilled
JudgeStep(w) == Judge(w) \/ Promote(w)
DiagStep(c) ==
  \/ DriftLoad(c) \/ DriftLog(c) \/ SmtpLoad(c) \/ SmtpLog(c) \/ PromoteLoad(c) \/ CycleEnds(c)
  \/ \E b \in Boxes : DriftPause(c, b) \/ AutoResume(c, b) \/ SmtpPause(c, b) \/ CycleJudges(c, b)
ScanStep == \/ RatePause \/ RateLog \/ ScanBump
            \/ \E b \in Boxes : \/ RateExceeded(b) \/ NetworkError(b) \/ BounceFound(b)
                                 \/ RescueSpam(b) \/ NetworkReads(b) \/ ReplyBack(b)
SchedStep == CampaignMail \/ \E b \in Boxes : SelectInbox(b)
Operator(b) == CreateInbox(b) \/ (\E on \in BOOLEAN : PauseInbox(b, on)) \/ PatchInbox(b)
RemovalStep == \E b \in Boxes : DeleteLogs(b) \/ DeleteInbox(b)
Time == Midnight \/ HourPasses \/ \E b \in Boxes : PauseAges(b) \/ WeekPasses(b) \/ Ripens(b)

OtherStep ==
  \/ EngineStep \/ DailyReset \/ ResetCounts \/ ScanStep \/ SchedStep \/ Time
  \/ \E w \in Judges : JudgeStep(w)
  \/ \E b \in Boxes : ApiJudges(b) \/ Operator(b)

Step ==
  \/ OtherStep /\ UNCHANGED <<removal, renewed>>
  \/ (\E c \in Loops : DiagStep(c)) /\ UNCHANGED removal
  \/ RemovalStep /\ UNCHANGED renewed

Mailed(b) == audit'[b].warm + audit'[b].camp > audit[b].warm + audit[b].camp

Next ==
  /\ Step
  /\ late' = [b \in Boxes |-> IF ~Off(b)' THEN 0 ELSE IF Mailed(b) THEN late[b] + 1 ELSE late[b]]

Spec == Init /\ [][Next]_vars

\* The loops of diagnostics_engine.main go on for ever, and time passes.
Fairness ==
  /\ \A c \in Loops : WF_diag(DiagStep(c)) /\ WF_judge(JudgeStep(c))
  /\ \A b \in Boxes : WF_box(PauseAges(b))
FairSpec == Spec /\ Fairness

---------------------------------------------------------------------------
(* Properties.                                                              *)

\* The tables and the runs keep their types.
Row == [status : Statuses \cup Absent, active : BOOLEAN,
        reset : {"none", "future", "past", "stale"}, pauses : 0..MaxPauses,
        daily : Nat, stamped : BOOLEAN, score : 0..MaxScore,
        ripe : BOOLEAN, spam : BOOLEAN, reached : BOOLEAN, quota : {0, Quota}]
LogRow == [sent : Nat, hour : Nat, csent : Nat, chour : Nat, errors : Nat,
           hist : BOOLEAN, auto : BOOLEAN]
TablesOK ==
  /\ box \in [Boxes -> Row]
  /\ log \in [Boxes -> LogRow]
EngineOK ==
  engine \in [pc : {"idle", "heal", "work", "mail", "count", "bump"}, at : Boxes,
              todo : SUBSET Boxes, rows : [Boxes -> [daily : Nat, ready : BOOLEAN, ripe : BOOLEAN,
                                                     score : 0..MaxScore]]]
DiagOK ==
  diag \in [Loops -> [pc : {"idle", "drift", "driftlog", "resume", "smtplog", "promote"}, at : Boxes,
                      todo : SUBSET Boxes, failing : SUBSET Boxes, pauses : [Boxes -> 0..MaxPauses]]]
OthersOK ==
  /\ judge \in [Judges -> [pc : {"idle", "judge", "write"}, at : Boxes, fit : BOOLEAN]]
  /\ rate \in [pc : {"idle", "pause", "log"}, at : Boxes]
  /\ scan \in [pc : {"idle", "bump"}, at : Boxes, kind : Kinds, seen : 0..MaxScore]
  /\ sched \in [pc : {"idle", "send"}, at : Boxes]
HistoryOK ==
  /\ env \in [day : 0..MaxDay, faults : 0..MaxFaults, events : 0..MaxEvents, cast : Casts]
  /\ audit \in [Boxes -> [warm : Nat, camp : Nat, lost : Nat, score : 0..MaxScore]]
TypeOK ==
  /\ TablesOK /\ EngineOK /\ DiagOK /\ OthersOK /\ HistoryOK
  /\ removal \subseteq Boxes /\ renewed \subseteq Loops \X Boxes /\ late \in [Boxes -> Nat]

\* The counter of an inbox, the mails of today it missed because it was reset
\* or could not be written, and the one being counted, make up its warmup
\* mails of today: no interleaving of engine, heal and resets loses one more.
CounterKeepsUp ==
  \A b \in Boxes : Exists(b) =>
    audit[b].warm <= box[b].daily + audit[b].lost
                     + (IF engine.pc = "count" /\ engine.at = b THEN 1 ELSE 0)

\* Engine and scanners update the score of the same inbox in any order, and no
\* update is lost as long as the SQL function answers.
ScoreOffNeedsFailure ==
  \A b \in Boxes : Exists(b) /\ box[b].score # audit[b].score => env.faults > 0

\* An inbox that is paused or retired and switched off, or deleted, sends at
\* most the one mail each program had already decided on.
AtMostTwoLateMails == \A b \in Boxes : late[b] <= 2

\* A resume that lifts a pause before its two hours are over.
Lifts(c, b) == /\ diag[c]' # diag[c]
               /\ box[b].status = "paused" /\ box[b].reset = "future"
               /\ box'[b].status # "paused"

\* A cycle of the diagnostics lifts no pause whose two hours are not over, even
\* one it renews itself, but for one that another loop renewed between its
\* reading of the row and the resume.
SmtpPauseLasts ==
  [][\A c \in Loops, b \in Boxes : Lifts(c, b) => <<c, b>> \in renewed]_vars

\* No job switches an inbox on again that was switched off for its score, its
\* bounces or by hand: neither the resume nor the promotion does.
SwitchedOffStaysOff ==
  [][\A b \in Boxes : Exists(b) /\ ~box[b].active /\ box'[b].active =>
       env'.events > env.events]_vars

\* A pause for SMTP errors ends without anybody's help, also when the errors
\* go on and renew it.
SmtpPauseEnds ==
  \A b \in Boxes :
    (\E c \in Loops : Plays(c)) /\ box[b].status = "paused" /\ box[b].reset # "none"
      ~> box[b].status # "paused" \/ box[b].reset = "none"
=============================================================================
