--------------------------- MODULE WebhookDelivery ---------------------------
(***************************************************************************)
(* webhook_dispatcher.py: events that wait in webhook_events are posted to *)
(* the client's active webhooks, the first attempt leaves a row in         *)
(* webhook_logs, and a failed row is retried after one, five and thirty    *)
(* minutes.  A cycle runs in the dispatcher's own process or in the API's  *)
(* (POST /webhooks/dispatch, fired by n8n every minute); no lock keeps     *)
(* them apart.                                                             *)
(*                                                                         *)
(* The circuit breaker is left out because it never opens: its update      *)
(* names columns webhooks does not have (full_schema.sql), and the error   *)
(* is swallowed.  A cycle's limits (100 retries, 200 events) are not       *)
(* reached here.  Every webhook is subscribed to every event.              *)
(***************************************************************************)
EXTENDS Naturals, Sequences, FiniteSets

CONSTANTS
  Workers,       \* dispatch cycles that may run side by side
  Events,        \* rows of webhook_events
  Hooks,         \* the client's webhooks
  MaxAttempts,   \* MAX_ATTEMPTS
  MaxFaults,     \* bound: crashes and failed writes
  MaxLost,       \* bound: answers lost after the endpoint took the post
  MaxSwitches    \* bound: webhooks switched off, on, or deleted

ASSUME WebhookDeliveryAssumption ==
  /\ IsFiniteSet(Workers) /\ IsFiniteSet(Events) /\ IsFiniteSet(Hooks)
  /\ MaxAttempts \in Nat \ {0}
  /\ MaxFaults \in Nat /\ MaxLost \in Nat /\ MaxSwitches \in Nat

VARIABLES
  event,         \* "none", "pending" (dispatched = false), "dispatched"
  hook,          \* "on" (active), "off", "gone" (deleted with its logs)
  log,           \* webhook_logs, in order of insertion
  \* a cycle
  pc,
  retries,       \* rows due when it began, with their attempt_count
  batch,         \* events still to process
  targets,       \* webhooks still to post the current event to
  at,            \* the row, or the event and webhook, in hand
  ok,            \* the outcome of the post
  \* the world
  posts,         \* posts[e][h]: POSTs made
  received,      \* received[e][h]: those the endpoint took
  latePosts,     \* latePosts[h]: POSTs made since h is off or gone
  everOff,       \* webhooks that have been off at some time
  faults, lost, switches

tables == <<event, hook, log>>
local == <<pc, retries, batch, targets, at, ok>>
world == <<posts, received, latePosts>>
vars == <<tables, local, world, everOff, faults, lost, switches>>

Nothing == <<>>

Init ==
  /\ event = [e \in Events |-> "none"]
  /\ hook = [h \in Hooks |-> "on"]
  /\ log = <<>>
  /\ pc = [w \in Workers |-> "idle"]
  /\ retries = [w \in Workers |-> {}]
  /\ batch = [w \in Workers |-> {}]
  /\ targets = [w \in Workers |-> {}]
  /\ at = [w \in Workers |-> Nothing]
  /\ ok = [w \in Workers |-> FALSE]
  /\ posts = [e \in Events |-> [h \in Hooks |-> 0]]
  /\ received = [e \in Events |-> [h \in Hooks |-> 0]]
  /\ latePosts = [h \in Hooks |-> 0]
  /\ everOff = {}
  /\ faults = 0 /\ lost = 0 /\ switches = 0

-----------------------------------------------------------------------------
Goto(w, label) == pc' = [pc EXCEPT ![w] = label]

\* On to the next row or webhook: what was in hand is forgotten.
NextIn(w, label, hand) ==
  /\ Goto(w, label)
  /\ at' = [at EXCEPT ![w] = hand]
  /\ ok' = [ok EXCEPT ![w] = FALSE]

Fault == faults < MaxFaults /\ faults' = faults + 1

\* Mutant: one retry too many.
RetryAtLate(n) == IF n > MaxAttempts THEN "none" ELSE "later"

\* _retry_at: next_retry_at after the n-th attempt has failed.
RetryAt(n) == IF n >= MaxAttempts THEN "none" ELSE "later"

Row(e, h, n, success) ==
  [event |-> e, hook |-> h, attempts |-> n, success |-> success,
   retry |-> IF success THEN "none" ELSE RetryAt(n)]

\* Mutant: rows are picked by their attempt_count.
DueRetriesByCount ==
  {i \in DOMAIN log : log[i].attempts < MaxAttempts /\ hook[log[i].hook] # "gone"}

\* success = false and next_retry_at <= now.
DueRetries ==
  {i \in DOMAIN log : ~log[i].success /\ log[i].retry = "due" /\ hook[log[i].hook] # "gone"}

\* deliver: the endpoint answers 2xx, answers anything else (or the secret
\* or the URL is refused before the post), or takes the post and its answer
\* is lost.
Deliver(w, e, h) ==
  /\ posts' = [posts EXCEPT ![e][h] = @ + 1]
  /\ latePosts' = [latePosts EXCEPT ![h] = IF hook[h] = "on" THEN @ ELSE @ + 1]
  /\ \/ /\ ok' = [ok EXCEPT ![w] = TRUE]
        /\ received' = [received EXCEPT ![e][h] = @ + 1]
        /\ UNCHANGED lost
     \/ /\ ok' = [ok EXCEPT ![w] = FALSE]
        /\ UNCHANGED <<received, lost>>
     \/ /\ lost < MaxLost /\ lost' = lost + 1
        /\ ok' = [ok EXCEPT ![w] = FALSE]
        /\ received' = [received EXCEPT ![e][h] = @ + 1]

-----------------------------------------------------------------------------
(* process_retries.                                                        *)

\* run_cycle begins: the due rows are read once, with their attempt_count.
LoadRetries(w) ==
  /\ pc[w] = "idle"
  /\ retries' = [retries EXCEPT ![w] = {<<i, log[i].attempts>> : i \in DueRetries}]
  /\ Goto(w, "retries")
  /\ UNCHANGED <<tables, batch, targets, at, ok, world, everOff, faults, lost, switches>>

\* The queue cannot be read: the cycle goes on to the events.
LoadRetriesFails(w) ==
  /\ pc[w] = "idle"
  /\ Fault
  /\ Goto(w, "retries")
  /\ UNCHANGED <<tables, retries, batch, targets, at, ok, world, everOff, lost, switches>>

\* The webhook is read again: it may have been disabled or deleted.
StillActive(h) == hook[h] = "on"

TakeRetry(w, r) ==
  /\ pc[w] = "retries" /\ r \in retries[w]
  /\ retries' = [retries EXCEPT ![w] = @ \ {r}]

CheckRetry(w, r) ==
  /\ TakeRetry(w, r)
  /\ StillActive(log[r[1]].hook)
  /\ at' = [at EXCEPT ![w] = r]
  /\ Goto(w, "repost")
  /\ UNCHANGED <<tables, batch, targets, ok, world, everOff, faults, lost, switches>>

\* Mutant: the row of an inactive webhook is passed over.
ClearRetryNot(w, r) ==
  /\ TakeRetry(w, r)
  /\ ~StillActive(log[r[1]].hook)
  /\ UNCHANGED <<tables, pc, batch, targets, at, ok, world, everOff, faults, lost, switches>>

\* _clear_retry; the row of a deleted webhook is gone with it.
ClearRetry(w, r) ==
  /\ TakeRetry(w, r)
  /\ ~StillActive(log[r[1]].hook)
  /\ log' = [log EXCEPT ![r[1]].retry = "none"]
  /\ UNCHANGED <<event, hook, pc, batch, targets, at, ok, world, everOff, faults, lost, switches>>

\* The webhook cannot be read, or the retry cannot be cleared.
SkipRetry(w, r) ==
  /\ TakeRetry(w, r)
  /\ Fault
  /\ UNCHANGED <<tables, pc, batch, targets, at, ok, world, everOff, lost, switches>>

Repost(w) ==
  /\ pc[w] = "repost"
  /\ Deliver(w, log[at[w][1]].event, log[at[w][1]].hook)
  /\ Goto(w, "update")
  /\ UNCHANGED <<tables, retries, batch, targets, at, everOff, faults, switches>>

\* The row is overwritten with what this attempt found, counted from the
\* attempt_count read at the beginning.
UpdateRow(w) ==
  LET i == at[w][1]
      n == at[w][2] + 1
  IN
  /\ pc[w] = "update"
  /\ log' = IF hook[log[i].hook] = "gone" THEN log
            ELSE [log EXCEPT ![i] = Row(log[i].event, log[i].hook, n, ok[w])]
  /\ NextIn(w, "retries", Nothing)
  /\ UNCHANGED <<event, hook, retries, batch, targets, world, everOff, faults, lost, switches>>

UpdateLost(w) ==
  /\ pc[w] = "update"
  /\ Fault
  /\ NextIn(w, "retries", Nothing)
  /\ UNCHANGED <<tables, retries, batch, targets, world, everOff, lost, switches>>

-----------------------------------------------------------------------------
(* process_event.                                                          *)

\* Mutant: an event that has a log row counts as processed.
LoadEventsUnlogged(w) ==
  /\ pc[w] = "retries" /\ retries[w] = {}
  /\ batch' = [batch EXCEPT ![w] =
       {e \in Events : event[e] = "pending" /\ \A i \in DOMAIN log : log[i].event # e}]
  /\ Goto(w, "events")
  /\ UNCHANGED <<tables, retries, targets, at, ok, world, everOff, faults, lost, switches>>

LoadEvents(w) ==
  /\ pc[w] = "retries" /\ retries[w] = {}
  /\ batch' = [batch EXCEPT ![w] = {e \in Events : event[e] = "pending"}]
  /\ Goto(w, "events")
  /\ UNCHANGED <<tables, retries, targets, at, ok, world, everOff, faults, lost, switches>>

\* The active webhooks are read once for each event.
Match(w, e) ==
  /\ pc[w] = "events" /\ e \in batch[w]
  /\ batch' = [batch EXCEPT ![w] = @ \ {e}]
  /\ targets' = [targets EXCEPT ![w] = {h \in Hooks : hook[h] = "on"}]
  /\ at' = [at EXCEPT ![w] = <<e>>]
  /\ Goto(w, "targets")
  /\ UNCHANGED <<tables, retries, ok, world, everOff, faults, lost, switches>>

\* The webhooks cannot be read; the event stays pending.
MatchFails(w, e) ==
  /\ pc[w] = "events" /\ e \in batch[w]
  /\ Fault
  /\ batch' = [batch EXCEPT ![w] = @ \ {e}]
  /\ UNCHANGED <<tables, pc, retries, targets, at, ok, world, everOff, lost, switches>>

Post(w, h) ==
  /\ pc[w] = "targets" /\ h \in targets[w]
  /\ Deliver(w, at[w][1], h)
  /\ targets' = [targets EXCEPT ![w] = @ \ {h}]
  /\ at' = [at EXCEPT ![w] = <<at[w][1], h>>]
  /\ Goto(w, "log")
  /\ UNCHANGED <<tables, retries, batch, everOff, faults, switches>>

\* _log_attempt; the row of a deleted webhook breaks its foreign key and
\* the error is swallowed.
LogAttempt(w) ==
  LET e == at[w][1]
      h == at[w][2]
  IN
  /\ pc[w] = "log"
  /\ log' = IF hook[h] = "gone" THEN log ELSE Append(log, Row(e, h, 1, ok[w]))
  /\ NextIn(w, "targets", <<e>>)
  /\ UNCHANGED <<event, hook, retries, batch, targets, world, everOff, faults, lost, switches>>

LogLost(w) ==
  /\ pc[w] = "log"
  /\ Fault
  /\ NextIn(w, "targets", <<at[w][1]>>)
  /\ UNCHANGED <<tables, retries, batch, targets, world, everOff, lost, switches>>

\* Mutant: the event is marked before its last webhook.
MarkDispatchedEarly(w) ==
  /\ pc[w] = "targets" /\ Cardinality(targets[w]) <= 1
  /\ event' = [event EXCEPT ![at[w][1]] = "dispatched"]
  /\ targets' = [targets EXCEPT ![w] = {}]
  /\ NextIn(w, "events", Nothing)
  /\ UNCHANGED <<hook, log, retries, batch, world, everOff, faults, lost, switches>>

\* Every webhook has been posted to, whatever came of it.
MarkDispatched(w) ==
  /\ pc[w] = "targets" /\ targets[w] = {}
  /\ event' = [event EXCEPT ![at[w][1]] = "dispatched"]
  /\ NextIn(w, "events", Nothing)
  /\ UNCHANGED <<hook, log, retries, batch, targets, world, everOff, faults, lost, switches>>

MarkLost(w) ==
  /\ pc[w] = "targets" /\ targets[w] = {}
  /\ Fault
  /\ NextIn(w, "events", Nothing)
  /\ UNCHANGED <<tables, retries, batch, targets, world, everOff, lost, switches>>

EndCycle(w) ==
  /\ pc[w] = "events" /\ batch[w] = {}
  /\ Goto(w, "idle")
  /\ UNCHANGED <<tables, retries, batch, targets, at, ok, world, everOff, faults, lost, switches>>

\* The process is killed, or an exception ends the cycle.
Crash(w) ==
  /\ pc[w] # "idle"
  /\ Fault
  /\ retries' = [retries EXCEPT ![w] = {}]
  /\ batch' = [batch EXCEPT ![w] = {}]
  /\ targets' = [targets EXCEPT ![w] = {}]
  /\ NextIn(w, "idle", Nothing)
  /\ UNCHANGED <<tables, world, everOff, lost, switches>>

-----------------------------------------------------------------------------
(* Producers, time and the client.                                         *)

\* _emit_event and its like insert a row.
Emit(e) ==
  /\ event[e] = "none"
  /\ event' = [event EXCEPT ![e] = "pending"]
  /\ UNCHANGED <<hook, log, local, world, everOff, faults, lost, switches>>

\* next_retry_at passes.
BackoffEnds(i) ==
  /\ log[i].retry = "later"
  /\ log' = [log EXCEPT ![i].retry = "due"]
  /\ UNCHANGED <<event, hook, local, world, everOff, faults, lost, switches>>

\* PATCH /webhooks/{id} with active, and DELETE /webhooks/{id}.
SwitchHook(h, s) ==
  /\ hook[h] # "gone" /\ hook[h] # s
  /\ switches < MaxSwitches /\ switches' = switches + 1
  /\ hook' = [hook EXCEPT ![h] = s]
  /\ everOff' = everOff \cup {h}
  /\ latePosts' = [latePosts EXCEPT ![h] = IF s = "on" THEN 0 ELSE @]
  /\ UNCHANGED <<event, log, local, posts, received, faults, lost>>

-----------------------------------------------------------------------------
Retry(w) ==
  \/ \E r \in retries[w] : CheckRetry(w, r) \/ ClearRetry(w, r) \/ SkipRetry(w, r)
  \/ Repost(w)
  \/ UpdateRow(w) \/ UpdateLost(w)

Dispatch(w) ==
  \/ \E e \in Events : Match(w, e) \/ MatchFails(w, e)
  \/ \E h \in Hooks : Post(w, h)
  \/ LogAttempt(w) \/ LogLost(w)
  \/ MarkDispatched(w) \/ MarkLost(w)

Cycle(w) == LoadRetries(w) \/ LoadRetriesFails(w) \/ Retry(w) \/ LoadEvents(w) \/ Dispatch(w) \/ EndCycle(w)

Next ==
  \/ \E w \in Workers : Cycle(w) \/ Crash(w)
  \/ \E e \in Events : Emit(e)
  \/ \E i \in DOMAIN log : BackoffEnds(i)
  \/ \E h \in Hooks, s \in {"on", "off", "gone"} : SwitchHook(h, s)

Spec == Init /\ [][Next]_vars

\* main loops for ever (and n8n posts every minute); time passes.
Fairness ==
  /\ \A w \in Workers : WF_vars(Cycle(w))
  /\ WF_vars(\E i \in DOMAIN log : BackoffEnds(i))

FairSpec == Spec /\ Fairness

-----------------------------------------------------------------------------
Rows == [event : Events, hook : Hooks, attempts : 1..MaxAttempts, success : BOOLEAN,
         retry : {"none", "later", "due"}]
Labels == {"idle", "retries", "repost", "update", "events", "targets", "log"}

Hands == {Nothing} \cup {<<e>> : e \in Events} \cup (Events \X Hooks)
           \cup ((DOMAIN log) \X (1..(MaxAttempts - 1)))

TablesOK ==
  /\ event \in [Events -> {"none", "pending", "dispatched"}]
  /\ hook \in [Hooks -> {"on", "off", "gone"}]
  /\ log \in Seq(Rows)

CyclesOK ==
  /\ pc \in [Workers -> Labels]
  /\ retries \in [Workers -> SUBSET ((DOMAIN log) \X (1..(MaxAttempts - 1)))]
  /\ at \in [Workers -> Hands]
  /\ batch \in [Workers -> SUBSET Events]
  /\ targets \in [Workers -> SUBSET Hooks]
  /\ ok \in [Workers -> BOOLEAN]

WorldOK ==
  /\ posts \in [Events -> [Hooks -> Nat]]
  /\ received \in [Events -> [Hooks -> Nat]]
  /\ latePosts \in [Hooks -> Nat]
  /\ everOff \subseteq Hooks
  /\ faults \in 0..MaxFaults /\ lost \in 0..MaxLost /\ switches \in 0..MaxSwitches

\* No row is ever due again at its last attempt, and no snapshot names one.
TypeOK == TablesOK /\ CyclesOK /\ WorldOK

\* The endpoint has it, it will be tried again, or all attempts are used up.
Settled(e, h) ==
  \/ received[e][h] > 0
  \/ \E i \in DOMAIN log :
       /\ log[i].event = e /\ log[i].hook = h
       /\ log[i].retry # "none" \/ log[i].attempts = MaxAttempts

\* An event is marked as dispatched while deliveries of it may have failed:
\* for a webhook that stayed active none of them is forgotten, but for one
\* with each failed write.
NothingForgotten ==
  Cardinality({d \in Events \X Hooks :
    event[d[1]] = "dispatched" /\ d[2] \notin everOff /\ ~Settled(d[1], d[2])}) <= faults

\* webhook_dispatcher.py:24 "Attempt 4 ... (final — no more retries after
\* this)": a webhook gets an event MaxAttempts times, and each crash or failed
\* write at most starts the count afresh.
AttemptsBounded ==
  \A e \in Events, h \in Hooks : posts[e][h] <= MaxAttempts * (1 + faults)

\* A single cycle at a time delivers twice only when an answer was lost, or
\* a crash or failed write made it process an event or a row again.
ExtraPosts == UNION {{d} \X (2..received[d[1]][d[2]]) : d \in Events \X Hooks}
DuplicatesNeedFaults == Cardinality(ExtraPosts) <= lost + faults * Cardinality(Hooks)

\* A webhook that is switched off or deleted gets at most the post each
\* cycle had already decided on.
QuietWhenOff == \A h \in Hooks : latePosts[h] <= Cardinality(Workers)

\* Every event is dispatched, and every retry comes to an end.
EventsAreDispatched == \A e \in Events : event[e] = "pending" ~> event[e] = "dispatched"

Open(e, h) ==
  \E i \in DOMAIN log : /\ log[i].event = e /\ log[i].hook = h
                        /\ hook[h] # "gone" /\ log[i].retry # "none"
RetriesEnd == \A e \in Events, h \in Hooks : Open(e, h) ~> ~Open(e, h)
=============================================================================
