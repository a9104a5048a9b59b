------------------------------ MODULE Accounts ------------------------------
(* The end of a client: utils/client_deletion.py, table by table, as the    *)
(* admin's request and as the last stage of retention_engine.py, while the  *)
(* client's mail still runs. And the rows that only grow old.               *)
EXTENDS Casting, Sequences

VARIABLES
  tab,       \* rows of the client by table, by age
  closing,   \* clients.closed_at: not set, set, set longer than the grace period ago
  del,       \* a run of hard_delete_client
  night,     \* a run of retention_engine
  mailer,    \* the scheduler at one lead of the client
  optedOut,  \* the lead it is at has opted out
  mailedOut  \* history: such a lead was mailed

accountVars == <<tab, closing, del, night, mailer, optedOut, mailedOut>>

\* Mutants: the suppression list goes before the leads it stands for; the
\* tables that block the client's row come after it.
DeletionOrderListFirst ==
  <<"suppression_list", "warmup_logs", "bounce_log", "email_events", "reply_inbox",
    "sending_schedule", "campaign_leads", "campaigns", "email_tracking", "inboxes", "leads",
    "clients">>
DeletionOrderLate ==
  <<"warmup_logs", "bounce_log", "email_events", "campaign_leads", "campaigns",
    "email_tracking", "inboxes", "leads", "suppression_list", "clients", "reply_inbox",
    "sending_schedule">>

\* What is deleted, in the order of the code's lists: tables that hang on inboxes
\* only, those that hang on leads, those that refer to inboxes, campaigns and
\* leads and would keep them, those with a client, the opt-out list among them,
\* and the client. Tables nothing depends on are left out.
DeletionOrder ==
  <<"warmup_logs", "bounce_log", "email_events", "reply_inbox", "sending_schedule",
    "campaign_leads", "campaigns", "email_tracking", "inboxes", "leads", "suppression_list",
    "clients">>

TableNames == {DeletionOrder[i] : i \in DOMAIN DeletionOrder}
Ages == {"old", "new"}
AgedTables == {"reply_inbox", "email_tracking", "warmup_logs", "bounce_log", "email_events"}
Deleters == {"admin", "retention"}
Quiet == [at |-> 0, spoiled |-> FALSE]

\* Foreign keys without an action: a row that is left keeps its parent.
Keeps(t) ==
  CASE t \in {"inboxes", "clients"} ->
         {"warmup_logs", "bounce_log", "email_events", "reply_inbox", "sending_schedule"}
    [] t \in {"campaigns", "leads"} -> {"email_events", "reply_inbox"}
    [] OTHER -> {}
Blocked(t) == \E u \in Keeps(t) : tab[u] # {}

\* The rows of a campaign and of a lead go with it, and all with the client.
Gone(t) ==
  CASE t = "clients" -> [u \in TableNames |-> {}]
    [] t \in {"campaigns", "leads"} -> [tab EXCEPT ![t] = {}, !["campaign_leads"] = {}]
    [] OTHER -> [tab EXCEPT ![t] = {}]

AccountInit ==
  /\ tab = [t \in TableNames |-> IF t \in AgedTables THEN Ages ELSE {"new"}]
  /\ closing = "open"
  /\ del = [w \in Deleters |-> Quiet]
  /\ night = 0
  /\ mailer = "idle"
  /\ optedOut \in BOOLEAN
  /\ mailedOut = FALSE

---------------------------------------------------------------------------
\* Where a deletion is: 1 while it reads the client's ids, one more than the
\* place in the order after that, and Ended.
Ended == Len(DeletionOrder) + 2
Running(w) == del[w].at \notin {0, Ended}
\* What a deletion cannot know of: a row that comes in, a call that fails.
Spoil == [w \in Deleters |-> IF Running(w) THEN [del[w] EXCEPT !.spoiled = TRUE] ELSE del[w]]

BeginDeletion(w) == del' = [del EXCEPT ![w] = [at |-> 1, spoiled |-> FALSE]]

AdminDeletes ==
  /\ ~Running("admin") /\ Event("delete")
  /\ BeginDeletion("admin")
  /\ UNCHANGED <<tab, closing, night, mailer, optedOut, mailedOut>>

\* The three lists of ids come first, and the only failure that ends the run.
ReadIds(w) ==
  /\ del[w].at = 1
  /\ \/ del' = [del EXCEPT ![w].at = 2] /\ UNCHANGED env
     \/ Fault /\ del' = [del EXCEPT ![w] = Quiet]
  /\ UNCHANGED <<tab, closing, night, mailer, optedOut, mailedOut>>

\* Each table for itself; what fails, or is refused for a row that refers to
\* it, is an entry in the answer.
DeleteTable(w) ==
  LET i == del[w].at IN
  /\ i > 1 /\ i < Ended
  /\ \/ ~Blocked(DeletionOrder[i - 1]) /\ tab' = Gone(DeletionOrder[i - 1])
        /\ del' = [del EXCEPT ![w].at = i + 1] /\ UNCHANGED env
     \/ Blocked(DeletionOrder[i - 1])
        /\ del' = [del EXCEPT ![w].at = i + 1] /\ UNCHANGED <<tab, env>>
     \/ Fault /\ del' = [Spoil EXCEPT ![w].at = i + 1] /\ UNCHANGED tab
  /\ UNCHANGED <<closing, night, mailer, optedOut, mailedOut>>

DeleterKilled(w) ==
  /\ Running(w) /\ Fault
  /\ del' = [del EXCEPT ![w] = Quiet]
  /\ UNCHANGED <<tab, closing, night, mailer, optedOut, mailedOut>>

---------------------------------------------------------------------------
\* Nothing in the code closes an account; the operator does it in the table.
CloseAccount ==
  /\ closing = "open" /\ Event("close")
  /\ closing' = "grace"
  /\ UNCHANGED <<tab, del, night, mailer, optedOut, mailedOut>>

GracePasses ==
  /\ closing = "grace"
  /\ closing' = "over"
  /\ UNCHANGED <<env, tab, del, night, mailer, optedOut, mailedOut>>

\* Mutant: what is found by lead is left out.
AgedOrderNoEvents == <<"reply_inbox", "email_tracking", "inbox ids", "warmup_logs", "bounce_log">>

\* What a night does with each client: the two tables it finds by client, those
\* it finds by inbox and those by lead; then the closed accounts.
AgedOrder == <<"reply_inbox", "email_tracking", "inbox ids", "warmup_logs", "bounce_log",
               "lead ids", "email_events">>
Lists == {"inbox ids", "lead ids"}

NightBegins ==
  /\ Plays("night") /\ night = 0 /\ ~Running("retention") /\ tab["clients"] # {}
  /\ night' = 1
  /\ UNCHANGED <<env, tab, closing, del, mailer, optedOut, mailedOut>>

\* A list that cannot be read ends the purge of old rows, for this client and
\* all after it. A table that fails is an entry in the result.
PurgeAged ==
  /\ night \in DOMAIN AgedOrder
  /\ LET t == AgedOrder[night] IN
     \/ t \in Lists /\ night' = night + 1 /\ UNCHANGED <<env, tab>>
     \/ t \in Lists /\ Fault /\ night' = Len(AgedOrder) + 1 /\ UNCHANGED tab
     \/ t \notin Lists /\ tab' = [tab EXCEPT ![t] = @ \ {"old"}] /\ night' = night + 1 /\ UNCHANGED env
     \/ t \notin Lists /\ Fault /\ night' = night + 1 /\ UNCHANGED tab
  /\ UNCHANGED <<closing, del, mailer, optedOut, mailedOut>>

PurgeClosed ==
  /\ night = Len(AgedOrder) + 1
  /\ night' = 0
  /\ \/ /\ IF closing = "over" /\ tab["clients"] # {} THEN BeginDeletion("retention") ELSE UNCHANGED del
        /\ UNCHANGED env
     \/ Fault /\ UNCHANGED del
  /\ UNCHANGED <<tab, closing, mailer, optedOut, mailedOut>>

NightKilled ==
  /\ night # 0 /\ Fault
  /\ night' = 0
  /\ UNCHANGED <<tab, closing, del, mailer, optedOut, mailedOut>>

---------------------------------------------------------------------------
\* The rows the client's mail writes: a row needs the rows it refers to.
Parents(t) == CASE t = "email_events" -> {"inboxes", "campaigns", "leads"}
                [] t \in {"reply_inbox", "warmup_logs"} -> {"inboxes"}
Inserted(t) == IF \A u \in Parents(t) : tab[u] # {} THEN [tab EXCEPT ![t] = @ \cup {"new"}] ELSE tab
Writes(t) == tab' = Inserted(t) /\ del' = IF Inserted(t) = tab THEN del ELSE Spoil

\* A reply is stored, a warmup mail logged.
RowComesIn(t) ==
  /\ Event("row")
  /\ Writes(t)
  /\ UNCHANGED <<closing, night, mailer, optedOut, mailedOut>>

Mailer(pc) == mailer' = pc /\ UNCHANGED <<closing, night, optedOut>>

TakeLead ==
  /\ mailer = "idle" /\ tab["campaign_leads"] # {}
  /\ Event("mail")
  /\ Mailer("check") /\ UNCHANGED <<tab, del, mailedOut>>

\* A lead on the list is left out; when the list cannot be read, too.
CheckList ==
  /\ mailer = "check"
  /\ \/ Mailer(IF optedOut /\ tab["suppression_list"] # {} THEN "idle" ELSE "claim") /\ UNCHANGED env
     \/ Fault /\ Mailer("idle")
  /\ UNCHANGED <<tab, del, mailedOut>>

\* The claim is an update of the row of the lead: without one it is lost.
ClaimRow ==
  /\ mailer = "claim"
  /\ \/ Mailer(IF tab["campaign_leads"] # {} THEN "smtp" ELSE "idle") /\ UNCHANGED env
     \/ Fault /\ Mailer("idle")
  /\ UNCHANGED <<tab, del, mailedOut>>

SendMail ==
  /\ mailer = "smtp"
  /\ Mailer("log") /\ mailedOut' = (mailedOut \/ optedOut)
  /\ UNCHANGED <<env, tab, del>>

LogMail ==
  /\ mailer = "log"
  /\ Mailer("idle")
  /\ \/ Writes("email_events") /\ UNCHANGED env
     \/ Fault /\ UNCHANGED <<tab, del>>
  /\ UNCHANGED mailedOut

RetentionStep == NightBegins \/ PurgeAged \/ PurgeClosed \/ ReadIds("retention") \/ DeleteTable("retention")
AccountStep ==
  \/ RetentionStep \/ NightKilled \/ AdminDeletes \/ ReadIds("admin") \/ DeleteTable("admin")
  \/ \E w \in Deleters : DeleterKilled(w)
  \/ CloseAccount \/ GracePasses
  \/ \E t \in {"reply_inbox", "warmup_logs"} : RowComesIn(t)
  \/ TakeLead \/ CheckList \/ ClaimRow \/ SendMail \/ LogMail

AccountOK ==
  /\ tab \in [TableNames -> SUBSET Ages]
  /\ closing \in {"open", "grace", "over"}
  /\ del \in [Deleters -> [at : 0..Ended, spoiled : BOOLEAN]]
  /\ night \in 0..(Len(AgedOrder) + 1)
  /\ mailer \in {"idle", "check", "claim", "smtp", "log"}
  /\ optedOut \in BOOLEAN /\ mailedOut \in BOOLEAN

\* "Permanently delete a client and every row that belongs to them": a deletion
\* that came to its end has left nothing, unless a call failed or a row came in
\* while it ran.
DeletedIsGone ==
  \A w \in Deleters : del[w].at = Ended /\ ~del[w].spoiled => \A t \in TableNames : tab[t] = {}

\* Who has opted out is not mailed while the list is being deleted: by then
\* the row the scheduler must claim is gone.
OptOutOutlivesClient == mailedOut => env.faults > 0

\* The nightly job gets there, whatever came in between: rows past their age go,
\* and so does an account closed longer ago than the grace period.
RetentionSettles ==
  Plays("night") => /\ closing = "over" ~> tab["clients"] = {}
                    /\ <>[](\A t \in AgedTables : "old" \notin tab[t])
=============================================================================
