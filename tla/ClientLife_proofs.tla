------------------------- MODULE ClientLife_proofs --------------------------
(* What a client keeps, for any cast: the tables a deletion has passed stay *)
(* empty, and the list of those who opted out is the last thing the         *)
(* scheduler needs; every copy of a mail sent by hand has its click or an   *)
(* acceptance that was not heard of; whoever opens a recovery of a domain   *)
(* comes to mark the domain; a counted day keeps the day's own numbers; and *)
(* every variable has its type.                                             *)
EXTENDS Casting_proofs, Budget_proofs

LEMMA EnvBudget == ASSUME EnvOK, BudgetStep PROVE EnvMoves
<1> USE EnvMovesHow
<1>1. ASSUME NEW c \in Callers, TrackedStep(c) PROVE EnvMoves
  BY <1>1 DEF TrackedStep, WriteMail, Classify, AnswerMail, Begin, PlainClassify,
              CheckBudget, ScanRows, UseClaude, LogCost, CallKilled
<1>2. ASSUME NEW q \in Requests, AskDirectly(q) \/ HandleStage(q) PROVE EnvMoves
  BY <1>2 DEF AskDirectly, HandleStage
<1>3. ASSUME NEW where, Midnight(where) PROVE EnvMoves
  BY <1>3 DEF Midnight
<1> QED BY <1>1, <1>2, <1>3 DEF BudgetStep

LEMMA EnvAccounts == ASSUME EnvOK, AccountStep PROVE EnvMoves
<1> USE EnvMovesHow
<1>1. CASE RetentionStep \/ NightKilled
  BY <1>1 DEF RetentionStep, NightBegins, PurgeAged, PurgeClosed, ReadIds, DeleteTable, NightKilled
<1>2. ASSUME NEW w \in Deleters, ReadIds(w) \/ DeleteTable(w) \/ DeleterKilled(w) \/ AdminDeletes
      PROVE  EnvMoves
  BY <1>2 DEF ReadIds, DeleteTable, DeleterKilled, AdminDeletes
<1>3. CASE CloseAccount \/ GracePasses \/ \E t \in {"reply_inbox", "warmup_logs"} : RowComesIn(t)
  BY <1>3 DEF CloseAccount, GracePasses, RowComesIn
<1>4. CASE TakeLead \/ CheckList \/ ClaimRow \/ SendMail \/ LogMail
  BY <1>4 DEF TakeLead, CheckList, ClaimRow, SendMail, LogMail
<1> QED BY <1>1, <1>2, <1>3, <1>4 DEF AccountStep, Deleters

LEMMA EnvDomains == ASSUME EnvOK, DomainStep PROVE EnvMoves
<1> USE EnvMovesHow
<1>1. CASE RecordsChange \/ ListingChanges
  BY <1>1 DEF RecordsChange, ListingChanges
<1>2. ASSUME NEW m \in Monitors, DriftStep(m) \/ MonitorKilled(m) PROVE EnvMoves
  BY <1>2 DEF DriftStep, BeginDrift, CheckRecord, StorePhase, StampDrift, MonitorKilled
<1>3. ASSUME NEW m \in Monitors, HuntStep(m) PROVE EnvMoves
  BY <1>3 DEF HuntStep, BeginHunt, AskZone, LookForCase, OpenCase, MarkDomain
<1>4. ASSUME NEW i, NEW s, NEW b, TickStep(i, s, b) PROVE EnvMoves
  BY <1>4 DEF TickStep
<1>5. CASE WriteSteps \/ CountOpen \/ ClearFlag \/ BeginSweep \/ WriteSweep
  BY <1>5 DEF WriteSteps, CountOpen, ClearFlag, BeginSweep, WriteSweep
<1> QED BY <1>1, <1>2, <1>3, <1>4, <1>5 DEF DomainStep

LEMMA EnvAnswers == ASSUME EnvOK, AnswerStep PROVE EnvMoves
<1> USE EnvMovesHow
<1>1. ASSUME NEW what, OptsOut(what) PROVE EnvMoves
  BY <1>1 DEF OptsOut
<1>2. CASE InboxRetires \/ SendReply \/ AskList \/ TakeInbox \/ SendPreview \/ RecordAnswer
  BY <1>2 DEF InboxRetires, SendReply, AskList, TakeInbox, SendPreview, RecordAnswer
<1>3. ASSUME NEW k \in Kinds, Attempt(k) PROVE EnvMoves
  BY <1>3 DEF Attempt
<1> QED BY <1>1, <1>2, <1>3 DEF AnswerStep

LEMMA EnvAnalytics == ASSUME EnvOK, AnalyticsStep PROVE EnvMoves
<1> USE EnvMovesHow
<1>1. CASE EventHappens \/ DayEnds \/ BeginNightly \/ BeginByHand
  BY <1>1 DEF EventHappens, DayEnds, BeginNightly, BeginByHand
<1>2. ASSUME NEW d \in AllDays, EventsErased(d) PROVE EnvMoves
  BY <1>2 DEF EventsErased
<1>3. ASSUME NEW w \in Runs, Count(w) \/ CountFails(w) \/ Upsert(w) \/ RunKilled(w) PROVE EnvMoves
  BY <1>3 DEF Count, CountFails, Upsert, RunKilled
<1> QED BY <1>1, <1>2, <1>3 DEF AnalyticsStep

LEMMA EnvNext == ASSUME EnvOK, [Next]_vars PROVE EnvMoves
BY EnvBudget, EnvAccounts, EnvDomains, EnvAnswers, EnvAnalytics, EnvMovesHow DEF Next, vars

\* While no call has failed, none failed in the step that led there.
LEMMA NoFaultYet == ASSUME EnvOK, [Next]_vars, env'.faults = 0 PROVE env.faults = 0 /\ ~Fault
<1>1. env'.faults >= env.faults /\ env.faults \in Nat
  BY EnvNext DEF EnvMoves, EnvOK
<1>2. ~Fault
  BY EnvMovesHow DEF EnvOK
<1> QED BY <1>1, <1>2

-----------------------------------------------------------------------------
(* The end of an account.                                                   *)

Listed == {"warmup_logs", "bounce_log", "email_events", "reply_inbox", "sending_schedule",
           "campaign_leads", "campaigns", "email_tracking", "inboxes", "leads",
           "suppression_list", "clients"}

LEMMA Order ==
  /\ Len(DeletionOrder) = 12 /\ DOMAIN DeletionOrder = 1..12 /\ Ended = 14
  /\ DeletionOrder[1] = "warmup_logs" /\ DeletionOrder[2] = "bounce_log"
  /\ DeletionOrder[3] = "email_events" /\ DeletionOrder[4] = "reply_inbox"
  /\ DeletionOrder[5] = "sending_schedule" /\ DeletionOrder[6] = "campaign_leads"
  /\ DeletionOrder[7] = "campaigns" /\ DeletionOrder[8] = "email_tracking"
  /\ DeletionOrder[9] = "inboxes" /\ DeletionOrder[10] = "leads"
  /\ DeletionOrder[11] = "suppression_list" /\ DeletionOrder[12] = "clients"
BY DEF DeletionOrder, Ended

\* The values of a number up to 12, one by one.
LEMMA UpTo12 ==
  \A i \in 1..12 : i = 1 \/ i = 2 \/ i = 3 \/ i = 4 \/ i = 5 \/ i = 6 \/ i = 7 \/ i = 8
                   \/ i = 9 \/ i = 10 \/ i = 11 \/ i = 12
OBVIOUS

LEMMA Names ==
  TableNames = Listed
BY Order, UpTo12 DEF TableNames, Listed

LEMMA NotBlocked ==
  ASSUME NEW i \in DOMAIN DeletionOrder,
         \A j \in DOMAIN DeletionOrder : j < i => tab[DeletionOrder[j]] = {}
  PROVE  ~Blocked(DeletionOrder[i])
<1>1. CASE i < 9
  <2>1. DeletionOrder[i] \notin {"inboxes", "clients", "leads"}
    BY <1>1, Order, UpTo12
  <2>2. CASE i = 7
    <3>1. tab["email_events"] = {} /\ tab["reply_inbox"] = {}
      BY <2>2, Order
    <3> QED BY <2>2, <3>1, Order DEF Keeps, Blocked
  <2>3. CASE i # 7
    <3>1. DeletionOrder[i] \notin {"inboxes", "clients", "leads", "campaigns"}
      BY <1>1, <2>3, Order, UpTo12
    <3>2. Keeps(DeletionOrder[i]) = {}
      BY <3>1 DEF Keeps
    <3> QED BY <3>2 DEF Blocked
  <2> QED BY <2>2, <2>3
<1>2. CASE i >= 9
  <2>1. tab["warmup_logs"] = {} /\ tab["bounce_log"] = {} /\ tab["email_events"] = {}
        /\ tab["reply_inbox"] = {} /\ tab["sending_schedule"] = {}
    BY <1>2, Order
  <2>2. \A u \in Keeps(DeletionOrder[i]) :
          u \in {"warmup_logs", "bounce_log", "email_events", "reply_inbox", "sending_schedule"}
    BY DEF Keeps
  <2> QED BY <2>1, <2>2 DEF Blocked
<1> QED BY <1>1, <1>2, Order

\* What a deletion does to the tables.
LEMMA GoneShrinks ==
  ASSUME tab \in [TableNames -> SUBSET Ages], NEW t \in TableNames
  PROVE  /\ Gone(t) \in [TableNames -> SUBSET Ages]
         /\ Gone(t)[t] = {}
         /\ \A u \in TableNames : Gone(t)[u] \subseteq tab[u]
<1>1. CASE t = "clients"
  BY <1>1 DEF Gone
<1>2. CASE t \in {"campaigns", "leads"}
  <2>1. t # "clients" /\ "campaign_leads" \in TableNames
    BY <1>2, Names DEF Listed
  <2>2. Gone(t) = [tab EXCEPT ![t] = {}, !["campaign_leads"] = {}]
    BY <1>2, <2>1 DEF Gone
  <2> QED BY <2>1, <2>2
<1>3. CASE t \notin {"clients", "campaigns", "leads"}
  <2>1. Gone(t) = [tab EXCEPT ![t] = {}]
    BY <1>3 DEF Gone
  <2> QED BY <2>1
<1> QED BY <1>1, <1>2, <1>3

\* What an insertion does: it needs rows to refer to.
LEMMA InsertedGrows ==
  ASSUME tab \in [TableNames -> SUBSET Ages],
         NEW t \in {"email_events", "reply_inbox", "warmup_logs"}
  PROVE  /\ Inserted(t) \in [TableNames -> SUBSET Ages]
         /\ \A u \in TableNames : u # t => Inserted(t)[u] = tab[u]
         /\ tab["inboxes"] = {} => Inserted(t) = tab
<1>1. "inboxes" \in Parents(t)
  BY DEF Parents
<1>2. t \in TableNames
  BY Names DEF Listed
<1>3. CASE \A u \in Parents(t) : tab[u] # {}
  <2>1. Inserted(t) = [tab EXCEPT ![t] = @ \cup {"new"}]
    BY <1>3 DEF Inserted
  <2> QED BY <1>1, <1>2, <1>3, <2>1 DEF Ages
<1>4. CASE ~(\A u \in Parents(t) : tab[u] # {})
  <2>1. Inserted(t) = tab
    BY <1>4 DEF Inserted
  <2> QED BY <2>1
<1> QED BY <1>3, <1>4

LEMMA WrittenRows ==
  ASSUME AccountOK, NEW t \in {"email_events", "reply_inbox", "warmup_logs"}, Writes(t)
  PROVE  /\ tab' \in [TableNames -> SUBSET Ages]
         /\ \A u \in TableNames : u # t => tab'[u] = tab[u]
         /\ tab["inboxes"] = {} => tab' = tab
         /\ del' \in [Deleters -> [at : 0..Ended, spoiled : BOOLEAN]]
         /\ \A w \in Deleters : del'[w].at = del[w].at
         /\ tab' # tab => \A w \in Deleters : Running(w) => del'[w].spoiled
         /\ \A w \in Deleters : ~del'[w].spoiled => ~del[w].spoiled
<1>1. tab' = Inserted(t) /\ (del' = IF Inserted(t) = tab THEN del ELSE Spoil)
  BY DEF Writes
<1>2. CASE tab' = tab
  BY <1>1, <1>2 DEF AccountOK
<1>3. CASE tab' # tab
  <2>1. del' = [w \in Deleters |-> IF Running(w) THEN [del[w] EXCEPT !.spoiled = TRUE] ELSE del[w]]
    BY <1>1, <1>3 DEF Spoil
  <2>2. /\ del' \in [Deleters -> [at : 0..Ended, spoiled : BOOLEAN]]
        /\ \A w \in Deleters : del'[w].at = del[w].at
        /\ \A w \in Deleters : Running(w) => del'[w].spoiled
        /\ \A w \in Deleters : ~del'[w].spoiled => ~del[w].spoiled
    <3>1. del \in [Deleters -> [at : 0..Ended, spoiled : BOOLEAN]]
      BY DEF AccountOK
    <3>2. \A w \in Deleters : del'[w] = IF Running(w) THEN [del[w] EXCEPT !.spoiled = TRUE] ELSE del[w]
      BY <2>1
    <3>3. ASSUME NEW w \in Deleters
          PROVE  LET r == [del[w] EXCEPT !.spoiled = TRUE] IN
                   r \in [at : 0..Ended, spoiled : BOOLEAN] /\ r.at = del[w].at /\ r.spoiled
      <4>1. del[w] \in [at : 0..Ended, spoiled : BOOLEAN]
        BY <3>1
      <4> QED BY <4>1
    <3> QED BY <2>1, <3>1, <3>2, <3>3
  <2>3. tab \in [TableNames -> SUBSET Ages]
    BY DEF AccountOK
  <2>4. /\ tab' \in [TableNames -> SUBSET Ages]
        /\ \A u \in TableNames : u # t => tab'[u] = tab[u]
        /\ tab["inboxes"] = {} => tab' = tab
    BY <1>1, <2>3, InsertedGrows
  <2> QED BY <1>3, <2>2, <2>4
<1> QED BY <1>2, <1>3

-----------------------------------------------------------------------------
(* The types of Accounts.                                                   *)

LEMMA SpoilType ==
  ASSUME AccountOK
  PROVE  /\ Spoil \in [Deleters -> [at : 0..Ended, spoiled : BOOLEAN]]
         /\ \A w \in Deleters : Spoil[w].at = del[w].at /\ (Running(w) => Spoil[w].spoiled)
         /\ \A w \in Deleters : Running(w) \/ Spoil[w] = del[w]
<1>1. ASSUME NEW w \in Deleters
      PROVE  LET r == [del[w] EXCEPT !.spoiled = TRUE] IN
               r \in [at : 0..Ended, spoiled : BOOLEAN] /\ r.at = del[w].at /\ r.spoiled
  <2>1. del[w] \in [at : 0..Ended, spoiled : BOOLEAN]
    BY DEF AccountOK
  <2> QED BY <2>1
<1>2. \A w \in Deleters : del[w] \in [at : 0..Ended, spoiled : BOOLEAN]
  BY DEF AccountOK
<1>3. \A w \in Deleters : Spoil[w] = IF Running(w) THEN [del[w] EXCEPT !.spoiled = TRUE] ELSE del[w]
  BY DEF Spoil
<1>4. Spoil = [w \in Deleters |-> Spoil[w]]
  BY DEF Spoil
<1> HIDE DEF Spoil
<1>5. \A w \in Deleters : Spoil[w] \in [at : 0..Ended, spoiled : BOOLEAN]
  BY <1>1, <1>2, <1>3
<1> QED BY <1>1, <1>3, <1>4, <1>5

Deletions == [Deleters -> [at : 0..Ended, spoiled : BOOLEAN]]

Moved(f, w, n) == [f EXCEPT ![w].at = n]
Reset(f, w, n) == [f EXCEPT ![w] = [at |-> n, spoiled |-> FALSE]]

LEMMA DeletionMoves ==
  ASSUME NEW f \in Deletions, NEW w \in Deleters, NEW n \in 0..Ended
  PROVE  /\ Moved(f, w, n) \in Deletions
         /\ Moved(f, w, n)[w].at = n /\ Moved(f, w, n)[w].spoiled = f[w].spoiled
         /\ \A v \in Deleters : v # w => Moved(f, w, n)[v] = f[v]
<1>1. f[w] \in [at : 0..Ended, spoiled : BOOLEAN]
  BY DEF Deletions
<1>2. LET r == [f[w] EXCEPT !.at = n] IN
        r \in [at : 0..Ended, spoiled : BOOLEAN] /\ r.at = n /\ r.spoiled = f[w].spoiled
  BY <1>1
<1> QED BY <1>1, <1>2 DEF Deletions, Moved

LEMMA DeletionStarts ==
  ASSUME NEW f \in Deletions, NEW w \in Deleters, NEW n \in 0..1
  PROVE  /\ Reset(f, w, n) \in Deletions
         /\ Reset(f, w, n)[w].at = n
         /\ \A v \in Deleters : v # w => Reset(f, w, n)[v] = f[v]
<1>1. [at |-> n, spoiled |-> FALSE] \in [at : 0..Ended, spoiled : BOOLEAN]
  BY Order
<1> QED BY <1>1 DEF Deletions, Reset

LEMMA AccountTypeInit == ASSUME AccountInit PROVE AccountOK
<1>1. tab \in [TableNames -> SUBSET Ages]
  BY DEF AccountInit, Ages
<1>2. del \in [Deleters -> [at : 0..Ended, spoiled : BOOLEAN]]
  BY Order DEF AccountInit, Quiet
<1>3. night \in 0..(Len(AgedOrder) + 1)
  BY DEF AccountInit, AgedOrder
<1> QED BY <1>1, <1>2, <1>3 DEF AccountInit, AccountOK

LEMMA AccountTypeStep == ASSUME AccountOK, AccountStep PROVE AccountOK'
<1>0. Len(AgedOrder) = 7 /\ DOMAIN AgedOrder = 1..7
  BY DEF AgedOrder
<1>1. CASE NightBegins
  BY <1>0, <1>1 DEF NightBegins, AccountOK
<1>2. CASE PurgeAged
  <2>1. PICK t : t = AgedOrder[night]
    OBVIOUS
  <2>2. night' \in 0..(Len(AgedOrder) + 1)
    BY <1>0, <1>2 DEF PurgeAged
  <2>3. tab' \in [TableNames -> SUBSET Ages]
    BY <1>2, <2>1 DEF PurgeAged, AccountOK
  <2>4. UNCHANGED <<closing, del, mailer, optedOut, mailedOut>>
    BY <1>2 DEF PurgeAged
  <2> QED BY <2>2, <2>3, <2>4 DEF AccountOK
<1>del. AccountOK => del \in Deletions
  BY DEF AccountOK, Deletions
<1>3. CASE PurgeClosed
  <2>1. del' = del \/ del' = Reset(del, "retention", 1)
    BY <1>3 DEF Reset, PurgeClosed, BeginDeletion
  <2>2. del' \in Deletions
    BY <1>del, <2>1, DeletionStarts DEF Deleters
  <2>3. night' \in 0..(Len(AgedOrder) + 1) /\ UNCHANGED <<tab, closing, mailer, optedOut, mailedOut>>
    BY <1>0, <1>3 DEF PurgeClosed
  <2> QED BY <2>2, <2>3 DEF AccountOK, Deletions
<1>4. ASSUME NEW w \in Deleters, ReadIds(w) PROVE AccountOK'
  <2>1. del' = Moved(del, w, 2) \/ del' = Reset(del, w, 0)
    BY <1>4 DEF Moved, Reset, ReadIds, Quiet
  <2>2. del' \in Deletions
    <3>1. 0 \in 0..1 /\ 2 \in 0..Ended
      BY Order
    <3>2. Moved(del, w, 2) \in Deletions
      BY <1>del, <3>1, DeletionMoves
    <3>3. Reset(del, w, 0) \in Deletions
      BY <1>del, <3>1, DeletionStarts
    <3> QED BY <2>1, <3>2, <3>3
  <2>3. UNCHANGED <<tab, closing, night, mailer, optedOut, mailedOut>>
    BY <1>4 DEF ReadIds
  <2> QED BY <2>2, <2>3 DEF AccountOK, Deletions
<1>5. ASSUME NEW w \in Deleters, DeleteTable(w) PROVE AccountOK'
  <2> DEFINE i == del[w].at
  <2>1. i \in Nat /\ i > 1 /\ i < 14 /\ i - 1 \in DOMAIN DeletionOrder /\ DeletionOrder[i - 1] \in TableNames
    BY <1>5, Order DEF DeleteTable, AccountOK, TableNames
  <2>2. UNCHANGED <<closing, night, mailer, optedOut, mailedOut>>
    BY <1>5 DEF DeleteTable
  <2>3. tab' \in [TableNames -> SUBSET Ages]
    BY <1>5, <2>1, GoneShrinks DEF DeleteTable, AccountOK
  <2>4. del' \in Deletions
    <3>1. del' = Moved(del, w, i + 1) \/ del' = Moved(Spoil, w, i + 1)
      BY <1>5 DEF Moved, DeleteTable
    <3>2. del \in Deletions /\ Spoil \in Deletions
      BY SpoilType DEF AccountOK, Deletions
    <3>3. i + 1 \in 0..Ended
      BY <2>1, Order
    <3> HIDE DEF i
    <3> QED BY <3>1, <3>2, <3>3, DeletionMoves
  <2> QED BY <2>2, <2>3, <2>4 DEF AccountOK, Deletions
<1>6. CASE NightKilled
  BY <1>0, <1>6 DEF NightKilled, AccountOK
<1>7. CASE AdminDeletes
  <2>1. del' = Reset(del, "admin", 1)
    BY <1>7 DEF Reset, AdminDeletes, BeginDeletion
  <2>2. del' \in Deletions
    BY <1>del, <2>1, DeletionStarts DEF Deleters
  <2>3. UNCHANGED <<tab, closing, night, mailer, optedOut, mailedOut>>
    BY <1>7 DEF AdminDeletes
  <2> QED BY <2>2, <2>3 DEF AccountOK, Deletions
<1>8. ASSUME NEW w \in Deleters, DeleterKilled(w) PROVE AccountOK'
  <2>1. del' = Reset(del, w, 0)
    BY <1>8 DEF Reset, DeleterKilled, Quiet
  <2>2. del' \in Deletions
    BY <1>del, <2>1, DeletionStarts
  <2>3. UNCHANGED <<tab, closing, night, mailer, optedOut, mailedOut>>
    BY <1>8 DEF DeleterKilled
  <2> QED BY <2>2, <2>3 DEF AccountOK, Deletions
<1>9. CASE CloseAccount \/ GracePasses
  BY <1>9 DEF CloseAccount, GracePasses, AccountOK
<1>10. ASSUME NEW t \in {"reply_inbox", "warmup_logs"}, RowComesIn(t) PROVE AccountOK'
  <2>1. Writes(t) /\ UNCHANGED <<closing, night, mailer, optedOut, mailedOut>>
    BY <1>10 DEF RowComesIn
  <2>2. tab' \in [TableNames -> SUBSET Ages] /\ del' \in [Deleters -> [at : 0..Ended, spoiled : BOOLEAN]]
    BY <2>1, WrittenRows
  <2> QED BY <2>1, <2>2 DEF AccountOK
<1>11. CASE TakeLead \/ CheckList \/ ClaimRow
  BY <1>11 DEF TakeLead, CheckList, ClaimRow, Mailer, AccountOK
<1>12. CASE SendMail
  BY <1>12 DEF SendMail, Mailer, AccountOK
<1>13. CASE LogMail
  <2>1. mailer' = "idle" /\ UNCHANGED <<closing, night, optedOut, mailedOut>>
        /\ (Writes("email_events") \/ UNCHANGED <<tab, del>>)
    BY <1>13 DEF LogMail, Mailer
  <2>2. tab' \in [TableNames -> SUBSET Ages] /\ del' \in [Deleters -> [at : 0..Ended, spoiled : BOOLEAN]]
    BY <2>1, WrittenRows DEF AccountOK
  <2> QED BY <2>1, <2>2 DEF AccountOK
<1> QED
  BY <1>1, <1>2, <1>3, <1>4, <1>5, <1>6, <1>7, <1>8, <1>9, <1>10, <1>11, <1>12, <1>13
     DEF AccountStep, RetentionStep, Deleters

-----------------------------------------------------------------------------
(* A deletion that nothing spoiled has emptied every table it is past.      *)

DeletedSoFar ==
  \A w \in Deleters : ~del[w].spoiled =>
    \A i \in DOMAIN DeletionOrder : i + 1 < del[w].at => tab[DeletionOrder[i]] = {}

Shrunk == \A u \in TableNames : tab'[u] \subseteq tab[u]

\* Tables that only lose rows, and deletions that stay, start again or are spoiled.
LEMMA ShrinkKeeps ==
  ASSUME DeletedSoFar, Shrunk, del' \in Deletions,
         \A w \in Deleters : del'[w] = del[w] \/ del'[w].at <= 2 \/ del'[w].spoiled
  PROVE  DeletedSoFar'
<1> SUFFICES ASSUME NEW w \in Deleters, ~del'[w].spoiled,
                    NEW i \in DOMAIN DeletionOrder, i + 1 < del'[w].at
             PROVE  tab'[DeletionOrder[i]] = {}
  BY DEF DeletedSoFar
<1>1. i \in Int /\ i >= 1 /\ del'[w].at \in Int
  BY Order DEF Deletions
<1>2. del'[w] = del[w]
  BY <1>1
<1>3. tab[DeletionOrder[i]] = {}
  BY <1>2 DEF DeletedSoFar
<1>4. DeletionOrder[i] \in TableNames
  BY DEF TableNames
<1> QED BY <1>3, <1>4 DEF Shrunk

LEMMA DeletedStep == ASSUME AccountOK, DeletedSoFar, AccountStep PROVE DeletedSoFar'
<1>0. AccountOK' /\ del' \in Deletions /\ del \in Deletions
  BY AccountTypeStep DEF AccountOK, Deletions
<1>1. CASE UNCHANGED <<tab, del>>
  BY <1>1 DEF DeletedSoFar
<1>2. CASE PurgeAged
  <2>1. PICK t : t = AgedOrder[night]
    OBVIOUS
  <2>2. del' = del /\ (tab' = tab \/ tab' = [tab EXCEPT ![t] = @ \ {"old"}])
    BY <1>2, <2>1 DEF PurgeAged
  <2>3. Shrunk
    BY <2>2 DEF Shrunk, AccountOK
  <2> QED BY <1>0, <2>2, <2>3, ShrinkKeeps
<1>3. ASSUME NEW w \in Deleters, NEW n \in 0..1, tab' = tab, del' = Reset(del, w, n)
      PROVE  DeletedSoFar'
  <2>1. del'[w].at = n /\ \A v \in Deleters : v # w => del'[v] = del[v]
    BY <1>0, <1>3, DeletionStarts
  <2> QED BY <1>0, <1>3, <2>1, ShrinkKeeps DEF Shrunk
<1>4. CASE PurgeClosed
  <2>1. tab' = tab /\ (del' = del \/ del' = Reset(del, "retention", 1))
    BY <1>4 DEF PurgeClosed, BeginDeletion, Reset
  <2> QED BY <1>1, <1>3, <2>1 DEF Deleters
<1>5. ASSUME NEW w \in Deleters, ReadIds(w) PROVE DeletedSoFar'
  <2>1. tab' = tab /\ (del' = Moved(del, w, 2) \/ del' = Reset(del, w, 0))
    BY <1>5 DEF Moved, Reset, ReadIds, Quiet
  <2>2. CASE del' = Moved(del, w, 2)
    <3>1. 2 \in 0..Ended
      BY Order
    <3>2. \A v \in Deleters : del'[v] = del[v] \/ del'[v].at <= 2
      BY <1>0, <2>2, <3>1, DeletionMoves
    <3> QED BY <1>0, <2>1, <3>2, ShrinkKeeps DEF Shrunk
  <2> QED BY <1>3, <2>1, <2>2
<1>6. ASSUME NEW w \in Deleters, DeleteTable(w) PROVE DeletedSoFar'
  <2> DEFINE i == del[w].at
             t == DeletionOrder[i - 1]
  <2>1. i \in Nat /\ i > 1 /\ i + 1 \in 0..Ended /\ i - 1 \in DOMAIN DeletionOrder /\ t \in TableNames
    BY <1>0, <1>6, Order DEF DeleteTable, Deletions, TableNames
  <2>2. \/ del' = Moved(del, w, i + 1) /\ ((Blocked(t) /\ tab' = tab) \/ (~Blocked(t) /\ tab' = Gone(t)))
        \/ tab' = tab /\ del' = Moved(Spoil, w, i + 1)
    BY <1>6 DEF DeleteTable, Moved
  <2>3. tab' = Gone(t) => tab'[t] = {}
    BY <2>1, GoneShrinks DEF AccountOK
  <2>4. Shrunk
    BY <2>1, <2>2, GoneShrinks DEF Shrunk, AccountOK
  <2> HIDE DEF i, t
  <2>5. CASE del' = Moved(Spoil, w, i + 1)
    <3>1. Spoil \in Deletions /\ \A v \in Deleters : Running(v) => Spoil[v].spoiled
      BY SpoilType DEF Deletions
    <3>2. del'[w].spoiled
      <4>1. Running(w)
        BY <1>6, Order DEF DeleteTable, Running
      <4> QED BY <2>1, <2>5, <3>1, <4>1, DeletionMoves
    <3>3. \A v \in Deleters : v # w => del'[v] = Spoil[v]
      BY <2>1, <2>5, <3>1, DeletionMoves
    <3>4. \A v \in Deleters : Spoil[v].spoiled \/ Spoil[v] = del[v]
      BY <3>1, SpoilType
    <3> QED BY <1>0, <2>4, <3>2, <3>3, <3>4, ShrinkKeeps
  <2>6. CASE del' = Moved(del, w, i + 1) /\ ((Blocked(t) /\ tab' = tab) \/ (~Blocked(t) /\ tab' = Gone(t)))
    <3>1. del'[w].at = i + 1 /\ del'[w].spoiled = del[w].spoiled
          /\ \A v \in Deleters : v # w => del'[v] = del[v]
      BY <1>0, <2>1, <2>6, DeletionMoves
    <3>2. ASSUME ~del[w].spoiled,
                 NEW j \in DOMAIN DeletionOrder, j + 1 < i + 1
          PROVE  tab'[DeletionOrder[j]] = {}
      <4>1. \A k \in DOMAIN DeletionOrder : k < i - 1 => tab[DeletionOrder[k]] = {}
        <5>1. \A k \in DOMAIN DeletionOrder : k < i - 1 => k + 1 < i
          BY <2>1, Order
        <5> QED BY <3>2, <5>1 DEF DeletedSoFar, i
      <4>2. ~Blocked(t)
        BY <2>1, <4>1, NotBlocked DEF t
      <4>3. CASE j = i - 1
        BY <2>3, <2>6, <4>2, <4>3 DEF t
      <4>4. CASE j # i - 1
        <5>1. j < i - 1
          BY <2>1, <3>2, <4>4, Order
        <5>2. tab[DeletionOrder[j]] = {} /\ DeletionOrder[j] \in TableNames
          BY <4>1, <5>1 DEF TableNames
        <5> QED BY <2>4, <5>2 DEF Shrunk
      <4> QED BY <4>3, <4>4
    <3>3. ASSUME NEW v \in Deleters, v # w, ~del[v].spoiled,
                 NEW j \in DOMAIN DeletionOrder, j + 1 < del[v].at
          PROVE  tab'[DeletionOrder[j]] = {}
      <4>1. tab[DeletionOrder[j]] = {} /\ DeletionOrder[j] \in TableNames
        BY <3>3 DEF DeletedSoFar, TableNames
      <4> QED BY <2>4, <4>1 DEF Shrunk
    <3> SUFFICES ASSUME NEW v \in Deleters, ~del'[v].spoiled,
                        NEW j \in DOMAIN DeletionOrder, j + 1 < del'[v].at
                 PROVE  tab'[DeletionOrder[j]] = {}
      BY DEF DeletedSoFar
    <3>4. CASE v = w
      BY <3>1, <3>2, <3>4
    <3>5. CASE v # w
      BY <3>1, <3>3, <3>5
    <3> QED BY <3>4, <3>5
  <2> QED BY <2>2, <2>5, <2>6
<1>7. CASE AdminDeletes
  <2>1. tab' = tab /\ del' = Reset(del, "admin", 1)
    BY <1>7 DEF AdminDeletes, BeginDeletion, Reset
  <2> QED BY <1>3, <2>1 DEF Deleters
<1>8. ASSUME NEW w \in Deleters, DeleterKilled(w) PROVE DeletedSoFar'
  <2>1. tab' = tab /\ del' = Reset(del, w, 0)
    BY <1>8 DEF DeleterKilled, Quiet, Reset
  <2> QED BY <1>3, <2>1
<1>9. ASSUME NEW t \in {"email_events", "reply_inbox", "warmup_logs"}, Writes(t)
      PROVE  DeletedSoFar'
  <2>1. CASE tab' = tab
    <3>1. \A w \in Deleters : del'[w].at = del[w].at /\ (~del'[w].spoiled => ~del[w].spoiled)
      BY <1>9, WrittenRows
    <3> QED BY <2>1, <3>1 DEF DeletedSoFar
  <2>2. CASE tab' # tab
    <3>1. tab["inboxes"] # {}
      BY <1>9, <2>2, WrittenRows
    <3>2. \A w \in Deleters : /\ Running(w) => del'[w].spoiled
                              /\ del'[w].at = del[w].at
                              /\ ~del'[w].spoiled => ~del[w].spoiled
      BY <1>9, <2>2, WrittenRows
    <3> SUFFICES ASSUME NEW w \in Deleters, ~del'[w].spoiled,
                        NEW i \in DOMAIN DeletionOrder, i + 1 < del'[w].at
                 PROVE  FALSE
      BY DEF DeletedSoFar
    <3>3. del[w].at = Ended
      <4>1. ~Running(w) /\ i >= 1 /\ del[w].at # 0
        BY <3>2, Order
      <4> QED BY <4>1 DEF Running
    <3>4. tab[DeletionOrder[9]] = {}
      BY <3>2, <3>3, Order DEF DeletedSoFar
    <3> QED BY <3>1, <3>4, Order
  <2> QED BY <2>1, <2>2
<1>10. CASE \E t \in {"reply_inbox", "warmup_logs"} : RowComesIn(t)
  BY <1>9, <1>10 DEF RowComesIn
<1>11. CASE LogMail
  BY <1>1, <1>9, <1>11 DEF LogMail
<1>12. CASE NightBegins \/ NightKilled \/ CloseAccount \/ GracePasses
  BY <1>1, <1>12 DEF NightBegins, NightKilled, CloseAccount, GracePasses
<1>13. CASE TakeLead \/ CheckList \/ ClaimRow \/ SendMail
  BY <1>1, <1>13 DEF TakeLead, CheckList, ClaimRow, SendMail
<1> QED
  BY <1>2, <1>4, <1>5, <1>6, <1>7, <1>8, <1>10, <1>11, <1>12, <1>13
     DEF AccountStep, RetentionStep, Deleters

-----------------------------------------------------------------------------
(* The opt-out list goes last: as long as no call fails, the rows a mail    *)
(* must claim are gone before it.                                           *)

ListLast ==
  /\ tab["suppression_list"] = {} => tab["campaign_leads"] = {}
  /\ \A w \in Deleters : del[w].at > 7 => tab["campaign_leads"] = {}
  /\ mailer = "claim" /\ optedOut => tab["campaign_leads"] = {}
  /\ mailer = "smtp" => ~optedOut
  /\ ~mailedOut

\* A step that takes no row of the list but with those of the leads, advances no
\* deletion and does not touch the mailer.
LEMMA QuietKeepsList ==
  ASSUME ListLast, Shrunk, UNCHANGED <<mailer, optedOut, mailedOut>>,
         tab'["suppression_list"] = tab["suppression_list"] \/ tab'["campaign_leads"] = {},
         \A w \in Deleters : \/ del'[w].at = del[w].at \/ tab'["campaign_leads"] = {}
                             \/ ~(del'[w].at > 7)
  PROVE  ListLast'
<1>1. tab["campaign_leads"] = {} => tab'["campaign_leads"] = {}
  BY Names DEF Shrunk, Listed
<1> QED BY <1>1 DEF ListLast

LEMMA ListStep == ASSUME AccountOK, ListLast, AccountStep, ~Fault PROVE ListLast'
<1>0. AccountOK' /\ del' \in Deletions /\ del \in Deletions
  BY AccountTypeStep DEF AccountOK, Deletions
<1>1. CASE UNCHANGED <<tab, del, mailer, optedOut, mailedOut>>
  BY <1>1 DEF ListLast
<1>2. CASE PurgeAged
  <2>1. PICK t : t = AgedOrder[night]
    OBVIOUS
  <2>2. del' = del /\ UNCHANGED <<mailer, optedOut, mailedOut>>
        /\ (tab' = tab \/ tab' = [tab EXCEPT ![t] = @ \ {"old"}])
    BY <1>2, <2>1 DEF PurgeAged
  <2>3. t # "suppression_list"
    <3>1. /\ AgedOrder[1] # "suppression_list" /\ AgedOrder[2] # "suppression_list"
          /\ AgedOrder[3] # "suppression_list" /\ AgedOrder[4] # "suppression_list"
          /\ AgedOrder[5] # "suppression_list" /\ AgedOrder[6] # "suppression_list"
          /\ AgedOrder[7] # "suppression_list" /\ DOMAIN AgedOrder = 1..7
      BY DEF AgedOrder
    <3>2. \A n \in 1..7 : n = 1 \/ n = 2 \/ n = 3 \/ n = 4 \/ n = 5 \/ n = 6 \/ n = 7
      OBVIOUS
    <3> QED BY <1>2, <2>1, <3>1, <3>2 DEF PurgeAged
  <2>4. Shrunk
    BY <2>2 DEF Shrunk, AccountOK
  <2>5. tab'["suppression_list"] = tab["suppression_list"]
    BY <2>2, <2>3, Names DEF AccountOK, Listed
  <2> QED BY <2>2, <2>4, <2>5, QuietKeepsList
<1>3. ASSUME NEW w \in Deleters, NEW n \in 0..1, tab' = tab, del' = Reset(del, w, n),
             UNCHANGED <<mailer, optedOut, mailedOut>>
      PROVE  ListLast'
  <2>1. del'[w].at = n /\ \A v \in Deleters : v # w => del'[v] = del[v]
    BY <1>0, <1>3, DeletionStarts
  <2>2. ~(n > 7)
    OBVIOUS
  <2> QED BY <1>3, <2>1, <2>2, QuietKeepsList DEF Shrunk
<1>4. CASE PurgeClosed
  <2>1. tab' = tab /\ (del' = del \/ del' = Reset(del, "retention", 1))
        /\ UNCHANGED <<mailer, optedOut, mailedOut>>
    BY <1>4 DEF PurgeClosed, BeginDeletion, Reset
  <2> QED BY <1>1, <1>3, <2>1 DEF Deleters
<1>5. ASSUME NEW w \in Deleters, ReadIds(w) PROVE ListLast'
  <2>1. tab' = tab /\ del' = Moved(del, w, 2) /\ UNCHANGED <<mailer, optedOut, mailedOut>>
    BY <1>5 DEF Moved, ReadIds
  <2>2. 2 \in 0..Ended
    BY Order
  <2>3. del'[w].at = 2 /\ \A v \in Deleters : v # w => del'[v] = del[v]
    BY <1>0, <2>1, <2>2, DeletionMoves
  <2> QED BY <2>1, <2>3, QuietKeepsList DEF Shrunk
<1>6. ASSUME NEW w \in Deleters, DeleteTable(w) PROVE ListLast'
  <2> DEFINE i == del[w].at
             t == DeletionOrder[i - 1]
  <2>1. i \in Nat /\ i > 1 /\ i + 1 \in 0..Ended /\ i - 1 \in DOMAIN DeletionOrder /\ t \in TableNames
    BY <1>0, <1>6, Order DEF DeleteTable, Deletions, TableNames
  <2>2. /\ del' = Moved(del, w, i + 1)
        /\ (Blocked(t) /\ tab' = tab) \/ (~Blocked(t) /\ tab' = Gone(t))
        /\ UNCHANGED <<mailer, optedOut, mailedOut>>
    BY <1>6 DEF DeleteTable, Moved
  <2>3. Shrunk /\ (tab' = Gone(t) => tab'[t] = {})
    BY <2>1, <2>2, GoneShrinks DEF Shrunk, AccountOK
  <2>4. del'[w].at = i + 1 /\ \A v \in Deleters : v # w => del'[v] = del[v]
    BY <1>0, <2>1, <2>2, DeletionMoves
  <2>5. i = 7 => tab'["campaign_leads"] = {}
    <3>1. i = 7 => t = "campaign_leads"
      BY Order
    <3>2. ~Blocked("campaign_leads")
      BY DEF Blocked, Keeps
    <3> QED BY <2>2, <2>3, <3>1, <3>2
  <2>6. i > 7 => tab'["campaign_leads"] = {}
    <3>1. i > 7 => tab["campaign_leads"] = {}
      BY DEF ListLast
    <3> QED BY <2>3, <3>1, Names DEF Shrunk, Listed
  <2>7. i < 7 => tab'["suppression_list"] = tab["suppression_list"]
    <3>1. i < 7 => t \notin {"campaigns", "leads", "clients", "suppression_list"}
      BY <2>1, Order, UpTo12
    <3>2. t \notin {"campaigns", "leads", "clients"} => Gone(t) = [tab EXCEPT ![t] = {}]
      BY DEF Gone
    <3>3. "suppression_list" \in TableNames /\ tab \in [TableNames -> SUBSET Ages]
      BY Names DEF AccountOK, Listed
    <3> HIDE DEF i, t
    <3> QED BY <2>2, <3>1, <3>2, <3>3
  <2> HIDE DEF i, t
  <2>8. i + 1 > 7 => i > 7 \/ i = 7
    BY <2>1
  <2>9. i < 7 \/ i = 7 \/ i > 7
    BY <2>1
  <2> QED BY <2>2, <2>3, <2>4, <2>5, <2>6, <2>7, <2>8, <2>9, QuietKeepsList
<1>7. CASE AdminDeletes
  <2>1. tab' = tab /\ del' = Reset(del, "admin", 1) /\ UNCHANGED <<mailer, optedOut, mailedOut>>
    BY <1>7 DEF AdminDeletes, BeginDeletion, Reset
  <2> QED BY <1>3, <2>1 DEF Deleters
<1>8. ASSUME NEW w \in Deleters, DeleterKilled(w) PROVE ListLast'
  BY <1>8 DEF DeleterKilled
<1>9. ASSUME NEW t \in {"email_events", "reply_inbox", "warmup_logs"}, Writes(t)
      PROVE  /\ tab'["suppression_list"] = tab["suppression_list"]
             /\ tab'["campaign_leads"] = tab["campaign_leads"]
             /\ \A w \in Deleters : del'[w].at = del[w].at
  <2>1. {"suppression_list", "campaign_leads"} \subseteq TableNames
    BY Names DEF Listed
  <2> QED BY <1>9, <2>1, WrittenRows
<1>10. CASE \E t \in {"reply_inbox", "warmup_logs"} : RowComesIn(t)
  BY <1>9, <1>10 DEF RowComesIn, ListLast
<1>11. CASE TakeLead
  BY <1>11 DEF TakeLead, Mailer, ListLast
<1>12. CASE CheckList
  <2>1. /\ mailer' = IF optedOut /\ tab["suppression_list"] # {} THEN "idle" ELSE "claim"
        /\ UNCHANGED <<tab, del, optedOut, mailedOut>>
    BY <1>12 DEF CheckList, Mailer
  <2> QED BY <2>1 DEF ListLast
<1>13. CASE ClaimRow
  <2>1. /\ mailer = "claim" /\ mailer' = IF tab["campaign_leads"] # {} THEN "smtp" ELSE "idle"
        /\ UNCHANGED <<tab, del, optedOut, mailedOut>>
    BY <1>13 DEF ClaimRow, Mailer
  <2> QED BY <2>1 DEF ListLast
<1>14. CASE SendMail
  BY <1>14 DEF SendMail, Mailer, ListLast
<1>15. CASE LogMail
  <2>1. mailer' = "idle" /\ UNCHANGED <<optedOut, mailedOut>> /\ Writes("email_events")
    BY <1>15 DEF LogMail, Mailer
  <2> QED BY <1>9, <2>1 DEF ListLast
<1>16. CASE NightBegins \/ NightKilled \/ CloseAccount \/ GracePasses
  BY <1>1, <1>16 DEF NightBegins, NightKilled, CloseAccount, GracePasses
<1> QED
  BY <1>2, <1>4, <1>5, <1>6, <1>7, <1>8, <1>10, <1>11, <1>12, <1>13, <1>14, <1>15, <1>16
     DEF AccountStep, RetentionStep, Deleters

-----------------------------------------------------------------------------

AccountInv == EnvOK /\ AccountOK /\ DeletedSoFar /\ (env.faults = 0 => ListLast)

LEMMA AccountRests ==
  ASSUME AccountOK, DeletedSoFar, UNCHANGED accountVars
  PROVE  AccountOK' /\ DeletedSoFar' /\ (ListLast => ListLast')
BY DEF accountVars, AccountOK, DeletedSoFar, ListLast

LEMMA AccountInvInit == Init => AccountInv
<1> SUFFICES ASSUME Init PROVE AccountInv
  OBVIOUS
<1>1. EnvOK /\ AccountOK
  BY EnvInit, AccountTypeInit DEF Init
<1>2. \A w \in Deleters : del[w].at = 0 /\ ~(0 > 7)
  BY DEF Init, AccountInit, Quiet
<1>3. DeletedSoFar
  BY <1>2, Order DEF DeletedSoFar
<1>4. ListLast
  <2>1. tab["suppression_list"] # {}
    <3>1. "suppression_list" \in TableNames
      BY Names DEF Listed
    <3> QED BY <3>1 DEF Init, AccountInit, Ages
  <2>2. mailer = "idle" /\ ~mailedOut
    BY DEF Init, AccountInit
  <2>3. \A w \in Deleters : ~(del[w].at > 7)
    BY <1>2
  <2> QED BY <2>1, <2>2, <2>3, Zenon DEF ListLast
<1> QED BY <1>1, <1>3, <1>4 DEF AccountInv

LEMMA AccountInvStep == AccountInv /\ [Next]_vars => AccountInv'
<1> SUFFICES ASSUME AccountInv, [Next]_vars PROVE AccountInv'
  OBVIOUS
<1>1. EnvOK'
  BY EnvNext DEF AccountInv, EnvMoves
<1>2. AccountStep \/ UNCHANGED accountVars
  BY DEF Next, NotAccounts, vars
<1>3. AccountOK' /\ DeletedSoFar'
  BY <1>2, AccountTypeStep, DeletedStep, AccountRests DEF AccountInv
<1>4. ASSUME env'.faults = 0 PROVE ListLast'
  <2>1. ListLast /\ ~Fault
    BY <1>4, NoFaultYet DEF AccountInv
  <2> QED BY <1>2, <2>1, ListStep, AccountRests DEF AccountInv
<1> QED BY <1>1, <1>3, <1>4 DEF AccountInv

\* A deletion that came to its end has left nothing of the client
\* (client_deletion.py), unless a call failed or a row came in while it ran: for
\* any cast, whichever programs and disturbances meet.
THEOREM DeletionIsComplete == Spec => []DeletedIsGone
<1>1. AccountInv => DeletedIsGone
  <2> SUFFICES ASSUME AccountInv, NEW w \in Deleters, del[w].at = Ended, ~del[w].spoiled,
                      NEW t \in TableNames
               PROVE  tab[t] = {}
    BY DEF DeletedIsGone
  <2>1. PICK i \in DOMAIN DeletionOrder : t = DeletionOrder[i]
    BY DEF TableNames
  <2>2. i + 1 < Ended
    BY Order
  <2> QED BY <2>1, <2>2 DEF AccountInv, DeletedSoFar
<1> QED BY <1>1, AccountInvInit, AccountInvStep, PTL DEF Spec

\* Who opted out is not mailed by the scheduler while the client's rows go
\* (client_deletion.py, campaign_scheduler.py), as long as no call fails: the list
\* goes after the rows a mail must claim.
THEOREM OptOutHolds == Spec => []OptOutOutlivesClient
<1>1. AccountInv => OptOutOutlivesClient
  BY DEF AccountInv, EnvOK, ListLast, OptOutOutlivesClient
<1> QED BY <1>1, AccountInvInit, AccountInvStep, PTL DEF Spec

-----------------------------------------------------------------------------
(* The mails an operator sends by hand.                                     *)

Waiting(k) == letter[k].pc \in {"list", "inbox", "smtp"}
CopyInv == \A k \in Kinds : copies[k] + (IF Waiting(k) THEN 1 ELSE 0) <= clicks[k] + lost[k]

\* Of the answers to an address on the list, all but one were not heard of.
OffInv ==
  /\ "email" \notin onList => off = 0
  /\ "email" \in onList /\ letter["answer"].pc \in {"inbox", "smtp"} => off <= lost["answer"]
  /\ off <= 1 + lost["answer"]

Letters == [Kinds -> [pc : {"idle", "list", "inbox", "smtp", "record"}, tries : Nat]]
LetterIs(k, pc, n) == letter' = [letter EXCEPT ![k] = [pc |-> pc, tries |-> n]]

LEMMA LetterGoes ==
  ASSUME letter \in Letters, NEW k \in Kinds, NEW n \in Nat,
         NEW pc \in {"idle", "list", "inbox", "smtp", "record"}, LetterIs(k, pc, n)
  PROVE  /\ letter' \in Letters
         /\ letter'[k].pc = pc /\ letter'[k].tries = n
         /\ \A j \in Kinds : j # k => letter'[j] = letter[j]
BY DEF Letters, LetterIs

LEMMA LetterMoves ==
  ASSUME AnswerOK, NEW k \in Kinds, NEW pc
  PROVE  /\ Letter(k, pc) => LetterIs(k, pc, letter[k].tries)
         /\ Done(k) => LetterIs(k, "idle", 0)
         /\ Sent(k) => LetterIs(k, IF k = "answer" THEN "record" ELSE "idle", 0)
         /\ Retried(k) => \/ LetterIs(k, "smtp", letter[k].tries + 1) /\ letter[k].tries + 1 < Allowed(k)
                          \/ LetterIs(k, "idle", 0)
<1>1. letter[k] \in [pc : {"idle", "list", "inbox", "smtp", "record"}, tries : Nat]
  BY DEF AnswerOK
<1>2. Letter(k, pc) => LetterIs(k, pc, letter[k].tries)
  <2>1. [letter[k] EXCEPT !.pc = pc] = [pc |-> pc, tries |-> letter[k].tries]
    BY <1>1
  <2> QED BY <2>1 DEF Letter, LetterIs
<1>3. Retried(k) => \/ LetterIs(k, "smtp", letter[k].tries + 1) /\ letter[k].tries + 1 < Allowed(k)
                    \/ LetterIs(k, "idle", 0)
  <2>1. CASE letter[k].tries + 1 < Allowed(k)
    BY <2>1 DEF Retried, LetterIs
  <2>2. CASE ~(letter[k].tries + 1 < Allowed(k))
    BY <2>2 DEF Retried, LetterIs
  <2> QED BY <2>1, <2>2
<1>4. Done(k) => LetterIs(k, "idle", 0)
  BY DEF Done, LetterIs
<1>5. Sent(k) => LetterIs(k, IF k = "answer" THEN "record" ELSE "idle", 0)
  BY DEF Sent, LetterIs
<1> QED BY <1>2, <1>3, <1>4, <1>5

\* A step that only moves a letter of kind k, and keeps the tallies.
LEMMA LetterStep ==
  ASSUME AnswerOK, CopyInv, NEW k \in Kinds, NEW pc \in {"idle", "list", "inbox", "smtp", "record"},
         NEW n \in Nat, n < Allowed(k), LetterIs(k, pc, n),
         pc \in {"list", "inbox", "smtp"} => Waiting(k),
         UNCHANGED <<onList, Tallies>>, thread' \in {"open", "answered"}, retired' \in BOOLEAN
  PROVE  /\ AnswerOK' /\ CopyInv'
         /\ OffInv /\ (k = "answer" /\ "email" \in onList /\ pc \in {"inbox", "smtp"} =>
                         letter[k].pc \in {"inbox", "smtp"}) => OffInv'
<1>1. /\ letter' \in Letters
      /\ letter'[k].pc = pc /\ letter'[k].tries = n
      /\ \A j \in Kinds : j # k => letter'[j] = letter[j]
  BY LetterGoes DEF AnswerOK, Letters
<1>2. AnswerOK'
  <2>1. \A j \in Kinds : letter'[j].tries < Allowed(j)
    BY <1>1 DEF AnswerOK
  <2> QED BY <1>1, <2>1 DEF AnswerOK, Letters, Tallies, Allowed
<1>3. CopyInv'
  <2>1. \A j \in Kinds : Waiting(j)' => Waiting(j)
    BY <1>1 DEF Waiting
  <2> QED BY <2>1 DEF CopyInv, AnswerOK, Tallies
<1>4. ASSUME OffInv, k = "answer" /\ "email" \in onList /\ pc \in {"inbox", "smtp"} =>
                         letter[k].pc \in {"inbox", "smtp"}
      PROVE  OffInv'
  <2>1. "answer" \in Kinds
    BY DEF Kinds
  <2> QED BY <1>1, <1>4, <2>1 DEF OffInv, Tallies
<1> QED BY <1>2, <1>3, <1>4

\* An attempt of a letter, whose tallies move with it.
LEMMA AttemptStep ==
  ASSUME AnswerOK, CopyInv, NEW k \in Kinds, Attempt(k)
  PROVE  AnswerOK' /\ CopyInv' /\ (OffInv => OffInv')
<1>0. /\ letter[k].pc = "smtp" /\ letter[k].tries \in Nat /\ letter[k].tries < Allowed(k)
      /\ UNCHANGED <<World, clicks>> /\ Allowed(k) \in Nat \ {0}
  BY AnswersAssumption DEF Attempt, AnswerOK, Allowed
<1>1. ASSUME NEW pc \in {"smtp", "record", "idle"}, NEW n \in Nat, n < Allowed(k), LetterIs(k, pc, n),
             Accepted(k), (pc # "smtp" /\ lost' = lost) \/ lost' = [lost EXCEPT ![k] = @ + 1]
      PROVE  AnswerOK' /\ CopyInv' /\ (OffInv => OffInv')
  <2>1. /\ letter' \in Letters
        /\ letter'[k].pc = pc /\ letter'[k].tries = n
        /\ \A j \in Kinds : j # k => letter'[j] = letter[j]
    BY <1>1, LetterGoes DEF AnswerOK, Letters
  <2>2. /\ copies' \in [Kinds -> Nat] /\ lost' \in [Kinds -> Nat] /\ off' \in Nat
        /\ copies'[k] = copies[k] + 1
        /\ \A j \in Kinds : j # k => copies'[j] = copies[j] /\ lost'[j] = lost[j]
        /\ (pc # "smtp" /\ lost'[k] = lost[k]) \/ lost'[k] = lost[k] + 1
    BY <1>1 DEF Accepted, AnswerOK
  <2>3. AnswerOK'
    <3>1. \A j \in Kinds : letter'[j].tries < Allowed(j)
      BY <1>1, <2>1 DEF AnswerOK
    <3> QED BY <1>0, <2>1, <2>2, <3>1 DEF AnswerOK, Letters, World, Allowed
  <2>4. CopyInv'
    <3>1. ASSUME NEW j \in Kinds, j # k
          PROVE  (copies[j] + (IF Waiting(j) THEN 1 ELSE 0) <= clicks[j] + lost[j])'
      BY <1>0, <2>1, <2>2, <3>1 DEF CopyInv, Waiting
    <3>2. (copies[k] + (IF Waiting(k) THEN 1 ELSE 0) <= clicks[k] + lost[k])'
      <4>1. copies[k] + 1 <= clicks[k] + lost[k]
        BY <1>0 DEF CopyInv, Waiting
      <4>2. copies[k] \in Nat /\ clicks[k] \in Nat /\ lost[k] \in Nat /\ clicks'[k] = clicks[k]
        BY <1>0 DEF AnswerOK
      <4>3. Waiting(k)' => pc = "smtp"
        BY <1>1, <2>1 DEF Waiting
      <4> QED BY <2>2, <4>1, <4>2, <4>3
    <3> QED BY <3>1, <3>2 DEF CopyInv
  <2>5. ASSUME OffInv PROVE OffInv'
    <3>1. onList' = onList /\ off \in Nat /\ lost["answer"] \in Nat /\ "answer" \in Kinds
      BY <1>0 DEF World, AnswerOK, Kinds
    <3>2. CASE k = "answer" /\ "email" \in onList
      <4>1. off' = off + 1 /\ off <= lost["answer"]
        BY <1>0, <1>1, <2>5, <3>2 DEF Accepted, OffInv
      <4> QED BY <2>1, <2>2, <3>1, <3>2, <4>1 DEF OffInv
    <3>3. CASE ~(k = "answer" /\ "email" \in onList)
      <4>1. off' = off
        BY <1>1, <3>3 DEF Accepted
      <4>2. lost'["answer"] >= lost["answer"]
        BY <2>2, <3>1
      <4>3. k # "answer" => letter'["answer"] = letter["answer"] /\ lost'["answer"] = lost["answer"]
        BY <2>1, <2>2, <3>1
      <4>4. lost'["answer"] \in Nat
        BY <2>2, <3>1
      <4> QED BY <2>5, <3>1, <3>3, <4>1, <4>2, <4>3, <4>4 DEF OffInv
    <3> QED BY <3>2, <3>3
  <2> QED BY <2>3, <2>4, <2>5
<1>2. CASE Accepted(k) /\ Sent(k) /\ UNCHANGED <<env, lost>>
  <2>1. CASE k = "answer"
    BY <1>0, <1>1, <1>2, <2>1, LetterMoves
  <2>2. CASE k # "answer"
    BY <1>0, <1>1, <1>2, <2>2, LetterMoves
  <2> QED BY <2>1, <2>2
<1>3. CASE Event("lost") /\ Accepted(k) /\ Retried(k) /\ lost' = [lost EXCEPT ![k] = @ + 1]
  <2>1. \/ LetterIs(k, "smtp", letter[k].tries + 1) /\ letter[k].tries + 1 < Allowed(k)
        \/ LetterIs(k, "idle", 0)
    BY <1>3, LetterMoves
  <2> QED BY <1>0, <1>1, <1>3, <2>1
<1>4. CASE Event("refused") /\ (Retried(k) \/ Done(k)) /\ UNCHANGED <<copies, off, lost>>
  <2>1. \/ LetterIs(k, "smtp", letter[k].tries + 1) /\ letter[k].tries + 1 < Allowed(k)
        \/ LetterIs(k, "idle", 0)
    BY <1>4, LetterMoves
  <2>2. UNCHANGED <<onList, Tallies>> /\ thread' \in {"open", "answered"} /\ retired' \in BOOLEAN
    BY <1>0, <1>4 DEF World, Tallies, AnswerOK
  <2> QED BY <1>0, <2>1, <2>2, LetterStep DEF Waiting
<1> QED BY <1>2, <1>3, <1>4 DEF Attempt

LEMMA AnswerInvStep ==
  ASSUME AnswerOK, CopyInv, AnswerStep
  PROVE  AnswerOK' /\ CopyInv' /\ (OffInv /\ ~Fault => OffInv')
<1>0. /\ \A k \in Kinds : letter[k].tries \in Nat /\ letter[k].tries < Allowed(k) /\ 0 < Allowed(k)
      /\ "answer" \in Kinds /\ "preview" \in Kinds
      /\ thread \in {"open", "answered"} /\ retired \in BOOLEAN
      /\ clicks \in [Kinds -> Nat] /\ copies \in [Kinds -> Nat] /\ lost \in [Kinds -> Nat]
  BY AnswersAssumption DEF AnswerOK, Allowed, Kinds
<1>1. ASSUME NEW what \in {"email", "company"}, OptsOut(what)
      PROVE  AnswerOK' /\ CopyInv' /\ (OffInv => OffInv')
  <2>1. what \notin onList /\ onList' = onList \cup {what} /\ UNCHANGED <<letter, thread, retired, copies, clicks, lost, off>>
    BY <1>1 DEF OptsOut, Tallies
  <2>2. AnswerOK'
    BY <2>1 DEF AnswerOK, Allowed
  <2>3. CopyInv'
    BY <2>1 DEF CopyInv, Waiting
  <2>4. ASSUME OffInv PROVE OffInv'
    <3>1. lost["answer"] \in Nat
      BY <1>0
    <3> QED BY <2>1, <2>4, <3>1 DEF OffInv
  <2> QED BY <2>2, <2>3, <2>4
<1>2. CASE InboxRetires
  BY <1>2 DEF InboxRetires, Tallies, AnswerOK, CopyInv, OffInv, Waiting, Allowed
<1>3. ASSUME NEW k \in Kinds, NEW pc \in {"list", "smtp"}, letter[k].pc = "idle",
             k = "answer" => pc = "list",
             clicks' = [clicks EXCEPT ![k] = @ + 1], Letter(k, pc) \/ UNCHANGED letter,
             UNCHANGED <<World, copies, lost, off>>
      PROVE  AnswerOK' /\ CopyInv' /\ (OffInv => OffInv')
  <2>1. CASE UNCHANGED letter
    <3>1. clicks' \in [Kinds -> Nat] /\ \A j \in Kinds : clicks'[j] >= clicks[j]
      BY <1>0, <1>3
    <3>2. CopyInv'
      BY <1>0, <1>3, <2>1, <3>1 DEF CopyInv, Waiting
    <3> QED BY <1>3, <2>1, <3>1, <3>2 DEF AnswerOK, OffInv, World, Allowed
  <2>2. CASE Letter(k, pc)
    <3>1. LetterIs(k, pc, letter[k].tries)
      BY <2>2, LetterMoves
    <3>2. /\ letter' \in Letters
          /\ letter'[k].pc = pc /\ letter'[k].tries = letter[k].tries
          /\ \A j \in Kinds : j # k => letter'[j] = letter[j]
      BY <1>0, <3>1, LetterGoes DEF AnswerOK, Letters
    <3>3. clicks' \in [Kinds -> Nat] /\ clicks'[k] = clicks[k] + 1
          /\ \A j \in Kinds : j # k => clicks'[j] = clicks[j]
      BY <1>0, <1>3
    <3>4. AnswerOK'
      <4>1. \A j \in Kinds : letter'[j].tries < Allowed(j)
        BY <1>0, <3>2
      <4> QED BY <1>3, <3>2, <3>3, <4>1 DEF AnswerOK, Letters, World, Allowed
    <3>5. ASSUME NEW j \in Kinds PROVE (copies[j] + (IF Waiting(j) THEN 1 ELSE 0) <= clicks[j] + lost[j])'
      <4>1. CASE j = k
        <5>1. copies[k] <= clicks[k] + lost[k]
          BY <1>0, <1>3 DEF CopyInv, Waiting
        <5> QED BY <1>0, <1>3, <3>3, <4>1, <5>1 DEF Waiting
      <4>2. CASE j # k
        BY <1>3, <3>2, <3>3, <4>2 DEF CopyInv, Waiting
      <4> QED BY <4>1, <4>2
    <3>6. OffInv => OffInv'
      BY <1>0, <1>3, <3>2 DEF OffInv, World
    <3> QED BY <3>4, <3>5, <3>6 DEF CopyInv
  <2> QED BY <1>3, <2>1, <2>2
<1>4. CASE SendReply
  BY <1>0, <1>3, <1>4 DEF SendReply
<1>5. CASE SendPreview
  BY <1>0, <1>3, <1>5 DEF SendPreview
<1>6. ASSUME AskList \/ TakeInbox PROVE AnswerOK' /\ CopyInv' /\ (OffInv /\ ~Fault => OffInv')
  <2>1. /\ \/ LetterIs("answer", "inbox", letter["answer"].tries) /\ (Fault \/ "email" \notin onList)
           \/ LetterIs("answer", "smtp", letter["answer"].tries) /\ letter["answer"].pc = "inbox"
           \/ LetterIs("answer", "idle", 0)
        /\ Waiting("answer") /\ UNCHANGED <<World, Tallies>>
    BY <1>0, <1>6, LetterMoves DEF AskList, TakeInbox, Waiting
  <2>2. UNCHANGED <<onList, Tallies>> /\ thread' \in {"open", "answered"} /\ retired' \in BOOLEAN
    BY <1>0, <2>1 DEF World
  <2> QED BY <1>0, <2>1, <2>2, LetterStep
<1>7. CASE RecordAnswer
  <2>1. LetterIs("answer", "idle", 0)
    BY <1>0, <1>7, LetterMoves DEF RecordAnswer
  <2>2. UNCHANGED <<onList, Tallies>> /\ thread' \in {"open", "answered"} /\ retired' \in BOOLEAN
    BY <1>0, <1>7 DEF RecordAnswer
  <2> QED BY <1>0, <2>1, <2>2, LetterStep
<1>8. ASSUME NEW k \in Kinds, Attempt(k) PROVE AnswerOK' /\ CopyInv' /\ (OffInv => OffInv')
  BY <1>8, AttemptStep
<1> QED BY <1>1, <1>2, <1>4, <1>5, <1>6, <1>7, <1>8 DEF AnswerStep

LEMMA AnswerInvInit == ASSUME AnswerInit PROVE AnswerOK /\ CopyInv /\ OffInv
<1>1. \A k \in Kinds : letter[k] = [pc |-> "idle", tries |-> 0] /\ 0 < Allowed(k)
  BY AnswersAssumption DEF AnswerInit, Allowed
<1>2. letter \in [Kinds -> [pc : {"idle", "list", "inbox", "smtp", "record"}, tries : Nat]]
  BY DEF AnswerInit
<1>3. AnswerOK
  BY <1>1, <1>2 DEF AnswerInit, AnswerOK
<1>4. CopyInv
  <2>1. \A k \in Kinds : copies[k] = 0 /\ clicks[k] = 0 /\ lost[k] = 0 /\ ~Waiting(k)
    BY <1>1 DEF AnswerInit, Waiting
  <2> QED BY <2>1 DEF CopyInv
<1>5. OffInv
  BY DEF AnswerInit, OffInv, Kinds
<1> QED BY <1>3, <1>4, <1>5

-----------------------------------------------------------------------------

AnswerInv == EnvOK /\ AnswerOK /\ CopyInv /\ (env.faults = 0 => OffInv)

LEMMA AnswerRests ==
  ASSUME AnswerOK, CopyInv, UNCHANGED answerVars
  PROVE  AnswerOK' /\ CopyInv' /\ (OffInv => OffInv')
BY DEF answerVars, AnswerOK, CopyInv, OffInv, Waiting, Allowed

LEMMA AnswerInvStarts == Init => AnswerInv
BY EnvInit, AnswerInvInit DEF Init, AnswerInv

LEMMA AnswerInvKeeps == AnswerInv /\ [Next]_vars => AnswerInv'
<1> SUFFICES ASSUME AnswerInv, [Next]_vars PROVE AnswerInv'
  OBVIOUS
<1>1. EnvOK'
  BY EnvNext DEF AnswerInv, EnvMoves
<1>2. AnswerStep \/ UNCHANGED answerVars
  BY DEF Next, NotAnswers, vars
<1>3. AnswerOK' /\ CopyInv'
  BY <1>2, AnswerInvStep, AnswerRests DEF AnswerInv
<1>4. ASSUME env'.faults = 0 PROVE OffInv'
  <2>1. OffInv /\ ~Fault
    BY <1>4, NoFaultYet DEF AnswerInv
  <2> QED BY <1>2, <2>1, AnswerInvStep, AnswerRests DEF AnswerInv
<1> QED BY <1>1, <1>3, <1>4 DEF AnswerInv

\* A request mails once, and once more for every acceptance it did not hear of
\* (main.py, the answer from the inbox and the test mail of a sequence), for any
\* number of attempts and any cast; without failing calls the same holds of the
\* answers to an address that has opted out, up to the first.
THEOREM CopiesAreExplained == Spec => []CopiesExplained
<1>1. AnswerInv => CopiesExplained
  <2> SUFFICES ASSUME AnswerInv PROVE CopiesExplained
    OBVIOUS
  <2>1. ASSUME NEW k \in Kinds PROVE copies[k] <= clicks[k] + lost[k]
    <3>1. /\ copies[k] \in Nat /\ clicks[k] \in Nat /\ lost[k] \in Nat
          /\ copies[k] + (IF Waiting(k) THEN 1 ELSE 0) <= clicks[k] + lost[k]
      BY DEF AnswerInv, AnswerOK, CopyInv
    <3> QED BY <3>1
  <2> QED BY <2>1 DEF AnswerInv, OffInv, CopiesExplained
<1> QED BY <1>1, AnswerInvStarts, AnswerInvKeeps, PTL DEF Spec

-----------------------------------------------------------------------------
(* The flag of a domain and the recoveries it stands for.                   *)

Cases == [zone : ZoneSet, open : BOOLEAN, done : SUBSET (1..GuideSteps)]
Hunts == [pc : {"idle", "ask", "look", "open", "mark"}, zone : DOMAIN Zones]
Desks == [pc : {"idle", "write", "count", "clear"}, nr : 0..MaxCases, done : SUBSET (1..GuideSteps)]

\* While nothing has failed or crossed and the API's own check stays away.
Undisturbed == env.faults = 0 /\ ~crossed /\ ~Plays("sweep")

Drifts == [pc : Records \cup {"idle", "store", "stamp"},
           expected : Phases, found : Phases, issues : BOOLEAN]
Marking == \E m \in Monitors : hunt[m].pc = "mark"

MarkInv ==
  /\ OpenCases # {} => dom.blacklisted = TRUE \/ Marking
  /\ desk.pc = "clear" => OpenCases = {}

-----------------------------------------------------------------------------
(* Types.                                                                   *)

LEMMA IdleTypes ==
  /\ IdleHunt \in Hunts /\ IdleHunt.pc = "idle" /\ IdleDesk \in Desks /\ IdleDesk.pc = "idle"
  /\ IdleDrift \in Drifts
<1>1. 1 \in DOMAIN Zones /\ 0 \in 0..MaxCases
  BY DomainsAssumption
<1> QED BY <1>1 DEF IdleHunt, Hunts, IdleDesk, Desks, IdleDrift, Drifts, Phases

\* A hunt that stands at a zone, moves on to another or ends.
LEMMA HuntMoves ==
  ASSUME hunt \in [Monitors -> Hunts], NEW m \in Monitors
  PROVE  /\ \A pc \in {"idle", "ask", "look", "open", "mark"} :
              Hunt(m, pc) => /\ hunt' \in [Monitors -> Hunts] /\ hunt'[m].pc = pc
                             /\ \A v \in Monitors : v # m => hunt'[v] = hunt[v]
         /\ NextZone(m) => /\ hunt' \in [Monitors -> Hunts] /\ hunt'[m].pc # "mark"
                           /\ \A v \in Monitors : v # m => hunt'[v] = hunt[v]
         /\ hunt' = [hunt EXCEPT ![m] = IdleHunt]
              => /\ hunt' \in [Monitors -> Hunts] /\ hunt'[m].pc # "mark"
                 /\ \A v \in Monitors : v # m => hunt'[v] = hunt[v]
<1>0. hunt[m] \in Hunts /\ hunt[m].zone \in DOMAIN Zones
  BY DEF Hunts
<1>1. ASSUME NEW pc \in {"idle", "ask", "look", "open", "mark"}, Hunt(m, pc)
      PROVE  /\ hunt' \in [Monitors -> Hunts] /\ hunt'[m].pc = pc
             /\ \A v \in Monitors : v # m => hunt'[v] = hunt[v]
  <2>1. [hunt[m] EXCEPT !.pc = pc] \in Hunts /\ [hunt[m] EXCEPT !.pc = pc].pc = pc
    BY <1>0 DEF Hunts
  <2>2. hunt' = [hunt EXCEPT ![m] = [hunt[m] EXCEPT !.pc = pc]]
    BY <1>1 DEF Hunt
  <2> QED BY <2>1, <2>2
<1>2. ASSUME NEW r \in Hunts, r.pc # "mark", hunt' = [hunt EXCEPT ![m] = r]
      PROVE  /\ hunt' \in [Monitors -> Hunts] /\ hunt'[m].pc # "mark"
             /\ \A v \in Monitors : v # m => hunt'[v] = hunt[v]
  BY <1>2
<1>3. IdleHunt \in Hunts /\ IdleHunt.pc # "mark"
  BY IdleTypes
<1>4. ASSUME NextZone(m)
      PROVE  \E r \in Hunts : r.pc # "mark" /\ hunt' = [hunt EXCEPT ![m] = r]
  <2>1. CASE hunt[m].zone = Len(Zones)
    BY <1>3, <1>4, <2>1 DEF NextZone
  <2>2. CASE hunt[m].zone # Len(Zones)
    <3> DEFINE r == [pc |-> "ask", zone |-> hunt[m].zone + 1]
    <3>1. r \in Hunts /\ r.pc # "mark"
      BY <1>0, <2>2, DomainsAssumption DEF Hunts
    <3>2. hunt' = [hunt EXCEPT ![m] = r]
      BY <1>4, <2>2 DEF NextZone
    <3> QED BY <3>1, <3>2
  <2> QED BY <2>1, <2>2
<1> QED BY <1>1, <1>2, <1>3, <1>4

-----------------------------------------------------------------------------
(* The steps, by what they touch.                                           *)

DomTypes ==
  /\ dom \in [status : {"unknown", "ok", "error"}, phase : Phases, blacklisted : BOOLEAN]
  /\ cases \in Seq(Cases) /\ Len(cases) <= MaxCases
  /\ hunt \in [Monitors -> Hunts] /\ desk \in Desks
RestTypes ==
  /\ live \in [present : SUBSET Records, phase : Phases, listed : SUBSET ZoneSet]
  /\ drift \in [Monitors -> Drifts]
  /\ sweep \in {"idle", "listed", "clean"} /\ crossed \in BOOLEAN

LEMMA TypesAre == /\ DomainOK <=> DomTypes /\ RestTypes
                  /\ DomainOK' <=> (DomTypes /\ RestTypes)'
BY DEF DomainOK, DomTypes, RestTypes, Cases, Hunts, Desks, Drifts

DomainKeeps == DomainOK' /\ (MarkInv /\ ~Fault /\ ~crossed' => MarkInv')

\* The runs of the DNS check leave the flag alone.
LEMMA DriftKeeps ==
  ASSUME DomainOK, NEW m \in Monitors, DriftStep(m)
  PROVE  DomainKeeps
<1>0. DomTypes /\ RestTypes /\ UNCHANGED <<live, cases, hunt, desk, sweep, crossed>>
  BY TypesAre DEF DriftStep, BeginDrift, CheckRecord, StorePhase, StampDrift
<1>1. drift[m] \in Drifts /\ live.phase \in Phases /\ dom.phase \in Phases
  BY <1>0 DEF RestTypes, DomTypes
<1>2. drift' \in [Monitors -> Drifts]
  <2>1. \E r \in Drifts : drift' = [drift EXCEPT ![m] = r]
    <3>1. CASE BeginDrift(m)
      <4>1. [IdleDrift EXCEPT !.pc = "spf", !.expected = dom.phase] \in Drifts
        BY <1>1, IdleTypes DEF Drifts, Records
      <4> QED BY <3>1, <4>1 DEF BeginDrift
    <3>2. CASE StampDrift(m)
      BY <3>2, IdleTypes DEF StampDrift
    <3>3. CASE StorePhase(m)
      <4>1. [drift[m] EXCEPT !.pc = "stamp"] \in Drifts
        BY <1>1 DEF Drifts
      <4>2. drift' = [drift EXCEPT ![m] = [drift[m] EXCEPT !.pc = "stamp"]]
        BY <3>3 DEF StorePhase
      <4> QED BY <4>1, <4>2
    <3>4. CASE CheckRecord(m)
      <4> DEFINE next == Following[drift[m].pc]
      <4>1. next \in Records \cup {"stamp"}
        BY <3>4 DEF CheckRecord, Records, Following
      <4>2. PICK r \in {[drift[m] EXCEPT !.pc = "store", !.found = live.phase], [drift[m] EXCEPT !.pc = next],
                        [drift[m] EXCEPT !.pc = next, !.issues = TRUE]} : drift' = [drift EXCEPT ![m] = r]
        <5>1. CASE RecordFound(m, drift[m].pc)
          BY <5>1 DEF RecordFound
        <5>2. CASE RecordMissing(m, drift[m].pc)
          BY <5>2 DEF RecordMissing
        <5> QED BY <3>4, <5>1, <5>2 DEF CheckRecord
      <4> HIDE DEF next
      <4>3. r \in Drifts
        BY <1>1, <4>1, <4>2 DEF Drifts
      <4> QED BY <4>2, <4>3
    <3> QED BY <3>1, <3>2, <3>3, <3>4 DEF DriftStep
  <2> QED BY <1>0, <2>1 DEF RestTypes
<1>3. dom' = dom \/ dom' = [dom EXCEPT !.phase = drift[m].found]
      \/ dom' = [dom EXCEPT !.status = "error"] \/ dom' = [dom EXCEPT !.status = "ok"]
  BY DEF DriftStep, BeginDrift, CheckRecord, StorePhase, StampDrift
<1>4. /\ dom' \in [status : {"unknown", "ok", "error"}, phase : Phases, blacklisted : BOOLEAN]
      /\ dom'.blacklisted = dom.blacklisted
  <2>1. drift[m].found \in Phases
    BY <1>1 DEF Drifts
  <2> QED BY <1>0, <2>1, <1>3 DEF DomTypes
<1>5. DomainOK'
  BY <1>0, <1>2, <1>4, TypesAre DEF DomTypes, RestTypes
<1>6. MarkInv => MarkInv'
  BY <1>0, <1>4 DEF MarkInv, Marking, OpenCases
<1> QED BY <1>5, <1>6 DEF DomainKeeps

\* A hunt opens a recovery, and then it is at the mark.
LEMMA HuntKeeps ==
  ASSUME DomainOK, NEW m \in Monitors, HuntStep(m)
  PROVE  DomainKeeps
<1>0. DomTypes /\ RestTypes
  BY TypesAre
<1>1. ASSUME hunt[m].pc # "mark", UNCHANGED <<live, dom, cases, drift, desk, sweep, crossed>>,
             hunt' \in [Monitors -> Hunts], \A v \in Monitors : v # m => hunt'[v] = hunt[v]
      PROVE  DomainKeeps
  <2>1. DomainOK'
    BY <1>0, <1>1, TypesAre DEF DomTypes, RestTypes
  <2>2. MarkInv => MarkInv'
    BY <1>1 DEF MarkInv, Marking, OpenCases
  <2> QED BY <2>1, <2>2 DEF DomainKeeps
<1>2. CASE BeginHunt(m)
  <2>1. [pc |-> "ask", zone |-> 1] \in Hunts
    BY DomainsAssumption DEF Hunts
  <2> QED BY <1>0, <1>1, <1>2, <2>1 DEF BeginHunt, DomTypes
<1>3. CASE AskZone(m)
  BY <1>0, <1>1, <1>3, HuntMoves DEF AskZone, HuntOnly, DomTypes
<1>4. CASE LookForCase(m)
  BY <1>0, <1>1, <1>4, HuntMoves DEF LookForCase, HuntOnly, DomTypes
<1>5. CASE OpenCase(m)
  <2>1. /\ hunt' \in [Monitors -> Hunts] /\ hunt'[m].pc = "mark"
        /\ UNCHANGED <<live, dom, drift, desk, sweep>>
    BY <1>0, <1>5, HuntMoves DEF OpenCase, HuntOnly, DomTypes
  <2>2. cases' \in Seq(Cases) /\ Len(cases') <= MaxCases
    <3>1. NewCase(Zones[hunt[m].zone]) \in Cases
      BY <1>0 DEF NewCase, Cases, ZoneSet, DomTypes, Hunts
    <3>2. cases' = cases \/ cases' = Append(cases, NewCase(Zones[hunt[m].zone]))
      BY <1>5 DEF OpenCase
    <3>3. Len(cases) < MaxCases /\ Len(cases) \in Nat /\ MaxCases \in Nat
      BY <1>0, <1>5, DomainsAssumption DEF OpenCase, DomTypes
    <3> QED BY <1>0, <3>1, <3>2, <3>3 DEF DomTypes
  <2>3. crossed' \in BOOLEAN
    BY <1>0, <1>5 DEF OpenCase, RestTypes
  <2>4. DomainOK'
    BY <1>0, <2>1, <2>2, <2>3, TypesAre DEF DomTypes, RestTypes
  <2>5. ASSUME ~Fault, ~crossed' PROVE desk.pc # "clear"
    BY <1>5, <2>5 DEF OpenCase
  <2>6. ASSUME ~Fault, ~crossed' PROVE MarkInv'
    BY <2>1, <2>5, <2>6 DEF MarkInv, Marking
  <2> QED BY <2>4, <2>6 DEF DomainKeeps
<1>6. CASE MarkDomain(m)
  <2>1. hunt' \in [Monitors -> Hunts] /\ UNCHANGED <<live, drift, desk, sweep, cases, crossed>>
    BY <1>0, <1>6, HuntMoves DEF MarkDomain, HuntOnly, DomTypes
  <2>2. /\ dom' \in [status : {"unknown", "ok", "error"}, phase : Phases, blacklisted : BOOLEAN]
        /\ ~Fault => dom'.blacklisted = TRUE
    BY <1>0, <1>6 DEF MarkDomain, DomTypes
  <2>3. DomainOK'
    BY <1>0, <2>1, <2>2, TypesAre DEF DomTypes, RestTypes
  <2>4. MarkInv /\ ~Fault => MarkInv'
    BY <2>1, <2>2 DEF MarkInv, OpenCases
  <2> QED BY <2>3, <2>4 DEF DomainKeeps
<1> QED BY <1>2, <1>3, <1>4, <1>5, <1>6 DEF HuntStep

\* What is done through the API opens no recovery.
LEMMA DeskKeeps ==
  ASSUME DomainOK,
         \/ \E i \in 1..MaxCases, s \in 1..GuideSteps, completed \in BOOLEAN : TickStep(i, s, completed)
         \/ WriteSteps \/ CountOpen \/ ClearFlag
  PROVE  DomainKeeps
<1>0. DomTypes /\ RestTypes /\ UNCHANGED <<live, drift, hunt, sweep, crossed>> /\ desk \in Desks
  BY TypesAre DEF TickStep, WriteSteps, CountOpen, ClearFlag, DeskOnly, DomTypes
<1>1. ASSUME dom' = dom, cases' = cases, desk' \in Desks, desk'.pc = "clear" => OpenCases = {}
      PROVE  DomainKeeps
  <2>1. DomainOK'
    BY <1>0, <1>1, TypesAre DEF DomTypes, RestTypes
  <2>2. MarkInv => MarkInv'
    BY <1>0, <1>1 DEF MarkInv, Marking, OpenCases
  <2> QED BY <2>1, <2>2 DEF DomainKeeps
<1>2. ASSUME NEW i \in 1..MaxCases, NEW s \in 1..GuideSteps, NEW completed \in BOOLEAN,
             TickStep(i, s, completed)
      PROVE  DomainKeeps
  <2>1. cases[i].done \in SUBSET (1..GuideSteps) /\ i \in 0..MaxCases
    <3>1. i \in DOMAIN cases /\ cases \in Seq(Cases)
      BY <1>0, <1>2 DEF TickStep, DomTypes
    <3>2. cases[i] \in Cases
      BY <3>1
    <3> QED BY <3>2 DEF Cases
  <2>2. desk' \in Desks /\ desk'.pc = "write"
    BY <1>2, <2>1 DEF TickStep, Desks
  <2> QED BY <1>1, <1>2, <2>2 DEF TickStep
<1>3. \A pc \in {"count", "clear"} : [desk EXCEPT !.pc = pc] \in Desks /\ [desk EXCEPT !.pc = pc].pc = pc
  BY <1>0 DEF Desks
<1>4. CASE CountOpen
  <2>1. desk' \in Desks /\ (desk'.pc = "clear" => OpenCases = {})
    BY <1>3, <1>4, IdleTypes DEF CountOpen, NoneOpen
  <2> QED BY <1>1, <1>4, <2>1 DEF CountOpen
<1>5. CASE ClearFlag
  <2>1. desk' = IdleDesk /\ cases' = cases /\ desk.pc = "clear"
        /\ dom' \in [status : {"unknown", "ok", "error"}, phase : Phases, blacklisted : BOOLEAN]
    BY <1>0, <1>5 DEF ClearFlag, DomTypes
  <2>2. DomainOK'
    BY <1>0, <2>1, IdleTypes, TypesAre DEF DomTypes, RestTypes
  <2>3. MarkInv => MarkInv'
    BY <2>1, IdleTypes DEF MarkInv, OpenCases
  <2> QED BY <2>2, <2>3 DEF DomainKeeps
<1>6. CASE WriteSteps
  <2>1. dom' = dom /\ desk' \in Desks /\ desk'.pc # "clear"
    BY <1>3, <1>6, IdleTypes DEF WriteSteps
  <2>2. /\ cases' \in Seq(Cases) /\ Len(cases') = Len(cases)
        /\ OpenCases' \subseteq OpenCases
    <3>1. CASE cases' = cases
      BY <1>0, <3>1 DEF DomTypes, OpenCases
    <3>2. CASE cases' = [cases EXCEPT ![desk.nr].done = desk.done, ![desk.nr].open = @ /\ ~AllDone]
      <4> DEFINE n == desk.nr
                 old == cases[n]
                 new == [old EXCEPT !.done = desk.done, !.open = old.open /\ ~AllDone]
      <4>1. CASE n \in DOMAIN cases
        <5>1. old \in Cases /\ desk.done \in SUBSET (1..GuideSteps)
          BY <1>0, <4>1 DEF DomTypes, Desks
        <5>2. new \in Cases /\ (new.open => old.open)
          BY <5>1 DEF Cases
        <5>3. cases' = [cases EXCEPT ![n] = new]
          BY <3>2
        <5> HIDE DEF new, n
        <5>4. cases' \in Seq(Cases) /\ Len(cases') = Len(cases) /\ DOMAIN cases' = DOMAIN cases
          BY <1>0, <4>1, <5>2, <5>3 DEF DomTypes
        <5>5. \A i \in DOMAIN cases : cases'[i].open => cases[i].open
          BY <4>1, <5>2, <5>3
        <5> QED BY <5>4, <5>5 DEF OpenCases
      <4>2. CASE n \notin DOMAIN cases
        <5>1. cases' = cases
          BY <1>0, <3>2, <4>2 DEF DomTypes
        <5> QED BY <1>0, <5>1 DEF DomTypes, OpenCases
      <4> QED BY <4>1, <4>2
    <3> QED BY <1>6, <3>1, <3>2 DEF WriteSteps
  <2>3. DomainOK'
    BY <1>0, <2>1, <2>2, TypesAre DEF DomTypes, RestTypes
  <2>4. MarkInv => MarkInv'
    BY <1>0, <2>1, <2>2 DEF MarkInv, Marking
  <2> QED BY <2>3, <2>4 DEF DomainKeeps
<1> QED BY <1>2, <1>4, <1>5, <1>6

DomainInv ==
  /\ EnvOK /\ DomainOK
  /\ ~Plays("sweep") => sweep = "idle"
  /\ Undisturbed => MarkInv

LEMMA DomainInvStep == DomainInv /\ [Next]_vars => DomainInv'
<1> SUFFICES ASSUME DomainInv, [Next]_vars PROVE DomainInv'
  OBVIOUS
<1>1. EnvOK' /\ (Plays("sweep")' <=> Plays("sweep"))
  BY EnvNext DEF DomainInv, EnvMoves, SameCast, Plays
<1>2. DomainStep \/ UNCHANGED domainVars
  BY DEF Next, NotDomains, vars
<1>3. Undisturbed' => env.faults = 0 /\ ~Fault /\ ~crossed' /\ ~Plays("sweep")
  BY <1>1, NoFaultYet DEF DomainInv, Undisturbed
<1>4. crossed => crossed'
  BY <1>2 DEF DomainStep, RecordsChange, ListingChanges, DriftStep, BeginDrift, CheckRecord, StorePhase, StampDrift,
              HuntStep, BeginHunt, AskZone, LookForCase, OpenCase, MarkDomain, HuntOnly, MonitorKilled,
              TickStep, WriteSteps, CountOpen, ClearFlag, DeskOnly, BeginSweep, WriteSweep, domainVars
<1>5. ASSUME DomainKeeps, sweep' = sweep PROVE DomainInv'
  BY <1>1, <1>3, <1>4, <1>5 DEF DomainInv, DomainKeeps, Undisturbed
<1>6. DomTypes /\ RestTypes
  BY TypesAre DEF DomainInv
<1>7. ASSUME UNCHANGED <<dom, cases, hunt, desk, sweep, crossed>>, RestTypes' PROVE DomainInv'
  <2>1. DomainOK'
    BY <1>6, <1>7, TypesAre DEF DomTypes
  <2>2. MarkInv => MarkInv'
    BY <1>7 DEF MarkInv, Marking, OpenCases
  <2> QED BY <1>5, <1>7, <2>1, <2>2 DEF DomainKeeps
<1>8. CASE UNCHANGED domainVars
  BY <1>6, <1>7, <1>8 DEF domainVars, RestTypes
<1>9. CASE RecordsChange \/ ListingChanges
  <2>1. live' \in [present : SUBSET Records, phase : Phases, listed : SUBSET ZoneSet]
    BY <1>6, <1>9 DEF RecordsChange, ListingChanges, RestTypes
  <2> QED BY <1>6, <1>7, <1>9, <2>1 DEF RecordsChange, ListingChanges, RestTypes
<1>10. ASSUME NEW m \in Monitors, DriftStep(m) PROVE DomainInv'
  BY <1>5, <1>10, DriftKeeps DEF DomainInv, DriftStep, BeginDrift, CheckRecord, StorePhase, StampDrift
<1>11. ASSUME NEW m \in Monitors, HuntStep(m) PROVE DomainInv'
  BY <1>5, <1>11, HuntKeeps
     DEF DomainInv, HuntStep, BeginHunt, AskZone, LookForCase, OpenCase, MarkDomain, HuntOnly
<1>12. ASSUME NEW m \in Monitors, MonitorKilled(m) PROVE DomainInv'
  <2>1. /\ hunt' \in [Monitors -> Hunts]
        /\ drift' \in [Monitors -> Drifts]
    BY <1>6, <1>12, HuntMoves, IdleTypes DEF MonitorKilled, DomTypes, RestTypes
  <2>2. DomainOK' /\ sweep' = sweep /\ Fault
    BY <1>6, <1>12, <2>1, TypesAre DEF MonitorKilled, DomTypes, RestTypes
  <2> QED BY <1>5, <2>2 DEF DomainKeeps
<1>13. CASE \/ \E i \in 1..MaxCases, s \in 1..GuideSteps, completed \in BOOLEAN : TickStep(i, s, completed)
            \/ WriteSteps \/ CountOpen \/ ClearFlag
  <2>1. DomainKeeps
    BY <1>13, DeskKeeps DEF DomainInv
  <2>2. sweep' = sweep
    BY <1>13 DEF TickStep, WriteSteps, CountOpen, ClearFlag, DeskOnly
  <2> QED BY <1>5, <2>1, <2>2
<1>14. CASE BeginSweep \/ WriteSweep
  <2>1. Plays("sweep")
    BY <1>14 DEF BeginSweep, WriteSweep, Event, DomainInv
  <2>2. sweep' \in {"idle", "listed", "clean"}
    BY <1>14 DEF BeginSweep, WriteSweep
  <2>3. dom' \in [status : {"unknown", "ok", "error"}, phase : Phases, blacklisted : BOOLEAN]
    BY <1>6, <1>14 DEF BeginSweep, WriteSweep, DomTypes
  <2>4. DomainOK'
    BY <1>6, <1>14, <2>2, <2>3, TypesAre DEF BeginSweep, WriteSweep, DomTypes, RestTypes
  <2> QED BY <1>1, <2>1, <2>4 DEF DomainInv, Undisturbed
<1> QED BY <1>2, <1>8, <1>9, <1>10, <1>11, <1>12, <1>13, <1>14 DEF DomainStep

LEMMA DomainInvInit == Init => DomainInv
<1> SUFFICES ASSUME Init PROVE DomainInv
  OBVIOUS
<1>1. cases = <<>> /\ sweep = "idle" /\ desk = IdleDesk /\ crossed = FALSE
  BY DEF Init, DomainInit
<1>2. cases \in Seq(Cases) /\ Len(cases) <= MaxCases /\ OpenCases = {}
  BY <1>1, DomainsAssumption DEF OpenCases
<1>3. DomTypes
  BY <1>2, IdleTypes DEF Init, DomainInit, DomTypes, Phases
<1>4. RestTypes
  BY <1>1, IdleTypes DEF Init, DomainInit, RestTypes, Phases
<1>5. EnvOK
  BY EnvInit DEF Init
<1> QED BY <1>1, <1>2, <1>3, <1>4, <1>5, IdleTypes, TypesAre DEF DomainInv, MarkInv

\* A domain with an open recovery is marked as blacklisted once no monitor is
\* about to do so (dns_monitor.py, the recovery steps of main.py): for any
\* monitors, zones and steps of the guide, and any cast without the API's own
\* check, as long as no call fails and no recovery is opened while another is
\* being closed.
THEOREM OpenCasesAreMarked == Spec => []OpenCaseIsMarked
<1>1. DomainInv => OpenCaseIsMarked
  BY DEF DomainInv, Undisturbed, MarkInv, Marking, OpenCaseIsMarked
<1> QED BY <1>1, DomainInvInit, DomainInvStep, PTL DEF Spec

-----------------------------------------------------------------------------
(* The counted days.                                                        *)

\* A day's row agrees with the day; only a step whose events are all gone may
\* keep an old one.
RowExact(e, d) == (e = "step" /\ d \in erased) \/ Cached(e, d) = happened[d]

\* The run's n-th row comes after that of the entity and the day.
Start(r) == r.end - r.back
Past(n, r, e, d) ==
  \/ e = "campaign" /\ 2 * (d - Start(r)) - 1 < n
  \/ e = "step"     /\ 2 * (d - Start(r)) < n
  \/ e = "inbox"    /\ 2 * r.back + (d - Start(r)) < n

\* A run that is alone has clean days, whose rows are exact as far as it has
\* come; what it is about to write is the day's number unless the day changed.
RunOK(r) ==
  /\ r.at <= 3 * r.back
  /\ r.at = 0 => r.clean = {}
  /\ r.clean \subseteq Covered(r.end, r.back)
  /\ r.pc = "write" => r.at > 0 /\ DayOf(r) \in AllDays
  /\ r.pc = "write" /\ (DayOf(r) \in r.clean \/ DayOf(r) \notin inexact) => r.seen = happened[DayOf(r)]
  /\ r.pc = "write" /\ DayOf(r) \notin erased => r.seen <= happened[DayOf(r)]
  /\ \A d \in r.clean, e \in Entities : Past(r.at, r, e, d) => RowExact(e, d)

\* A run that still has clean days is the only one.
Alone == \A w \in Runs : agg[w].clean # {} => \A v \in Runs \ {w} : ~Active(v)

\* The rows of a day that nothing disturbed agree with it.
DayOK ==
  /\ \A e \in Entities, d \in AllDays \ inexact : RowExact(e, d)
  /\ \A e \in Entities, d \in AllDays \ erased : Cached(e, d) <= happened[d]
CountInv == Alone /\ DayOK /\ \A w \in Runs : RunOK(agg[w])

\* The only row a run passes when it goes on is the one it is at.
LEMMA WhereItIs ==
  ASSUME NEW r \in RunRow, NEW d \in Covered(r.end, r.back), NEW e \in Entities,
         Past(r.at + 1, r, e, d)
  PROVE  Past(r.at, r, e, d) \/ (e = Entity(r) /\ d = DayOf(r))
<1> DEFINE at == r.at
           k == d - Start(r)
           back == r.back
<1>1. /\ at \in Nat /\ r.end \in Int /\ back \in Nat /\ d \in Int /\ Start(r) \in Int
      /\ d = Start(r) + k /\ k \in 1..back
  BY AnalyticsAssumption DEF RunRow, Start, AllDays, Covered
<1>2. Past(at + 1, r, e, d) <=> \/ e = "campaign" /\ 2 * k - 1 < at + 1
                                \/ e = "step"     /\ 2 * k < at + 1
                                \/ e = "inbox"    /\ 2 * back + k < at + 1
  BY DEF Past
<1>3. Past(at, r, e, d) <=> \/ e = "campaign" /\ 2 * k - 1 < at
                            \/ e = "step"     /\ 2 * k < at
                            \/ e = "inbox"    /\ 2 * back + k < at
  BY DEF Past
<1>4. Entity(r) = IF at > 2 * back THEN "inbox" ELSE IF at % 2 = 1 THEN "campaign" ELSE "step"
  BY DEF Entity
<1>5. DayOf(r) = Start(r) + (IF at > 2 * back THEN at - 2 * back ELSE (at + 1) \div 2)
  BY DEF DayOf, Start
<1>6. SUFFICES ASSUME ~Past(at, r, e, d) PROVE e = Entity(r) /\ d = DayOf(r)
  OBVIOUS
<1>0. Past(at + 1, r, e, d)
  OBVIOUS
<1> HIDE DEF at, k, back
<1>7. CASE e = "campaign"
  <2>1. at = 2 * k - 1
    BY <1>0, <1>1, <1>2, <1>3, <1>6, <1>7
  <2>2. at % 2 = 1 /\ (at + 1) \div 2 = k
    BY <1>1, <2>1
  <2> QED BY <1>1, <1>4, <1>5, <1>7, <2>1, <2>2
<1>8. CASE e = "step"
  <2>1. at = 2 * k
    BY <1>0, <1>1, <1>2, <1>3, <1>6, <1>8
  <2>2. at % 2 = 0 /\ (at + 1) \div 2 = k
    BY <1>1, <2>1
  <2> QED BY <1>1, <1>4, <1>5, <1>8, <2>1, <2>2
<1>9. CASE e = "inbox"
  <2>1. at = 2 * back + k
    BY <1>0, <1>1, <1>2, <1>3, <1>6, <1>9
  <2> QED BY <1>1, <1>4, <1>5, <1>9, <2>1
<1> QED BY <1>7, <1>8, <1>9 DEF Entities

\* A run that has come to its last row is past all others.
LEMMA PastAll ==
  ASSUME NEW r \in RunRow, r.at + 1 > 3 * r.back, NEW d \in Covered(r.end, r.back), NEW e \in Entities
  PROVE  Past(r.at + 1, r, e, d)
<1> DEFINE k == d - Start(r)
<1>1. r.at \in Nat /\ r.back \in Nat /\ k \in 1..r.back
  BY AnalyticsAssumption DEF RunRow, Start, AllDays, Covered
<1> HIDE DEF k
<1>2. 2 * k - 1 < r.at + 1 /\ 2 * k < r.at + 1 /\ 2 * r.back + k < r.at + 1
  BY <1>1
<1> QED BY <1>2 DEF Past, Entities, k

\* What a run does to itself leaves the days and the other run.
LEMMA OwnStep ==
  ASSUME AnalyticsOK, CountInv, NEW w \in Runs, NEW row \in RunRow,
         agg' = [agg EXCEPT ![w] = row],
         row.clean \subseteq agg[w].clean, row.at > 0 => Active(w),
         UNCHANGED <<happened, cache, inexact, erased>>, RunOK(row)
  PROVE  CountInv'
<1>1. \A v \in Runs : agg'[v] = IF v = w THEN row ELSE agg[v]
  BY DEF AnalyticsOK
<1>2. Alone'
  BY <1>1 DEF CountInv, Alone, Active, AnalyticsOK, RunRow
<1>3. DayOK'
  BY DEF CountInv, DayOK, RowExact, Cached
<1>4. \A v \in Runs : RunOK(agg'[v])
  BY <1>1 DEF CountInv
<1>5. \A v \in Runs : RunOK(agg[v])'
  BY <1>4 DEF RunOK, RowExact, Cached
<1> QED BY <1>2, <1>3, <1>5 DEF CountInv

LEMMA NoRunOK == NoRun \in RunRow /\ NoRun.at = 0 /\ NoRun.clean = {} /\ RunOK(NoRun)
<1>1. /\ NoRun.at = 0 /\ NoRun.clean = {} /\ NoRun.pc = "read" /\ NoRun.back = 1
      /\ NoRun.end = 0 /\ NoRun.seen = 0
  BY DEF NoRun
<1>2. 0 \in AllDays
  BY AnalyticsAssumption DEF AllDays
<1> QED BY <1>1, <1>2 DEF RunOK, RunRow, NoRun

LEMMA RestOfRuns ==
  ASSUME CountInv, UNCHANGED <<happened, cache, agg, inexact, erased>>
  PROVE  CountInv'
BY DEF CountInv, Alone, DayOK, RunOK, RowExact, Cached, Active

\* A day's number changes: no run's row of it is clean any longer.
LEMMA DayChanges ==
  ASSUME AnalyticsOK, CountInv, NEW d \in AllDays, NEW n \in Nat, Changed(d),
         happened' = [happened EXCEPT ![d] = n], cache' = cache,
         \/ n >= happened[d] /\ erased' = erased
         \/ erased' = erased \cup {d}
  PROVE  CountInv'
<1>1. ASSUME NEW w \in Runs
      PROVE  /\ agg'[w].clean = agg[w].clean \ {d} /\ agg'[w].at = agg[w].at /\ agg'[w].pc = agg[w].pc
             /\ agg'[w].end = agg[w].end /\ agg'[w].back = agg[w].back /\ agg'[w].seen = agg[w].seen
             /\ agg[w] \in RunRow
  BY DEF Changed, AnalyticsOK, RunRow
<1>2. \A c \in AllDays \ {d} : /\ happened'[c] = happened[c] /\ (c \in erased' <=> c \in erased)
                              /\ (c \in inexact' <=> c \in inexact)
  BY DEF AnalyticsOK, Changed
<1>3. d \in inexact' /\ (d \in erased' \/ happened[d] <= happened'[d]) /\ (d \in erased => d \in erased')
  BY DEF AnalyticsOK, Changed
<1>4. \A e \in Entities, c \in AllDays \ {d} : RowExact(e, c) => RowExact(e, c)'
  BY <1>2 DEF RowExact, Cached
<1>5. Alone'
  BY <1>1 DEF CountInv, Alone, Active
<1>6. DayOK'
  <2>1. \A e \in Entities, c \in AllDays \ inexact' : RowExact(e, c)'
    BY <1>2, <1>3, <1>4 DEF CountInv, DayOK
  <2>2. \A e \in Entities, c \in AllDays : Cached(e, c)' = Cached(e, c) /\ Cached(e, c) \in Nat
    BY DEF Cached, AnalyticsOK, Missing
  <2>3. \A c \in AllDays : happened[c] \in Nat /\ happened'[c] \in Nat
    BY DEF AnalyticsOK
  <2>4. \A e \in Entities, c \in AllDays \ erased' : Cached(e, c)' <= happened'[c]
    BY <1>2, <1>3, <2>2, <2>3 DEF CountInv, DayOK
  <2> QED BY <2>1, <2>4 DEF DayOK
<1>7. ASSUME NEW w \in Runs PROVE RunOK(agg[w])'
  <2> DEFINE r == agg[w]
             s == agg'[w]
  <2>1. RunOK(r) /\ r \in RunRow
    BY <1>1 DEF CountInv
  <2>2. /\ s.clean = r.clean \ {d} /\ s.at = r.at /\ s.pc = r.pc
        /\ s.end = r.end /\ s.back = r.back /\ s.seen = r.seen
    BY <1>1
  <2>3. DayOf(s) = DayOf(r) /\ \A e, c : Past(s.at, s, e, c) <=> Past(r.at, r, e, c)
    BY <2>2 DEF DayOf, Past, Start
  <2> HIDE DEF r, s
  <2>4. s.pc = "write" /\ (DayOf(s) \in s.clean \/ DayOf(s) \notin inexact') => s.seen = happened'[DayOf(s)]
    BY <1>2, <1>3, <2>1, <2>2, <2>3 DEF RunOK
  <2>5. s.pc = "write" /\ DayOf(s) \notin erased' => s.seen <= happened'[DayOf(s)]
    <3>1. CASE DayOf(s) = d
      <4>1. r.seen \in Nat /\ happened[d] \in Nat /\ happened'[d] \in Nat
        BY <2>1 DEF RunRow, AnalyticsOK
      <4> QED BY <1>3, <2>1, <2>2, <2>3, <3>1, <4>1 DEF RunOK
    <3>2. CASE DayOf(s) # d
      BY <1>2, <2>1, <2>2, <2>3, <3>2 DEF RunOK
    <3> QED BY <3>1, <3>2
  <2>6. \A c \in s.clean, e \in Entities : Past(s.at, s, e, c) => RowExact(e, c)'
    <3>1. s.clean \subseteq AllDays \ {d}
      BY <2>1, <2>2 DEF RunRow
    <3> QED BY <1>4, <2>1, <2>2, <2>3, <3>1 DEF RunOK
  <2>7. /\ s.at <= 3 * s.back
        /\ s.at = 0 => s.clean = {}
        /\ s.clean \subseteq Covered(s.end, s.back)
        /\ s.pc = "write" => s.at > 0 /\ DayOf(s) \in AllDays
    BY <2>1, <2>2, <2>3 DEF RunOK
  <2> QED BY <2>4, <2>5, <2>6, <2>7 DEF RunOK, s
<1> QED BY <1>5, <1>6, <1>7 DEF CountInv

\* A run that begins: what is clean has no row yet that it is past.
LEMMA RunBegins ==
  ASSUME AnalyticsOK, CountInv, NEW w \in Runs, NEW back \in Nat \ {0}, BeginRun(w, back)
  PROVE  CountInv' /\ agg' \in [Runs -> RunRow]
<1> DEFINE alone == \A v \in Runs : ~Active(v)
           clean == IF alone THEN Covered(today, back) ELSE {}
           row == [NoRun EXCEPT !.at = 1, !.end = today, !.back = back, !.clean = clean]
<1>1. \A v \in Runs : agg'[v] = IF v = w THEN row ELSE [agg[v] EXCEPT !.clean = {}]
  BY DEF BeginRun
<1>2. row \in RunRow /\ clean \subseteq Covered(today, back)
  <2>1. clean \subseteq Covered(today, back) /\ Covered(today, back) \subseteq AllDays
    BY DEF Covered
  <2>2. today \in AllDays /\ 0 \in Nat /\ 1 \in Nat
    BY DEF AnalyticsOK
  <2> HIDE DEF clean
  <2> QED BY <2>1, <2>2, NoRunOK DEF RunRow
<1>3. /\ row.at = 1 /\ row.end = today /\ row.back = back /\ row.pc = "read" /\ row.clean = clean
  <2> HIDE DEF clean
  <2> QED BY DEF NoRun
<1>4. clean # {} => alone
  OBVIOUS
<1> HIDE DEF row, clean
<1>5. ASSUME NEW d \in clean, NEW e PROVE ~Past(row.at, row, e, d)
  <2>1. today \in Int /\ d \in Int /\ today - back < d /\ back \in Nat
    BY <1>2 DEF Covered, AllDays, AnalyticsOK
  <2> QED BY <1>3, <2>1 DEF Past, Start
<1>6. RunOK(row)
  BY <1>2, <1>3, <1>5 DEF RunOK
<1>7. ASSUME NEW v \in Runs, v # w
      PROVE  /\ agg'[v].clean = {} /\ agg'[v].at = agg[v].at /\ RunOK(agg'[v]) /\ agg'[v] \in RunRow
  <2>1. agg[v] \in RunRow /\ RunOK(agg[v])
    BY DEF AnalyticsOK, CountInv
  <2> DEFINE s == [agg[v] EXCEPT !.clean = {}]
  <2>2. /\ s.clean = {} /\ s.at = agg[v].at /\ s.pc = agg[v].pc /\ s.end = agg[v].end
        /\ s.back = agg[v].back /\ s.seen = agg[v].seen /\ s \in RunRow
    BY <2>1 DEF RunRow
  <2>3. DayOf(s) = DayOf(agg[v])
    BY <2>2 DEF DayOf
  <2>4. agg'[v] = s
    BY <1>1, <1>7
  <2> HIDE DEF s
  <2>5. RunOK(s)
    BY <2>1, <2>2, <2>3 DEF RunOK
  <2> QED BY <2>2, <2>4, <2>5
<1>8. Alone'
  BY <1>1, <1>3, <1>4, <1>7 DEF Alone, Active
<1>9. \A v \in Runs : RunOK(agg'[v]) /\ agg'[v] \in RunRow
  BY <1>1, <1>2, <1>6, <1>7
<1>10. UNCHANGED <<happened, cache, inexact, erased>>
  BY DEF BeginRun
<1>11. DayOK' /\ \A v \in Runs : RunOK(agg[v])'
  BY <1>9, <1>10 DEF CountInv, DayOK, RunOK, RowExact, Cached
<1>12. agg' = [v \in Runs |-> agg'[v]]
  BY DEF BeginRun
<1> QED BY <1>8, <1>9, <1>11, <1>12 DEF CountInv

\* A run goes on to its next row, having written the last one or had none.
LEMMA RunGoesOn ==
  ASSUME AnalyticsOK, CountInv, NEW w \in Runs, Active(w), To(w, 1), UNCHANGED <<happened, erased>>,
         \A e \in Entities, d \in AllDays \ inexact : RowExact(e, d)',
         \A e \in Entities, d \in AllDays \ erased : Cached(e, d)' <= happened[d],
         \A d \in agg[w].clean, e \in Entities : Past(agg[w].at + 1, agg[w], e, d) => RowExact(e, d)'
  PROVE  CountInv' /\ agg' \in [Runs -> RunRow] /\ inexact' \subseteq AllDays
<1> DEFINE r == agg[w]
           on == [r EXCEPT !.at = @ + 1, !.pc = "read"]
<1>1. r \in RunRow /\ RunOK(r) /\ r.at > 0
  BY DEF AnalyticsOK, CountInv, Active
<1>2. \A v \in Runs : v # w /\ r.clean # {} => ~Active(v) /\ agg[v].clean = {}
  BY DEF CountInv, Alone, RunOK, Active, AnalyticsOK, RunRow
<1>3. \A v \in Runs : v # w => agg[v].clean = {}
  BY DEF CountInv, Alone, Active, AnalyticsOK, RunRow
<1>4. CASE r.at + 1 <= 3 * r.back
  <2>1. agg' = [agg EXCEPT ![w] = on] /\ inexact' = inexact
    BY <1>4 DEF To, AnalyticsOK
  <2>2. /\ on \in RunRow /\ on.at = r.at + 1 /\ on.pc = "read" /\ on.clean = r.clean
        /\ on.end = r.end /\ on.back = r.back
    <3>1. r.at + 1 \in Nat /\ r \in RunRow
      BY <1>1 DEF RunRow
    <3> HIDE DEF r
    <3> QED BY <3>1 DEF RunRow
  <2>3. \A e, d : Past(on.at, on, e, d) <=> Past(r.at + 1, r, e, d)
    BY <2>2 DEF Past, Start
  <2> HIDE DEF on
  <2>4. \A v \in Runs : agg'[v] = IF v = w THEN on ELSE agg[v]
    BY <2>1 DEF AnalyticsOK
  <2>5. Alone'
    BY <1>1, <2>2, <2>4 DEF CountInv, Alone, Active
  <2>6. RunOK(agg[w])'
    <3>1. agg'[w] = on
      BY <2>4
    <3>2. /\ on.at <= 3 * on.back /\ on.at # 0 /\ on.clean \subseteq Covered(on.end, on.back)
      BY <1>1, <1>4, <2>2 DEF RunOK, RunRow
    <3>3. \A d \in on.clean, e \in Entities : Past(on.at, on, e, d) => RowExact(e, d)'
      BY <2>2, <2>3
    <3> QED BY <2>2, <3>1, <3>2, <3>3 DEF RunOK
  <2>7. \A v \in Runs : v # w => RunOK(agg[v])'
    BY <1>3, <2>1, <2>4 DEF CountInv, RunOK
  <2>8. \A v \in Runs : RunOK(agg[v])'
    BY <2>6, <2>7
  <2> QED BY <2>1, <2>2, <2>5, <2>8 DEF CountInv, DayOK, AnalyticsOK
<1>5. CASE ~(r.at + 1 <= 3 * r.back)
  <2>1. agg' = [agg EXCEPT ![w] = NoRun] /\ inexact' = inexact \ r.clean
    BY <1>5 DEF To
  <2>2. \A v \in Runs : agg'[v] = IF v = w THEN NoRun ELSE agg[v]
    BY <2>1 DEF AnalyticsOK
  <2>3. Alone'
    BY <2>2, <1>3, NoRunOK DEF Alone
  <2>4. \A d \in r.clean, e \in Entities : RowExact(e, d)'
    <3>1. r.at + 1 > 3 * r.back
      BY <1>1, <1>5 DEF RunRow
    <3> QED BY <1>1, <3>1, PastAll DEF RunOK
  <2>5. DayOK'
    BY <2>1, <2>4 DEF DayOK, AnalyticsOK
  <2>6. ASSUME NEW v \in Runs, v # w PROVE RunOK(agg[v])'
    <3>1. RunOK(agg[v]) /\ agg[v].clean = {} /\ agg'[v] = agg[v]
      BY <1>3, <2>2, <2>6 DEF CountInv
    <3>2. CASE r.clean = {}
      BY <2>1, <3>1, <3>2 DEF RunOK
    <3>3. CASE r.clean # {}
      <4>1. agg[v].pc # "write"
        BY <1>2, <2>6, <3>1, <3>3 DEF RunOK, Active
      <4> QED BY <3>1, <4>1 DEF RunOK
    <3> QED BY <3>2, <3>3
  <2>7. RunOK(agg[w])'
    BY <2>2, NoRunOK DEF RunOK
  <2> QED BY <2>1, <2>3, <2>5, <2>6, <2>7, NoRunOK DEF CountInv, AnalyticsOK
<1> QED BY <1>4, <1>5

\* A run that has met a failing call goes on without a clean day, or ends.
LEMMA RunSpoiled ==
  ASSUME AnalyticsOK, CountInv, NEW w \in Runs, NEW n \in Nat, Active(w),
         SpoiledTo(w, n) \/ (agg' = [agg EXCEPT ![w] = NoRun] /\ inexact' = inexact),
         UNCHANGED <<happened, cache, erased>>
  PROVE  CountInv' /\ agg' \in [Runs -> RunRow]
<1> DEFINE r == agg[w]
           on == [r EXCEPT !.at = @ + n, !.pc = "read", !.clean = {}]
<1>1. r \in RunRow /\ RunOK(r)
  BY DEF AnalyticsOK, CountInv
<1>2. inexact' = inexact
  BY DEF SpoiledTo
<1>3. CASE agg' = [agg EXCEPT ![w] = NoRun]
  BY <1>2, <1>3, NoRunOK, OwnStep DEF AnalyticsOK
<1>4. CASE agg' = [agg EXCEPT ![w] = on] /\ r.at + n <= 3 * r.back
  <2>1. /\ on \in RunRow /\ on.at = r.at + n /\ on.pc = "read" /\ on.clean = {}
        /\ on.end = r.end /\ on.back = r.back
    <3>1. r.at + n \in Nat /\ r \in RunRow
      BY <1>1 DEF RunRow
    <3> HIDE DEF r
    <3> QED BY <3>1 DEF RunRow
  <2> HIDE DEF on
  <2>2. RunOK(on)
    BY <1>1, <1>4, <2>1 DEF RunOK
  <2> QED BY <1>2, <1>4, <2>1, <2>2, OwnStep DEF AnalyticsOK
<1> QED BY <1>3, <1>4 DEF SpoiledTo

LEMMA CountStep == ASSUME AnalyticsOK, CountInv, AnalyticsStep PROVE AnalyticsOK' /\ CountInv'
<1>1. CASE EventHappens
  <2>1. today \in AllDays /\ happened[today] \in Nat
    BY DEF AnalyticsOK
  <2>2. CountInv'
    <3>1. happened[today] + 1 \in Nat /\ happened[today] + 1 >= happened[today]
      BY <2>1
    <3>2. Changed(today) /\ happened' = [happened EXCEPT ![today] = happened[today] + 1]
          /\ cache' = cache /\ erased' = erased
      BY <1>1 DEF EventHappens
    <3> QED BY <2>1, <3>1, <3>2, DayChanges
  <2>3. AnalyticsOK'
    BY <1>1, <2>1 DEF EventHappens, Changed, AnalyticsOK, RunRow
  <2> QED BY <2>2, <2>3
<1>2. ASSUME NEW d \in AllDays, EventsErased(d) PROVE AnalyticsOK' /\ CountInv'
  <2>1. CountInv'
    BY <1>2, DayChanges DEF EventsErased
  <2>2. AnalyticsOK'
    BY <1>2 DEF EventsErased, Changed, AnalyticsOK, RunRow
  <2> QED BY <2>1, <2>2
<1>3. CASE DayEnds
  <2>1. today' \in AllDays
    BY <1>3, AnalyticsAssumption DEF DayEnds, AnalyticsOK, AllDays
  <2> QED BY <1>3, <2>1, RestOfRuns DEF DayEnds, AnalyticsOK
<1>4. ASSUME NEW w \in Runs, NEW back \in Nat \ {0}, BeginRun(w, back)
      PROVE  AnalyticsOK' /\ CountInv'
  BY <1>4, RunBegins DEF BeginRun, AnalyticsOK
<1>5. ASSUME NEW w \in Runs, Count(w) PROVE AnalyticsOK' /\ CountInv'
  <2> DEFINE r == agg[w]
             d == DayOf(r)
             n == IF d \in AllDays THEN happened[d] ELSE 0
             counted == [r EXCEPT !.pc = "write", !.seen = n]
  <2>1. r \in RunRow /\ RunOK(r) /\ r.at > 0 /\ r.pc = "read" /\ n \in Nat
    BY <1>5 DEF AnalyticsOK, CountInv, Active, Count
  <2>2. CASE (d \notin AllDays \/ (Entity(r) = "step" /\ n = 0)) /\ To(w, 1)
    <3>1. \A e \in Entities, c \in AllDays : RowExact(e, c)' = RowExact(e, c) /\ Cached(e, c)' = Cached(e, c)
      BY <1>5 DEF Count, RowExact, Cached
    <3>2. ASSUME NEW c \in r.clean, NEW e \in Entities, Past(r.at + 1, r, e, c) PROVE RowExact(e, c)
      <4>1. c \in Covered(r.end, r.back) /\ c \in AllDays
        BY <2>1 DEF RunOK, RunRow
      <4>2. Past(r.at, r, e, c) \/ (e = Entity(r) /\ c = d)
        BY <2>1, <3>2, <4>1, WhereItIs
      <4>3. CASE Past(r.at, r, e, c)
        BY <2>1, <4>3 DEF RunOK
      <4>4. CASE e = Entity(r) /\ c = d
        <5>1. e = "step" /\ happened[c] = 0
          BY <2>2, <4>1, <4>4
        <5>2. c \notin erased => Cached(e, c) <= 0
          BY <4>1, <5>1 DEF CountInv, DayOK
        <5>3. Cached(e, c) \in Nat
          BY <4>1 DEF Cached, AnalyticsOK, Missing
        <5> QED BY <5>1, <5>2, <5>3 DEF RowExact
      <4> QED BY <4>2, <4>3, <4>4
    <3>3. \A c \in r.clean, e \in Entities : Past(r.at + 1, r, e, c) => RowExact(e, c)'
      BY <2>1, <3>1, <3>2 DEF RunRow
    <3>4. Active(w) /\ UNCHANGED <<happened, erased, cache, today>>
      BY <1>5 DEF Count
    <3>5. CountInv' /\ agg' \in [Runs -> RunRow] /\ inexact' \subseteq AllDays
      BY <2>2, <3>1, <3>3, <3>4, RunGoesOn DEF CountInv, DayOK
    <3> QED BY <3>4, <3>5 DEF AnalyticsOK
  <2>3. CASE d \in AllDays /\ agg' = [agg EXCEPT ![w] = counted] /\ UNCHANGED inexact
    <3>1. /\ counted \in RunRow /\ counted.at = r.at /\ counted.pc = "write" /\ counted.clean = r.clean
          /\ counted.end = r.end /\ counted.back = r.back /\ counted.seen = happened[d]
      <4> HIDE DEF r
      <4> QED BY <2>1, <2>3 DEF RunRow
    <3>2. DayOf(counted) = d /\ \A e, c : Past(counted.at, counted, e, c) <=> Past(r.at, r, e, c)
      BY <3>1 DEF DayOf, Past, Start
    <3>3. happened[d] \in Nat
      BY <2>3 DEF AnalyticsOK
    <3> HIDE DEF counted
    <3>4. RunOK(counted)
      BY <2>1, <2>3, <3>1, <3>2, <3>3 DEF RunOK
    <3>5. UNCHANGED <<happened, cache, inexact, erased, today>> /\ Active(w)
      BY <1>5, <2>3 DEF Count
    <3>6. CountInv'
      BY <2>3, <3>1, <3>4, <3>5, OwnStep
    <3> QED BY <2>3, <3>1, <3>5, <3>6 DEF AnalyticsOK
  <2>4. agg' = [agg EXCEPT ![w].pc = "write", ![w].seen = n] => agg' = [agg EXCEPT ![w] = counted]
    BY DEF AnalyticsOK
  <2> QED BY <1>5, <2>2, <2>3, <2>4 DEF Count
<1>6. ASSUME NEW w \in Runs, CountFails(w) \/ RunKilled(w) PROVE AnalyticsOK' /\ CountInv'
  <2>1. CountInv' /\ agg' \in [Runs -> RunRow]
    <3>1. Active(w) /\ UNCHANGED <<happened, cache, erased>>
      BY <1>6 DEF CountFails, RunKilled
    <3>2. 1 \in Nat /\ 2 \in Nat
      OBVIOUS
    <3>3. \/ SpoiledTo(w, 1) \/ SpoiledTo(w, 2)
          \/ agg' = [agg EXCEPT ![w] = NoRun] /\ inexact' = inexact
      BY <1>6 DEF CountFails, RunKilled
    <3> QED BY <3>1, <3>2, <3>3, RunSpoiled
  <2> QED BY <1>6, <2>1 DEF CountFails, RunKilled, SpoiledTo, AnalyticsOK
<1>7. ASSUME NEW w \in Runs, Upsert(w) PROVE AnalyticsOK' /\ CountInv'
  <2> DEFINE r == agg[w]
             d == DayOf(r)
             x == Entity(r)
  <2>1. r \in RunRow /\ RunOK(r) /\ r.at > 0 /\ r.pc = "write" /\ d \in AllDays /\ x \in Entities
        /\ r.seen \in Nat
    BY <1>7 DEF AnalyticsOK, CountInv, Active, Upsert, RunOK, Entity, Entities, RunRow
  <2>2. CASE cache' = Upserted(x, d, r.seen) /\ To(w, 1)
    <3>1. /\ cache' \in [Entities -> [AllDays -> Nat \cup {Missing}]]
          /\ \A e \in Entities, c \in AllDays : cache'[e][c] = IF e = x /\ c = d THEN r.seen ELSE cache[e][c]
      BY <2>1, <2>2 DEF Upserted, AnalyticsOK
    <3>2. \A e \in Entities, c \in AllDays :
            Cached(e, c)' = IF e = x /\ c = d THEN r.seen ELSE Cached(e, c)
      <4> HIDE DEF r, d, x
      <4>1. r.seen # Missing
        BY <2>1 DEF Missing
      <4> QED BY <3>1, <4>1 DEF Cached
    <3>3. Active(w) /\ UNCHANGED <<happened, erased, today>>
      BY <1>7 DEF Upsert
    <3>4. \A e \in Entities, c \in AllDays :
            IF e = x /\ c = d THEN r.seen = happened[d] => RowExact(e, c)'
                              ELSE RowExact(e, c) => RowExact(e, c)'
      BY <3>2, <3>3 DEF RowExact
    <3>5. ASSUME NEW e \in Entities, NEW c \in AllDays \ inexact PROVE RowExact(e, c)'
      BY <2>1, <3>4 DEF RunOK, CountInv, DayOK
    <3>6. ASSUME NEW e \in Entities, NEW c \in AllDays \ erased PROVE Cached(e, c)' <= happened[c]
      BY <2>1, <3>2 DEF RunOK, CountInv, DayOK
    <3>7. ASSUME NEW c \in r.clean, NEW e \in Entities, Past(r.at + 1, r, e, c) PROVE RowExact(e, c)'
      <4>1. c \in Covered(r.end, r.back) /\ c \in AllDays
        BY <2>1 DEF RunOK, RunRow
      <4>2. Past(r.at, r, e, c) \/ (e = x /\ c = d)
        BY <2>1, <3>7, <4>1, WhereItIs
      <4>3. e = x /\ c = d => r.seen = happened[d]
        BY <2>1 DEF RunOK
      <4>4. Past(r.at, r, e, c) => RowExact(e, c)
        BY <2>1 DEF RunOK
      <4> QED BY <3>4, <4>1, <4>2, <4>3, <4>4
    <3>8. CountInv' /\ agg' \in [Runs -> RunRow] /\ inexact' \subseteq AllDays
      BY <2>2, <3>3, <3>5, <3>6, <3>7, RunGoesOn
    <3> QED BY <3>1, <3>3, <3>8 DEF AnalyticsOK
  <2>3. CASE SpoiledTo(w, 1) /\ cache' = cache
    <3>1. Active(w) /\ UNCHANGED <<happened, erased, today>>
      BY <1>7 DEF Upsert
    <3>2. CountInv' /\ agg' \in [Runs -> RunRow]
      <4>1. 1 \in Nat
        OBVIOUS
      <4> QED BY <2>3, <3>1, <4>1, RunSpoiled
    <3> QED BY <2>3, <3>1, <3>2 DEF SpoiledTo, AnalyticsOK
  <2> QED BY <1>7, <2>2, <2>3 DEF Upsert
<1>8. "nightly" \in Runs /\ "hand" \in Runs /\ Lookback \in Nat \ {0} /\ Back \in Nat \ {0}
  BY AnalyticsAssumption DEF Runs
<1> QED BY <1>1, <1>2, <1>3, <1>4, <1>5, <1>6, <1>7, <1>8 DEF AnalyticsStep, BeginNightly, BeginByHand

LEMMA CountInit == ASSUME AnalyticsInit PROVE AnalyticsOK /\ CountInv
<1>1. AnalyticsOK
  <2>1. 0 \in AllDays
    BY AnalyticsAssumption DEF AllDays
  <2> QED BY <2>1, NoRunOK DEF AnalyticsInit, AnalyticsOK
<1>2. \A w \in Runs : RunOK(agg[w]) /\ agg[w].clean = {}
  BY NoRunOK DEF AnalyticsInit
<1>3. \A e \in Entities, d \in AllDays : Cached(e, d) = 0 /\ happened[d] = 0
  BY DEF AnalyticsInit, Cached
<1> QED BY <1>1, <1>2, <1>3 DEF CountInv, Alone, DayOK, RowExact

LEMMA CountInvInit == Init => AnalyticsOK /\ CountInv
BY CountInit DEF Init

LEMMA CountInvStep == AnalyticsOK /\ CountInv /\ [Next]_vars => (AnalyticsOK /\ CountInv)'
<1> SUFFICES ASSUME AnalyticsOK, CountInv, [Next]_vars PROVE AnalyticsOK' /\ CountInv'
  OBVIOUS
<1>1. AnalyticsStep \/ UNCHANGED analyticsVars
  BY DEF Next, NotAnalytics, vars
<1>2. CASE UNCHANGED analyticsVars
  BY <1>2, RestOfRuns DEF analyticsVars, AnalyticsOK
<1> QED BY <1>1, <1>2, CountStep

\* CountedDayIsExact (analytics_engine.py), for any number of days, any look-back
\* and any cast: a day counted by a run that was alone and met no failing call is
\* in the cache with its number, and the pages of the dashboard agree.
THEOREM CountsAreExact == Spec => []CountedDayIsExact
<1>1. AnalyticsOK /\ CountInv => CountedDayIsExact
  <2> SUFFICES ASSUME AnalyticsOK, CountInv PROVE CountedDayIsExact
    OBVIOUS
  <2>1. \A e \in Entities, d \in AllDays \ inexact : RowExact(e, d)
    BY DEF CountInv, DayOK
  <2>2. ASSUME inexact = {} PROVE {CampaignPage, InboxesPage, OverviewPage} = {StepsPage}
    <3>1. ASSUME NEW e \in {"campaign", "inbox"}, NEW d \in AllDays PROVE Cached(e, d) = happened[d]
      BY <2>1, <2>2 DEF RowExact, Entities
    <3>2. \A d \in AllDays : Shown(d) = happened[d]
      BY <3>1 DEF Shown, Cached
    <3>3. happened = [d \in AllDays |-> happened[d]]
      BY DEF AnalyticsOK
    <3>4. /\ [d \in AllDays |-> Shown(d)] = happened
          /\ \A e \in {"campaign", "inbox"} : [d \in AllDays |-> Cached(e, d)] = happened
      BY <3>1, <3>2, <3>3
    <3>5. CampaignPage = StepsPage /\ InboxesPage = StepsPage /\ OverviewPage = StepsPage
      BY <3>4 DEF CampaignPage, InboxesPage, OverviewPage, StepsPage
    <3> QED BY <3>5
  <2> QED BY <2>1, <2>2 DEF CountedDayIsExact, RowExact
<1> QED BY <1>1, CountInvInit, CountInvStep, PTL DEF Spec

-----------------------------------------------------------------------------
(* The types.                                                               *)

\* What the programs keep for a client has its type, for any cast: days stay on
\* the calendar, a deletion within its order of tables, an open recovery within
\* its guide, a retry within the attempts that are allowed, and whatever was
\* counted stays a number.
THEOREM TypeCorrect == Spec => []TypeOK
<1>1. /\ AccountInv /\ DomainInv /\ AnswerInv
      /\ BudgetOK /\ SpendInv /\ AnalyticsOK /\ CountInv
      => TypeOK
  BY DEF TypeOK, AccountInv, DomainInv, AnswerInv, EnvOK
<1> QED BY <1>1, AccountInvInit, AccountInvStep, DomainInvInit, DomainInvStep, AnswerInvStarts,
           AnswerInvKeeps, BudgetInvInit, BudgetInvStep, CountInvInit, CountInvStep, PTL DEF Spec
=============================================================================
