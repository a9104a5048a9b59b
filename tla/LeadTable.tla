---------------------------- MODULE LeadTable ----------------------------
(* One lead of a client as the database knows it, and the two operators    *)
(* every writer of it uses. The programs are modules of their own, with    *)
(* their state in variables of their own; LeadLife puts them together.     *)
(* Every database call of theirs is a step, which may fail.                *)
EXTENDS Casting

CONSTANTS
  Msgs,        \* replies the lead writes
  Dsns,        \* bounce messages about its address
  NSteps,      \* steps of the sequence
  MaxScore     \* ceiling of the engagement score

ASSUME LeadTableAssumption == NSteps \in Nat \ {0} /\ MaxScore \in Nat

VARIABLE db

LeadStatuses == {"new", "contacted", "replied", "interested", "unsubscribed", "bounced", "soft_bounced"}
Stages == {"cold", "warm", "hot", "meeting", "won", "nurture", "lost", "unsubscribed"}
PlaceStatuses == {"none", "active", "sending", "completed", "unsubscribed", "bounced"}
JobStatuses == {"none", "pending", "processing", "completed", "failed"}
Classes == {"interested", "not_interested", "out_of_office", "referral", "unsubscribe", "other"}
Facts == {"sent", "opened", "clicked", "bounced"}   \* event types of email_events

\* The tables, as far as they are about this lead: leads (with days since
\* engagement_updated_at), campaign_leads, suppression_list, reply_inbox by message,
\* bounce_log, email_events, email_tracking, enrichment_queue, unsubscribe_tokens.
FreshDb ==
  [lead |-> [here |-> TRUE, status |-> "new", stage |-> "cold", cooled |-> FALSE,
             score |-> 0, age |-> 0],
   place |-> [status |-> "active", step |-> 1],
   supp |-> FALSE,
   replies |-> [m \in Msgs |-> 0],
   soft |-> 0, hard |-> FALSE,
   facts |-> {}, tracked |-> FALSE,
   job |-> [id |-> 0, status |-> "none", attempts |-> 0],
   token |-> "none"]

Lead == db.lead

TableInit ==
  /\ db = FreshDb
  /\ CastInit

\* A database call changes the tables or fails.
Call(change) ==
  \/ db' = change /\ UNCHANGED env
  \/ Fault /\ UNCHANGED db

\* An UPDATE of leads finds no row once the lead is erased.
WithLead(row) == IF Lead.here THEN [db EXCEPT !.lead = row] ELSE db
\* A cancel takes the row that waits, and leaves one that is being sent.
WithPlaceClosed(st) == IF db.place.status = "active" THEN [db EXCEPT !.place.status = st] ELSE db
\* A row of email_events refers to its lead.
WithFact(f) == IF Lead.here THEN [db EXCEPT !.facts = @ \cup {f}] ELSE db

LeadRow == [here : BOOLEAN, status : LeadStatuses, stage : Stages, cooled : BOOLEAN,
            score : 0..MaxScore, age : Nat]
PlaceRow == [status : PlaceStatuses, step : Nat]
JobRow == [id : Nat, status : JobStatuses, attempts : Nat]
DbRow == [lead : LeadRow, place : PlaceRow, supp : BOOLEAN, replies : [Msgs -> 0..2],
          soft : Nat, hard : BOOLEAN, facts : SUBSET Facts, tracked : BOOLEAN,
          job : JobRow, token : {"none", "fresh", "used"}]
TablesOK == db \in DbRow /\ CastOK
==========================================================================
