------------------------------ MODULE Erasure ------------------------------
(* The ways out and back in of api/main.py and api/public_api.py: the       *)
(* unsubscribe link, the suppression list, the erasure table by table, and  *)
(* leads that are added again.                                              *)
EXTENDS Replies, Sequences

VARIABLES
  link,     \* POST /unsubscribe/{token}
  purge,    \* a run of _purge_lead_by_id
  lifted    \* history: an operator took the lead off the suppression list

erasureVars == <<link, purge, lifted>>

ErasureInit ==
  /\ link = "idle"
  /\ purge = 0
  /\ lifted = FALSE

---------------------------------------------------------------------------
\* A used token only gets a page that says so.
OpenLink ==
  /\ link = "idle" /\ router["link"].pc = "idle" /\ db.token = "fresh"
  /\ Event("link")
  /\ link' = "use"
  /\ UNCHANGED <<db, router, purge, lifted>>

\* The token is used up before anything it is for. A failure is the caller's.
UseToken ==
  /\ link = "use"
  /\ link' = "idle"
  /\ \/ /\ db' = [db EXCEPT !.token = IF @ = "fresh" THEN "used" ELSE @]
        /\ router' = [router EXCEPT !["link"].pc = "suppress", !["link"].class = "unsubscribe"]
        /\ UNCHANGED env
     \/ Fault /\ UNCHANGED <<db, router>>
  /\ UNCHANGED <<purge, lifted>>

\* The API dies between two calls. The link says "Al uitgeschreven" from then on.
LinkKilled ==
  /\ router["link"].pc # "idle" /\ Fault
  /\ router' = [router EXCEPT !["link"] = IdleRouter]
  /\ UNCHANGED <<db, link, purge, lifted>>

LinkStep == UseToken \/ (router["link"].pc # "idle" /\ RouteStep("link") /\ UNCHANGED <<link, purge, lifted>>)

\* POST and DELETE /suppression
SuppressByHand ==
  /\ Event("suppress")
  /\ db' = [db EXCEPT !.supp = TRUE]
  /\ UNCHANGED <<link, purge, lifted>>

LiftSuppression ==
  /\ db.supp
  /\ Event("lift")
  /\ db' = [db EXCEPT !.supp = FALSE]
  /\ lifted' = TRUE
  /\ UNCHANGED <<link, purge>>

---------------------------------------------------------------------------
\* Mutant: the address is not put on the list.
PurgeOrderNoStone == <<"bounce_log", "email_tracking", "email_events", "campaign_leads",
                       "unsubscribe_tokens", "reply_inbox", "enrichment_queue", "leads">>

\* The tables, in the order they are emptied; the row of the lead only goes
\* when no event and no reply refers to it, and takes with it what hangs on it.
PurgeOrder == <<"bounce_log", "email_tracking", "email_events", "campaign_leads", "unsubscribe_tokens",
                "reply_inbox", "enrichment_queue", "leads", "suppression_list">>
Referred == db.facts # {} \/ \E m \in Msgs : db.replies[m] > 0

NoPlace == [status |-> "none", step |-> 1]
NoRow == [db.job EXCEPT !.status = "none"]

Emptied(table) ==
  CASE table = "bounce_log" -> [db EXCEPT !.soft = 0, !.hard = FALSE]
    [] table = "email_tracking" -> [db EXCEPT !.tracked = FALSE]
    [] table = "email_events" -> [db EXCEPT !.facts = {}]
    [] table = "campaign_leads" -> [db EXCEPT !.place = NoPlace]
    [] table = "unsubscribe_tokens" -> [db EXCEPT !.token = "none"]
    [] table = "reply_inbox" -> [db EXCEPT !.replies = [m \in Msgs |-> 0]]
    [] table = "enrichment_queue" -> [db EXCEPT !.job = NoRow]
    [] table = "leads" -> IF Referred THEN db
                          ELSE [db EXCEPT !.lead.here = FALSE, !.place = NoPlace, !.job = NoRow]
    [] table = "suppression_list" -> [db EXCEPT !.supp = TRUE]

StartPurge ==
  /\ purge \in {0, Len(PurgeOrder) + 1} /\ Lead.here
  /\ Event("purge")
  /\ purge' = 1
  /\ UNCHANGED <<db, link, lifted>>

\* Each table for itself: a failure goes into the answer, the next one follows.
PurgeTable ==
  /\ purge \in DOMAIN PurgeOrder
  /\ Call(Emptied(PurgeOrder[purge]))
  /\ purge' = purge + 1
  /\ UNCHANGED <<link, lifted>>

PurgeKilled ==
  /\ purge \in DOMAIN PurgeOrder
  /\ Fault
  /\ purge' = 0
  /\ UNCHANGED <<db, link, lifted>>

Purged == purge = Len(PurgeOrder) + 1

\* POST /leads with a campaign: nothing asks the suppression list. In bulk, the
\* list is asked first. It is a new lead: what is still written about the old
\* one finds no row.
AddLead(bulk) ==
  /\ ~Lead.here
  /\ bulk => ~db.supp
  /\ Event("add")
  /\ db' = [db EXCEPT !.lead = FreshDb.lead, !.place = FreshDb.place,
                      !.job = [id |-> @.id + 1, status |-> "pending", attempts |-> 0]]
  /\ purge' = 0
  /\ UNCHANGED <<link, lifted>>

ErasureOK ==
  /\ link \in {"idle", "use"}
  /\ purge \in 0..(Len(PurgeOrder) + 1)
  /\ lifted \in BOOLEAN

\* Who followed the link to its end is on the list, and who was erased, unless
\* a call failed or an operator took the address off again.
OptOutIsKept ==
  /\ env.faults = 0 /\ ~lifted
  /\ \/ db.token = "used" /\ router["link"].pc = "idle"
     \/ Purged
  => db.supp
=============================================================================
