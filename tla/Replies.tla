------------------------------ MODULE Replies ------------------------------
(* The scan of a client's inbox for replies (imap_processor.py), the event  *)
(* it publishes for each (utils/events.py, utils/event_handlers.py) and the *)
(* routing of a reply (funnel_engine.py), which the API also calls. Reading *)
(* a message marks it as seen, and the scan looks for unseen ones: a reply  *)
(* gets one chance, unless the operator marks it as unread again. One cycle *)
(* runs at a time, as far as JobLock goes.                                  *)
EXTENDS Funnel, Engagement

CONSTANT NoId   \* replies without a Message-ID

ASSUME RepliesAssumption == NoId \subseteq Msgs /\ IsFiniteSet(Msgs)

VARIABLES
  mail,     \* the messages in the mailbox
  scan,     \* a run of scan_client_inbox_for_prospect_replies
  router,   \* a reply on its way through the handlers: of the scan, of the API; the link
  optrule,  \* the client's routing rule for an opt-out suppresses
  given     \* history: was a message handed to the handlers, or its row or lead erased?

repliesVars == <<mail, scan, router, optrule, given>>

\* In the spam folder; in INBOX unseen; marked as seen by the scan that took it
\* for a reply of the lead, or by a program that did not; read by the operator.
MailStates == {"none", "spam", "unseen", "fetched", "passed", "read"}
Routers == {"scan", "api", "link"}   \* "link" is POST /unsubscribe, of Erasure
IdleScan == [pc |-> "idle", known |-> FALSE, todo |-> {}, at |-> "none", class |-> "other"]
IdleRouter == [pc |-> "idle", class |-> "other"]

RepliesInit ==
  /\ mail = [m \in Msgs |-> [state |-> "none", class |-> "other"]]
  /\ scan = IdleScan
  /\ router = [w \in Routers |-> IdleRouter]
  /\ optrule = TRUE
  /\ given = [m \in Msgs |-> "never"]

\* One and more than one are told apart.
OneMore(n) == IF n = 0 THEN 1 ELSE 2
Handed(g) == CASE g = "never" -> "once" [] g = "erased" -> g [] OTHER -> "again"
Unread(m) == mail[m].state = "unseen"
Marked(m, state) == mail' = [mail EXCEPT ![m].state = state]

---------------------------------------------------------------------------
\* The mailbox, and the operator who reads it in Gmail.
Arrive(m, class) ==
  /\ mail[m].state = "none"
  /\ \/ Event("reply") /\ mail' = [mail EXCEPT ![m] = [state |-> "unseen", class |-> class]]
     \/ Event("junk") /\ mail' = [mail EXCEPT ![m] = [state |-> "spam", class |-> class]]
  /\ UNCHANGED <<db, scan, router, optrule, given>>

ReadInGmail(m) ==
  /\ mail[m].state \in {"unseen", "fetched", "passed"}
  /\ Event("gmail")
  /\ Marked(m, "read")
  /\ UNCHANGED <<db, scan, router, optrule, given>>

MarkUnread(m) ==
  /\ mail[m].state \in {"fetched", "passed", "read"}
  /\ Event("unread")
  /\ Marked(m, "unseen")
  /\ UNCHANGED <<db, scan, router, optrule, given>>

---------------------------------------------------------------------------
\* rescue_spam_for_inbox, earlier in the cycle: the fetch marks the message, and
\* the copy in INBOX has the mark.
RescueSpam(m) ==
  /\ Plays("scan") /\ scan.pc = "idle"
  /\ mail[m].state = "spam"
  /\ Marked(m, "passed")
  /\ UNCHANGED <<db, env, scan, router, optrule, given>>

\* The leads of the client, of which this one may be gone, and then the unseen
\* messages.
ListLeads ==
  /\ Plays("scan") /\ scan.pc = "idle"
  /\ \E m \in Msgs : Unread(m)
  /\ scan' = [IdleScan EXCEPT !.pc = "list", !.known = Lead.here]
  /\ UNCHANGED <<db, env, mail, router, optrule, given>>

ListUnseen ==
  /\ scan.pc = "list"
  /\ scan' = [scan EXCEPT !.pc = "look", !.todo = {m \in Msgs : Unread(m)}]
  /\ UNCHANGED <<db, env, mail, router, optrule, given>>

Passed(m) == [scan EXCEPT !.pc = "look", !.todo = @ \ {m}, !.at = "none"]
AtMessage(m) == [scan EXCEPT !.pc = "dedup", !.todo = @ \ {m}, !.at = m]

\* fetch "(RFC822)" in a mailbox that was selected for writing. A fetch that
\* fails may have marked the message.
Fetch(m) ==
  /\ scan.pc = "look" /\ m \in scan.todo
  /\ \/ scan.known /\ Marked(m, "fetched") /\ scan' = AtMessage(m) /\ UNCHANGED env
     \/ ~scan.known /\ Marked(m, "passed") /\ scan' = Passed(m) /\ UNCHANGED env
     \/ Fault /\ scan' = Passed(m) /\ (Marked(m, "fetched") \/ UNCHANGED mail)
  /\ UNCHANGED <<db, router, optrule, given>>

\* Mutants: the Message-ID is not looked up; the sender is looked up instead.
NeverKnown(m) == FALSE
KnownBySender(m) == \E n \in Msgs : db.replies[n] > 0

Known(m) == m \notin NoId /\ db.replies[m] > 0

\* A lookup that fails counts as a message not seen before.
LookUp ==
  LET m == scan.at IN
  /\ scan.pc = "dedup"
  /\ \/ Known(m) /\ scan' = Passed(m) /\ UNCHANGED env
     \/ ~Known(m) /\ scan' = [scan EXCEPT !.pc = "store"] /\ UNCHANGED env
     \/ Known(m) /\ Fault /\ scan' = [scan EXCEPT !.pc = "store"]
  /\ UNCHANGED <<db, mail, router, optrule, given>>

\* The classifier answers, or calls it "other" when it has no budget or fails.
\* A message whose row could not be stored, or whose answer was lost, is given
\* up: it is marked as seen all the same.
Store ==
  LET m == scan.at
      stored == [db EXCEPT !.replies[m] = OneMore(@)]
  IN
  /\ scan.pc = "store"
  /\ \/ /\ Lead.here
        /\ db' = stored
        /\ \/ scan' = [scan EXCEPT !.pc = "publish", !.class = mail[m].class] /\ UNCHANGED env
           \/ /\ mail[m].class # "other" /\ Fault
              /\ scan' = [scan EXCEPT !.pc = "publish", !.class = "other"]
        /\ UNCHANGED given
     \/ /\ ~Lead.here
        /\ scan' = Passed(m)
        /\ given' = [given EXCEPT ![m] = "erased"]
        /\ UNCHANGED <<db, env>>
     \/ /\ Fault
        /\ scan' = Passed(m)
        /\ UNCHANGED db \/ (Lead.here /\ db' = stored)
        /\ UNCHANGED given
  /\ UNCHANGED <<mail, router, optrule>>

\* The event is published: the first handler begins.
Publish ==
  /\ scan.pc = "publish"
  /\ scan' = [scan EXCEPT !.pc = "handlers"]
  /\ router' = [router EXCEPT !["scan"] = [pc |-> "status", class |-> scan.class]]
  /\ given' = [given EXCEPT ![scan.at] = Handed(@)]
  /\ UNCHANGED <<db, env, mail, optrule>>

\* The handlers are through.
Published ==
  /\ scan.pc = "handlers"
  /\ router["scan"].pc = "idle" /\ adder["reply"].pc = "idle"
  /\ scan' = Passed(scan.at)
  /\ UNCHANGED <<db, env, mail, router, optrule, given>>

Scanned ==
  /\ scan.pc = "look" /\ scan.todo = {}
  /\ scan' = IdleScan
  /\ UNCHANGED <<db, env, mail, router, optrule, given>>

---------------------------------------------------------------------------
(* The handlers, in the order they were registered. Each one's failure is   *)
(* its own. Notification, webhook row and CRM sync change nothing here.     *)
To(w, pc) == router' = [router EXCEPT ![w].pc = pc]
RouteDone(w) == IF w = "scan" THEN "score" ELSE "idle"

StatusFor(class) == CASE class = "unsubscribe" -> "unsubscribed"
                      [] class = "interested" -> "interested"
                      [] OTHER -> "replied"

UpdateStatus(w) ==
  /\ router[w].pc = "status"
  /\ Call(WithLead([Lead EXCEPT !.status = StatusFor(router[w].class)]))
  /\ To(w, "rules")
  /\ UNCHANGED <<mail, scan, optrule, given>>

\* Without an active rule for its class a reply is treated as "other".
ClassRouted(w) ==
  IF router[w].class = "unsubscribe" /\ ~optrule THEN "other" ELSE router[w].class

ReadRules(w) ==
  /\ router[w].pc = "rules"
  /\ \/ /\ router' = [router EXCEPT ![w] =
                        [pc |-> IF ClassRouted(w) \in {"other", "out_of_office"} THEN RouteDone(w) ELSE "stage",
                         class |-> ClassRouted(w)]]
        /\ UNCHANGED env
     \/ Fault /\ To(w, RouteDone(w))
  /\ UNCHANGED <<db, mail, scan, optrule, given>>

StageFor(class) == CASE class = "interested" -> "hot"
                     [] class = "unsubscribe" -> "unsubscribed"
                     [] OTHER -> "lost"

\* Mutant: an opt-out is not put on the suppression list.
AfterStageNoSuppress(w, class) == IF class = "not_interested" THEN "stop" ELSE RouteDone(w)

AfterStage(w, class) == CASE class = "not_interested" -> "stop"
                          [] class = "unsubscribe" -> "suppress"
                          [] OTHER -> RouteDone(w)

RouteStage(w) ==
  LET class == router[w].class IN
  /\ router[w].pc = "stage"
  /\ Call(Moved(StageFor(class)))
  /\ To(w, AfterStage(w, class))
  /\ UNCHANGED <<mail, scan, optrule, given>>

StopSequence(w) ==
  /\ router[w].pc = "stop"
  /\ Call(WithPlaceClosed("completed"))
  /\ To(w, RouteDone(w))
  /\ UNCHANGED <<mail, scan, optrule, given>>

\* suppress_and_cancel: three calls, each for itself. The unsubscribe link makes
\* the same three.
Suppress(w) ==
  /\ router[w].pc = "suppress"
  /\ Call([db EXCEPT !.supp = TRUE])
  /\ To(w, "cancel")
  /\ UNCHANGED <<mail, scan, optrule, given>>

CancelSends(w) ==
  /\ router[w].pc = "cancel"
  /\ Call(WithPlaceClosed("unsubscribed"))
  /\ To(w, "mark")
  /\ UNCHANGED <<mail, scan, optrule, given>>

MarkUnsubscribed(w) ==
  /\ router[w].pc = "mark"
  /\ Call(WithLead([Lead EXCEPT !.status = "unsubscribed"]))
  /\ To(w, RouteDone(w))
  /\ UNCHANGED <<mail, scan, optrule, given>>

\* add_engagement for the reply, and once more when it shows interest.
BumpEngagement ==
  /\ router["scan"].pc \in {"score", "score2"} /\ adder["reply"].pc = "idle"
  /\ AddEngagement("reply", IF router["scan"].pc = "score" THEN "replied" ELSE "interested")
  /\ To("scan", IF router["scan"].pc = "score" /\ router["scan"].class = "interested" THEN "score2" ELSE "idle")
  /\ UNCHANGED <<db, env, mail, scan, optrule, given>>

\* The message the scan was at is marked, and no later scan takes it up.
ScanKilled ==
  /\ scan.pc # "idle"
  /\ Fault
  /\ scan' = IdleScan
  /\ router' = [router EXCEPT !["scan"] = IdleRouter]
  /\ adder' = [adder EXCEPT !["reply"] = NoAdd]
  /\ UNCHANGED <<db, mail, optrule, given>>

---------------------------------------------------------------------------
\* POST /funnel/route-reply: the routing alone, of any class.
RouteByHand(class) ==
  /\ router["api"].pc = "idle"
  /\ Event("route")
  /\ router' = [router EXCEPT !["api"] = [pc |-> "rules", class |-> class]]
  /\ UNCHANGED <<db, mail, scan, optrule, given>>

\* PATCH /funnel/routing-rules/{id}: another action, or switched off.
PatchRule ==
  /\ Event("rule")
  /\ optrule' = ~optrule
  /\ UNCHANGED <<db, mail, scan, router, given>>

RouteStep(w) == \/ UpdateStatus(w) \/ ReadRules(w) \/ RouteStage(w) \/ StopSequence(w)
                \/ Suppress(w) \/ CancelSends(w) \/ MarkUnsubscribed(w)
ScanStep == \/ ListLeads \/ ListUnseen \/ LookUp \/ Store \/ Publish \/ Published \/ Scanned
            \/ \E m \in Msgs : RescueSpam(m) \/ Fetch(m)
MailboxStep == \/ PatchRule
               \/ \E m \in Msgs : ReadInGmail(m) \/ MarkUnread(m)
               \/ \E m \in Msgs, class \in Classes : Arrive(m, class)
               \/ \E class \in Classes : RouteByHand(class)

RepliesOK ==
  /\ mail \in [Msgs -> [state : MailStates, class : Classes]]
  /\ scan \in [pc : {"idle", "list", "look", "dedup", "store", "publish", "handlers"},
               known : BOOLEAN, todo : SUBSET Msgs, at : Msgs \cup {"none"}, class : Classes]
  /\ router \in [Routers -> [pc : {"idle", "status", "rules", "stage", "stop", "suppress", "cancel",
                                   "mark", "score", "score2"}, class : Classes]]
  /\ optrule \in BOOLEAN
  /\ given \in [Msgs -> {"never", "once", "again", "erased"}]

\* A reply with a Message-ID is handed to the handlers once, however often it is
\* marked as unread again; only a lookup that failed repeats it, and an erasure of
\* the stored row, of which the scan knows nothing more.
HandledOnce == \A m \in Msgs \ NoId : given[m] = "again" => env.faults > 0

\* Marked as seen for a reply of the lead, and not in the hands of the scan: no
\* scan will take it up, and no handler has heard of it.
Lost(m) == mail[m].state = "fetched" /\ given[m] = "never" /\ scan.at # m

\* Every reply of a lead that was not erased which is lost between the mailbox and
\* the handlers has cost a failing call or a kill of its own.
LostRepliesNeedFaults == Cardinality({m \in Msgs : Lost(m)}) <= env.faults

\* An opt-out by reply ends in the suppression list, unless the operator reads
\* the message before the scan does, the client's rule says otherwise, a call
\* fails or the lead is erased.
OptOutReplyHonoured ==
  \A m \in Msgs :
    Plays("scan") /\ Unread(m) /\ mail[m].class = "unsubscribe" /\ given[m] = "never"
      ~> db.supp \/ mail[m].state = "read" \/ ~optrule \/ ~Lead.here \/ env.faults > 0

\* imap_processor.py:568 "Does NOT mark messages as read": what is in INBOX and
\* was not read by the operator is stored by this or a later scan.
InboxReplyIsStored ==
  \A m \in Msgs :
    mail[m].state \in {"unseen", "fetched", "passed"}
      ~> db.replies[m] > 0 \/ mail[m].state = "read" \/ ~Lead.here \/ env.faults > 0
=============================================================================
