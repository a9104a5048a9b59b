------------------------------ MODULE Bounces ------------------------------
(* bounce_handler.py with the mailbox it scans: bounces of the last 24      *)
(* hours, every run anew.                                                   *)
EXTENDS LeadTable

CONSTANTS
  Strikes,    \* SOFT_BOUNCE_MAX_RETRIES
  Handlers    \* the scheduled job and POST /bounces/process

ASSUME BouncesAssumption == Strikes \in Nat \ {0}

VARIABLES
  dsn,      \* the bounce messages in the mailbox
  bscan     \* a run of process_inbox

bouncesVars == <<dsn, bscan>>

DsnKinds == {"soft", "hard", "complaint"}
IdleHandler == [pc |-> "idle", todo |-> {}, type |-> "soft"]

BouncesInit ==
  /\ dsn = [d \in Dsns |-> [state |-> "none", kind |-> "soft"]]
  /\ bscan = [h \in Handlers |-> IdleHandler]

DsnArrives(d, kind) ==
  /\ dsn[d].state = "none"
  /\ Event("dsn")
  /\ dsn' = [dsn EXCEPT ![d] = [state |-> "fresh", kind |-> kind]]
  /\ UNCHANGED <<db, bscan>>

\* After a day the search does not find it any more.
DsnAges(d) ==
  /\ dsn[d].state = "fresh"
  /\ dsn' = [dsn EXCEPT ![d].state = "old"]
  /\ UNCHANGED <<db, env, bscan>>

Recent == {d \in Dsns : dsn[d].state = "fresh"}

\* The search asks for recent messages, read or not.
ListBounces(h) ==
  /\ Plays("bounce") /\ bscan[h].pc = "idle" /\ Recent # {}
  /\ bscan' = [bscan EXCEPT ![h] = [IdleHandler EXCEPT !.pc = "take", !.todo = Recent]]
  /\ UNCHANGED <<db, env, dsn>>

\* What is logged is "MID:<id>", a line end and the body; what is looked up is
\* "MID:<id>". The log never has it.
AlreadyProcessed(d) == FALSE

\* The last strike makes a soft bounce hard. A count that fails is 0.
Escalated(kind, soft) == IF kind = "soft" /\ soft + 1 >= Strikes THEN "hard" ELSE kind

TakeBounce(h, d) ==
  LET b == bscan[h] IN
  /\ b.pc = "take" /\ d \in b.todo
  /\ IF AlreadyProcessed(d) THEN bscan' = [bscan EXCEPT ![h].todo = @ \ {d}] /\ UNCHANGED env
     ELSE \/ /\ bscan' = [bscan EXCEPT ![h] =
                  [pc |-> "log", todo |-> b.todo \ {d}, type |-> Escalated(dsn[d].kind, db.soft)]]
             /\ UNCHANGED env
          \/ /\ Fault
             /\ bscan' = [bscan EXCEPT ![h] =
                  [pc |-> "log", todo |-> b.todo \ {d}, type |-> Escalated(dsn[d].kind, 0)]]
  /\ UNCHANGED <<db, dsn>>

\* Strikes and more are not told apart.
Logged(type) == IF type # "soft" THEN [db EXCEPT !.hard = TRUE]
                ELSE [db EXCEPT !.soft = IF @ < Strikes THEN @ + 1 ELSE @]

Goes(h, pc) == bscan' = [bscan EXCEPT ![h].pc = pc]

\* A row that cannot be written does not stop the rest. The score of the
\* inbox, which goes down next, is Inboxes'.
LogBounce(h) ==
  /\ bscan[h].pc = "log"
  /\ Call(Logged(bscan[h].type))
  /\ Goes(h, "lead")
  /\ UNCHANGED dsn

MarkLead(h) ==
  /\ bscan[h].pc = "lead"
  /\ \/ /\ Lead.here
        /\ db' = [db EXCEPT !.lead.status = IF bscan[h].type = "soft" THEN "soft_bounced" ELSE "bounced"]
        /\ Goes(h, IF bscan[h].type = "soft" THEN "event" ELSE "halt")
        /\ UNCHANGED env
     \/ ~Lead.here /\ Goes(h, "take") /\ UNCHANGED <<db, env>>
     \/ Fault /\ Goes(h, "take") /\ UNCHANGED db
  /\ UNCHANGED dsn

\* Without the identity of the lead there is no event.
HaltCampaign(h) ==
  /\ bscan[h].pc = "halt"
  /\ \/ db' = WithPlaceClosed("bounced") /\ Goes(h, "event") /\ UNCHANGED env
     \/ Fault /\ Goes(h, "take") /\ UNCHANGED db
  /\ UNCHANGED dsn

WriteEvent(h) ==
  /\ bscan[h].pc = "event"
  /\ Call(WithFact("bounced"))
  /\ Goes(h, "take")
  /\ UNCHANGED dsn

BouncesScanned(h) ==
  /\ bscan[h].pc = "take" /\ bscan[h].todo = {}
  /\ bscan' = [bscan EXCEPT ![h] = IdleHandler]
  /\ UNCHANGED <<db, env, dsn>>

HandlerKilled(h) ==
  /\ bscan[h].pc # "idle" /\ Fault
  /\ bscan' = [bscan EXCEPT ![h] = IdleHandler]
  /\ UNCHANGED <<db, dsn>>

HandlerStep(h) == \/ ListBounces(h) \/ LogBounce(h) \/ MarkLead(h) \/ HaltCampaign(h)
                  \/ WriteEvent(h) \/ BouncesScanned(h)
                  \/ \E d \in Dsns : TakeBounce(h, d)
BouncesStep == \/ \E h \in Handlers : HandlerStep(h) \/ HandlerKilled(h)
               \/ \E d \in Dsns : DsnAges(d) \/ \E kind \in DsnKinds : DsnArrives(d, kind)

BouncesOK ==
  /\ dsn \in [Dsns -> [state : {"none", "fresh", "old"}, kind : DsnKinds]]
  /\ bscan \in [Handlers -> [pc : {"idle", "take", "log", "lead", "halt", "event"},
                             todo : SUBSET Dsns, type : DsnKinds]]
  /\ db.soft <= Strikes

\* "A bounce message is only processed once": a lead whose mailbox bounced once,
\* softly, is not written off (the doc string of bounce_handler.py).
OneBounceIsOneStrike ==
  db.hard => \/ Strikes <= Cardinality({d \in Dsns : dsn[d].state # "none"})
             \/ \E d \in Dsns : dsn[d].state # "none" /\ dsn[d].kind # "soft"
=============================================================================
