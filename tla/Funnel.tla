------------------------------ MODULE Funnel ------------------------------
(* funnel_engine.py and its callers in the scheduler, the daily job and the *)
(* API: the stage of a lead is read, and written some calls later. The send *)
(* before it is CampaignSend's, with the checks and the claim as calls of   *)
(* their own and what follows the mail on its way taken together.           *)
EXTENDS LeadTable

CONSTANTS
  WarmAfter, HotAfter,   \* steps after which a lead is warm, hot
  Nurses                 \* daily_reset and POST /inboxes/reset-daily-counts

ASSUME FunnelAssumption == {WarmAfter, HotAfter} \subseteq Nat

VARIABLES
  sender,   \* the campaign scheduler with this lead
  nurse,    \* a run of check_nurture_reengagement
  late,     \* history: mails since an opt-out, a hard bounce or the erasure
  blind,    \* history: bounce checks since then that did not see the hard bounce
  byhand    \* history: the stage was set by an operator

funnelVars == <<sender, nurse, late, blind, byhand>>

Senders == {"idle", "screen", "vet", "optout", "bounced", "claim", "mail", "advance",
            "contacted", "ask", "move"}
NoStage == "none"
IdleSender == [pc |-> "idle", step |-> 1, target |-> NoStage]

FunnelInit ==
  /\ sender = IdleSender
  /\ nurse = [n \in Nurses |-> "idle"]
  /\ late = 0
  /\ blind = 0
  /\ byhand = FALSE

\* move_to_stage: the stage read first serves the webhook only.
Moved(stage) == WithLead([Lead EXCEPT !.stage = stage, !.cooled = FALSE])

---------------------------------------------------------------------------
Wanted == Lead.here /\ ~db.supp /\ ~db.hard

\* The late mails are counted anew once the lead may be written to again, and
\* bounces that the erasure takes out of bounce_log are no longer seen.
Recount ==
  /\ late' = IF Wanted' THEN 0 ELSE late
  /\ blind' = IF Wanted' THEN 0 ELSE IF db.hard /\ ~db'.hard THEN blind + 1 ELSE blind

SenderTo(pc) == sender' = [sender EXCEPT !.pc = pc]
Screened(pc) == SenderTo(pc) /\ UNCHANGED <<db, nurse, late, blind, byhand>>

\* process_campaign lists the rows that are due, process_lead goes on with its
\* copy of this one.
ListDue ==
  /\ Plays("send") /\ sender.pc = "idle" /\ db.place.status = "active"
  /\ sender' = [IdleSender EXCEPT !.pc = "screen", !.step = db.place.step]
  /\ UNCHANGED <<db, env, nurse, late, blind, byhand>>

\* Mutant: the suppression list is not asked.
SuppressedNever == FALSE

Suppressed == db.supp

\* is_suppressed, whose failure ends this lead's turn.
AskSuppressed ==
  /\ sender.pc = "screen"
  /\ \/ Screened(IF Suppressed THEN "optout" ELSE "vet") /\ UNCHANGED env
     \/ Fault /\ sender' = IdleSender /\ UNCHANGED <<db, nurse, late, blind, byhand>>

\* is_email_hard_bounced, for which a failure is a no.
AskBounced ==
  /\ sender.pc = "vet"
  /\ \/ Screened(IF db.hard THEN "bounced" ELSE "claim") /\ UNCHANGED env
     \/ /\ db.hard /\ Fault
        /\ SenderTo("claim")
        /\ blind' = blind + 1
        /\ UNCHANGED <<db, nurse, late, byhand>>

\* A lead that must not be written to leaves the campaign, whatever its row
\* says by now.
CloseRow ==
  /\ sender.pc \in {"optout", "bounced"}
  /\ Call(IF db.place.status = "none" THEN db
          ELSE [db EXCEPT !.place.status = IF sender.pc = "optout" THEN "unsubscribed" ELSE "bounced"])
  /\ sender' = IdleSender
  /\ UNCHANGED <<nurse, late, blind, byhand>>

\* The claim takes the row only when it is still active.
Claim ==
  /\ sender.pc = "claim"
  /\ \/ /\ db.place.status = "active"
        /\ db' = [db EXCEPT !.place.status = "sending"]
        /\ SenderTo("mail")
        /\ UNCHANGED env
     \/ /\ db.place.status # "active"
        /\ sender' = IdleSender
        /\ UNCHANGED <<db, env>>
     \/ Fault /\ sender' = IdleSender /\ UNCHANGED db
  /\ UNCHANGED <<nurse, late, blind, byhand>>

\* Every mail has an unsubscribe link of its own.
Mail ==
  /\ sender.pc = "mail"
  /\ db' = [WithFact("sent") EXCEPT !.token = "fresh"]
  /\ late' = IF Wanted THEN 0 ELSE late + 1
  /\ SenderTo("advance")
  /\ UNCHANGED <<env, nurse, blind, byhand>>

\* Mutant: the step before the last counts as the last.
IsLastEarly == sender.step + 1 >= NSteps

IsLast == sender.step >= NSteps

\* The row goes back to the queue or is completed, whatever it holds by now.
Advance ==
  /\ sender.pc = "advance"
  /\ Call([db EXCEPT !.place =
             IF db.place.status = "none" THEN @
             ELSE [status |-> IF IsLast THEN "completed" ELSE "active", step |-> sender.step + 1]])
  /\ sender' = [sender EXCEPT !.pc = IF IsLast THEN "contacted" ELSE "ask"]
  /\ UNCHANGED <<nurse, late, blind, byhand>>

MarkContacted ==
  /\ sender.pc = "contacted"
  /\ Call(WithLead([Lead EXCEPT !.status = "contacted"]))
  /\ sender' = [sender EXCEPT !.pc = "ask"]
  /\ UNCHANGED <<nurse, late, blind, byhand>>

Settled == {"meeting", "won", "lost", "unsubscribed"}

\* check_stage_progression after a step, on_sequence_complete after the last.
\* A stage moved to 'warm' is not looked at again for 'hot'.
Progressed(stage) ==
  LET opened == "opened" \in db.facts
      clicked == "clicked" \in db.facts
  IN IF stage = "cold" /\ (sender.step >= WarmAfter \/ opened \/ clicked) THEN "warm"
     ELSE IF stage = "warm" /\ (clicked \/ sender.step >= HotAfter) THEN "hot"
     ELSE NoStage
Nurtured(stage) == IF stage \in Settled THEN NoStage ELSE "nurture"

AskStage ==
  LET target == IF ~Lead.here THEN NoStage
                ELSE IF IsLast THEN Nurtured(Lead.stage) ELSE Progressed(Lead.stage)
  IN
  /\ sender.pc = "ask"
  /\ sender' = IF target = NoStage THEN IdleSender
               ELSE [sender EXCEPT !.pc = "move", !.target = target]
  /\ UNCHANGED <<db, env, nurse, late, blind, byhand>>

MoveStage ==
  /\ sender.pc = "move"
  /\ Call(Moved(sender.target))
  /\ sender' = IdleSender
  /\ byhand' = FALSE
  /\ UNCHANGED <<nurse, late, blind>>

---------------------------------------------------------------------------
\* The cooldown of 90 days, and the lead that comes back from it.
CoolsDown ==
  /\ Lead.here /\ Lead.stage = "nurture" /\ ~Lead.cooled
  /\ db' = [db EXCEPT !.lead.cooled = TRUE]
  /\ UNCHANGED <<env, sender, nurse, late, blind, byhand>>

Cooled == Lead.here /\ Lead.stage = "nurture" /\ Lead.cooled

FindCooled(n) ==
  /\ Plays("nurture") /\ nurse[n] = "idle"
  /\ Cooled
  /\ nurse' = [nurse EXCEPT ![n] = "move"]
  /\ UNCHANGED <<db, env, sender, late, blind, byhand>>

Reengage(n) ==
  /\ nurse[n] = "move"
  /\ Call(Moved("cold"))
  /\ nurse' = [nurse EXCEPT ![n] = "idle"]
  /\ byhand' = FALSE
  /\ UNCHANGED <<sender, late, blind>>

\* POST /funnel/move-stage
MoveByHand(stage) ==
  /\ Event("move")
  /\ db' = Moved(stage)
  /\ byhand' = TRUE
  /\ UNCHANGED <<sender, nurse, late, blind>>

NurseStep(n) == FindCooled(n) \/ Reengage(n)
SenderStep == \/ ListDue \/ AskSuppressed \/ AskBounced \/ CloseRow \/ Claim \/ Mail
              \/ Advance \/ MarkContacted \/ AskStage \/ MoveStage
FunnelStep == SenderStep \/ CoolsDown \/ (\E n \in Nurses : NurseStep(n)) \/ \E s \in Stages : MoveByHand(s)

FunnelOK ==
  /\ sender \in [pc : Senders, step : 1..NSteps, target : Stages \cup {NoStage}]
  /\ nurse \in [Nurses -> {"idle", "move"}]
  /\ late \in Nat /\ blind \in Nat
  /\ byhand \in BOOLEAN

\* A lead that no operator put there is 'nurture' only when its whole sequence
\* has gone out, whatever replies, bounces and opt-outs did in between (and but
\* for the rows an erasure has emptied).
NurtureMeansFinished ==
  Lead.here /\ Lead.stage = "nurture" /\ ~byhand /\ env.faults = 0
  => db.place.step > NSteps \/ db.place.status = "none"

\* A lead that opted out, by whatever way, bounced hard or was erased gets no
\* mail but the one that was past its checks, also when its row is sent back to
\* the queue meanwhile or it is put into the campaign again; only a bounce that
\* the look-up did not see lets another one out.
LateMailsNeedBlindChecks == late <= 1 + blind
=============================================================================
