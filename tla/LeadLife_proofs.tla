--------------------------- MODULE LeadLife_proofs --------------------------
(* One lead and everybody who writes to it, for any cast, any number of     *)
(* overlapping jobs, messages and steps of the sequence.                    *)
EXTENDS LeadLife, Casting_proofs, FiniteSetTheorems

-----------------------------------------------------------------------------
(* The casting variable under every step.                                   *)

LEMMA EnvCall == ASSUME EnvOK, NEW change, Call(change) PROVE EnvMoves
BY EnvMovesHow DEF Call

LEMMA EnvFunnel == ASSUME EnvOK, FunnelStep PROVE EnvMoves
<1> USE EnvMovesHow
<1>1. CASE SenderStep
  <2>1. CASE ListDue \/ AskSuppressed \/ AskBounced \/ Claim
    BY <2>1 DEF ListDue, AskSuppressed, AskBounced, Claim
  <2>2. CASE CloseRow \/ Mail \/ Advance \/ MarkContacted \/ AskStage \/ MoveStage
    BY <2>2, EnvCall DEF CloseRow, Mail, Advance, MarkContacted, AskStage, MoveStage
  <2> QED BY <1>1, <2>1, <2>2 DEF SenderStep
<1>2. ASSUME NEW n \in Nurses, NurseStep(n) PROVE EnvMoves
  BY <1>2, EnvCall DEF NurseStep, FindCooled, Reengage
<1>3. ASSUME NEW s \in Stages, MoveByHand(s) PROVE EnvMoves
  BY <1>3 DEF MoveByHand
<1>4. CASE CoolsDown
  BY <1>4 DEF CoolsDown
<1> QED BY <1>1, <1>2, <1>3, <1>4 DEF FunnelStep

LEMMA EnvEngagement == ASSUME EnvOK, EngagementStep PROVE EnvMoves
<1> USE EnvMovesHow
<1>1. ASSUME NEW fact \in {"opened", "clicked"}, Track(fact) PROVE EnvMoves
  BY <1>1 DEF Track
<1>2. CASE WriteEngagement("tracking") \/ DayPasses
  BY <1>2 DEF WriteEngagement, DayPasses
<1>3. ASSUME NEW d \in Decayers, DecayStep(d) PROVE EnvMoves
  BY <1>3 DEF DecayStep, ListForDecay, WriteDecay
<1> QED BY <1>1, <1>2, <1>3 DEF EngagementStep, TrackStep

LEMMA EnvRoute == ASSUME EnvOK, NEW w, RouteStep(w) PROVE EnvMoves
<1> USE EnvMovesHow
<1>1. CASE UpdateStatus(w) \/ RouteStage(w) \/ StopSequence(w) \/ Suppress(w) \/ CancelSends(w)
           \/ MarkUnsubscribed(w)
  BY <1>1, EnvCall DEF UpdateStatus, RouteStage, StopSequence, Suppress, CancelSends, MarkUnsubscribed
<1>2. CASE ReadRules(w)
  BY <1>2 DEF ReadRules
<1> QED BY <1>1, <1>2 DEF RouteStep

LEMMA EnvReplies == ASSUME EnvOK, RepliesAct PROVE EnvMoves
<1> USE EnvMovesHow
<1>1. ASSUME NEW w, RouteStep(w) PROVE EnvMoves
  BY <1>1, EnvRoute
<1>2. CASE ScanStep
  <2>1. CASE ListLeads \/ ListUnseen \/ Publish \/ Published \/ Scanned
    BY <2>1 DEF ListLeads, ListUnseen, Publish, Published, Scanned
  <2>2. CASE Store
    BY <2>2 DEF Store
  <2>3. CASE LookUp
    BY <2>3 DEF LookUp
  <2>4. ASSUME NEW m \in Msgs, RescueSpam(m) \/ Fetch(m) PROVE EnvMoves
    BY <2>4 DEF RescueSpam, Fetch
  <2> QED BY <1>2, <2>1, <2>2, <2>3, <2>4 DEF ScanStep
<1>3. CASE BumpEngagement \/ WriteEngagement("reply") \/ ScanKilled
  BY <1>3 DEF BumpEngagement, WriteEngagement, ScanKilled
<1>4. CASE MailboxStep
  BY <1>4 DEF MailboxStep, PatchRule, ReadInGmail, MarkUnread, Arrive, RouteByHand
<1> QED BY <1>1, <1>2, <1>3, <1>4 DEF RepliesAct, ScanActs, Routed

LEMMA EnvBounces == ASSUME EnvOK, BouncesStep PROVE EnvMoves
<1> USE EnvMovesHow
<1>1. ASSUME NEW h \in Handlers, NEW d \in Dsns, TakeBounce(h, d) PROVE EnvMoves
  BY <1>1 DEF TakeBounce
<1>2. ASSUME NEW h \in Handlers, LogBounce(h) \/ WriteEvent(h) PROVE EnvMoves
  BY <1>2, EnvCall DEF LogBounce, WriteEvent
<1>3. ASSUME NEW h \in Handlers,
             ListBounces(h) \/ MarkLead(h) \/ HaltCampaign(h) \/ BouncesScanned(h) \/ HandlerKilled(h)
      PROVE  EnvMoves
  BY <1>3 DEF ListBounces, MarkLead, HaltCampaign, BouncesScanned, HandlerKilled
<1>4. ASSUME NEW d \in Dsns, NEW kind \in DsnKinds, DsnAges(d) \/ DsnArrives(d, kind) PROVE EnvMoves
  BY <1>4 DEF DsnAges, DsnArrives
<1> QED BY <1>1, <1>2, <1>3, <1>4 DEF BouncesStep, HandlerStep, DsnKinds

LEMMA EnvEnrichment == ASSUME EnvOK, EnrichmentStep PROVE EnvMoves
<1> USE EnvMovesHow
<1>1. ASSUME NEW w \in Workers, CompleteJob(w) \/ FailJob(w) PROVE EnvMoves
  BY <1>1, EnvCall DEF CompleteJob, FailJob
<1>2. ASSUME NEW w \in Workers,
             FetchJob(w) \/ ClaimJob(w) \/ LoadLead(w) \/ FlushLead(w) \/ WorkerKilled(w)
      PROVE  EnvMoves
  BY <1>2 DEF FetchJob, ClaimJob, LoadLead, FlushLead, WorkerKilled
<1>3. CASE Enqueue
  BY <1>3 DEF Enqueue
<1> QED BY <1>1, <1>2, <1>3 DEF EnrichmentStep, WorkerStep

LEMMA EnvErasure == ASSUME EnvOK, ErasureActs PROVE EnvMoves
<1> USE EnvMovesHow
<1>1. CASE LinkActs
  BY <1>1, EnvRoute DEF LinkActs, LinkStep, UseToken
<1>2. CASE PurgeActs
  BY <1>2, EnvCall DEF PurgeActs, PurgeTable
<1>3. CASE AddedAgain
  BY <1>3 DEF AddedAgain, AddLead
<1>4. CASE OpenLink \/ SuppressByHand \/ LiftSuppression \/ StartPurge \/ PurgeKilled \/ LinkKilled
  BY <1>4 DEF OpenLink, SuppressByHand, LiftSuppression, StartPurge, PurgeKilled, LinkKilled
<1> QED BY <1>1, <1>2, <1>3, <1>4 DEF ErasureActs

LEMMA EnvNext == ASSUME EnvOK, [Next]_vars PROVE EnvMoves
BY EnvFunnel, EnvEngagement, EnvReplies, EnvBounces, EnvEnrichment, EnvErasure, EnvMovesHow DEF Next, vars

\* While no call has failed, none failed in the step that led there.
LEMMA NoFaultYet == ASSUME EnvOK, [Next]_vars, env'.faults = 0 PROVE env.faults = 0 /\ ~Fault
<1>1. env'.faults >= env.faults /\ env.faults \in Nat
  BY EnvNext DEF EnvMoves, EnvOK
<1>2. ~Fault
  BY EnvMovesHow DEF EnvOK
<1> QED BY <1>1, <1>2

-----------------------------------------------------------------------------
(* What a step leaves of the tables.                                        *)

Tables == {"lead", "place", "supp", "replies", "soft", "hard", "facts", "tracked", "job", "token"}
OnlyIn(changed) == \A f \in Tables \ changed : db'[f] = db[f]
\* A row of the lead whose score, and whose existence, nobody touched.
ScoreKept == db'.lead.here = db.lead.here /\ db'.lead.score = db.lead.score /\ db'.lead.age = db.lead.age
StageKept == db'.lead.here = db.lead.here /\ db'.lead.stage = db.lead.stage
\* The row of the campaign stays, or is closed.
Closed == {"completed", "unsubscribed", "bounced"}
PlaceClosed ==
  \/ db'.place = db.place
  \/ db.place.status # "none" /\ db'.place.status \in Closed /\ db'.place.step = db.place.step
\* A row that waits or is being sent has a step to send, and there is none
\* without a lead.
PlaceInv ==
  /\ db.place.status \in {"active", "sending"} => db.place.step \in 1..NSteps
  /\ ~db.lead.here => db.place.status = "none"

LEMMA NoChange ==
  ASSUME db \in DbRow, db' = db
  PROVE  db' \in DbRow /\ OnlyIn({}) /\ ScoreKept /\ StageKept /\ PlaceClosed
BY DEF OnlyIn, ScoreKept, StageKept, PlaceClosed

LEMMA LeadWrite ==
  ASSUME db \in DbRow, NEW row \in LeadRow, row.here = db.lead.here, db' = WithLead(row)
  PROVE  /\ db' \in DbRow /\ OnlyIn({"lead"}) /\ PlaceClosed
         /\ db'.lead.here = db.lead.here
         /\ db'.lead = IF db.lead.here THEN row ELSE db.lead
BY DEF DbRow, OnlyIn, Tables, PlaceClosed, WithLead, Lead

LEMMA LeadFields ==
  ASSUME db \in DbRow
  PROVE  /\ db.lead \in LeadRow /\ db.place \in PlaceRow /\ db.job \in JobRow
         /\ \A s \in LeadStatuses : [db.lead EXCEPT !.status = s] \in LeadRow
         /\ \A s \in Stages : [db.lead EXCEPT !.stage = s, !.cooled = FALSE] \in LeadRow
         /\ [db.lead EXCEPT !.cooled = TRUE] \in LeadRow
BY DEF DbRow, LeadRow

LEMMA StatusWrite ==
  ASSUME db \in DbRow, NEW s \in LeadStatuses, db' = WithLead([Lead EXCEPT !.status = s])
  PROVE  db' \in DbRow /\ OnlyIn({"lead"}) /\ ScoreKept /\ StageKept /\ PlaceClosed
<1>1. [db.lead EXCEPT !.status = s] \in LeadRow
  BY LeadFields
<1>2. [db.lead EXCEPT !.status = s].here = db.lead.here
  BY LeadFields DEF LeadRow
<1>3. /\ db' \in DbRow /\ OnlyIn({"lead"}) /\ PlaceClosed
      /\ db'.lead = IF db.lead.here THEN [db.lead EXCEPT !.status = s] ELSE db.lead
  BY <1>1, <1>2, LeadWrite DEF Lead
<1>4. db.lead \in LeadRow
  BY LeadFields
<1> QED BY <1>3, <1>4 DEF ScoreKept, StageKept, LeadRow

LEMMA StageWrite ==
  ASSUME db \in DbRow, NEW s \in Stages, db' = Moved(s)
  PROVE  /\ db' \in DbRow /\ OnlyIn({"lead"}) /\ ScoreKept /\ PlaceClosed
         /\ db'.lead.stage = IF db.lead.here THEN s ELSE db.lead.stage
<1>1. [db.lead EXCEPT !.stage = s, !.cooled = FALSE] \in LeadRow
  BY LeadFields
<1>2. [db.lead EXCEPT !.stage = s, !.cooled = FALSE].here = db.lead.here
  BY LeadFields DEF LeadRow
<1>3. /\ db' \in DbRow /\ OnlyIn({"lead"}) /\ PlaceClosed
      /\ db'.lead = IF db.lead.here THEN [db.lead EXCEPT !.stage = s, !.cooled = FALSE] ELSE db.lead
  BY <1>1, <1>2, LeadWrite DEF Lead, Moved
<1>4. db.lead \in LeadRow
  BY LeadFields
<1> QED BY <1>3, <1>4 DEF ScoreKept, LeadRow

LEMMA PlaceWrite ==
  ASSUME db \in DbRow, NEW s \in Closed, db' = WithPlaceClosed(s)
  PROVE  db' \in DbRow /\ OnlyIn({"place"}) /\ ScoreKept /\ StageKept /\ PlaceClosed
<1>1. db.place \in PlaceRow /\ [db.place EXCEPT !.status = s] \in PlaceRow
  BY LeadFields DEF PlaceRow, PlaceStatuses, Closed
<1>2. db' = db \/ (db.place.status = "active" /\ db' = [db EXCEPT !.place.status = s])
  BY DEF WithPlaceClosed
<1>3. CASE db.place.status = "active" /\ db' = [db EXCEPT !.place.status = s]
  <2>1. db' = [db EXCEPT !.place = [db.place EXCEPT !.status = s]]
    BY <1>3, <1>1
  <2>2. db' \in DbRow /\ OnlyIn({"place"}) /\ db'.place = [db.place EXCEPT !.status = s]
    BY <1>1, <2>1 DEF DbRow, OnlyIn, Tables
  <2>3. db'.lead = db.lead /\ db'.place.status = s /\ db'.place.step = db.place.step
    BY <2>2, <1>1 DEF OnlyIn, Tables, PlaceRow
  <2> QED BY <1>3, <2>2, <2>3 DEF ScoreKept, StageKept, PlaceClosed
<1> QED BY <1>2, <1>3, NoChange DEF OnlyIn

LEMMA FactWrite ==
  ASSUME db \in DbRow, NEW f \in Facts, db' = WithFact(f)
  PROVE  db' \in DbRow /\ OnlyIn({"facts"}) /\ ScoreKept /\ StageKept /\ PlaceClosed
<1>1. db' \in DbRow /\ OnlyIn({"facts"})
  BY DEF DbRow, OnlyIn, Tables, WithFact, Lead
<1> QED BY <1>1 DEF OnlyIn, Tables, ScoreKept, StageKept, PlaceClosed

\* A change of a table that is about neither the lead's row nor its place.
LEMMA OtherWrite ==
  ASSUME OnlyIn(Tables \ {"lead", "place"})
  PROVE  ScoreKept /\ StageKept /\ PlaceClosed
BY DEF OnlyIn, Tables, ScoreKept, StageKept, PlaceClosed

LEMMA PlaceKept ==
  ASSUME PlaceInv, PlaceClosed, db'.lead.here = db.lead.here PROVE PlaceInv'
BY DEF PlaceInv, PlaceClosed, Closed

-----------------------------------------------------------------------------
(* The funnel.                                                              *)

SenderRow == [pc : Senders, step : 1..NSteps, target : Stages \cup {NoStage}]

LEMMA SenderTypes ==
  /\ IdleSender \in SenderRow
  /\ \A s \in SenderRow, pc \in Senders : [s EXCEPT !.pc = pc] \in SenderRow
  /\ \A s \in SenderRow, pc \in Senders, t \in Stages : [s EXCEPT !.pc = pc, !.target = t] \in SenderRow
  /\ \A s \in SenderRow, pc \in Senders, n \in 1..NSteps : [s EXCEPT !.pc = pc, !.step = n] \in SenderRow
<1>1. 1 \in 1..NSteps
  BY LeadTableAssumption
<1>2. IdleSender \in SenderRow
  BY <1>1 DEF IdleSender, SenderRow, Senders
<1> QED BY <1>2 DEF SenderRow

LEMMA SenderGoes ==
  ASSUME NEW s \in SenderRow, NEW pc \in Senders
  PROVE  /\ [s EXCEPT !.pc = pc] \in SenderRow
         /\ [s EXCEPT !.pc = pc].pc = pc /\ [s EXCEPT !.pc = pc].step = s.step
         /\ \A n \in 1..NSteps : /\ [s EXCEPT !.pc = pc, !.step = n] \in SenderRow
                                /\ [s EXCEPT !.pc = pc, !.step = n].pc = pc
                                /\ [s EXCEPT !.pc = pc, !.step = n].step = n
BY DEF SenderRow

\* A lead is moved to a stage, and to 'nurture' by the last step only.
MoveInv == sender.pc = "move" => sender.target \in Stages /\ (sender.target = "nurture" => IsLast)

FunnelInv == FunnelOK /\ PlaceInv /\ MoveInv
FunnelEffect ==
  /\ db' \in DbRow /\ FunnelInv'
  /\ OnlyIn({"lead", "place", "facts", "token"}) /\ ScoreKept
  /\ db'.token \in {db.token, "fresh"}

\* The steps before the claim read the tables only.
LEMMA CheckEffect ==
  ASSUME db \in DbRow, FunnelInv, ListDue \/ AskSuppressed \/ AskBounced
  PROVE  /\ FunnelEffect /\ db' = db /\ sender'.pc \in {"screen", "optout", "vet", "bounced", "claim", "idle"}
         /\ sender'.pc # "idle" => IF ListDue THEN sender'.step = db.place.step ELSE sender'.step = sender.step
<1>0. sender \in SenderRow /\ blind \in Nat /\ late \in Nat
  BY DEF FunnelInv, FunnelOK, SenderRow
<1>1. CASE ListDue
  <2>1. db.place.step \in 1..NSteps
    BY <1>1 DEF ListDue, FunnelInv, PlaceInv
  <2>2. /\ sender' \in SenderRow /\ sender'.pc = "screen" /\ sender'.step = db.place.step
    <3>1. "screen" \in Senders
      BY DEF Senders
    <3>2. IdleSender \in SenderRow
      BY SenderTypes
    <3>3. sender' = [IdleSender EXCEPT !.pc = "screen", !.step = db.place.step]
      BY <1>1 DEF ListDue
    <3>4. /\ [IdleSender EXCEPT !.pc = "screen", !.step = db.place.step] \in SenderRow
          /\ [IdleSender EXCEPT !.pc = "screen", !.step = db.place.step].pc = "screen"
          /\ [IdleSender EXCEPT !.pc = "screen", !.step = db.place.step].step = db.place.step
      BY <2>1, <3>1, <3>2 DEF SenderRow
    <3> QED BY <3>3, <3>4
  <2>3. db' = db /\ UNCHANGED <<nurse, late, blind, byhand>>
    BY <1>1 DEF ListDue
  <2>4. FunnelInv'
    BY <2>2, <2>3 DEF FunnelInv, FunnelOK, PlaceInv, MoveInv, SenderRow
  <2> QED BY <1>1, <2>2, <2>3, <2>4, NoChange DEF FunnelEffect, OnlyIn
<1>2. CASE AskSuppressed \/ AskBounced
  <2>1. \/ sender' = IdleSender
        \/ \E pc \in {"optout", "vet", "bounced", "claim"} : sender' = [sender EXCEPT !.pc = pc]
    BY <1>2 DEF AskSuppressed, AskBounced, Screened, SenderTo
  <2>2. /\ sender' \in SenderRow /\ sender'.pc \in {"optout", "vet", "bounced", "claim", "idle"}
        /\ sender'.pc # "idle" => sender'.step = sender.step
    <3>1. IdleSender \in SenderRow /\ IdleSender.pc = "idle"
      BY SenderTypes DEF IdleSender
    <3>2. ASSUME NEW pc \in {"optout", "vet", "bounced", "claim"}, sender' = [sender EXCEPT !.pc = pc]
          PROVE  sender' \in SenderRow /\ sender'.pc = pc /\ sender'.step = sender.step
      <4>1. pc \in Senders
        BY DEF Senders
      <4> QED BY <1>0, <3>2, <4>1, SenderGoes
    <3> QED BY <2>1, <3>1, <3>2
  <2>3. db' = db /\ UNCHANGED <<nurse, late, byhand>> /\ blind' \in Nat
    BY <1>0, <1>2 DEF AskSuppressed, AskBounced, Screened
  <2>4. FunnelInv'
    BY <2>2, <2>3 DEF FunnelInv, FunnelOK, PlaceInv, MoveInv, SenderRow
  <2>5. ~ListDue
    BY <1>2 DEF ListDue, AskSuppressed, AskBounced
  <2> QED BY <2>2, <2>3, <2>4, <2>5, NoChange DEF FunnelEffect, OnlyIn
<1> QED BY <1>1, <1>2

LEMMA CloseRowEffect ==
  ASSUME db \in DbRow, FunnelInv, CloseRow
  PROVE  /\ FunnelEffect /\ OnlyIn({"place"}) /\ PlaceClosed /\ sender'.pc = "idle"
<1>1. sender' = IdleSender /\ UNCHANGED <<nurse, late, blind, byhand>> /\ IdleSender.pc = "idle"
  BY DEF CloseRow, IdleSender
<1>2. CASE db' = db
  <2>1. db' \in DbRow /\ OnlyIn({"place"}) /\ ScoreKept /\ PlaceClosed
    BY <1>2, NoChange DEF OnlyIn
  <2>2. FunnelInv'
    BY <1>1, <1>2, SenderTypes DEF FunnelInv, FunnelOK, PlaceInv, MoveInv, SenderRow
  <2> QED BY <1>1, <2>1, <2>2 DEF FunnelEffect, OnlyIn, Tables
<1>3. ASSUME NEW s \in Closed, db.place.status # "none", db' = [db EXCEPT !.place.status = s]
      PROVE  FunnelEffect /\ OnlyIn({"place"}) /\ PlaceClosed
  <2>1. db.place \in PlaceRow /\ [db.place EXCEPT !.status = s] \in PlaceRow
    BY LeadFields DEF PlaceRow, PlaceStatuses, Closed
  <2>2. db' = [db EXCEPT !.place = [db.place EXCEPT !.status = s]]
    BY <1>3, <2>1
  <2>3. db' \in DbRow /\ OnlyIn({"place"}) /\ db'.place = [db.place EXCEPT !.status = s]
    BY <2>1, <2>2 DEF DbRow, OnlyIn, Tables
  <2>4. db'.lead = db.lead /\ db'.place.status = s /\ db'.place.step = db.place.step
    BY <2>1, <2>3 DEF OnlyIn, Tables, PlaceRow
  <2>5. PlaceClosed
    BY <1>3, <2>4 DEF PlaceClosed
  <2>6. FunnelInv'
    BY <1>1, <2>4, <2>5, PlaceKept, SenderTypes DEF FunnelInv, FunnelOK, MoveInv, SenderRow
  <2> QED BY <2>3, <2>4, <2>5, <2>6 DEF FunnelEffect, OnlyIn, Tables, ScoreKept
<1>4. "unsubscribed" \in Closed /\ "bounced" \in Closed
  BY DEF Closed
<1> QED BY <1>1, <1>2, <1>3, <1>4 DEF CloseRow, Call

LEMMA ClaimEffect ==
  ASSUME db \in DbRow, FunnelInv, Claim
  PROVE  /\ FunnelEffect /\ db'.lead = db.lead
         /\ \/ db' = db /\ sender'.pc = "idle"
            \/ /\ db'.place = [db.place EXCEPT !.status = "sending"] /\ Lead.here
               /\ db.place.status = "active" /\ sender'.pc = "mail" /\ sender'.step = sender.step
<1>0. sender \in SenderRow
  BY DEF FunnelInv, FunnelOK, SenderRow
<1>1. CASE db' = db /\ sender' = IdleSender
  <2>1. FunnelInv' /\ sender'.pc = "idle"
    BY <1>1, SenderTypes DEF Claim, IdleSender, FunnelInv, FunnelOK, PlaceInv, MoveInv, SenderRow
  <2> QED BY <1>1, <2>1, NoChange DEF FunnelEffect, OnlyIn
<1>2. CASE /\ db.place.status = "active"
           /\ db' = [db EXCEPT !.place.status = "sending"]
           /\ SenderTo("mail")
  <2>1. db.place \in PlaceRow /\ [db.place EXCEPT !.status = "sending"] \in PlaceRow
    BY LeadFields DEF PlaceRow, PlaceStatuses
  <2>2. db' = [db EXCEPT !.place = [db.place EXCEPT !.status = "sending"]]
    BY <1>2, <2>1
  <2>3. db' \in DbRow /\ OnlyIn({"place"}) /\ db'.place = [db.place EXCEPT !.status = "sending"]
    BY <2>1, <2>2 DEF DbRow, OnlyIn, Tables
  <2>4. db.place.step \in 1..NSteps /\ db.lead.here
    BY <1>2 DEF FunnelInv, PlaceInv
  <2>5. db'.lead = db.lead /\ db'.place.step = db.place.step /\ db'.place.status = "sending"
    BY <2>1, <2>3 DEF OnlyIn, Tables, PlaceRow
  <2>6. PlaceInv'
    BY <2>4, <2>5 DEF PlaceInv
  <2>7. sender' \in SenderRow /\ sender'.pc = "mail" /\ sender'.step = sender.step
    <3>1. "mail" \in Senders
      BY DEF Senders
    <3> QED BY <1>0, <1>2, <3>1, SenderGoes DEF SenderTo
  <2>8. FunnelOK' /\ MoveInv'
    BY <2>7 DEF FunnelInv, FunnelOK, Claim, SenderRow, MoveInv
  <2> QED BY <1>2, <2>3, <2>4, <2>5, <2>6, <2>7, <2>8
          DEF FunnelInv, FunnelEffect, OnlyIn, Tables, ScoreKept, Lead
<1> QED BY <1>1, <1>2 DEF Claim

LEMMA MailEffect ==
  ASSUME db \in DbRow, FunnelInv, Mail
  PROVE  FunnelEffect /\ db'.place = db.place /\ db'.lead = db.lead
<1>1. db' \in DbRow /\ OnlyIn({"facts", "token"}) /\ db'.token = "fresh"
  BY DEF Mail, WithFact, Lead, DbRow, OnlyIn, Tables, Facts
<1>2. db'.place = db.place /\ db'.lead = db.lead
  BY <1>1 DEF OnlyIn, Tables
<1>3. sender' \in SenderRow
  <2>1. "advance" \in Senders /\ sender \in SenderRow
    BY DEF Senders, FunnelInv, FunnelOK, SenderRow
  <2> QED BY <2>1, SenderGoes DEF Mail, SenderTo
<1>4. late' \in Nat
  BY DEF FunnelInv, FunnelOK, Mail
<1>5. FunnelInv'
  BY <1>2, <1>3, <1>4 DEF FunnelInv, FunnelOK, Mail, SenderTo, SenderRow, PlaceInv, MoveInv
<1> QED BY <1>1, <1>2, <1>5 DEF FunnelEffect, OnlyIn, Tables, ScoreKept

LEMMA AdvanceEffect ==
  ASSUME db \in DbRow, FunnelInv, Advance
  PROVE  /\ FunnelEffect /\ db'.lead = db.lead
         /\ \/ db' = db /\ Fault
            \/ db.place.status = "none" /\ db'.place = db.place
            \/ db.place.status # "none" /\ db'.place.step = sender.step + 1 /\ db'.place.status # "none"
<1>0. sender \in SenderRow /\ sender.step \in 1..NSteps
  BY DEF FunnelInv, FunnelOK, SenderRow
<1>1. FunnelOK' /\ MoveInv'
  <2>1. sender' \in SenderRow
    BY <1>0, SenderTypes DEF Advance, Senders
  <2> QED BY <1>0, <2>1 DEF FunnelInv, FunnelOK, Advance, SenderRow, MoveInv
<1>2. CASE db' = db /\ Fault
  BY <1>1, <1>2, NoChange DEF FunnelInv, FunnelEffect, OnlyIn, PlaceInv
<1>3. CASE db.place.status = "none" /\ db' = [db EXCEPT !.place = db.place]
  <2>1. db' = db
    BY <1>3 DEF DbRow
  <2> QED BY <1>1, <1>3, <2>1, NoChange DEF FunnelInv, FunnelEffect, OnlyIn, PlaceInv
<1>4. CASE /\ db.place.status # "none"
           /\ db' = [db EXCEPT !.place = [status |-> IF IsLast THEN "completed" ELSE "active",
                                          step |-> sender.step + 1]]
  <2> DEFINE p == [status |-> IF IsLast THEN "completed" ELSE "active", step |-> sender.step + 1]
  <2>1. p \in PlaceRow
    BY <1>0 DEF PlaceRow, PlaceStatuses
  <2>2. p.step = sender.step + 1 /\ p.status \in {"completed", "active"}
    OBVIOUS
  <2>3. p.status = "active" => p.step \in 1..NSteps
    BY <1>0, LeadTableAssumption DEF IsLast
  <2> HIDE DEF p
  <2>4. db' \in DbRow /\ OnlyIn({"place"}) /\ db'.place = p
    BY <1>4, <2>1 DEF DbRow, OnlyIn, Tables, p
  <2>5. db'.lead = db.lead
    BY <2>4 DEF OnlyIn, Tables
  <2>6. PlaceInv'
    BY <1>4, <2>2, <2>3, <2>4, <2>5 DEF FunnelInv, PlaceInv
  <2> QED BY <1>1, <1>4, <2>2, <2>4, <2>5, <2>6 DEF FunnelInv, FunnelEffect, OnlyIn, Tables, ScoreKept
<1> QED BY <1>2, <1>3, <1>4 DEF Advance, Call

LEMMA LeadStepEffect ==
  ASSUME db \in DbRow, PlaceInv, FunnelOK', MoveInv', db' \in DbRow, OnlyIn({"lead"}), ScoreKept
  PROVE  FunnelEffect
<1>1. PlaceInv'
  BY DEF PlaceInv, OnlyIn, Tables, ScoreKept
<1> QED BY <1>1 DEF FunnelInv, FunnelEffect, OnlyIn, Tables

LEMMA OtherFunnelEffect ==
  ASSUME db \in DbRow, FunnelInv,
         \/ MarkContacted \/ AskStage \/ MoveStage \/ CoolsDown
         \/ \E n \in Nurses : NurseStep(n)
         \/ \E s \in Stages : MoveByHand(s)
  PROVE  /\ FunnelEffect /\ db'.place = db.place
         /\ \/ StageKept
            \/ MoveStage /\ db'.lead.stage \in {db.lead.stage, sender.target}
            \/ db'.lead.stage \in {db.lead.stage, "cold"} /\ sender' = sender /\ (byhand' = FALSE)
            \/ byhand' = TRUE /\ sender' = sender
<1>0. sender \in SenderRow /\ FunnelOK /\ PlaceInv /\ MoveInv
  BY DEF FunnelInv, FunnelOK, SenderRow
<1>1. CASE MarkContacted
  <2>1. "contacted" \in LeadStatuses
    BY DEF LeadStatuses
  <2>2. db' \in DbRow /\ OnlyIn({"lead"}) /\ ScoreKept /\ StageKept
    BY <1>1, <2>1, NoChange, StatusWrite DEF MarkContacted, Call, OnlyIn
  <2>3. sender' \in SenderRow
    BY <1>0, <1>1, SenderTypes DEF MarkContacted, Senders
  <2>4. FunnelOK' /\ MoveInv'
    BY <1>0, <1>1, <2>3 DEF MarkContacted, FunnelOK, SenderRow, MoveInv, IsLast
  <2> QED BY <1>0, <2>2, <2>4, LeadStepEffect DEF OnlyIn, Tables
<1>2. CASE AskStage
  <2>1. db' \in DbRow /\ OnlyIn({"lead"}) /\ ScoreKept /\ StageKept
    BY <1>2, NoChange DEF AskStage, OnlyIn
  <2>2. sender' \in SenderRow
    <3>1. PICK t \in Stages \cup {NoStage} :
             sender' = IF t = NoStage THEN IdleSender ELSE [sender EXCEPT !.pc = "move", !.target = t]
      BY <1>2 DEF AskStage, Nurtured, Progressed, Stages
    <3>2. CASE t = NoStage
      BY <3>1, <3>2, SenderTypes
    <3>3. CASE t # NoStage
      BY <1>0, <3>1, <3>3, SenderTypes DEF Senders
    <3> QED BY <3>2, <3>3
  <2>3. FunnelOK' /\ MoveInv'
    BY <1>0, <1>2, <2>2 DEF AskStage, FunnelOK, SenderRow, MoveInv, IsLast, IdleSender, Nurtured, Progressed
  <2> QED BY <1>0, <2>1, <2>3, LeadStepEffect DEF OnlyIn, Tables
<1>3. CASE MoveStage
  <2>1. PICK s \in Stages : s = sender.target
    BY <1>0, <1>3 DEF MoveInv, MoveStage
  <2>2. db' = db \/ db' = Moved(s)
    BY <1>3, <2>1 DEF MoveStage, Call
  <2>3. db' \in DbRow /\ OnlyIn({"lead"}) /\ ScoreKept
    BY <2>2, NoChange, StageWrite DEF OnlyIn
  <2>4. db'.lead.stage \in {db.lead.stage, sender.target}
    BY <2>1, <2>2, StageWrite
  <2>5. FunnelOK' /\ MoveInv'
    BY <1>0, <1>3, SenderTypes DEF MoveStage, FunnelOK, SenderRow, MoveInv, IdleSender
  <2> QED BY <1>0, <1>3, <2>3, <2>4, <2>5, LeadStepEffect DEF OnlyIn, Tables
<1>4. CASE CoolsDown
  <2>1. [db.lead EXCEPT !.cooled = TRUE] \in LeadRow
    BY LeadFields
  <2>2. db' = [db EXCEPT !.lead = [db.lead EXCEPT !.cooled = TRUE]]
    BY <1>4, LeadFields DEF CoolsDown
  <2>3. db' \in DbRow /\ OnlyIn({"lead"}) /\ db'.lead = [db.lead EXCEPT !.cooled = TRUE]
    BY <2>1, <2>2 DEF DbRow, OnlyIn, Tables
  <2>4. ScoreKept /\ StageKept
    BY <2>3, LeadFields DEF ScoreKept, StageKept, LeadRow
  <2>5. FunnelOK' /\ MoveInv'
    BY <1>0, <1>4 DEF CoolsDown, FunnelOK, MoveInv, IsLast
  <2> QED BY <1>0, <2>3, <2>4, <2>5, LeadStepEffect DEF OnlyIn, Tables
<1>5. ASSUME NEW n \in Nurses, FindCooled(n)
      PROVE  FunnelEffect /\ db'.place = db.place /\ StageKept
  <2>1. db' \in DbRow /\ OnlyIn({"lead"}) /\ ScoreKept /\ StageKept
    BY <1>5, NoChange DEF FindCooled, OnlyIn
  <2>2. FunnelOK' /\ MoveInv'
    BY <1>0, <1>5 DEF FindCooled, FunnelOK, MoveInv, IsLast
  <2> QED BY <1>0, <2>1, <2>2, LeadStepEffect DEF OnlyIn, Tables
<1>6. ASSUME NEW n \in Nurses, Reengage(n)
      PROVE  /\ FunnelEffect /\ db'.place = db.place
             /\ db'.lead.stage \in {db.lead.stage, "cold"} /\ sender' = sender /\ (byhand' = FALSE)
  <2>1. "cold" \in Stages
    BY DEF Stages
  <2>2. db' \in DbRow /\ OnlyIn({"lead"}) /\ ScoreKept /\ db'.lead.stage \in {db.lead.stage, "cold"}
    BY <1>6, <2>1, NoChange, StageWrite DEF Reengage, Call, OnlyIn
  <2>3. FunnelOK' /\ MoveInv'
    BY <1>0, <1>6 DEF Reengage, FunnelOK, MoveInv, IsLast
  <2> QED BY <1>0, <1>6, <2>2, <2>3, LeadStepEffect DEF OnlyIn, Tables, Reengage
<1>7. ASSUME NEW s \in Stages, MoveByHand(s)
      PROVE  FunnelEffect /\ db'.place = db.place /\ byhand' = TRUE /\ sender' = sender
  <2>1. db' \in DbRow /\ OnlyIn({"lead"}) /\ ScoreKept
    BY <1>7, StageWrite DEF MoveByHand
  <2>2. FunnelOK' /\ MoveInv'
    BY <1>0, <1>7 DEF MoveByHand, FunnelOK, MoveInv, IsLast
  <2> QED BY <1>0, <1>7, <2>1, <2>2, LeadStepEffect DEF OnlyIn, Tables, MoveByHand
<1> QED BY <1>1, <1>2, <1>3, <1>4, <1>5, <1>6, <1>7 DEF NurseStep

LEMMA FunnelKeeps == ASSUME db \in DbRow, FunnelInv, FunnelStep PROVE FunnelEffect
BY CheckEffect, CloseRowEffect, ClaimEffect, MailEffect, AdvanceEffect, OtherFunnelEffect
   DEF FunnelStep, SenderStep

-----------------------------------------------------------------------------
(* The score.                                                               *)

AdderRow == [pc : {"idle", "write"}, base : 0..MaxScore, event : DOMAIN Points]
DecayRow == [pc : {"idle", "write"}, base : 0..MaxScore, days : Nat]

LEMMA PointsAre ==
  /\ DOMAIN Points = {"opened", "clicked", "replied", "interested"}
  /\ \A e \in DOMAIN Points : Points[e] \in Nat
  /\ \A n \in 0..MaxScore, e \in DOMAIN Points : Added(n, e) \in 0..MaxScore
  /\ \A n \in 0..MaxScore, k \in Nat : Minus(n, Decay * k) \in 0..MaxScore
  /\ NoAdd \in AdderRow /\ NoDecay \in DecayRow
<1>1. DOMAIN Points = {"opened", "clicked", "replied", "interested"} /\ \A e \in DOMAIN Points : Points[e] \in Nat
  BY EngagementAssumption
<1>2. \A n \in 0..MaxScore, e \in DOMAIN Points : Added(n, e) \in 0..MaxScore
  BY <1>1, LeadTableAssumption DEF Added, Lower
<1>3. \A n \in 0..MaxScore, k \in Nat : Minus(n, Decay * k) \in 0..MaxScore
  <2> SUFFICES ASSUME NEW n \in 0..MaxScore, NEW k \in Nat PROVE Minus(n, Decay * k) \in 0..MaxScore
    OBVIOUS
  <2>1. PICK m \in Nat : m = Decay * k
    BY EngagementAssumption
  <2>2. Minus(n, m) \in 0..MaxScore
    BY LeadTableAssumption DEF Minus
  <2> QED BY <2>1, <2>2
<1>4. NoAdd \in AdderRow /\ NoDecay \in DecayRow
  <2>1. 0 \in 0..MaxScore
    BY LeadTableAssumption
  <2> QED BY <1>1, <2>1 DEF NoAdd, NoDecay, AdderRow, DecayRow
<1> QED BY <1>1, <1>2, <1>3, <1>4

LEMMA AddTypes ==
  ASSUME db \in DbRow, EngagementOK, NEW a \in Adders, NEW e \in DOMAIN Points, AddEngagement(a, e)
  PROVE  adder' \in [Adders -> AdderRow]
<1>1. db.lead.score \in 0..MaxScore
  BY LeadFields DEF LeadRow
<1>2. [pc |-> "write", base |-> db.lead.score, event |-> e] \in AdderRow
  BY <1>1 DEF AdderRow
<1> QED BY <1>2 DEF AddEngagement, EngagementOK, AdderRow, Lead

\* What a step of the score leaves of the tables.
ScoreEffect ==
  /\ db' \in DbRow /\ StageKept
  /\ OnlyIn({"lead", "facts", "tracked"})

LEMMA RescoreWrite ==
  ASSUME db \in DbRow, NEW n \in 0..MaxScore, NEW k \in Nat,
         \/ db' = WithLead([Lead EXCEPT !.score = n, !.age = k])
         \/ db.lead.here /\ db' = [db EXCEPT !.lead = [db.lead EXCEPT !.score = n, !.age = k]]
  PROVE  /\ db' \in DbRow /\ StageKept /\ OnlyIn({"lead"})
         /\ db.lead.here => db'.lead.score = n /\ db'.lead.age = k
<1> DEFINE row == [db.lead EXCEPT !.score = n, !.age = k]
<1>1. db.lead \in LeadRow
  BY LeadFields
<1>2. row \in LeadRow /\ row.here = db.lead.here /\ row.stage = db.lead.stage /\ row.score = n /\ row.age = k
  BY <1>1 DEF LeadRow
<1> HIDE DEF row
<1>3. db' = WithLead(row)
  BY DEF row, WithLead, Lead
<1>4. /\ db' \in DbRow /\ OnlyIn({"lead"})
      /\ db'.lead = IF db.lead.here THEN row ELSE db.lead
  BY <1>2, <1>3, LeadWrite
<1> QED BY <1>2, <1>4 DEF StageKept

LEMMA WriteEngagementEffect ==
  ASSUME db \in DbRow, EngagementOK, NEW a \in Adders, WriteEngagement(a)
  PROVE  /\ ScoreEffect /\ EngagementOK' /\ OnlyIn({"lead"})
         /\ \/ db' = db /\ ledger' = ledger /\ Fault
            \/ /\ db.lead.here => db'.lead.score = Added(adder[a].base, adder[a].event) /\ db'.lead.age = 0
               /\ ledger' = [score |-> Added(ledger.score, adder[a].event), days |-> 0,
                             raced |-> ledger.raced \/ adder[a].base # Lead.score]
<1>0. adder[a] \in AdderRow /\ adder[a].base \in 0..MaxScore /\ adder[a].event \in DOMAIN Points
      /\ ledger.score \in 0..MaxScore /\ ledger.raced \in BOOLEAN
  BY DEF EngagementOK, AdderRow
<1>1. adder' \in [Adders -> AdderRow] /\ decayer' = decayer
  BY PointsAre DEF WriteEngagement, EngagementOK, AdderRow
<1>2. CASE db' = db /\ ledger' = ledger /\ Fault
  BY <1>1, <1>2, NoChange DEF ScoreEffect, EngagementOK, AdderRow, OnlyIn
<1>3. CASE /\ db' = WithLead([Lead EXCEPT !.score = Added(adder[a].base, adder[a].event), !.age = 0])
           /\ ledger' = [score |-> Added(ledger.score, adder[a].event), days |-> 0,
                         raced |-> ledger.raced \/ adder[a].base # Lead.score]
  <2>1. PICK n \in 0..MaxScore : n = Added(adder[a].base, adder[a].event)
    BY <1>0, PointsAre
  <2>2. /\ db' \in DbRow /\ StageKept /\ OnlyIn({"lead"})
        /\ db.lead.here => db'.lead.score = n /\ db'.lead.age = 0
    BY <1>3, <2>1, RescoreWrite
  <2>3. Added(ledger.score, adder[a].event) \in 0..MaxScore
    BY <1>0, PointsAre
  <2>4. (ledger.raced \/ adder[a].base # Lead.score) \in BOOLEAN
    OBVIOUS
  <2>5. ledger' \in [score : 0..MaxScore, days : Nat, raced : BOOLEAN]
    BY <1>3, <2>3, <2>4
  <2> QED BY <1>1, <1>3, <2>1, <2>2, <2>5 DEF ScoreEffect, EngagementOK, AdderRow, OnlyIn
<1> QED BY <1>2, <1>3 DEF WriteEngagement

LEMMA WriteDecayEffect ==
  ASSUME db \in DbRow, EngagementOK, NEW d \in Decayers, WriteDecay(d)
  PROVE  /\ ScoreEffect /\ EngagementOK' /\ OnlyIn({"lead"})
         /\ \/ db' = db /\ ledger' = ledger /\ Fault
            \/ /\ db.lead.here => /\ db'.lead.score = Minus(decayer[d].base, Decay * decayer[d].days)
                                  /\ db'.lead.age = 0
               /\ ledger' = [score |-> Minus(ledger.score, Decay * ledger.days), days |-> 0,
                             raced |-> \/ ledger.raced \/ decayer[d].base # Lead.score
                                       \/ decayer[d].days # Lead.age]
<1>0. decayer[d] \in DecayRow /\ decayer[d].base \in 0..MaxScore /\ decayer[d].days \in Nat
      /\ ledger.score \in 0..MaxScore /\ ledger.days \in Nat
  BY DEF EngagementOK, DecayRow
<1>1. decayer' \in [Decayers -> DecayRow] /\ adder' = adder
  BY PointsAre DEF WriteDecay, EngagementOK, DecayRow
<1>2. CASE db' = db /\ ledger' = ledger /\ Fault
  BY <1>1, <1>2, NoChange DEF ScoreEffect, EngagementOK, DecayRow, OnlyIn
<1>3. CASE /\ db' = WithLead(Decayed(Lead, decayer[d].base, decayer[d].days))
           /\ ledger' = [score |-> Minus(ledger.score, Decay * ledger.days), days |-> 0,
                         raced |-> \/ ledger.raced \/ decayer[d].base # Lead.score
                                   \/ decayer[d].days # Lead.age]
  <2>1. PICK n \in 0..MaxScore : n = Minus(decayer[d].base, Decay * decayer[d].days)
    BY <1>0, PointsAre
  <2>2. db' = WithLead([Lead EXCEPT !.score = n, !.age = 0])
    BY <1>3, <2>1 DEF Decayed
  <2>3. /\ db' \in DbRow /\ StageKept /\ OnlyIn({"lead"})
        /\ db.lead.here => db'.lead.score = n /\ db'.lead.age = 0
    BY <2>2, RescoreWrite
  <2>4. Minus(ledger.score, Decay * ledger.days) \in 0..MaxScore
    BY <1>0, PointsAre
  <2>5. (ledger.raced \/ decayer[d].base # Lead.score \/ decayer[d].days # Lead.age) \in BOOLEAN
    OBVIOUS
  <2>6. ledger' \in [score : 0..MaxScore, days : Nat, raced : BOOLEAN]
    BY <1>3, <2>4, <2>5
  <2> QED BY <1>1, <1>3, <2>1, <2>3, <2>6 DEF ScoreEffect, EngagementOK, DecayRow, OnlyIn
<1> QED BY <1>2, <1>3 DEF WriteDecay

LEMMA OtherScoreEffect ==
  ASSUME db \in DbRow, EngagementOK,
         \/ DayPasses \/ Track("opened") \/ Track("clicked")
         \/ \E d \in Decayers : ListForDecay(d)
  PROVE  /\ ScoreEffect /\ EngagementOK'
         /\ \/ ScoreKept /\ ledger' = ledger
            \/ DayPasses /\ db'.lead.score = db.lead.score /\ db'.lead.age = db.lead.age + 1
<1>0. db.lead \in LeadRow /\ db.lead.age \in Nat /\ db.lead.score \in 0..MaxScore
      /\ ledger \in [score : 0..MaxScore, days : Nat, raced : BOOLEAN]
  BY LeadFields DEF LeadRow, EngagementOK
<1>1. CASE DayPasses
  <2>1. db' = [db EXCEPT !.lead = [db.lead EXCEPT !.score = db.lead.score, !.age = db.lead.age + 1]]
    <3>1. [db.lead EXCEPT !.age = db.lead.age + 1]
          = [db.lead EXCEPT !.score = db.lead.score, !.age = db.lead.age + 1]
      BY <1>0 DEF LeadRow
    <3>2. db' = [db EXCEPT !.lead = [db.lead EXCEPT !.age = db.lead.age + 1]]
      BY <1>1, LeadFields DEF DayPasses
    <3> QED BY <3>1, <3>2
  <2>2. db.lead.age + 1 \in Nat /\ db.lead.here
    BY <1>0, <1>1 DEF DayPasses, Lead
  <2>3. /\ db' \in DbRow /\ StageKept /\ OnlyIn({"lead"})
        /\ db'.lead.score = db.lead.score /\ db'.lead.age = db.lead.age + 1
    BY <1>0, <2>1, <2>2, RescoreWrite
  <2>4. ledger' \in [score : 0..MaxScore, days : Nat, raced : BOOLEAN]
    BY <1>0, <1>1 DEF DayPasses
  <2>5. EngagementOK'
    BY <1>1, <2>4 DEF DayPasses, EngagementOK
  <2> QED BY <1>1, <2>3, <2>5 DEF ScoreEffect, OnlyIn
<1>2. ASSUME NEW fact \in {"opened", "clicked"}, Track(fact)
      PROVE  ScoreEffect /\ EngagementOK' /\ ScoreKept /\ ledger' = ledger
  <2>1. db' \in DbRow /\ OnlyIn({"facts", "tracked"})
    BY <1>2 DEF Track, WithFact, DbRow, OnlyIn, Tables, Facts, Lead
  <2>2. adder' \in [Adders -> AdderRow]
    BY <1>2, AddTypes, PointsAre DEF Track, Adders
  <2>3. EngagementOK'
    BY <1>2, <2>2 DEF Track, EngagementOK, AdderRow
  <2> QED BY <1>2, <2>1, <2>3 DEF ScoreEffect, OnlyIn, Tables, StageKept, ScoreKept, Track
<1>3. ASSUME NEW d \in Decayers, ListForDecay(d)
      PROVE  ScoreEffect /\ EngagementOK' /\ ScoreKept /\ ledger' = ledger
  <2>1. [pc |-> "write", base |-> db.lead.score, days |-> db.lead.age] \in DecayRow
    BY <1>0 DEF DecayRow
  <2>2. decayer' \in [Decayers -> DecayRow]
    BY <1>3, <2>1 DEF ListForDecay, EngagementOK, DecayRow, Lead
  <2>3. EngagementOK'
    BY <1>3, <2>2 DEF ListForDecay, EngagementOK, DecayRow
  <2> QED BY <1>3, <2>3, NoChange DEF ScoreEffect, OnlyIn, ListForDecay
<1> QED BY <1>1, <1>2, <1>3

LEMMA ScoreKeeps == ASSUME db \in DbRow, EngagementOK, EngagementStep PROVE ScoreEffect /\ EngagementOK'
BY WriteEngagementEffect, WriteDecayEffect, OtherScoreEffect
   DEF EngagementStep, TrackStep, DecayStep, Adders

-----------------------------------------------------------------------------
(* The replies.                                                             *)

RouterRow == [pc : {"idle", "status", "rules", "stage", "stop", "suppress", "cancel",
                    "mark", "score", "score2"}, class : Classes]
ScanRow == [pc : {"idle", "list", "look", "dedup", "store", "publish", "handlers"}, known : BOOLEAN,
            todo : SUBSET Msgs, at : Msgs \cup {"none"}, class : Classes]
MailRow == [state : MailStates, class : Classes]
Givens == {"never", "once", "again", "erased"}
\* The scan has a message in its hands.
InScan == {"dedup", "store", "publish", "handlers"}
ScanInv == scan.pc \in InScan => scan.at \in Msgs

\* One handler has made a call: the score and what was stored stay.
RouteEffect(w) ==
  /\ db' \in DbRow /\ OnlyIn({"lead", "place", "supp"}) /\ ScoreKept /\ PlaceClosed
  /\ \/ db'.lead.stage = db.lead.stage
     \/ router[w].pc = "stage" /\ db'.lead.stage \in {"hot", "unsubscribed", "lost"}
  /\ db.supp => db'.supp
  /\ router[w].pc = "suppress" => db'.supp \/ Fault
  /\ router' \in [Routers -> RouterRow]
  /\ \A v \in Routers \ {w} : router'[v] = router[v]
  /\ UNCHANGED <<mail, scan, optrule, given>>

LEMMA RouterMoves ==
  ASSUME router \in [Routers -> RouterRow], NEW w \in Routers, NEW r \in RouterRow,
         router' = [router EXCEPT ![w] = r]
  PROVE  /\ router' \in [Routers -> RouterRow] /\ router'[w] = r
         /\ \A v \in Routers \ {w} : router'[v] = router[v]
OBVIOUS

LEMMA RouterGoes ==
  ASSUME router \in [Routers -> RouterRow], NEW w \in Routers,
         NEW pc \in {"idle", "status", "rules", "stage", "stop", "suppress", "cancel",
                     "mark", "score", "score2"},
         To(w, pc)
  PROVE  /\ router' \in [Routers -> RouterRow] /\ router'[w].pc = pc
         /\ \A v \in Routers \ {w} : router'[v] = router[v]
<1>1. [router[w] EXCEPT !.pc = pc] \in RouterRow /\ [router[w] EXCEPT !.pc = pc].pc = pc
  BY DEF RouterRow
<1>2. router' = [router EXCEPT ![w] = [router[w] EXCEPT !.pc = pc]]
  BY DEF To
<1> QED BY <1>1, <1>2, RouterMoves

LEMMA RouteKeeps ==
  ASSUME db \in DbRow, router \in [Routers -> RouterRow], NEW w \in Routers, RouteStep(w)
  PROVE  RouteEffect(w)
<1>0. router[w] \in RouterRow /\ router[w].class \in Classes /\ RouteDone(w) \in {"score", "idle"}
  BY DEF RouterRow, RouteDone
<1>1. CASE UpdateStatus(w)
  <2>1. StatusFor(router[w].class) \in LeadStatuses
    BY DEF StatusFor, LeadStatuses
  <2>2. db' \in DbRow /\ OnlyIn({"lead"}) /\ ScoreKept /\ StageKept /\ PlaceClosed
    BY <1>1, <2>1, StatusWrite, NoChange DEF UpdateStatus, Call, OnlyIn
  <2> QED BY <1>1, <2>2, RouterGoes DEF UpdateStatus, RouteEffect, OnlyIn, Tables, StageKept
<1>2. CASE ReadRules(w)
  <2>1. router' \in [Routers -> RouterRow] /\ \A v \in Routers \ {w} : router'[v] = router[v]
    <3>1. CASE To(w, RouteDone(w))
      BY <1>0, <3>1, RouterGoes
    <3>2. CASE router' = [router EXCEPT ![w] =
                 [pc |-> IF ClassRouted(w) \in {"other", "out_of_office"} THEN RouteDone(w) ELSE "stage",
                  class |-> ClassRouted(w)]]
      <4>1. ClassRouted(w) \in Classes
        BY <1>0 DEF ClassRouted, Classes
      <4>2. [pc |-> IF ClassRouted(w) \in {"other", "out_of_office"} THEN RouteDone(w) ELSE "stage",
             class |-> ClassRouted(w)] \in RouterRow
        BY <1>0, <4>1 DEF RouterRow
      <4> QED BY <3>2, <4>2, RouterMoves
    <3> QED BY <1>2, <3>1, <3>2 DEF ReadRules
  <2> QED BY <1>2, <2>1, NoChange DEF ReadRules, RouteEffect, OnlyIn, StageKept
<1>3. CASE RouteStage(w)
  <2>1. StageFor(router[w].class) \in {"hot", "unsubscribed", "lost"}
        /\ StageFor(router[w].class) \in Stages
    BY DEF StageFor, Stages
  <2>2. db' \in DbRow /\ OnlyIn({"lead"}) /\ ScoreKept /\ PlaceClosed
        /\ db'.lead.stage \in {db.lead.stage, StageFor(router[w].class)}
    BY <1>3, <2>1, StageWrite, NoChange DEF RouteStage, Call, OnlyIn, StageKept
  <2>3. AfterStage(w, router[w].class) \in {"stop", "suppress", "score", "idle"}
    BY <1>0 DEF AfterStage
  <2>4. To(w, AfterStage(w, router[w].class))
    BY <1>3 DEF RouteStage
  <2>5. router' \in [Routers -> RouterRow] /\ \A v \in Routers \ {w} : router'[v] = router[v]
    BY <2>3, <2>4, RouterGoes
  <2> QED BY <1>3, <2>1, <2>2, <2>5 DEF RouteStage, RouteEffect, OnlyIn, Tables
<1>4. CASE StopSequence(w) \/ CancelSends(w)
  <2>1. db' \in DbRow /\ OnlyIn({"place"}) /\ ScoreKept /\ StageKept /\ PlaceClosed
    BY <1>4, PlaceWrite, NoChange DEF StopSequence, CancelSends, Call, OnlyIn, Closed
  <2>2. router' \in [Routers -> RouterRow] /\ \A v \in Routers \ {w} : router'[v] = router[v]
    BY <1>0, <1>4, RouterGoes DEF StopSequence, CancelSends
  <2> QED BY <1>4, <2>1, <2>2 DEF StopSequence, CancelSends, RouteEffect, OnlyIn, Tables, StageKept
<1>5. CASE MarkUnsubscribed(w)
  <2>1. db' \in DbRow /\ OnlyIn({"lead"}) /\ ScoreKept /\ StageKept /\ PlaceClosed
    BY <1>5, StatusWrite, NoChange DEF MarkUnsubscribed, Call, OnlyIn, LeadStatuses
  <2>2. router' \in [Routers -> RouterRow] /\ \A v \in Routers \ {w} : router'[v] = router[v]
    BY <1>0, <1>5, RouterGoes DEF MarkUnsubscribed
  <2> QED BY <1>5, <2>1, <2>2 DEF MarkUnsubscribed, RouteEffect, OnlyIn, Tables, StageKept
<1>6. CASE Suppress(w)
  <2>1. db' \in DbRow /\ OnlyIn({"supp"}) /\ (db.supp => db'.supp) /\ (db'.supp \/ Fault)
    BY <1>6, NoChange DEF Suppress, Call, OnlyIn, DbRow, Tables
  <2>2. ScoreKept /\ StageKept /\ PlaceClosed
    BY <2>1, OtherWrite DEF OnlyIn, Tables
  <2>3. router' \in [Routers -> RouterRow] /\ \A v \in Routers \ {w} : router'[v] = router[v]
    BY <1>6, RouterGoes DEF Suppress
  <2> QED BY <1>6, <2>1, <2>2, <2>3 DEF Suppress, RouteEffect, OnlyIn, Tables, StageKept
<1> QED BY <1>1, <1>2, <1>3, <1>4, <1>5, <1>6 DEF RouteStep

\* What the scan and the mailbox leave, but for the handlers.
MailEffectOnly ==
  /\ db' \in DbRow /\ OnlyIn({"replies"})
  /\ RepliesOK' /\ ScanInv'
  /\ router'["link"] = router["link"]

LEMMA RepliesRows ==
  /\ RepliesOK <=> /\ mail \in [Msgs -> MailRow] /\ scan \in ScanRow
                   /\ router \in [Routers -> RouterRow] /\ optrule \in BOOLEAN
                   /\ given \in [Msgs -> Givens]
  /\ RepliesOK' <=> /\ mail' \in [Msgs -> MailRow] /\ scan' \in ScanRow
                    /\ router' \in [Routers -> RouterRow] /\ optrule' \in BOOLEAN
                    /\ given' \in [Msgs -> Givens]
BY DEF RepliesOK, MailRow, ScanRow, RouterRow, Givens

LEMMA IdleScanIs == IdleScan \in ScanRow /\ IdleScan.pc = "idle"
BY DEF IdleScan, ScanRow, Classes

LEMMA ScanPasses ==
  ASSUME scan \in ScanRow, NEW m \in Msgs
  PROVE  /\ Passed(m) \in ScanRow /\ Passed(m).pc = "look"
         /\ AtMessage(m) \in ScanRow /\ AtMessage(m).pc = "dedup" /\ AtMessage(m).at = m
BY DEF Passed, AtMessage, ScanRow

LEMMA ScanGoes ==
  ASSUME scan \in ScanRow, NEW pc \in {"list", "look", "store", "publish", "handlers"}, NEW c \in Classes
  PROVE  /\ [scan EXCEPT !.pc = pc] \in ScanRow /\ [scan EXCEPT !.pc = pc].pc = pc
         /\ [scan EXCEPT !.pc = pc].at = scan.at
         /\ [scan EXCEPT !.pc = pc, !.class = c] \in ScanRow
         /\ [scan EXCEPT !.pc = pc, !.class = c].pc = pc
         /\ [scan EXCEPT !.pc = pc, !.class = c].at = scan.at
BY DEF ScanRow

\* What is stored becomes part of the table, and goes on to be published.
StoredBy ==
  /\ scan'.pc = "publish" => scan'.at = scan.at /\ given' = given /\ db'.replies[scan.at] > 0
  /\ ~Fault => scan'.pc = "publish" \/ (db' = db /\ given' = [given EXCEPT ![scan.at] = "erased"])

LEMMA StoreEffect ==
  ASSUME db \in DbRow, RepliesOK, ScanInv, Store
  PROVE  /\ MailEffectOnly /\ mail' = mail /\ scan.at \in Msgs /\ scan'.pc \in {"publish", "look"}
         /\ given' \in {given, [given EXCEPT ![scan.at] = "erased"]}
         /\ db.replies \in [Msgs -> Nat] /\ db'.replies \in [Msgs -> Nat]
         /\ \A m \in Msgs : /\ db'.replies[m] >= db.replies[m]
                            /\ m # scan.at => db'.replies[m] = db.replies[m]
         /\ StoredBy
<1>0. /\ scan \in ScanRow /\ scan.at \in Msgs /\ mail[scan.at].class \in Classes /\ scan.pc = "store"
      /\ given \in [Msgs -> Givens] /\ router' = router /\ mail' = mail /\ optrule' = optrule
      /\ db.replies \in [Msgs -> 0..2]
  BY RepliesRows DEF Store, ScanInv, InScan, MailRow, DbRow
<1>1. /\ scan' \in ScanRow /\ scan'.pc \in {"publish", "look"}
      /\ scan'.pc = "publish" => scan'.at = scan.at
      /\ scan' # Passed(scan.at) => scan'.pc = "publish"
      /\ Passed(scan.at).pc = "look"
  <2>1. "other" \in Classes
    BY DEF Classes
  <2>2. \/ scan' = Passed(scan.at)
        \/ \E c \in Classes : scan' = [scan EXCEPT !.pc = "publish", !.class = c]
    BY <1>0, <2>1 DEF Store
  <2>3. Passed(scan.at) \in ScanRow /\ Passed(scan.at).pc = "look"
    BY <1>0, ScanPasses
  <2>4. ASSUME NEW c \in Classes, scan' = [scan EXCEPT !.pc = "publish", !.class = c]
        PROVE  scan' \in ScanRow /\ scan'.pc = "publish" /\ scan'.at = scan.at
    BY <1>0, <2>4, ScanGoes
  <2> QED BY <2>2, <2>3, <2>4
<1>2. ScanInv'
  BY <1>0, <1>1 DEF ScanInv, InScan
<1>3. given' \in {given, [given EXCEPT ![scan.at] = "erased"]} /\ given' \in [Msgs -> Givens]
  BY <1>0 DEF Store, Givens
<1>4. RepliesOK'
  BY <1>0, <1>1, <1>3, RepliesRows
<1>5. \A n \in 0..2 : OneMore(n) \in 0..2 /\ OneMore(n) >= n /\ OneMore(n) > 0
  BY DEF OneMore
<1>6. CASE db' = db /\ scan' = Passed(scan.at)
  <2>1. MailEffectOnly
    BY <1>0, <1>2, <1>4, <1>6, NoChange DEF MailEffectOnly, OnlyIn
  <2>2. \A m \in Msgs : db.replies[m] \in Nat /\ db.replies[m] >= db.replies[m]
    BY <1>0
  <2>3. StoredBy
    <3>1. CASE Fault
      BY <1>1, <1>6, <3>1 DEF StoredBy
    <3>2. CASE ~Fault
      <4>1. \/ scan' = [scan EXCEPT !.pc = "publish", !.class = mail[scan.at].class]
            \/ given' = [given EXCEPT ![scan.at] = "erased"]
        BY <3>2 DEF Store
      <4>2. [scan EXCEPT !.pc = "publish", !.class = mail[scan.at].class].pc = "publish"
        BY <1>0 DEF ScanRow
      <4>3. scan'.pc # "publish"
        BY <1>1, <1>6
      <4> QED BY <1>6, <4>1, <4>2, <4>3 DEF StoredBy
    <3> QED BY <3>1, <3>2
  <2> QED BY <1>0, <1>1, <1>3, <1>6, <2>1, <2>2, <2>3
<1>7. CASE db' = [db EXCEPT !.replies[scan.at] = OneMore(@)] /\ Lead.here
  <2>1. db' = [db EXCEPT !.replies = [db.replies EXCEPT ![scan.at] = OneMore(db.replies[scan.at])]]
    BY <1>7
  <2>2. [db.replies EXCEPT ![scan.at] = OneMore(db.replies[scan.at])] \in [Msgs -> 0..2]
    BY <1>0, <1>5
  <2>3. /\ db' \in DbRow /\ OnlyIn({"replies"})
        /\ db'.replies = [db.replies EXCEPT ![scan.at] = OneMore(db.replies[scan.at])]
    BY <2>1, <2>2 DEF DbRow, OnlyIn, Tables
  <2>4. /\ db'.replies[scan.at] > 0 /\ db'.replies \in [Msgs -> 0..2]
        /\ \A m \in Msgs : db'.replies[m] >= db.replies[m] /\ (m # scan.at => db'.replies[m] = db.replies[m])
    BY <1>0, <1>5, <2>2, <2>3
  <2>5. MailEffectOnly
    BY <1>0, <1>2, <1>4, <2>3 DEF MailEffectOnly
  <2>6. given' = given
    BY <1>0, <1>7 DEF Store
  <2>7. ~Fault => scan'.pc = "publish"
    <3>1. \A c \in {mail[scan.at].class, "other"} : [scan EXCEPT !.pc = "publish", !.class = c].pc = "publish"
      BY <1>0 DEF ScanRow
    <3>2. ~Fault => scan' = [scan EXCEPT !.pc = "publish", !.class = mail[scan.at].class]
      BY <1>7 DEF Store
    <3> QED BY <3>1, <3>2
  <2>8. StoredBy
    BY <1>1, <2>4, <2>6, <2>7 DEF StoredBy
  <2> QED BY <1>0, <1>1, <1>3, <2>4, <2>5, <2>8
<1> QED BY <1>0, <1>6, <1>7 DEF Store

LEMMA FetchEffect ==
  ASSUME db \in DbRow, RepliesOK, ScanInv, NEW m \in Msgs, Fetch(m)
  PROVE  /\ MailEffectOnly /\ db' = db /\ given' = given
         /\ scan.pc = "look" /\ scan'.pc \in {"dedup", "look"} /\ (scan'.pc = "dedup" => scan'.at = m)
         /\ \A n \in Msgs \ {m} : mail'[n] = mail[n]
         /\ ~Fault /\ mail'[m].state = "fetched" => scan'.pc = "dedup"
<1>0. mail \in [Msgs -> MailRow] /\ scan \in ScanRow /\ mail[m] \in MailRow
  BY RepliesRows
<1>1. /\ scan' \in {Passed(m), AtMessage(m)} /\ scan' \in ScanRow
      /\ scan'.pc \in {"dedup", "look"} /\ (scan'.pc = "dedup" => scan'.at = m)
  BY <1>0, ScanPasses DEF Fetch
<1>2. mail' = mail \/ \E s \in {"fetched", "passed"} : mail' = [mail EXCEPT ![m] = [mail[m] EXCEPT !.state = s]]
  BY DEF Fetch, Marked
<1>3. \A s \in {"fetched", "passed"} : [mail[m] EXCEPT !.state = s] \in MailRow
  BY <1>0 DEF MailRow, MailStates
<1>4. mail' \in [Msgs -> MailRow] /\ \A n \in Msgs \ {m} : mail'[n] = mail[n]
  BY <1>0, <1>2, <1>3
<1>5. ~Fault /\ mail'[m].state = "fetched" => scan'.pc = "dedup"
  <2>1. CASE Marked(m, "passed")
    <3>1. mail'[m].state = "passed"
      BY <1>0, <2>1 DEF Marked, MailRow
    <3> QED BY <3>1
  <2>2. CASE scan' = AtMessage(m)
    BY <1>0, <2>2, ScanPasses
  <2> QED BY <2>1, <2>2 DEF Fetch
<1>6. RepliesOK' /\ ScanInv'
  BY <1>0, <1>1, <1>4, RepliesRows DEF Fetch, ScanInv, InScan
<1> QED BY <1>0, <1>1, <1>4, <1>5, <1>6, NoChange DEF Fetch, MailEffectOnly, OnlyIn

LEMMA LookUpEffect ==
  ASSUME db \in DbRow, RepliesOK, ScanInv, LookUp
  PROVE  /\ MailEffectOnly /\ UNCHANGED <<db, mail, given>>
         /\ scan.pc = "dedup" /\ scan.at \in Msgs
         /\ \/ scan'.pc = "look" /\ Known(scan.at)
            \/ scan'.pc = "store" /\ scan'.at = scan.at /\ (~Known(scan.at) \/ Fault)
<1>0. scan \in ScanRow /\ scan.at \in Msgs /\ scan.pc = "dedup"
  BY RepliesRows DEF LookUp, ScanInv, InScan
<1>00. "other" \in Classes
  BY DEF Classes
<1>1. /\ scan' \in ScanRow
      /\ \/ scan'.pc = "look" /\ Known(scan.at)
         \/ scan'.pc = "store" /\ scan'.at = scan.at /\ (~Known(scan.at) \/ Fault)
  <2>1. Passed(scan.at) \in ScanRow /\ Passed(scan.at).pc = "look"
    BY <1>0, ScanPasses
  <2>2. /\ [scan EXCEPT !.pc = "store"] \in ScanRow /\ [scan EXCEPT !.pc = "store"].pc = "store"
        /\ [scan EXCEPT !.pc = "store"].at = scan.at
    BY <1>0, <1>00, ScanGoes
  <2> QED BY <2>1, <2>2 DEF LookUp
<1>2. RepliesOK' /\ ScanInv'
  BY <1>0, <1>1, RepliesRows DEF LookUp, ScanInv, InScan
<1> QED BY <1>0, <1>1, <1>2, NoChange DEF LookUp, MailEffectOnly, OnlyIn

LEMMA PublishEffect ==
  ASSUME db \in DbRow, RepliesOK, ScanInv, Publish
  PROVE  /\ MailEffectOnly /\ UNCHANGED <<db, mail>>
         /\ scan.pc = "publish" /\ scan.at \in Msgs /\ scan'.pc = "handlers" /\ scan'.at = scan.at
         /\ given' = [given EXCEPT ![scan.at] = Handed(@)]
         /\ given'[scan.at] # "never"
<1>0. /\ scan \in ScanRow /\ scan.at \in Msgs /\ scan.pc = "publish" /\ scan.class \in Classes
      /\ given \in [Msgs -> Givens] /\ router \in [Routers -> RouterRow]
  BY RepliesRows DEF Publish, ScanInv, InScan, ScanRow
<1>1. scan' \in ScanRow /\ scan'.pc = "handlers" /\ scan'.at = scan.at
  BY <1>0, ScanGoes DEF Publish
<1>2. router' \in [Routers -> RouterRow] /\ router'["link"] = router["link"]
  <2>1. [pc |-> "status", class |-> scan.class] \in RouterRow
    BY <1>0 DEF RouterRow
  <2> QED BY <1>0, <2>1 DEF Publish, Routers
<1>3. given' \in [Msgs -> Givens] /\ given'[scan.at] # "never"
  BY <1>0 DEF Publish, Handed, Givens
<1>4. RepliesOK' /\ ScanInv'
  BY <1>0, <1>1, <1>2, <1>3, RepliesRows DEF Publish, ScanInv
<1> QED BY <1>0, <1>1, <1>2, <1>3, <1>4, NoChange DEF Publish, MailEffectOnly, OnlyIn

\* The other steps leave what was stored and handed on, and mark no message as
\* one of the lead's.
OtherMailStep ==
  \/ ListLeads \/ ListUnseen \/ Published \/ Scanned \/ BumpEngagement \/ ScanKilled \/ MailboxStep
  \/ \E m \in Msgs : RescueSpam(m)

LEMMA MailboxRows ==
  ASSUME RepliesOK, MailboxStep \/ \E m \in Msgs : RescueSpam(m)
  PROVE  /\ mail' \in [Msgs -> MailRow]
         /\ \A n \in Msgs : mail'[n].state = "fetched" => mail[n].state = "fetched"
<1>0. mail \in [Msgs -> MailRow]
  BY RepliesRows
<1>00. "other" \in Classes
  BY DEF Classes
<1>1. ASSUME NEW m \in Msgs, NEW row \in MailRow, row.state # "fetched", mail' = [mail EXCEPT ![m] = row]
      PROVE  /\ mail' \in [Msgs -> MailRow]
             /\ \A n \in Msgs : mail'[n].state = "fetched" => mail[n].state = "fetched"
  BY <1>0, <1>1
<1>2. ASSUME NEW m \in Msgs, NEW st \in {"passed", "read", "unseen"}, Marked(m, st)
      PROVE  /\ mail' \in [Msgs -> MailRow]
             /\ \A n \in Msgs : mail'[n].state = "fetched" => mail[n].state = "fetched"
  <2>1. /\ [mail[m] EXCEPT !.state = st] \in MailRow /\ [mail[m] EXCEPT !.state = st].state # "fetched"
        /\ mail' = [mail EXCEPT ![m] = [mail[m] EXCEPT !.state = st]]
    BY <1>0, <1>2 DEF MailRow, MailStates, Marked
  <2> QED BY <1>1, <2>1
<1>3. ASSUME NEW m \in Msgs, NEW c \in Classes, Arrive(m, c)
      PROVE  /\ mail' \in [Msgs -> MailRow]
             /\ \A n \in Msgs : mail'[n].state = "fetched" => mail[n].state = "fetched"
  <2>1. \A st \in {"unseen", "spam"} : [state |-> st, class |-> c] \in MailRow
    BY DEF MailRow, MailStates
  <2>2. PICK st \in {"unseen", "spam"} : mail' = [mail EXCEPT ![m] = [state |-> st, class |-> c]]
    BY <1>3 DEF Arrive
  <2> QED BY <1>1, <2>1, <2>2
<1>4. ASSUME NEW m \in Msgs, ReadInGmail(m) \/ MarkUnread(m) \/ RescueSpam(m)
      PROVE  \E st \in {"passed", "read", "unseen"} : Marked(m, st)
  BY <1>4 DEF ReadInGmail, MarkUnread, RescueSpam
<1>5. CASE PatchRule \/ \E c \in Classes : RouteByHand(c)
  BY <1>0, <1>5 DEF PatchRule, RouteByHand
<1> QED BY <1>2, <1>3, <1>4, <1>5 DEF MailboxStep

LEMMA OtherMailEffect ==
  ASSUME db \in DbRow, RepliesOK, ScanInv, OtherMailStep
  PROVE  /\ MailEffectOnly /\ db' = db /\ given' = given /\ (scan'.pc \in InScan => scan' = scan)
         /\ \A n \in Msgs : mail'[n].state = "fetched" => mail[n].state = "fetched"
<1>0. mail \in [Msgs -> MailRow] /\ scan \in ScanRow /\ router \in [Routers -> RouterRow]
  BY RepliesRows
<1>00. "other" \in Classes
  BY DEF Classes
<1>1. CASE ListLeads \/ ListUnseen \/ Published \/ Scanned
  <2>0. IdleScan \in ScanRow /\ IdleScan.pc = "idle"
    BY IdleScanIs
  <2>1. scan' \in ScanRow /\ scan'.pc \notin InScan
    <3>1. CASE ListLeads
      <4>1. db.lead.here \in BOOLEAN
        BY LeadFields DEF LeadRow
      <4> QED BY <2>0, <3>1, <4>1 DEF ListLeads, Lead, ScanRow, InScan
    <3>2. CASE ListUnseen
      <4>1. {m \in Msgs : Unread(m)} \in SUBSET Msgs
        OBVIOUS
      <4> QED BY <1>0, <3>2, <4>1 DEF ListUnseen, ScanRow, InScan
    <3>3. CASE Published
      BY <1>0, <3>3 DEF Published, Passed, ScanRow, InScan
    <3>4. CASE Scanned
      BY <2>0, <3>4 DEF Scanned, InScan
    <3> QED BY <1>1, <3>1, <3>2, <3>3, <3>4
  <2>2. UNCHANGED <<db, mail, router, optrule, given>>
    BY <1>1 DEF ListLeads, ListUnseen, Published, Scanned
  <2>3. RepliesOK' /\ ScanInv'
    BY <2>1, <2>2, RepliesRows DEF ScanInv
  <2> QED BY <2>1, <2>2, <2>3, NoChange DEF MailEffectOnly, OnlyIn
<1>2. CASE BumpEngagement
  <2>1. router' \in [Routers -> RouterRow] /\ \A v \in Routers \ {"scan"} : router'[v] = router[v]
    <3>1. PICK pc \in {"score2", "idle"} : To("scan", pc)
      BY <1>2 DEF BumpEngagement
    <3> QED BY <1>0, <3>1, RouterGoes DEF Routers
  <2>2. RepliesOK' /\ ScanInv'
    BY <1>2, <2>1, RepliesRows DEF BumpEngagement, ScanInv
  <2> QED BY <1>2, <2>1, <2>2, NoChange DEF MailEffectOnly, OnlyIn, BumpEngagement, Routers
<1>3. CASE ScanKilled
  <2>1. scan' \in ScanRow /\ scan'.pc \notin InScan
    BY <1>3, IdleScanIs DEF ScanKilled, InScan
  <2>2. IdleRouter \in RouterRow
    BY <1>00 DEF IdleRouter, RouterRow
  <2>3. router' \in [Routers -> RouterRow] /\ router'["link"] = router["link"]
    BY <1>0, <1>3, <2>2 DEF ScanKilled, Routers
  <2>4. RepliesOK' /\ ScanInv'
    BY <1>3, <2>1, <2>3, RepliesRows DEF ScanKilled, ScanInv
  <2> QED BY <1>3, <2>1, <2>3, <2>4, NoChange DEF MailEffectOnly, OnlyIn, ScanKilled
<1>4. CASE MailboxStep \/ \E m \in Msgs : RescueSpam(m)
  <2>1. /\ mail' \in [Msgs -> MailRow]
        /\ \A n \in Msgs : mail'[n].state = "fetched" => mail[n].state = "fetched"
    BY <1>4, MailboxRows
  <2>2. scan' = scan /\ db' = db /\ given' = given
    BY <1>4 DEF MailboxStep, PatchRule, RouteByHand, ReadInGmail, MarkUnread, Arrive, RescueSpam
  <2>3. router' \in [Routers -> RouterRow] /\ router'["link"] = router["link"]
    BY <1>0, <1>4
       DEF MailboxStep, PatchRule, RouteByHand, ReadInGmail, MarkUnread, Arrive, RescueSpam, Routers, RouterRow
  <2>4. optrule' \in BOOLEAN
    BY <1>4
       DEF MailboxStep, PatchRule, RouteByHand, ReadInGmail, MarkUnread, Arrive, RescueSpam, RepliesOK
  <2>5. RepliesOK' /\ ScanInv'
    BY <1>0, <2>1, <2>2, <2>3, <2>4, RepliesRows DEF ScanInv
  <2> QED BY <2>1, <2>2, <2>3, <2>5, NoChange DEF MailEffectOnly, OnlyIn
<1> QED BY <1>1, <1>2, <1>3, <1>4 DEF OtherMailStep

LEMMA MailKeeps ==
  ASSUME db \in DbRow, RepliesOK, ScanInv, ScanStep \/ MailboxStep \/ BumpEngagement \/ ScanKilled
  PROVE  MailEffectOnly
BY StoreEffect, FetchEffect, LookUpEffect, PublishEffect, OtherMailEffect DEF ScanStep, OtherMailStep

-----------------------------------------------------------------------------
(* The bounces and the enrichment.                                          *)

DsnRow == [state : {"none", "fresh", "old"}, kind : DsnKinds]
HandlerRow == [pc : {"idle", "take", "log", "lead", "halt", "event"}, todo : SUBSET Dsns, type : DsnKinds]

BounceEffect ==
  /\ db' \in DbRow /\ BouncesOK'
  /\ OnlyIn({"lead", "place", "soft", "hard", "facts"}) /\ ScoreKept /\ StageKept /\ PlaceClosed

LEMMA BouncesRows ==
  /\ BouncesOK <=> /\ dsn \in [Dsns -> DsnRow] /\ bscan \in [Handlers -> HandlerRow] /\ db.soft <= Strikes
  /\ BouncesOK' <=> /\ dsn' \in [Dsns -> DsnRow] /\ bscan' \in [Handlers -> HandlerRow] /\ db'.soft <= Strikes
BY DEF BouncesOK, DsnRow, HandlerRow

LEMMA HandlerGoes ==
  ASSUME BouncesOK, NEW h \in Handlers,
         NEW pc \in {"idle", "take", "log", "lead", "halt", "event"}, Goes(h, pc)
  PROVE  bscan' \in [Handlers -> HandlerRow]
BY BouncesRows DEF Goes, HandlerRow

LEMMA HandlerEffect ==
  ASSUME db \in DbRow, BouncesOK, NEW h \in Handlers,
         LogBounce(h) \/ MarkLead(h) \/ HaltCampaign(h) \/ WriteEvent(h)
  PROVE  BounceEffect
<1>0. dsn \in [Dsns -> DsnRow] /\ bscan[h] \in HandlerRow /\ db.soft <= Strikes /\ db.soft \in Nat
  BY BouncesRows DEF DbRow
<1>1. bscan' \in [Handlers -> HandlerRow] /\ dsn' = dsn
  BY HandlerGoes DEF LogBounce, MarkLead, HaltCampaign, WriteEvent
<1>2. ASSUME db' \in DbRow, OnlyIn({"lead", "place", "facts"}), ScoreKept, StageKept, PlaceClosed
      PROVE  BounceEffect
  <2>1. db'.soft = db.soft
    BY <1>2 DEF OnlyIn, Tables
  <2>2. OnlyIn({"lead", "place", "soft", "hard", "facts"})
    BY <1>2 DEF OnlyIn
  <2> QED BY <1>0, <1>1, <1>2, <2>1, <2>2, BouncesRows DEF BounceEffect
<1>3. CASE db' = db
  BY <1>2, <1>3, NoChange DEF OnlyIn
<1>4. CASE LogBounce(h) /\ db' = Logged(bscan[h].type)
  <2>1. db' \in DbRow /\ OnlyIn({"soft", "hard"}) /\ db'.soft <= Strikes
    <3>1. CASE db' = [db EXCEPT !.hard = TRUE]
      BY <1>0, <3>1 DEF DbRow, OnlyIn, Tables
    <3>2. CASE db' = [db EXCEPT !.soft = IF db.soft < Strikes THEN db.soft + 1 ELSE db.soft]
      <4>1. PICK n \in Nat : n = (IF db.soft < Strikes THEN db.soft + 1 ELSE db.soft) /\ n <= Strikes
        BY <1>0, BouncesAssumption
      <4>2. db' = [db EXCEPT !.soft = n]
        BY <3>2, <4>1
      <4>3. db' \in DbRow /\ OnlyIn({"soft"}) /\ db'.soft = n
        BY <4>2 DEF DbRow, OnlyIn, Tables
      <4> QED BY <4>1, <4>3 DEF OnlyIn
    <3> QED BY <1>4, <3>1, <3>2 DEF Logged
  <2>2. ScoreKept /\ StageKept /\ PlaceClosed
    BY <2>1, OtherWrite DEF OnlyIn, Tables
  <2> QED BY <1>0, <1>1, <2>1, <2>2, BouncesRows DEF BounceEffect, OnlyIn
<1>5. ASSUME NEW s \in LeadStatuses, Lead.here, db' = [db EXCEPT !.lead.status = s] PROVE BounceEffect
  <2>1. db' = WithLead([Lead EXCEPT !.status = s])
    BY <1>5 DEF WithLead, Lead
  <2>2. db' \in DbRow /\ OnlyIn({"lead"}) /\ ScoreKept /\ StageKept /\ PlaceClosed
    BY <2>1, StatusWrite
  <2> QED BY <1>2, <2>2 DEF OnlyIn
<1>6. CASE db' = WithPlaceClosed("bounced")
  BY <1>2, <1>6, PlaceWrite DEF OnlyIn, Closed
<1>7. CASE db' = WithFact("bounced")
  BY <1>2, <1>7, FactWrite DEF OnlyIn, Facts
<1>8. {"soft_bounced", "bounced"} \subseteq LeadStatuses
  BY DEF LeadStatuses
<1> QED BY <1>3, <1>4, <1>5, <1>6, <1>7, <1>8 DEF LogBounce, MarkLead, HaltCampaign, WriteEvent, Call

LEMMA BouncesKeep == ASSUME db \in DbRow, BouncesOK, BouncesStep PROVE BounceEffect
<1>0. dsn \in [Dsns -> DsnRow] /\ bscan \in [Handlers -> HandlerRow] /\ db.soft <= Strikes
  BY BouncesRows
<1>1. ASSUME NEW h \in Handlers, LogBounce(h) \/ MarkLead(h) \/ HaltCampaign(h) \/ WriteEvent(h)
      PROVE  BounceEffect
  BY <1>1, HandlerEffect
<1>2. ASSUME db' = db, dsn' \in [Dsns -> DsnRow], bscan' \in [Handlers -> HandlerRow] PROVE BounceEffect
  BY <1>0, <1>2, BouncesRows, NoChange DEF BounceEffect, OnlyIn
<1>3. IdleHandler \in HandlerRow
  BY DEF IdleHandler, HandlerRow, DsnKinds
<1>4. ASSUME NEW h \in Handlers, ListBounces(h) \/ BouncesScanned(h) \/ HandlerKilled(h)
      PROVE  BounceEffect
  <2>1. Recent \in SUBSET Dsns
    BY DEF Recent
  <2>2. [IdleHandler EXCEPT !.pc = "take", !.todo = Recent] \in HandlerRow
    BY <1>3, <2>1 DEF HandlerRow
  <2>3. bscan' \in [Handlers -> HandlerRow]
    BY <1>0, <1>3, <1>4, <2>2 DEF ListBounces, BouncesScanned, HandlerKilled
  <2> QED BY <1>0, <1>2, <1>4, <2>3 DEF ListBounces, BouncesScanned, HandlerKilled
<1>5. ASSUME NEW h \in Handlers, NEW d \in Dsns, TakeBounce(h, d) PROVE BounceEffect
  <2>1. bscan[h] \in HandlerRow /\ dsn[d].kind \in DsnKinds
    BY <1>0 DEF DsnRow
  <2>2. \A n : Escalated(dsn[d].kind, n) \in DsnKinds
    BY <2>1 DEF Escalated, DsnKinds
  <2>3. \A n : [pc |-> "log", todo |-> bscan[h].todo \ {d}, type |-> Escalated(dsn[d].kind, n)] \in HandlerRow
    BY <2>1, <2>2 DEF HandlerRow
  <2>4. PICK n : bscan' = [bscan EXCEPT ![h] =
               [pc |-> "log", todo |-> bscan[h].todo \ {d}, type |-> Escalated(dsn[d].kind, n)]]
    BY <1>5 DEF TakeBounce, AlreadyProcessed
  <2>5. bscan' \in [Handlers -> HandlerRow]
    BY <1>0, <2>3, <2>4
  <2> QED BY <1>0, <1>2, <1>5, <2>5 DEF TakeBounce
<1>6. ASSUME NEW d \in Dsns, NEW kind \in DsnKinds, DsnAges(d) \/ DsnArrives(d, kind) PROVE BounceEffect
  <2>1. dsn' \in [Dsns -> DsnRow]
    BY <1>0, <1>6 DEF DsnAges, DsnArrives, DsnRow
  <2> QED BY <1>0, <1>2, <1>6, <2>1 DEF DsnAges, DsnArrives
<1> QED BY <1>1, <1>4, <1>5, <1>6 DEF BouncesStep, HandlerStep, DsnKinds

\* Only an erasure takes a bounce out of bounce_log.
LEMMA HardStays == ASSUME db \in DbRow, BouncesStep PROVE db.hard => db'.hard
<1>1. ASSUME NEW h \in Handlers, HandlerStep(h) PROVE db.hard => db'.hard
  <2>1. CASE LogBounce(h)
    BY <2>1 DEF LogBounce, Logged, Call, DbRow
  <2>2. CASE MarkLead(h) \/ HaltCampaign(h) \/ WriteEvent(h)
    BY <2>2 DEF MarkLead, HaltCampaign, WriteEvent, WithPlaceClosed, WithFact, Call, DbRow, LeadRow, PlaceRow
  <2>3. CASE ListBounces(h) \/ BouncesScanned(h) \/ (\E d \in Dsns : TakeBounce(h, d))
    BY <2>3 DEF ListBounces, BouncesScanned, TakeBounce
  <2> QED BY <1>1, <2>1, <2>2, <2>3 DEF HandlerStep
<1>2. ASSUME NEW h \in Handlers, HandlerKilled(h) PROVE db' = db
  BY <1>2 DEF HandlerKilled
<1>3. ASSUME NEW d \in Dsns, NEW kind \in DsnKinds, DsnAges(d) \/ DsnArrives(d, kind) PROVE db' = db
  BY <1>3 DEF DsnAges, DsnArrives
<1> QED BY <1>1, <1>2, <1>3 DEF BouncesStep, DsnKinds

WorkerRow == [pc : {"idle", "claim", "load", "flush", "complete", "fail"}, job : [id : Nat, attempts : Nat]]

LEMMA JobWrite ==
  ASSUME db \in DbRow, NEW r \in JobRow, db' = [db EXCEPT !.job = r]
  PROVE  db' \in DbRow /\ OnlyIn({"job"})
BY DEF DbRow, OnlyIn, Tables

LEMMA EnrichmentKeeps ==
  ASSUME db \in DbRow, EnrichmentOK, EnrichmentStep
  PROVE  db' \in DbRow /\ EnrichmentOK' /\ OnlyIn({"job"})
<1>0. worker \in [Workers -> WorkerRow] /\ db.job \in JobRow
  BY LeadFields DEF EnrichmentOK, WorkerRow
<1>1. IdleWorker \in WorkerRow
  BY DEF IdleWorker, WorkerRow, NoJob
<1>2. CASE Enqueue
  <2>1. PICK r \in JobRow : db' = [db EXCEPT !.job = r]
    <3>1. [id |-> db.job.id + 1, status |-> "pending", attempts |-> 0] \in JobRow
      BY <1>0 DEF JobRow, JobStatuses
    <3> QED BY <1>0, <1>2, <3>1 DEF Enqueue, Queued
  <2> QED BY <1>2, <2>1, JobWrite DEF Enqueue, EnrichmentOK
<1>3. ASSUME NEW w \in Workers, FetchJob(w) PROVE db' = db /\ worker' \in [Workers -> WorkerRow]
  <2>1. db.job.id \in Nat /\ db.job.attempts \in Nat
    BY <1>0 DEF JobRow
  <2>2. [id |-> db.job.id, attempts |-> db.job.attempts] \in [id : Nat, attempts : Nat]
    BY <2>1
  <2>3. [IdleWorker EXCEPT !.pc = "claim", !.job = [id |-> db.job.id, attempts |-> db.job.attempts]] \in WorkerRow
    BY <1>1, <2>2 DEF WorkerRow
  <2> QED BY <1>0, <1>3, <2>3 DEF FetchJob
<1>4. ASSUME NEW w \in Workers, ClaimJob(w)
      PROVE  db' \in DbRow /\ OnlyIn({"job"}) /\ worker' \in [Workers -> WorkerRow]
  <2>1. worker[w] \in WorkerRow /\ Attempted(worker[w].job) \in Nat
    BY <1>0 DEF WorkerRow, Attempted
  <2>2. worker' \in [Workers -> WorkerRow]
    BY <1>0, <1>1, <1>4, <2>1 DEF ClaimJob, WorkerRow
  <2>3. CASE db' = db
    BY <2>2, <2>3, NoChange DEF OnlyIn
  <2>4. CASE db' = [db EXCEPT !.job.status = "processing", !.job.attempts = Attempted(worker[w].job)]
    <3>1. [db.job EXCEPT !.status = "processing", !.attempts = Attempted(worker[w].job)] \in JobRow
      BY <1>0, <2>1 DEF JobRow, JobStatuses
    <3>2. db' = [db EXCEPT !.job = [db.job EXCEPT !.status = "processing",
                                                 !.attempts = Attempted(worker[w].job)]]
      BY <2>4
    <3> QED BY <2>2, <3>1, <3>2, JobWrite
  <2> QED BY <1>4, <2>3, <2>4 DEF ClaimJob
<1>5. ASSUME NEW w \in Workers, LoadLead(w) \/ FlushLead(w) \/ WorkerKilled(w)
      PROVE  db' = db /\ worker' \in [Workers -> WorkerRow]
  BY <1>0, <1>1, <1>5 DEF LoadLead, FlushLead, WorkerKilled, WorkerRow
<1>6. ASSUME NEW w \in Workers, CompleteJob(w) \/ FailJob(w)
      PROVE  db' \in DbRow /\ OnlyIn({"job"}) /\ worker' \in [Workers -> WorkerRow]
  <2>1. worker' \in [Workers -> WorkerRow]
    BY <1>0, <1>1, <1>6 DEF CompleteJob, FailJob
  <2>2. PICK s \in JobStatuses : db' = db \/ db' = WithJob(w, s)
    BY <1>6 DEF CompleteJob, FailJob, Call, JobStatuses
  <2>3. CASE db' = db
    BY <2>1, <2>3, NoChange DEF OnlyIn
  <2>4. CASE db' = [db EXCEPT !.job.status = s]
    <3>1. [db.job EXCEPT !.status = s] \in JobRow
      BY <1>0 DEF JobRow
    <3>2. db' = [db EXCEPT !.job = [db.job EXCEPT !.status = s]]
      BY <2>4
    <3> QED BY <2>1, <3>1, <3>2, JobWrite
  <2> QED BY <2>2, <2>3, <2>4 DEF WithJob
<1>7. ASSUME db' = db, worker' \in [Workers -> WorkerRow] PROVE db' \in DbRow /\ EnrichmentOK' /\ OnlyIn({"job"})
  BY <1>7, NoChange DEF OnlyIn, EnrichmentOK, WorkerRow
<1>8. ASSUME worker' \in [Workers -> WorkerRow] PROVE EnrichmentOK'
  BY <1>8 DEF EnrichmentOK, WorkerRow
<1> QED BY <1>2, <1>3, <1>4, <1>5, <1>6, <1>7, <1>8 DEF EnrichmentStep, WorkerStep

-----------------------------------------------------------------------------
(* The ways out and back in.                                                *)

LEMMA PurgeSteps ==
  /\ Len(PurgeOrder) = 9 /\ DOMAIN PurgeOrder = 1..9
  /\ \A i \in 1..9 : PurgeOrder[i] \in {"bounce_log", "email_tracking", "email_events", "campaign_leads",
       "unsubscribe_tokens", "reply_inbox", "enrichment_queue", "leads", "suppression_list"}
  /\ \A i \in 1..9 : PurgeOrder[i] = "suppression_list" <=> i = 9
<1>1. \A i \in 1..9 : i = 1 \/ i = 2 \/ i = 3 \/ i = 4 \/ i = 5 \/ i = 6 \/ i = 7 \/ i = 8 \/ i = 9
  OBVIOUS
<1> QED BY <1>1 DEF PurgeOrder

\* A table is emptied: what was stored about the lead is less than before.
PurgeEffect(table) ==
  /\ db' \in DbRow /\ PlaceInv' /\ db'.soft <= db.soft
  /\ db'.supp = (db.supp \/ table = "suppression_list")
  /\ db'.token \in {db.token, "none"}
  /\ \/ db'.lead = db.lead
     \/ ~db'.lead.here /\ db'.lead.stage = db.lead.stage
  /\ db'.place \in {db.place, NoPlace}
  /\ db'.replies = db.replies \/ \A m \in Msgs : db'.replies[m] = 0

LEMMA EmptiedEffect ==
  ASSUME db \in DbRow, PlaceInv, NEW i \in DOMAIN PurgeOrder, db' = Emptied(PurgeOrder[i])
  PROVE  PurgeEffect(PurgeOrder[i])
<1>0. /\ db.lead \in LeadRow /\ db.place \in PlaceRow /\ db.job \in JobRow /\ db.soft \in Nat
  BY LeadFields DEF DbRow
<1>a. NoPlace \in PlaceRow /\ NoPlace.status = "none" /\ [m \in Msgs |-> 0] \in [Msgs -> 0..2]
  BY DEF NoPlace, PlaceRow, PlaceStatuses
<1>b. NoRow \in JobRow
  BY <1>0 DEF NoRow, JobRow, JobStatuses
<1> DEFINE t == PurgeOrder[i]
<1>1. CASE t = "bounce_log"
  <2>1. db' = [db EXCEPT !.soft = 0, !.hard = FALSE]
    BY <1>1 DEF Emptied
  <2>2. db' \in DbRow
    <3>1. PICK n \in Nat : n = 0
      OBVIOUS
    <3>2. PICK b \in BOOLEAN : b = FALSE
      OBVIOUS
    <3>3. db' = [db EXCEPT !.soft = n, !.hard = b]
      BY <2>1, <3>1, <3>2
    <3> QED BY <3>3 DEF DbRow
  <2>3. OnlyIn({"soft", "hard"}) /\ db'.soft = 0
    BY <2>1 DEF DbRow, OnlyIn, Tables
  <2> QED BY <1>0, <1>1, <2>2, <2>3 DEF PurgeEffect, PlaceInv, OnlyIn, Tables, DbRow
<1>2. CASE t = "email_tracking"
  <2>1. db' = [db EXCEPT !.tracked = FALSE]
    BY <1>2 DEF Emptied
  <2>2. db' \in DbRow /\ OnlyIn({"tracked"})
    BY <2>1 DEF DbRow, OnlyIn, Tables
  <2> QED BY <1>0, <1>a, <1>b, <1>2, <2>2 DEF PurgeEffect, PlaceInv, OnlyIn, Tables, DbRow
<1>3. CASE t = "email_events"
  <2>1. db' = [db EXCEPT !.facts = {}]
    BY <1>3 DEF Emptied
  <2>2. db' \in DbRow /\ OnlyIn({"facts"})
    BY <2>1 DEF DbRow, OnlyIn, Tables
  <2> QED BY <1>0, <1>a, <1>b, <1>3, <2>2 DEF PurgeEffect, PlaceInv, OnlyIn, Tables, DbRow
<1>4. CASE t = "campaign_leads"
  <2>1. db' = [db EXCEPT !.place = NoPlace]
    BY <1>4 DEF Emptied
  <2>2. db' \in DbRow /\ OnlyIn({"place"}) /\ db'.place = NoPlace
    BY <1>0, <1>a, <1>b, <2>1 DEF DbRow, OnlyIn, Tables
  <2> QED BY <1>0, <1>a, <1>b, <1>4, <2>2 DEF PurgeEffect, PlaceInv, OnlyIn, Tables, DbRow
<1>5. CASE t = "unsubscribe_tokens"
  <2>1. db' = [db EXCEPT !.token = "none"]
    BY <1>5 DEF Emptied
  <2>2. db' \in DbRow /\ OnlyIn({"token"}) /\ db'.token = "none"
    BY <2>1 DEF DbRow, OnlyIn, Tables
  <2> QED BY <1>0, <1>a, <1>b, <1>5, <2>2 DEF PurgeEffect, PlaceInv, OnlyIn, Tables, DbRow
<1>6. CASE t = "reply_inbox"
  <2>1. db' = [db EXCEPT !.replies = [m \in Msgs |-> 0]]
    BY <1>6 DEF Emptied
  <2>2. db' \in DbRow /\ OnlyIn({"replies"}) /\ \A m \in Msgs : db'.replies[m] = 0
    BY <1>0, <1>a, <1>b, <2>1 DEF DbRow, OnlyIn, Tables
  <2> QED BY <1>0, <1>a, <1>b, <1>6, <2>2 DEF PurgeEffect, PlaceInv, OnlyIn, Tables, DbRow
<1>7. CASE t = "enrichment_queue"
  <2>1. db' = [db EXCEPT !.job = NoRow]
    BY <1>7 DEF Emptied
  <2>2. db' \in DbRow /\ OnlyIn({"job"})
    BY <1>0, <1>a, <1>b, <2>1, JobWrite
  <2> QED BY <1>0, <1>a, <1>b, <1>7, <2>2 DEF PurgeEffect, PlaceInv, OnlyIn, Tables, DbRow
<1>8. CASE t = "leads"
  <2>1. CASE db' = db
    BY <1>0, <1>a, <1>b, <1>8, <2>1 DEF PurgeEffect, PlaceInv, DbRow
  <2>2. CASE db' = [db EXCEPT !.lead.here = FALSE, !.place = NoPlace, !.job = NoRow]
    <3>1. [db.lead EXCEPT !.here = FALSE] \in LeadRow /\ [db.lead EXCEPT !.here = FALSE].here = FALSE
          /\ [db.lead EXCEPT !.here = FALSE].stage = db.lead.stage
      BY <1>0 DEF LeadRow
    <3>2. db' = [db EXCEPT !.lead = [db.lead EXCEPT !.here = FALSE], !.place = NoPlace, !.job = NoRow]
      BY <2>2
    <3> DEFINE row == [db.lead EXCEPT !.here = FALSE]
    <3> HIDE DEF row
    <3>3. /\ db' \in DbRow /\ OnlyIn({"lead", "place", "job"})
          /\ db'.lead = row /\ db'.place = NoPlace
      BY <1>0, <1>a, <1>b, <3>1, <3>2 DEF DbRow, OnlyIn, Tables, row
    <3>4. ~db'.lead.here /\ db'.lead.stage = db.lead.stage
      BY <3>1, <3>3 DEF row
    <3> QED BY <1>0, <1>a, <1>b, <1>8, <3>3, <3>4 DEF PurgeEffect, PlaceInv, OnlyIn, Tables, DbRow
  <2> QED BY <1>8, <2>1, <2>2 DEF Emptied
<1>9. CASE t = "suppression_list"
  <2>1. db' = [db EXCEPT !.supp = TRUE]
    BY <1>9 DEF Emptied
  <2>2. db' \in DbRow /\ OnlyIn({"supp"}) /\ db'.supp = TRUE
    BY <2>1 DEF DbRow, OnlyIn, Tables
  <2> QED BY <1>0, <1>a, <1>b, <1>9, <2>2 DEF PurgeEffect, PlaceInv, OnlyIn, Tables, DbRow
<1> QED BY <1>1, <1>2, <1>3, <1>4, <1>5, <1>6, <1>7, <1>8, <1>9, PurgeSteps

LEMMA PurgeKeeps ==
  ASSUME db \in DbRow, PlaceInv, ErasureOK, PurgeTable
  PROVE  /\ PurgeEffect(PurgeOrder[purge]) \/ (db' = db /\ Fault)
         /\ db' \in DbRow /\ PlaceInv' /\ ErasureOK' /\ db'.soft <= db.soft
<1>1. db.soft \in Nat
  BY DEF DbRow
<1>2. ErasureOK'
  BY PurgeSteps DEF PurgeTable, ErasureOK
<1>3. CASE db' = db /\ Fault
  BY <1>1, <1>2, <1>3 DEF PlaceInv
<1>4. CASE db' = Emptied(PurgeOrder[purge])
  <2>1. PICK i \in DOMAIN PurgeOrder : i = purge
    BY DEF PurgeTable
  <2> QED BY <1>2, <1>4, <2>1, EmptiedEffect DEF PurgeEffect
<1> QED BY <1>3, <1>4 DEF PurgeTable, Call

LEMMA FreshTypes ==
  /\ FreshDb.lead \in LeadRow /\ FreshDb.place \in PlaceRow
  /\ FreshDb.lead.here /\ FreshDb.lead.stage = "cold" /\ FreshDb.lead.score = 0 /\ FreshDb.lead.age = 0
  /\ FreshDb.place.status = "active" /\ FreshDb.place.step = 1
  /\ FreshDb \in DbRow
<1>1. 0 \in 0..MaxScore
  BY LeadTableAssumption
<1>2. [here |-> TRUE, status |-> "new", stage |-> "cold", cooled |-> FALSE, score |-> 0, age |-> 0] \in LeadRow
  BY <1>1 DEF LeadRow, LeadStatuses, Stages
<1>3. [status |-> "active", step |-> 1] \in PlaceRow
  BY DEF PlaceRow, PlaceStatuses
<1>4. [id |-> 0, status |-> "none", attempts |-> 0] \in JobRow
  BY DEF JobRow, JobStatuses
<1>5. [m \in Msgs |-> 0] \in [Msgs -> 0..2]
  OBVIOUS
<1> QED BY <1>2, <1>3, <1>4, <1>5 DEF FreshDb, DbRow

LEMMA AddKeeps ==
  ASSUME db \in DbRow, ErasureOK, \E bulk \in BOOLEAN : AddLead(bulk)
  PROVE  /\ db' \in DbRow /\ OnlyIn({"lead", "place", "job"}) /\ PlaceInv' /\ ErasureOK'
         /\ db'.lead = FreshDb.lead /\ purge' = 0
<1>0. db.job \in JobRow
  BY LeadFields
<1>1. [id |-> db.job.id + 1, status |-> "pending", attempts |-> 0] \in JobRow
  BY <1>0 DEF JobRow, JobStatuses
<1>2. db' = [db EXCEPT !.lead = FreshDb.lead, !.place = FreshDb.place,
                       !.job = [id |-> db.job.id + 1, status |-> "pending", attempts |-> 0]]
  BY DEF AddLead
<1>3. /\ db' \in DbRow /\ OnlyIn({"lead", "place", "job"})
      /\ db'.lead = FreshDb.lead /\ db'.place = FreshDb.place
  BY <1>1, <1>2, FreshTypes DEF DbRow, OnlyIn, Tables
<1>4. PlaceInv'
  BY <1>3, FreshTypes, LeadTableAssumption DEF PlaceInv
<1>5. ErasureOK'
  BY PurgeSteps DEF AddLead, ErasureOK
<1> QED BY <1>3, <1>4, <1>5 DEF AddLead

LEMMA WayOutKeeps ==
  ASSUME db \in DbRow, ErasureOK,
         OpenLink \/ SuppressByHand \/ LiftSuppression \/ StartPurge \/ PurgeKilled \/ UseToken \/ LinkKilled
  PROVE  db' \in DbRow /\ ErasureOK' /\ OnlyIn({"supp", "token"})
<1>1. ErasureOK'
  <2>1. link' \in {"idle", "use"} /\ lifted' \in BOOLEAN
    BY DEF OpenLink, SuppressByHand, LiftSuppression, StartPurge, PurgeKilled, UseToken, LinkKilled, ErasureOK
  <2>2. purge' \in {purge, 0, 1}
    BY DEF OpenLink, SuppressByHand, LiftSuppression, StartPurge, PurgeKilled, UseToken, LinkKilled
  <2> QED BY <2>1, <2>2, PurgeSteps DEF ErasureOK
<1>2. CASE db' = db
  BY <1>1, <1>2, NoChange DEF OnlyIn
<1>3. CASE SuppressByHand \/ LiftSuppression
  BY <1>1, <1>3 DEF SuppressByHand, LiftSuppression, DbRow, OnlyIn, Tables
<1>4. CASE db' = [db EXCEPT !.token = IF @ = "fresh" THEN "used" ELSE @]
  BY <1>1, <1>4 DEF DbRow, OnlyIn, Tables
<1> QED BY <1>2, <1>3, <1>4 DEF OpenLink, StartPurge, PurgeKilled, UseToken, LinkKilled

-----------------------------------------------------------------------------
(* All variables.                                                           *)

TypeInv ==
  /\ EnvOK /\ db \in DbRow /\ FunnelInv /\ EngagementOK /\ RepliesOK /\ ScanInv
  /\ BouncesOK /\ EnrichmentOK /\ ErasureOK

\* What each part needs of a step that is another's.
LEMMA FunnelRests ==
  ASSUME FunnelInv, UNCHANGED <<sender, nurse>>, late' \in Nat, blind' \in Nat, byhand' \in BOOLEAN, PlaceInv'
  PROVE  FunnelInv'
BY DEF FunnelInv, FunnelOK, MoveInv, IsLast

LEMMA FunnelStays ==
  ASSUME FunnelInv, NotFunnel, PlaceClosed, db'.lead.here = db.lead.here
  PROVE  FunnelInv'
<1>1. PlaceInv'
  BY PlaceKept DEF FunnelInv
<1>2. byhand' \in BOOLEAN /\ late' \in Nat /\ blind' \in Nat /\ UNCHANGED <<sender, nurse>>
  BY DEF FunnelInv, FunnelOK, NotFunnel, funnelVars
<1> QED BY <1>1, <1>2, FunnelRests

LEMMA RecountTypes == ASSUME FunnelInv, Recount PROVE late' \in Nat /\ blind' \in Nat
BY DEF FunnelInv, FunnelOK, Recount

LEMMA EngagementRests == ASSUME EngagementOK, NotEngagement PROVE EngagementOK'
BY DEF EngagementOK, NotEngagement, engagementVars

LEMMA RepliesRest == ASSUME RepliesOK, ScanInv, NotReplies PROVE RepliesOK' /\ ScanInv'
BY DEF RepliesOK, ScanInv, NotReplies, repliesVars

LEMMA BouncesRest ==
  ASSUME db \in DbRow, db' \in DbRow, BouncesOK, NotBounces, db'.soft <= db.soft PROVE BouncesOK'
<1>1. db.soft \in Nat /\ db'.soft \in Nat
  BY DEF DbRow
<1> QED BY <1>1, BouncesAssumption DEF BouncesOK, NotBounces, bouncesVars

LEMMA SoftStays ==
  ASSUME db \in DbRow, NEW changed \in SUBSET (Tables \ {"soft"}), OnlyIn(changed) PROVE db'.soft <= db.soft
<1>1. db'.soft = db.soft /\ db.soft \in Nat
  BY DEF OnlyIn, Tables, DbRow
<1> QED BY <1>1

LEMMA EnrichmentRests == ASSUME EnrichmentOK, NotEnrichment PROVE EnrichmentOK'
BY DEF EnrichmentOK, NotEnrichment

LEMMA ErasureRests == ASSUME ErasureOK, NotErasure PROVE ErasureOK'
BY DEF ErasureOK, NotErasure, erasureVars

\* A step that is neither the bounces', the enrichment's nor the erasure's.
LEMMA ApartTypes ==
  ASSUME TypeInv, Apart, EnvOK', db' \in DbRow, NEW changed \in SUBSET (Tables \ {"soft"}), OnlyIn(changed),
         FunnelInv', EngagementOK', RepliesOK', ScanInv'
  PROVE  TypeInv'
BY SoftStays, BouncesRest, EnrichmentRests, ErasureRests DEF TypeInv, Apart

LEMMA RepliesTypes == ASSUME TypeInv, RepliesAct, EnvOK' PROVE TypeInv'
<1>0. db \in DbRow /\ FunnelInv /\ EngagementOK /\ RepliesOK /\ ScanInv
  BY DEF TypeInv
<1>1. CASE (ScanStep \/ MailboxStep) /\ NotFunnel /\ NotEngagement /\ Apart
  <2>1. MailEffectOnly
    BY <1>0, <1>1, MailKeeps
  <2>2. PlaceClosed /\ db'.lead.here = db.lead.here
    BY <2>1, OtherWrite DEF MailEffectOnly, OnlyIn, Tables, ScoreKept
  <2>3. FunnelInv' /\ EngagementOK'
    BY <1>0, <1>1, <2>2, FunnelStays, EngagementRests
  <2>4. {"replies"} \in SUBSET (Tables \ {"soft"})
    BY DEF Tables
  <2> QED BY <1>1, <2>1, <2>3, <2>4, ApartTypes DEF MailEffectOnly
<1>2. ASSUME NEW w \in {"scan", "api"}, Routed(w), Apart PROVE TypeInv'
  <2>1. router \in [Routers -> RouterRow] /\ w \in Routers
    BY <1>0, RepliesRows DEF Routers
  <2>2. RouteEffect(w)
    BY <1>0, <1>2, <2>1, RouteKeeps DEF Routed
  <2>3. RepliesOK' /\ ScanInv'
    BY <1>0, <2>2, RepliesRows DEF RouteEffect, ScanInv
  <2>4. PlaceInv'
    BY <1>0, <2>2, PlaceKept DEF RouteEffect, ScoreKept, FunnelInv
  <2>5. byhand' \in BOOLEAN /\ late' \in Nat /\ blind' \in Nat /\ UNCHANGED <<sender, nurse>>
    BY <1>0, <1>2 DEF Routed, FunnelInv, FunnelOK
  <2>6. FunnelInv'
    BY <1>0, <2>4, <2>5, FunnelRests
  <2>7. EngagementOK'
    BY <1>0, <1>2, EngagementRests DEF Routed, NotEngagement
  <2>8. {"lead", "place", "supp"} \in SUBSET (Tables \ {"soft"})
    BY DEF Tables
  <2> QED BY <1>2, <2>2, <2>3, <2>6, <2>7, <2>8, ApartTypes DEF RouteEffect
<1>3. CASE (BumpEngagement \/ ScanKilled) /\ UNCHANGED <<decayer, ledger>> /\ NotFunnel /\ Apart
  <2>1. MailEffectOnly /\ db' = db
    BY <1>0, <1>3, OtherMailEffect DEF OtherMailStep
  <2>2. adder' \in [Adders -> AdderRow]
    <3>1. CASE BumpEngagement
      <4>1. PICK e \in {"replied", "interested"} : AddEngagement("reply", e)
        BY <3>1 DEF BumpEngagement
      <4> QED BY <1>0, <4>1, AddTypes, PointsAre DEF Adders
    <3>2. CASE ScanKilled
      BY <1>0, <3>2, PointsAre DEF ScanKilled, EngagementOK, AdderRow
    <3> QED BY <1>3, <3>1, <3>2
  <2>3. EngagementOK'
    BY <1>0, <1>3, <2>2 DEF EngagementOK, AdderRow
  <2>4. FunnelInv'
    BY <1>0, <1>3, <2>1, NoChange, FunnelStays
  <2>5. {"replies"} \in SUBSET (Tables \ {"soft"})
    BY DEF Tables
  <2> QED BY <1>3, <2>1, <2>3, <2>4, <2>5, ApartTypes DEF MailEffectOnly
<1>4. CASE WriteEngagement("reply") /\ NotFunnel /\ NotReplies /\ Apart
  <2>1. ScoreEffect /\ EngagementOK' /\ OnlyIn({"lead"})
    BY <1>0, <1>4, WriteEngagementEffect DEF Adders
  <2>2. PlaceClosed /\ db'.lead.here = db.lead.here
    BY <2>1 DEF ScoreEffect, StageKept, PlaceClosed, OnlyIn, Tables
  <2>3. FunnelInv' /\ RepliesOK' /\ ScanInv'
    BY <1>0, <1>4, <2>2, FunnelStays, RepliesRest
  <2>4. {"lead"} \in SUBSET (Tables \ {"soft"})
    BY DEF Tables
  <2> QED BY <1>4, <2>1, <2>3, <2>4, ApartTypes DEF ScoreEffect
<1> QED BY <1>1, <1>2, <1>3, <1>4 DEF RepliesAct, ScanActs

LEMMA ErasureTypes == ASSUME TypeInv, ErasureActs, EnvOK' PROVE TypeInv'
<1>0. db \in DbRow /\ FunnelInv /\ EngagementOK /\ RepliesOK /\ ScanInv /\ BouncesOK /\ EnrichmentOK /\ ErasureOK
  BY DEF TypeInv
<1>1. ASSUME OutApart, router' \in [Routers -> RouterRow], given' \in [Msgs -> Givens],
             db' \in DbRow, db'.soft <= db.soft, PlaceInv', ErasureOK'
      PROVE  TypeInv'
  <2>1. RepliesOK' /\ ScanInv'
    BY <1>0, <1>1, RepliesRows DEF OutApart, ScanInv
  <2>2. byhand' \in BOOLEAN /\ late' \in Nat /\ blind' \in Nat /\ UNCHANGED <<sender, nurse>>
    BY <1>0, <1>1, RecountTypes DEF OutApart, FunnelInv, FunnelOK
  <2>3. FunnelInv' /\ EngagementOK' /\ BouncesOK' /\ EnrichmentOK'
    BY <1>0, <1>1, <2>2, FunnelRests, EngagementRests, BouncesRest, EnrichmentRests DEF OutApart
  <2> QED BY <1>1, <2>1, <2>3 DEF TypeInv
<1>2. router \in [Routers -> RouterRow] /\ given \in [Msgs -> Givens] /\ PlaceInv
  BY <1>0, RepliesRows DEF FunnelInv
<1>3. ASSUME OnlyIn({"supp", "token"}) PROVE db'.soft <= db.soft /\ PlaceInv'
  <2>1. {"supp", "token"} \in SUBSET (Tables \ {"soft"})
    BY DEF Tables
  <2>2. db'.soft <= db.soft
    BY <1>0, <1>3, <2>1, SoftStays
  <2> QED BY <1>2, <1>3, <2>2 DEF PlaceInv, OnlyIn, Tables
<1>4. CASE LinkActs
  <2>1. CASE UseToken
    <3>1. router' \in [Routers -> RouterRow]
      <4>1. [router["link"] EXCEPT !.pc = "suppress", !.class = "unsubscribe"] \in RouterRow
        BY <1>2 DEF Routers, RouterRow, Classes
      <4>2. router' = router
            \/ router' = [router EXCEPT !["link"] = [router["link"] EXCEPT !.pc = "suppress", !.class = "unsubscribe"]]
        BY <2>1 DEF UseToken
      <4> QED BY <1>2, <4>1, <4>2
    <3> QED BY <1>0, <1>1, <1>2, <1>3, <1>4, <2>1, <3>1, WayOutKeeps DEF LinkActs
  <2>2. CASE RouteStep("link") /\ UNCHANGED <<link, purge, lifted>>
    <3>1. RouteEffect("link")
      BY <1>0, <1>2, <2>2, RouteKeeps DEF Routers
    <3>2. {"lead", "place", "supp"} \in SUBSET (Tables \ {"soft"})
      BY DEF Tables
    <3>3. db'.soft <= db.soft /\ PlaceInv'
      BY <1>0, <1>2, <3>1, <3>2, SoftStays, PlaceKept DEF RouteEffect, ScoreKept
    <3>4. ErasureOK'
      BY <1>0, <2>2 DEF ErasureOK
    <3> QED BY <1>1, <1>2, <1>4, <3>1, <3>3, <3>4 DEF LinkActs, RouteEffect
  <2> QED BY <1>4, <2>1, <2>2 DEF LinkActs, LinkStep
<1>5. CASE PurgeActs
  <2>1. given' \in [Msgs -> Givens]
    BY <1>2, <1>5 DEF PurgeActs, Givens
  <2> QED BY <1>0, <1>1, <1>2, <1>5, <2>1, PurgeKeeps DEF PurgeActs
<1>6. CASE AddedAgain
  <2>1. db' \in DbRow /\ OnlyIn({"lead", "place", "job"}) /\ PlaceInv' /\ ErasureOK'
    BY <1>0, <1>6, AddKeeps DEF AddedAgain
  <2>2. {"lead", "place", "job"} \in SUBSET (Tables \ {"soft"})
    BY DEF Tables
  <2>3. db'.soft <= db.soft
    BY <1>0, <2>1, <2>2, SoftStays
  <2>4. RepliesOK' /\ ScanInv' /\ BouncesOK' /\ EnrichmentOK'
    BY <1>0, <1>6, <2>1, <2>3, RepliesRest, BouncesRest, EnrichmentRests
       DEF AddedAgain, NotReplies, repliesVars, NotBounces, bouncesVars, NotEnrichment
  <2>5. FunnelInv'
    BY <1>0, <1>6, <2>1, RecountTypes, FunnelRests DEF AddedAgain
  <2>6. ledger' \in [score : 0..MaxScore, days : Nat, raced : BOOLEAN]
    <3>1. 0 \in 0..MaxScore
      BY LeadTableAssumption
    <3> QED BY <1>6, <3>1 DEF AddedAgain
  <2>7. EngagementOK'
    BY <1>0, <1>6, <2>6 DEF AddedAgain, EngagementOK
  <2> QED BY <2>1, <2>4, <2>5, <2>7 DEF TypeInv
<1>7. CASE /\ OpenLink \/ SuppressByHand \/ LiftSuppression \/ StartPurge \/ PurgeKilled
           /\ UNCHANGED <<router, given>> /\ OutApart
  BY <1>0, <1>1, <1>2, <1>3, <1>7, WayOutKeeps
<1>8. CASE LinkKilled /\ UNCHANGED given /\ OutApart
  <2>1. router' \in [Routers -> RouterRow]
    BY <1>2, <1>8 DEF LinkKilled, IdleRouter, RouterRow, Classes
  <2> QED BY <1>0, <1>1, <1>2, <1>3, <1>8, <2>1, WayOutKeeps
<1> QED BY <1>4, <1>5, <1>6, <1>7, <1>8 DEF ErasureActs

LEMMA TypeInvStep == TypeInv /\ [Next]_vars => TypeInv'
<1> SUFFICES ASSUME TypeInv, [Next]_vars PROVE TypeInv'
  OBVIOUS
<1>0. EnvOK' /\ db \in DbRow /\ FunnelInv /\ EngagementOK /\ RepliesOK /\ ScanInv /\ BouncesOK
      /\ EnrichmentOK /\ ErasureOK
  BY EnvNext DEF TypeInv, EnvMoves
<1>1. CASE FunnelStep /\ OnlyFunnel
  <2>1. FunnelEffect
    BY <1>0, <1>1, FunnelKeeps
  <2>2. {"lead", "place", "facts", "token"} \in SUBSET (Tables \ {"soft"})
    BY DEF Tables
  <2>3. db'.soft <= db.soft
    BY <1>0, <2>1, <2>2, SoftStays DEF FunnelEffect
  <2> QED BY <1>0, <1>1, <2>1, <2>3, EngagementRests, RepliesRest, BouncesRest, EnrichmentRests,
             ErasureRests DEF OnlyFunnel, FunnelEffect, TypeInv
<1>2. CASE EngagementStep /\ OnlyEngagement
  <2>1. ScoreEffect /\ EngagementOK'
    BY <1>0, <1>2, ScoreKeeps
  <2>2. {"lead", "facts", "tracked"} \in SUBSET (Tables \ {"soft"})
    BY DEF Tables
  <2>3. db'.soft <= db.soft /\ PlaceClosed /\ db'.lead.here = db.lead.here
    BY <1>0, <2>1, <2>2, SoftStays DEF ScoreEffect, StageKept, PlaceClosed, OnlyIn, Tables
  <2> QED BY <1>0, <1>2, <2>1, <2>3, FunnelStays, RepliesRest, BouncesRest, EnrichmentRests,
             ErasureRests DEF OnlyEngagement, ScoreEffect, TypeInv
<1>3. CASE BouncesStep /\ OnlyBounces
  <2>1. BounceEffect
    BY <1>0, <1>3, BouncesKeep
  <2> QED BY <1>0, <1>3, <2>1, FunnelStays, EngagementRests, RepliesRest, EnrichmentRests,
             ErasureRests DEF OnlyBounces, BounceEffect, ScoreKept, TypeInv
<1>4. CASE EnrichmentStep /\ OnlyEnrichment
  <2>1. db' \in DbRow /\ EnrichmentOK' /\ OnlyIn({"job"})
    BY <1>0, <1>4, EnrichmentKeeps
  <2>2. {"job"} \in SUBSET (Tables \ {"soft"})
    BY DEF Tables
  <2>3. db'.soft <= db.soft /\ PlaceClosed /\ db'.lead.here = db.lead.here
    BY <1>0, <2>1, <2>2, SoftStays DEF PlaceClosed, OnlyIn, Tables
  <2> QED BY <1>0, <1>4, <2>1, <2>3, FunnelStays, EngagementRests, RepliesRest, BouncesRest,
             ErasureRests DEF OnlyEnrichment, TypeInv
<1>5. CASE UNCHANGED vars
  <2>1. db' = db /\ NotFunnel /\ NotEngagement /\ NotReplies /\ NotBounces /\ NotEnrichment /\ NotErasure
    BY <1>5 DEF vars, NotFunnel, NotEngagement, NotReplies, NotBounces, NotEnrichment, NotErasure
  <2>2. PlaceClosed /\ db'.lead.here = db.lead.here /\ db' \in DbRow /\ db'.soft <= db.soft
    BY <1>0, <2>1 DEF PlaceClosed, DbRow
  <2> QED BY <1>0, <2>1, <2>2, FunnelStays, EngagementRests, RepliesRest, BouncesRest,
             EnrichmentRests, ErasureRests DEF TypeInv
<1> QED BY <1>0, <1>1, <1>2, <1>3, <1>4, <1>5, RepliesTypes, ErasureTypes DEF Next

LEMMA TypeInvInit == Init => TypeInv
<1> SUFFICES ASSUME Init PROVE TypeInv
  OBVIOUS
<1>1. EnvOK /\ db \in DbRow /\ PlaceInv
  BY EnvInit, FreshTypes, LeadTableAssumption DEF Init, TableInit, PlaceInv
<1>2. FunnelInv
  <2>1. sender \in SenderRow /\ sender.pc = "idle"
    BY SenderTypes DEF Init, FunnelInit, IdleSender
  <2> QED BY <1>1, <2>1 DEF Init, FunnelInit, FunnelInv, FunnelOK, MoveInv, SenderRow
<1>3. EngagementOK
  <2>1. 0 \in 0..MaxScore
    BY LeadTableAssumption
  <2> QED BY <2>1, PointsAre DEF Init, EngagementInit, EngagementOK, AdderRow, DecayRow
<1>4. RepliesOK /\ ScanInv
  BY DEF Init, RepliesInit, RepliesOK, ScanInv, InScan, IdleScan, IdleRouter, Classes, MailStates
<1>5. BouncesOK
  <2>1. dsn \in [Dsns -> DsnRow]
    BY DEF Init, BouncesInit, DsnRow, DsnKinds
  <2>2. bscan \in [Handlers -> HandlerRow]
    BY DEF Init, BouncesInit, IdleHandler, HandlerRow, DsnKinds
  <2>3. db.soft <= Strikes
    BY BouncesAssumption DEF Init, TableInit, FreshDb
  <2> QED BY <2>1, <2>2, <2>3, BouncesRows
<1>6. EnrichmentOK /\ ErasureOK
  <2>1. 0 \in 0..(Len(PurgeOrder) + 1)
    BY PurgeSteps
  <2>2. EnrichmentOK
    BY DEF Init, EnrichmentInit, EnrichmentOK, IdleWorker, NoJob
  <2> QED BY <2>1, <2>2 DEF Init, ErasureInit, ErasureOK
<1> QED BY <1>1, <1>2, <1>3, <1>4, <1>5, <1>6 DEF TypeInv

\* Every variable of LeadLife has its type, for any cast and any number of
\* overlapping jobs: a send knows a step of the sequence, a lead is moved to a
\* stage, a score stays between 0 and its ceiling.
THEOREM TypeCorrect == Spec => []TypeOK
<1>1. TypeInv => TypeOK
  BY DEF TypeInv, EnvOK, FunnelInv, TypeOK, TablesOK
<1> QED BY <1>1, TypeInvInit, TypeInvStep, PTL DEF Spec

-----------------------------------------------------------------------------
(* Mails after an opt-out.                                                  *)

\* A lead that wants mail has had none too late, and a sender past a check has
\* seen to it that the lead does, unless it was blind: a bounce, or the erasure,
\* that came since. The claim finds that a lead is there.
LateInv ==
  /\ late <= 1 + blind
  /\ Wanted => late = 0
  /\ sender.pc = "vet" => late <= blind \/ db.hard \/ ~db.lead.here
  /\ sender.pc = "claim" => late <= blind \/ ~db.lead.here
  /\ sender.pc = "mail" => late <= blind

LEMMA LateInvStep == TypeInv /\ LateInv /\ [Next]_vars => LateInv'
<1> SUFFICES ASSUME TypeInv, LateInv, [Next]_vars PROVE LateInv'
  OBVIOUS
<1>0. /\ db \in DbRow /\ FunnelInv /\ EngagementOK /\ RepliesOK /\ ScanInv /\ BouncesOK
      /\ EnrichmentOK /\ ErasureOK /\ router \in [Routers -> RouterRow] /\ PlaceInv
      /\ sender \in SenderRow /\ late \in Nat /\ blind \in Nat
  BY RepliesRows DEF TypeInv, FunnelInv, FunnelOK, SenderRow
\* What most steps do: whoever did not want mail does not want it now.
<1>1. ASSUME UNCHANGED <<sender, late, blind>>, db.hard => db'.hard, db.supp => db'.supp,
             db'.lead.here => db.lead.here
      PROVE  LateInv'
  BY <1>0, <1>1 DEF LateInv, Wanted, Lead
<1>2. ASSUME UNCHANGED sender, Recount, db'.lead.here => db.lead.here \/ sender.pc = "idle"
      PROVE  LateInv'
  <2>1. CASE Wanted'
    BY <1>2, <2>1 DEF Recount, LateInv
  <2>2. CASE ~Wanted'
    <3>1. late' = late /\ blind' = IF db.hard /\ ~db'.hard THEN blind + 1 ELSE blind
      BY <1>2, <2>2 DEF Recount
    <3> QED BY <1>0, <1>2, <2>2, <3>1 DEF LateInv
  <2> QED BY <2>1, <2>2
<1>3. ASSUME NEW changed \in SUBSET (Tables \ {"lead", "supp", "hard"}), OnlyIn(changed)
      PROVE  db'.hard = db.hard /\ db'.supp = db.supp /\ db'.lead = db.lead
  BY <1>3 DEF OnlyIn, Tables
<1>4. CASE SenderStep
  <2>1. CASE ListDue
    <3>1. sender'.pc = "screen" /\ UNCHANGED <<db, late, blind>>
      BY <2>1 DEF ListDue, IdleSender
    <3> QED BY <3>1 DEF LateInv, Wanted, Lead
  <2>2. CASE AskSuppressed
    <3>1. /\ UNCHANGED <<db, late, blind>>
          /\ \/ sender'.pc \in {"optout", "idle"}
             \/ sender'.pc = "vet" /\ ~db.supp
      BY <1>0, <2>2 DEF AskSuppressed, Screened, SenderTo, Suppressed, IdleSender, SenderRow
    <3>2. Wanted' <=> Wanted
      BY <3>1 DEF Wanted, Lead
    <3>3. ~db.supp => late <= blind \/ db.hard \/ ~db.lead.here
      BY <1>0 DEF LateInv, Wanted, Lead
    <3> QED BY <3>1, <3>2, <3>3 DEF LateInv
  <2>3. CASE AskBounced
    <3>1. /\ UNCHANGED <<db, late>> /\ sender.pc = "vet"
          /\ \/ sender'.pc \in {"bounced", "idle"} /\ blind' = blind
             \/ sender'.pc = "claim" /\ ~db.hard /\ blind' = blind
             \/ sender'.pc = "claim" /\ blind' = blind + 1
      BY <1>0, <2>3 DEF AskBounced, Screened, SenderTo, IdleSender, SenderRow
    <3>2. Wanted' <=> Wanted
      BY <3>1 DEF Wanted, Lead
    <3> QED BY <1>0, <3>1, <3>2 DEF LateInv
  <2>4. CASE CloseRow
    <3>1. OnlyIn({"place"}) /\ sender'.pc = "idle" /\ UNCHANGED <<late, blind>>
      BY <1>0, <2>4, CloseRowEffect DEF CloseRow
    <3>2. Wanted' <=> Wanted
      BY <3>1 DEF OnlyIn, Tables, Wanted, Lead
    <3> QED BY <3>1, <3>2 DEF LateInv
  <2>5. CASE Claim
    <3>1. /\ sender.pc = "claim" /\ UNCHANGED <<late, blind>>
          /\ sender'.pc = "idle" \/ (sender'.pc = "mail" /\ db.lead.here)
      BY <1>0, <2>5, ClaimEffect DEF Claim, Lead, IdleSender
    <3>2. db'.hard = db.hard /\ db'.supp = db.supp /\ db'.lead = db.lead
      BY <1>0, <2>5, ClaimEffect DEF FunnelEffect, OnlyIn, Tables
    <3>3. Wanted' <=> Wanted
      BY <3>2 DEF Wanted, Lead
    <3> QED BY <3>1, <3>3 DEF LateInv
  <2>6. CASE Mail
    <3>1. /\ sender.pc = "mail" /\ sender'.pc = "advance" /\ blind' = blind
          /\ late' = IF Wanted THEN 0 ELSE late + 1
      BY <1>0, <2>6 DEF Mail, SenderTo, SenderRow
    <3>2. db'.hard = db.hard /\ db'.supp = db.supp /\ db'.lead = db.lead
      BY <1>0, <2>6, MailEffect DEF FunnelEffect, OnlyIn, Tables
    <3>3. Wanted' <=> Wanted
      BY <3>2 DEF Wanted, Lead
    <3> QED BY <1>0, <3>1, <3>3 DEF LateInv
  <2>7. CASE Advance \/ MarkContacted \/ AskStage \/ MoveStage
    <3>1. UNCHANGED <<late, blind>> /\ sender'.pc \notin {"vet", "claim", "mail"}
      <4>1. CASE Advance
        BY <1>0, <4>1 DEF Advance, SenderRow
      <4>2. CASE MarkContacted
        BY <1>0, <4>2 DEF MarkContacted, SenderRow
      <4>3. CASE AskStage
        BY <1>0, <4>3 DEF AskStage, SenderRow, IdleSender
      <4>4. CASE MoveStage
        BY <4>4 DEF MoveStage, IdleSender
      <4> QED BY <2>7, <4>1, <4>2, <4>3, <4>4
    <3>2. FunnelEffect
      BY <1>0, <2>7, AdvanceEffect, OtherFunnelEffect
    <3>3. db'.hard = db.hard /\ db'.supp = db.supp /\ db'.lead.here = db.lead.here
      BY <3>2 DEF FunnelEffect, OnlyIn, Tables, ScoreKept
    <3>4. Wanted' <=> Wanted
      BY <3>3 DEF Wanted, Lead
    <3> QED BY <3>1, <3>4 DEF LateInv
  <2> QED BY <1>4, <2>1, <2>2, <2>3, <2>4, <2>5, <2>6, <2>7 DEF SenderStep
<1>5. CASE FunnelStep
  <2>1. CASE CoolsDown \/ (\E n \in Nurses : NurseStep(n)) \/ \E s \in Stages : MoveByHand(s)
    <3>1. FunnelEffect
      BY <1>0, <2>1, OtherFunnelEffect
    <3>2. UNCHANGED <<sender, late, blind>>
      BY <2>1 DEF CoolsDown, NurseStep, FindCooled, Reengage, MoveByHand
    <3> QED BY <1>1, <3>1, <3>2 DEF FunnelEffect, OnlyIn, Tables, ScoreKept
  <2> QED BY <1>4, <1>5, <2>1 DEF FunnelStep
<1>6. CASE EngagementStep /\ NotFunnel
  <2>1. OnlyIn({"lead", "facts", "tracked"}) /\ StageKept
    BY <1>0, <1>6, ScoreKeeps DEF ScoreEffect
  <2> QED BY <1>1, <1>6, <2>1 DEF OnlyIn, Tables, StageKept, NotFunnel, funnelVars
<1>7. CASE BouncesStep /\ NotFunnel
  <2>1. BounceEffect
    BY <1>0, <1>7, BouncesKeep
  <2>2. db.hard => db'.hard
    BY <1>0, <1>7, HardStays
  <2> QED BY <1>1, <1>7, <2>1, <2>2 DEF BounceEffect, OnlyIn, Tables, ScoreKept, NotFunnel, funnelVars
<1>8. CASE EnrichmentStep /\ NotFunnel
  <2>1. OnlyIn({"job"})
    BY <1>0, <1>8, EnrichmentKeeps
  <2> QED BY <1>1, <1>8, <2>1 DEF OnlyIn, Tables, NotFunnel, funnelVars
<1>9. CASE RepliesAct
  <2>1. CASE (ScanStep \/ MailboxStep \/ BumpEngagement \/ ScanKilled) /\ NotFunnel
    <3>1. MailEffectOnly
      BY <1>0, <2>1, MailKeeps
    <3> QED BY <1>1, <2>1, <3>1 DEF MailEffectOnly, OnlyIn, Tables, NotFunnel, funnelVars
  <2>2. ASSUME NEW w \in {"scan", "api"}, Routed(w) PROVE LateInv'
    <3>1. RouteEffect(w)
      BY <1>0, <2>2, RouteKeeps DEF Routed, Routers
    <3> QED BY <1>1, <2>2, <3>1 DEF Routed, RouteEffect, OnlyIn, Tables, ScoreKept
  <2>3. CASE WriteEngagement("reply") /\ NotFunnel
    <3>1. OnlyIn({"lead"}) /\ StageKept
      BY <1>0, <2>3, WriteEngagementEffect DEF Adders, ScoreEffect
    <3> QED BY <1>1, <2>3, <3>1 DEF OnlyIn, Tables, StageKept, NotFunnel, funnelVars
  <2> QED BY <1>9, <2>1, <2>2, <2>3 DEF RepliesAct, ScanActs
<1>10. CASE ErasureActs
  <2>1. CASE LinkActs
    <3>1. CASE UseToken
      BY <1>0, <1>2, <2>1, <3>1, WayOutKeeps DEF LinkActs, OutApart, OnlyIn, Tables
    <3>2. CASE RouteStep("link")
      <4>1. RouteEffect("link")
        BY <1>0, <3>2, RouteKeeps DEF Routers
      <4> QED BY <1>2, <2>1, <4>1 DEF LinkActs, OutApart, RouteEffect, ScoreKept
    <3> QED BY <2>1, <3>1, <3>2 DEF LinkActs, LinkStep
  <2>2. CASE PurgeActs
    <3>1. db' = db \/ PurgeEffect(PurgeOrder[purge])
      BY <1>0, <2>2, PurgeKeeps DEF PurgeActs
    <3>2. db'.lead.here => db.lead.here
      BY <3>1 DEF PurgeEffect
    <3> QED BY <1>2, <2>2, <3>2 DEF PurgeActs, OutApart
  <2>3. CASE AddedAgain
    BY <1>2, <2>3 DEF AddedAgain, AllIdle
  <2>4. CASE /\ OpenLink \/ SuppressByHand \/ LiftSuppression \/ StartPurge \/ PurgeKilled \/ LinkKilled
             /\ OutApart
    <3>1. OnlyIn({"supp", "token"})
      BY <1>0, <2>4, WayOutKeeps
    <3> QED BY <1>2, <2>4, <3>1 DEF OutApart, OnlyIn, Tables
  <2> QED BY <1>10, <2>1, <2>2, <2>3, <2>4 DEF ErasureActs
<1>11. CASE UNCHANGED vars
  BY <1>1, <1>11 DEF vars, funnelVars
<1> QED BY <1>5, <1>6, <1>7, <1>8, <1>9, <1>10, <1>11 DEF Next, OnlyEngagement, OnlyBounces, OnlyEnrichment

\* A lead that opted out by whatever way, bounced hard or was erased gets no mail
\* but the one that was past its checks, and one more for every bounce that a
\* look-up did not see (campaign_scheduler.py): for any cast, also when calls fail,
\* the row is sent back to the queue or the lead is added again.
THEOREM LateMailCorrect == Spec => []LateMailsNeedBlindChecks
<1>1. Init => LateInv
  BY DEF Init, FunnelInit, LateInv, IdleSender
<1>2. LateInv => LateMailsNeedBlindChecks
  BY DEF LateInv, LateMailsNeedBlindChecks
<1> QED BY <1>1, <1>2, TypeInvInit, TypeInvStep, LateInvStep, PTL DEF Spec

-----------------------------------------------------------------------------
(* The opt-out that stays.                                                  *)

\* A token that was used has its link about to suppress the address.
OptInv ==
  env.faults = 0 /\ ~lifted =>
    /\ db.token = "used" => db.supp \/ router["link"].pc = "suppress"
    /\ Purged => db.supp

LEMMA OptInvStep == TypeInv /\ OptInv /\ [Next]_vars => OptInv'
<1> SUFFICES ASSUME TypeInv, OptInv, [Next]_vars, env'.faults = 0, ~lifted'
             PROVE  /\ db'.token = "used" => db'.supp \/ router'["link"].pc = "suppress"
                    /\ Purged' => db'.supp
  BY DEF OptInv
<1>0. /\ db \in DbRow /\ FunnelInv /\ EngagementOK /\ RepliesOK /\ ScanInv /\ BouncesOK
      /\ EnrichmentOK /\ ErasureOK /\ router \in [Routers -> RouterRow] /\ PlaceInv
  BY RepliesRows DEF TypeInv, FunnelInv
<1>1. env.faults = 0 /\ ~Fault
  BY NoFaultYet DEF TypeInv
\* What most steps do: nothing is taken from the list, no token is used.
<1>2. ASSUME UNCHANGED <<purge, lifted>>, router'["link"].pc = router["link"].pc,
             db.supp => db'.supp, db'.token = "used" => db.token = "used"
      PROVE  /\ db'.token = "used" => db'.supp \/ router'["link"].pc = "suppress"
             /\ Purged' => db'.supp
  BY <1>1, <1>2 DEF OptInv, Purged
<1>3. CASE FunnelStep /\ OnlyFunnel
  <2>1. FunnelEffect
    BY <1>0, <1>3, FunnelKeeps
  <2> QED BY <1>2, <1>3, <2>1 DEF FunnelEffect, OnlyIn, Tables, OnlyFunnel, NotErasure, erasureVars,
                                  NotReplies, repliesVars
<1>4. CASE EngagementStep /\ OnlyEngagement
  <2>1. OnlyIn({"lead", "facts", "tracked"})
    BY <1>0, <1>4, ScoreKeeps DEF ScoreEffect
  <2> QED BY <1>2, <1>4, <2>1 DEF OnlyIn, Tables, OnlyEngagement, NotErasure, erasureVars,
                                  NotReplies, repliesVars
<1>5. CASE BouncesStep /\ OnlyBounces
  <2>1. BounceEffect
    BY <1>0, <1>5, BouncesKeep
  <2> QED BY <1>2, <1>5, <2>1 DEF BounceEffect, OnlyIn, Tables, OnlyBounces, NotErasure, erasureVars,
                                  NotReplies, repliesVars
<1>6. CASE EnrichmentStep /\ OnlyEnrichment
  <2>1. OnlyIn({"job"})
    BY <1>0, <1>6, EnrichmentKeeps
  <2> QED BY <1>2, <1>6, <2>1 DEF OnlyIn, Tables, OnlyEnrichment, NotErasure, erasureVars,
                                  NotReplies, repliesVars
<1>7. CASE RepliesAct
  <2>0. ASSUME Apart PROVE UNCHANGED <<purge, lifted>>
    BY <2>0 DEF Apart, NotErasure, erasureVars
  <2>1. CASE (ScanStep \/ MailboxStep \/ BumpEngagement \/ ScanKilled) /\ Apart
    <3>1. MailEffectOnly
      BY <1>0, <2>1, MailKeeps
    <3> QED BY <1>2, <2>0, <2>1, <3>1 DEF MailEffectOnly, OnlyIn, Tables
  <2>2. ASSUME NEW w \in {"scan", "api"}, RouteStep(w), Apart
        PROVE  /\ db'.token = "used" => db'.supp \/ router'["link"].pc = "suppress"
               /\ Purged' => db'.supp
    <3>1. RouteEffect(w)
      BY <1>0, <2>2, RouteKeeps DEF Routers
    <3>2. router'["link"] = router["link"]
      BY <2>2, <3>1 DEF RouteEffect, Routers
    <3> QED BY <1>2, <2>0, <2>2, <3>1, <3>2 DEF RouteEffect, OnlyIn, Tables
  <2>3. CASE WriteEngagement("reply") /\ NotReplies /\ Apart
    <3>1. OnlyIn({"lead"})
      BY <1>0, <2>3, WriteEngagementEffect DEF Adders
    <3> QED BY <1>2, <2>0, <2>3, <3>1 DEF OnlyIn, Tables, NotReplies, repliesVars
  <2> QED BY <1>7, <2>1, <2>2, <2>3 DEF RepliesAct, ScanActs, Routed
<1>8. CASE ErasureActs
  <2>1. CASE UseToken
    <3>1. router'["link"].pc = "suppress"
      <4>1. router' = [router EXCEPT !["link"] = [router["link"] EXCEPT !.pc = "suppress", !.class = "unsubscribe"]]
        BY <1>1, <2>1 DEF UseToken
      <4> QED BY <1>0, <4>1 DEF Routers, RouterRow
    <3>2. db'.supp = db.supp /\ UNCHANGED <<purge, lifted>>
      BY <1>0, <1>1, <2>1 DEF UseToken, DbRow
    <3> QED BY <1>1, <3>1, <3>2 DEF OptInv, Purged
  <2>2. CASE RouteStep("link") /\ UNCHANGED <<link, purge, lifted>>
    <3>1. RouteEffect("link")
      BY <1>0, <2>2, RouteKeeps DEF Routers
    <3>2. db'.token = db.token
      BY <3>1 DEF RouteEffect, OnlyIn, Tables
    <3> QED BY <1>1, <2>2, <3>1, <3>2 DEF RouteEffect, OptInv, Purged
  <2>3. CASE PurgeActs
    <3>1. PurgeEffect(PurgeOrder[purge])
      BY <1>0, <1>1, <2>3, PurgeKeeps DEF PurgeActs
    <3>2. Purged' => purge = 9
      BY <1>0, <2>3, PurgeSteps DEF PurgeActs, PurgeTable, Purged
    <3>3. purge \in 1..9 /\ router' = router /\ lifted' = lifted
      BY <2>3, PurgeSteps DEF PurgeActs, PurgeTable
    <3>4. Purged' => db'.supp
      <4>1. ASSUME Purged' PROVE PurgeOrder[purge] = "suppression_list"
        BY <3>2, <3>3, <4>1, PurgeSteps
      <4>2. PurgeOrder[purge] = "suppression_list" => db'.supp
        BY <3>1 DEF PurgeEffect
      <4> QED BY <4>1, <4>2
    <3>5. db'.token = "used" => db'.supp \/ router'["link"].pc = "suppress"
      BY <1>1, <3>1, <3>3 DEF PurgeEffect, OptInv
    <3> QED BY <3>4, <3>5
  <2>4. CASE AddedAgain
    <3>1. OnlyIn({"lead", "place", "job"}) /\ purge' = 0
      BY <1>0, <2>4, AddKeeps DEF AddedAgain
    <3>2. ~Purged'
      BY <3>1, PurgeSteps DEF Purged
    <3>3. db'.supp = db.supp /\ db'.token = db.token
      BY <3>1 DEF OnlyIn, Tables
    <3>4. router' = router /\ lifted' = lifted
      BY <2>4 DEF AddedAgain, AddLead
    <3> QED BY <1>1, <3>2, <3>3, <3>4 DEF OptInv
  <2>5. CASE OpenLink /\ UNCHANGED router
    BY <1>2, <2>5 DEF OpenLink
  <2>6. CASE SuppressByHand
    <3>1. db'.supp
      BY <1>0, <2>6 DEF SuppressByHand, DbRow
    <3> QED BY <3>1
  <2>7. CASE LiftSuppression
    BY <2>7 DEF LiftSuppression
  <2>8. CASE StartPurge /\ UNCHANGED router
    <3>1. ~Purged'
      BY <2>8, PurgeSteps DEF StartPurge, Purged
    <3> QED BY <1>1, <2>8, <3>1 DEF StartPurge, OptInv
  <2> QED BY <1>1, <1>8, <2>1, <2>2, <2>3, <2>4, <2>5, <2>6, <2>7, <2>8
          DEF ErasureActs, LinkActs, LinkStep, PurgeKilled, LinkKilled
<1>9. CASE UNCHANGED vars
  BY <1>2, <1>9 DEF vars, erasureVars, repliesVars
<1> QED BY <1>3, <1>4, <1>5, <1>6, <1>7, <1>8, <1>9 DEF Next

\* Who followed the unsubscribe link to its end, and who was erased, is on the
\* suppression list and stays there (api/main.py), unless a call failed or an
\* operator took the address off: for any cast, whatever else writes to the lead.
THEOREM OptOutCorrect == Spec => []OptOutIsKept
<1>1. Init => OptInv
  BY PurgeSteps DEF Init, TableInit, FreshDb, ErasureInit, OptInv, Purged
<1>2. OptInv => OptOutIsKept
  BY DEF OptInv, OptOutIsKept
<1> QED BY <1>1, <1>2, TypeInvInit, TypeInvStep, OptInvStep, PTL DEF Spec

-----------------------------------------------------------------------------
(* The end of the sequence.                                                 *)

\* Nothing of the sequence is left to be sent, now or ever.
Finished == db.place.step > NSteps \/ db.place.status = "none"
\* The sender goes by its copy of the row, whose step nobody else moves.
Underway == {"screen", "vet", "claim", "mail", "advance"}
NurtureInv ==
  env.faults = 0 =>
    /\ sender.pc \in Underway => db.place.step = sender.step \/ db.place.status = "none"
    /\ sender.pc \in {"contacted", "ask", "move"} /\ IsLast => Finished
    /\ db.lead.here /\ db.lead.stage = "nurture" /\ ~byhand => Finished

LEMMA NurtureInvStep == TypeInv /\ NurtureInv /\ [Next]_vars => NurtureInv'
<1> USE DEF Underway
<1> DEFINE Goal == /\ sender'.pc \in Underway => db'.place.step = sender'.step \/ db'.place.status = "none"
                   /\ sender'.pc \in {"contacted", "ask", "move"} /\ IsLast' => Finished'
                   /\ db'.lead.here /\ db'.lead.stage = "nurture" /\ ~byhand' => Finished'
<1> SUFFICES ASSUME TypeInv, NurtureInv, [Next]_vars, env'.faults = 0 PROVE Goal
  BY DEF NurtureInv
<1>0. /\ db \in DbRow /\ FunnelInv /\ EngagementOK /\ RepliesOK /\ ScanInv /\ BouncesOK
      /\ EnrichmentOK /\ ErasureOK /\ router \in [Routers -> RouterRow] /\ PlaceInv /\ MoveInv
      /\ sender \in SenderRow /\ sender.step \in 1..NSteps /\ FunnelOK
  BY RepliesRows DEF TypeInv, FunnelInv, FunnelOK, SenderRow
<1>1. env.faults = 0 /\ ~Fault
  BY NoFaultYet DEF TypeInv
<1>2. /\ sender.pc \in Underway => db.place.step = sender.step \/ db.place.status = "none"
      /\ sender.pc \in {"contacted", "ask", "move"} /\ IsLast => Finished
      /\ db.lead.here /\ db.lead.stage = "nurture" /\ ~byhand => Finished
  BY <1>1 DEF NurtureInv
\* What the others do: the row is closed or gone, and the stage is not 'nurture'.
<1>3. ASSUME sender' = sender, PlaceClosed \/ db'.place \in {db.place, NoPlace},
             /\ db'.lead.here /\ db'.lead.stage = "nurture" /\ ~byhand'
             => db.lead.here /\ db.lead.stage = "nurture" /\ ~byhand
      PROVE  Goal
  <2>1. /\ Finished => Finished'
        /\ db'.place.status = "none" \/ (db'.place.step = db.place.step /\ db.place.status # "none")
           \/ db'.place = db.place
    BY <1>3 DEF PlaceClosed, NoPlace, Finished, Closed
  <2>2. IsLast' <=> IsLast
    BY <1>3 DEF IsLast
  <2> QED BY <1>2, <1>3, <2>1, <2>2
<1>4. ASSUME NotFunnel, PlaceClosed, StageKept PROVE Goal
  BY <1>3, <1>4 DEF NotFunnel, funnelVars, StageKept
<1>5. CASE FunnelStep /\ OnlyFunnel
  <2>1. CASE ListDue \/ AskSuppressed \/ AskBounced
    <3>1. /\ db' = db /\ sender'.pc \in {"screen", "optout", "vet", "bounced", "claim", "idle"}
          /\ sender'.pc # "idle" => IF ListDue THEN sender'.step = db.place.step ELSE sender'.step = sender.step
      BY <1>0, <2>1, CheckEffect
    <3>2. byhand' = byhand /\ (ListDue \/ sender.pc \in {"screen", "vet"})
      BY <2>1 DEF ListDue, AskSuppressed, AskBounced, Screened
    <3> QED BY <1>2, <3>1, <3>2 DEF Finished
  <2>2. CASE CloseRow
    <3>1. OnlyIn({"place"}) /\ PlaceClosed /\ sender'.pc = "idle" /\ byhand' = byhand
      BY <1>0, <2>2, CloseRowEffect DEF CloseRow
    <3>2. Finished => Finished'
      BY <3>1 DEF PlaceClosed, Finished
    <3>3. db'.lead = db.lead
      BY <3>1 DEF OnlyIn, Tables
    <3> QED BY <1>2, <3>1, <3>2, <3>3
  <2>6. CASE Claim
    <3>1. /\ db'.lead = db.lead
          /\ \/ db' = db /\ sender'.pc = "idle"
             \/ /\ db'.place = [db.place EXCEPT !.status = "sending"]
                /\ db.place.status = "active" /\ sender'.pc = "mail" /\ sender'.step = sender.step
      BY <1>0, <2>6, ClaimEffect
    <3>2. byhand' = byhand /\ sender.pc = "claim" /\ db.place \in PlaceRow
      BY <1>0, <2>6, LeadFields DEF Claim
    <3>3. db'.place.step = db.place.step /\ (db.place.status = "none" => db'.place.status = "none")
      BY <3>1, <3>2 DEF PlaceRow
    <3> QED BY <1>2, <3>1, <3>2, <3>3 DEF Finished
  <2>3. CASE Mail
    <3>1. db'.place = db.place /\ db'.lead = db.lead
      BY <1>0, <2>3, MailEffect
    <3>2. sender'.pc = "advance" /\ sender'.step = sender.step /\ sender.pc = "mail" /\ byhand' = byhand
      BY <1>0, <2>3 DEF Mail, SenderTo, SenderRow
    <3> QED BY <1>2, <3>1, <3>2 DEF Finished
  <2>4. CASE Advance
    <3>1. /\ db'.lead = db.lead
          /\ \/ db.place.status = "none" /\ db'.place = db.place
             \/ db.place.status # "none" /\ db'.place.step = sender.step + 1 /\ db'.place.status # "none"
      BY <1>0, <1>1, <2>4, AdvanceEffect
    <3>2. /\ sender'.pc = IF IsLast THEN "contacted" ELSE "ask"
          /\ sender'.step = sender.step /\ sender.pc = "advance" /\ byhand' = byhand
      BY <1>0, <2>4 DEF Advance, SenderRow
    <3>3. IsLast => Finished'
      BY <1>0, <3>1, LeadTableAssumption DEF Finished, IsLast
    <3>4. IsLast' <=> IsLast
      BY <3>2 DEF IsLast
    \* A lead in 'nurture' has nothing left: the row that is advanced is gone.
    <3>5. Finished => Finished'
      <4>1. Finished => db.place.status = "none"
        BY <1>0, <1>2, <3>2, LeadTableAssumption DEF Finished
      <4> QED BY <3>1, <4>1 DEF Finished
    <3> QED BY <1>2, <3>1, <3>2, <3>3, <3>4, <3>5
  <2>5. CASE \/ MarkContacted \/ AskStage \/ MoveStage \/ CoolsDown
             \/ \E n \in Nurses : NurseStep(n)
             \/ \E s \in Stages : MoveByHand(s)
    <3>1. /\ db'.place = db.place /\ db'.lead.here = db.lead.here
          /\ \/ StageKept
             \/ MoveStage /\ db'.lead.stage \in {db.lead.stage, sender.target}
             \/ db'.lead.stage \in {db.lead.stage, "cold"} /\ sender' = sender /\ (byhand' = FALSE)
             \/ byhand' = TRUE /\ sender' = sender
      BY <1>0, <2>5, OtherFunnelEffect DEF FunnelEffect, ScoreKept
    <3>2. Finished' <=> Finished
      BY <3>1 DEF Finished
    <3>3. CASE MarkContacted \/ AskStage
      <4>1. /\ sender'.pc \in {"ask", "move", "idle"}
            /\ sender'.pc # "idle" => sender'.step = sender.step /\ sender.pc \in {"contacted", "ask"}
            /\ byhand' = byhand
        <5>1. CASE MarkContacted
          BY <1>0, <5>1 DEF MarkContacted, SenderRow
        <5>2. CASE AskStage
          BY <1>0, <5>2 DEF AskStage, SenderRow, IdleSender
        <5> QED BY <3>3, <5>1, <5>2
      <4>2. sender'.pc # "idle" => (IsLast' <=> IsLast)
        BY <4>1 DEF IsLast
      <4>3. db'.lead.stage = db.lead.stage
        <5>1. CASE AskStage
          BY <5>1 DEF AskStage
        <5>2. CASE MarkContacted
          BY <1>0, <5>2, NoChange, StatusWrite DEF MarkContacted, Call, LeadStatuses, StageKept
        <5> QED BY <3>3, <5>1, <5>2
      <4> QED BY <1>2, <3>1, <3>2, <4>1, <4>2, <4>3
    <3>4. CASE MoveStage
      <4>1. sender' = IdleSender /\ byhand' = FALSE /\ sender.pc = "move"
        BY <3>4 DEF MoveStage
      <4>2. db' = Moved(sender.target) /\ sender.target \in Stages /\ (sender.target = "nurture" => IsLast)
        BY <1>0, <1>1, <3>4, <4>1 DEF MoveStage, Call, MoveInv
      <4>3. db'.lead.stage = IF db.lead.here THEN sender.target ELSE db.lead.stage
        BY <1>0, <4>2, StageWrite
      <4> QED BY <1>2, <3>1, <3>2, <4>1, <4>2, <4>3 DEF IdleSender
    <3>5. CASE CoolsDown \/ (\E n \in Nurses : FindCooled(n))
      <4>1. StageKept /\ sender' = sender /\ byhand' = byhand
        BY <1>0, <3>1, <3>5 DEF CoolsDown, FindCooled, DbRow, LeadRow, StageKept
      <4> QED BY <1>3, <3>1, <4>1 DEF StageKept, PlaceClosed
    <3>6. ASSUME NEW n \in Nurses, Reengage(n) PROVE Goal
      <4>1. db' = Moved("cold") /\ sender' = sender
        BY <1>1, <3>6 DEF Reengage, Call
      <4>2. db'.lead.stage = IF db.lead.here THEN "cold" ELSE db.lead.stage
        BY <1>0, <4>1, StageWrite DEF Stages
      <4> QED BY <1>3, <3>1, <4>1, <4>2
    <3>7. ASSUME NEW s \in Stages, MoveByHand(s) PROVE Goal
      BY <1>3, <3>1, <3>7 DEF MoveByHand
    <3> QED BY <2>5, <3>3, <3>4, <3>5, <3>6, <3>7 DEF NurseStep
  <2> QED BY <1>5, <2>1, <2>2, <2>3, <2>4, <2>5, <2>6 DEF FunnelStep, SenderStep
<1>6. CASE EngagementStep /\ OnlyEngagement
  <2>1. OnlyIn({"lead", "facts", "tracked"}) /\ StageKept
    BY <1>0, <1>6, ScoreKeeps DEF ScoreEffect
  <2>2. PlaceClosed
    BY <2>1 DEF OnlyIn, Tables, PlaceClosed
  <2> QED BY <1>4, <1>6, <2>1, <2>2 DEF OnlyEngagement
<1>7. CASE BouncesStep /\ OnlyBounces
  <2>1. BounceEffect
    BY <1>0, <1>7, BouncesKeep
  <2> QED BY <1>4, <1>7, <2>1 DEF BounceEffect, OnlyBounces
<1>8. CASE EnrichmentStep /\ OnlyEnrichment
  <2>1. OnlyIn({"job"})
    BY <1>0, <1>8, EnrichmentKeeps
  <2>2. StageKept /\ PlaceClosed
    BY <2>1, OtherWrite DEF OnlyIn, Tables
  <2> QED BY <1>4, <1>8, <2>2 DEF OnlyEnrichment
<1>9. CASE RepliesAct
  <2>1. CASE (ScanStep \/ MailboxStep \/ BumpEngagement \/ ScanKilled) /\ NotFunnel
    <3>1. MailEffectOnly
      BY <1>0, <2>1, MailKeeps
    <3>2. StageKept /\ PlaceClosed
      BY <3>1, OtherWrite DEF MailEffectOnly, OnlyIn, Tables
    <3> QED BY <1>4, <2>1, <3>2
  <2>2. ASSUME NEW w \in {"scan", "api"}, Routed(w) PROVE Goal
    <3>1. RouteEffect(w)
      BY <1>0, <2>2, RouteKeeps DEF Routed, Routers
    <3>2. sender' = sender /\ (byhand' <=> (byhand /\ router[w].pc # "stage"))
      BY <2>2 DEF Routed
    <3>3. /\ db'.lead.here /\ db'.lead.stage = "nurture" /\ ~byhand'
          => db.lead.here /\ db.lead.stage = "nurture" /\ ~byhand
      <4>1. CASE router[w].pc = "stage"
        <5>1. RouteStage(w)
          BY <2>2, <4>1 DEF Routed, RouteStep, UpdateStatus, ReadRules, StopSequence, Suppress,
                            CancelSends, MarkUnsubscribed
        <5>2. db' = Moved(StageFor(router[w].class))
          BY <1>1, <5>1 DEF RouteStage, Call
        <5>3. /\ StageFor(router[w].class) \in {"hot", "unsubscribed", "lost"}
              /\ StageFor(router[w].class) \in Stages
          BY DEF StageFor, Stages
        <5>4. /\ db'.lead.stage = IF db.lead.here THEN StageFor(router[w].class) ELSE db.lead.stage
              /\ db'.lead.here = db.lead.here
          BY <1>0, <5>2, <5>3, StageWrite DEF ScoreKept
        <5> QED BY <5>3, <5>4
      <4>2. CASE router[w].pc # "stage"
        BY <3>1, <3>2, <4>2 DEF RouteEffect, ScoreKept
      <4> QED BY <4>1, <4>2
    <3> QED BY <1>3, <3>1, <3>2, <3>3 DEF RouteEffect
  <2>3. CASE WriteEngagement("reply") /\ NotFunnel
    <3>1. OnlyIn({"lead"}) /\ StageKept
      BY <1>0, <2>3, WriteEngagementEffect DEF Adders, ScoreEffect
    <3>2. PlaceClosed
      BY <3>1 DEF OnlyIn, Tables, PlaceClosed
    <3> QED BY <1>4, <2>3, <3>1, <3>2
  <2> QED BY <1>9, <2>1, <2>2, <2>3 DEF RepliesAct, ScanActs
<1>10. CASE ErasureActs
  <2>1. ASSUME OnlyIn({"supp", "token"}), UNCHANGED <<sender, byhand>> PROVE Goal
    <3>1. StageKept /\ PlaceClosed
      BY <2>1, OtherWrite DEF OnlyIn, Tables
    <3> QED BY <1>3, <2>1, <3>1 DEF StageKept
  <2>2. CASE LinkActs
    <3>1. CASE RouteStep("link")
      <4>1. RouteEffect("link")
        BY <1>0, <3>1, RouteKeeps DEF Routers
      <4>2. sender' = sender /\ byhand' = byhand
        BY <2>2 DEF LinkActs, OutApart
      <4>3. db'.lead.here /\ db'.lead.stage = "nurture" => db.lead.here /\ db.lead.stage = "nurture"
        BY <4>1 DEF RouteEffect, ScoreKept
      <4> QED BY <1>3, <4>1, <4>2, <4>3 DEF RouteEffect
    <3>2. CASE UseToken
      BY <1>0, <2>1, <2>2, <3>2, WayOutKeeps DEF LinkActs, OutApart
    <3> QED BY <2>2, <3>1, <3>2 DEF LinkActs, LinkStep
  <2>3. CASE PurgeActs
    <3>1. PurgeEffect(PurgeOrder[purge])
      BY <1>0, <1>1, <2>3, PurgeKeeps DEF PurgeActs
    <3>2. sender' = sender /\ byhand' = byhand
      BY <2>3 DEF PurgeActs, OutApart
    <3> QED BY <1>3, <3>1, <3>2 DEF PurgeEffect
  <2>4. CASE AddedAgain
    <3>1. db'.lead = FreshDb.lead
      BY <1>0, <2>4, AddKeeps DEF AddedAgain
    <3>2. sender'.pc = "idle" /\ db'.lead.stage = "cold"
      BY <2>4, <3>1, FreshTypes DEF AddedAgain, AllIdle
    <3> QED BY <3>2
  <2>5. CASE /\ OpenLink \/ SuppressByHand \/ LiftSuppression \/ StartPurge \/ PurgeKilled \/ LinkKilled
             /\ OutApart
    BY <1>0, <2>1, <2>5, WayOutKeeps DEF OutApart
  <2> QED BY <1>10, <2>2, <2>3, <2>4, <2>5 DEF ErasureActs
<1>11. CASE UNCHANGED vars
  BY <1>3, <1>11 DEF vars, funnelVars
<1> QED BY <1>5, <1>6, <1>7, <1>8, <1>9, <1>10, <1>11 DEF Next

\* A lead that no operator put there is in 'nurture' only when its sequence has
\* gone out (funnel_engine.py and its callers), for any number of steps, jobs and
\* replies, as long as no call fails.
THEOREM NurtureCorrect == Spec => []NurtureMeansFinished
<1>1. Init => NurtureInv
  <2> SUFFICES ASSUME Init PROVE NurtureInv
    OBVIOUS
  <2>1. db.lead.stage = "cold" /\ sender.pc = "idle"
    BY FreshTypes DEF Init, TableInit, FunnelInit, IdleSender
  <2> QED BY <2>1 DEF NurtureInv, Underway
<1>2. NurtureInv => NurtureMeansFinished
  BY DEF NurtureInv, NurtureMeansFinished, Finished, Lead
<1> QED BY <1>1, <1>2, TypeInvInit, TypeInvStep, NurtureInvStep, PTL DEF Spec


-----------------------------------------------------------------------------
(* The score is exact.                                                      *)

\* Also the days agree, or the next decay would not take off what it should.
ScoreInv == Lead.here => (ledger.raced \/ Lead.score = ledger.score) /\ Lead.age = ledger.days

LEMMA ScoreInvStep == TypeInv /\ ScoreInv /\ [Next]_vars => ScoreInv'
<1> SUFFICES ASSUME TypeInv, ScoreInv, [Next]_vars PROVE ScoreInv'
  OBVIOUS
<1>0. /\ db \in DbRow /\ FunnelInv /\ EngagementOK /\ RepliesOK /\ ScanInv /\ BouncesOK
      /\ EnrichmentOK /\ ErasureOK /\ router \in [Routers -> RouterRow] /\ PlaceInv
  BY RepliesRows DEF TypeInv, FunnelInv
<1>1. ledger.score \in 0..MaxScore /\ ledger.days \in Nat /\ ledger.raced \in BOOLEAN
      /\ ledger = [score |-> ledger.score, days |-> ledger.days, raced |-> ledger.raced]
  BY <1>0 DEF EngagementOK
\* What the others do: the row keeps its score and its age, or is gone.
<1>2. ASSUME ledger' = ledger,
             \/ ScoreKept
             \/ db'.lead = db.lead
             \/ ~db'.lead.here
      PROVE  ScoreInv'
  BY <1>2 DEF ScoreInv, ScoreKept, Lead
<1>3. ASSUME ledger' = ledger, NEW changed \in SUBSET (Tables \ {"lead", "place"}), OnlyIn(changed)
      PROVE  ScoreInv'
  BY <1>2, <1>3 DEF OnlyIn, Tables
<1>4. ASSUME NEW a \in Adders, WriteEngagement(a) PROVE ScoreInv'
  <2>1. /\ OnlyIn({"lead"}) /\ db'.lead.here = db.lead.here
        /\ \/ db' = db /\ ledger' = ledger /\ Fault
           \/ /\ db.lead.here => db'.lead.score = Added(adder[a].base, adder[a].event) /\ db'.lead.age = 0
              /\ ledger' = [score |-> Added(ledger.score, adder[a].event), days |-> 0,
                            raced |-> ledger.raced \/ adder[a].base # Lead.score]
    BY <1>0, <1>4, WriteEngagementEffect DEF ScoreEffect, StageKept
  <2>2. CASE db' = db /\ ledger' = ledger
    BY <1>2, <2>2
  <2>3. CASE /\ db.lead.here => db'.lead.score = Added(adder[a].base, adder[a].event) /\ db'.lead.age = 0
             /\ ledger' = [score |-> Added(ledger.score, adder[a].event), days |-> 0,
                           raced |-> ledger.raced \/ adder[a].base # Lead.score]
    <3>1. /\ ledger'.score = Added(ledger.score, adder[a].event) /\ ledger'.days = 0
          /\ ledger'.raced <=> (ledger.raced \/ adder[a].base # Lead.score)
      BY <2>3
    <3> QED BY <2>1, <2>3, <3>1 DEF ScoreInv, Lead
  <2> QED BY <2>1, <2>2, <2>3
<1>5. ASSUME NEW d \in Decayers, WriteDecay(d) PROVE ScoreInv'
  <2>1. /\ OnlyIn({"lead"}) /\ db'.lead.here = db.lead.here
        /\ \/ db' = db /\ ledger' = ledger /\ Fault
           \/ /\ db.lead.here => /\ db'.lead.score = Minus(decayer[d].base, Decay * decayer[d].days)
                                 /\ db'.lead.age = 0
              /\ ledger' = [score |-> Minus(ledger.score, Decay * ledger.days), days |-> 0,
                            raced |-> \/ ledger.raced \/ decayer[d].base # Lead.score
                                      \/ decayer[d].days # Lead.age]
    BY <1>0, <1>5, WriteDecayEffect DEF ScoreEffect, StageKept
  <2>2. CASE db' = db /\ ledger' = ledger
    BY <1>2, <2>2
  <2>3. CASE /\ db.lead.here => /\ db'.lead.score = Minus(decayer[d].base, Decay * decayer[d].days)
                                /\ db'.lead.age = 0
             /\ ledger' = [score |-> Minus(ledger.score, Decay * ledger.days), days |-> 0,
                           raced |-> \/ ledger.raced \/ decayer[d].base # Lead.score
                                     \/ decayer[d].days # Lead.age]
    <3>1. /\ ledger'.score = Minus(ledger.score, Decay * ledger.days) /\ ledger'.days = 0
          /\ ledger'.raced <=> (ledger.raced \/ decayer[d].base # Lead.score \/ decayer[d].days # Lead.age)
      BY <2>3
    <3>2. db.lead.here /\ ~ledger'.raced => decayer[d].base = ledger.score /\ decayer[d].days = ledger.days
      BY <3>1 DEF ScoreInv, Lead
    <3>3. db.lead.here /\ ~ledger'.raced => db'.lead.score = ledger'.score
      BY <2>3, <3>1, <3>2
    <3>4. db.lead.here => db'.lead.age = ledger'.days
      BY <2>3, <3>1
    <3> QED BY <2>1, <3>3, <3>4 DEF ScoreInv, Lead
  <2> QED BY <2>1, <2>2, <2>3
<1>6. ASSUME \/ DayPasses \/ Track("opened") \/ Track("clicked")
             \/ \E d \in Decayers : ListForDecay(d)
      PROVE  ScoreInv'
  <2>1. /\ StageKept
        /\ \/ ScoreKept /\ ledger' = ledger
           \/ DayPasses /\ db'.lead.score = db.lead.score /\ db'.lead.age = db.lead.age + 1
    BY <1>0, <1>6, OtherScoreEffect DEF ScoreEffect
  <2>2. CASE ScoreKept /\ ledger' = ledger
    BY <1>2, <2>2
  <2>3. CASE DayPasses /\ db'.lead.score = db.lead.score /\ db'.lead.age = db.lead.age + 1
    <3>1. ledger'.score = ledger.score /\ ledger'.days = ledger.days + 1 /\ ledger'.raced = ledger.raced
      BY <1>1, <2>3 DEF DayPasses
    <3> QED BY <2>1, <2>3, <3>1 DEF ScoreInv, Lead, StageKept
  <2> QED BY <2>1, <2>2, <2>3
<1>7. CASE FunnelStep /\ OnlyFunnel
  <2>1. ScoreKept
    BY <1>0, <1>7, FunnelKeeps DEF FunnelEffect
  <2> QED BY <1>2, <1>7, <2>1 DEF OnlyFunnel, NotEngagement, engagementVars
<1>8. CASE EngagementStep
  BY <1>4, <1>5, <1>6, <1>8 DEF EngagementStep, TrackStep, DecayStep, Adders
<1>9. CASE BouncesStep /\ OnlyBounces
  <2>1. ScoreKept
    BY <1>0, <1>9, BouncesKeep DEF BounceEffect
  <2> QED BY <1>2, <1>9, <2>1 DEF OnlyBounces, NotEngagement, engagementVars
<1>10. CASE EnrichmentStep /\ OnlyEnrichment
  <2>1. OnlyIn({"job"})
    BY <1>0, <1>10, EnrichmentKeeps
  <2> QED BY <1>3, <1>10, <2>1 DEF OnlyEnrichment, NotEngagement, engagementVars, Tables
<1>11. CASE RepliesAct
  <2>1. CASE \/ (ScanStep \/ MailboxStep) /\ NotEngagement
             \/ (BumpEngagement \/ ScanKilled) /\ UNCHANGED <<decayer, ledger>>
    <3>1. OnlyIn({"replies"})
      BY <1>0, <2>1, MailKeeps DEF MailEffectOnly
    <3> QED BY <1>3, <2>1, <3>1 DEF NotEngagement, engagementVars, Tables
  <2>2. ASSUME NEW w \in {"scan", "api"}, Routed(w) PROVE ScoreInv'
    <3>1. ScoreKept
      BY <1>0, <2>2, RouteKeeps DEF Routed, Routers, RouteEffect
    <3> QED BY <1>2, <2>2, <3>1 DEF Routed, engagementVars
  <2>3. CASE WriteEngagement("reply")
    BY <1>4, <2>3 DEF Adders
  <2> QED BY <1>11, <2>1, <2>2, <2>3 DEF RepliesAct, ScanActs
<1>12. CASE ErasureActs
  <2>1. CASE LinkActs
    <3>1. ledger' = ledger
      BY <2>1 DEF LinkActs, OutApart, NotEngagement, engagementVars
    <3>2. CASE UseToken
      BY <1>0, <1>3, <3>1, <3>2, WayOutKeeps DEF Tables
    <3>3. CASE RouteStep("link")
      BY <1>0, <1>2, <3>1, <3>3, RouteKeeps DEF RouteEffect, Routers
    <3> QED BY <2>1, <3>2, <3>3 DEF LinkActs, LinkStep
  <2>2. CASE PurgeActs
    <3>1. db' = db \/ PurgeEffect(PurgeOrder[purge])
      BY <1>0, <2>2, PurgeKeeps DEF PurgeActs
    <3>2. db'.lead = db.lead \/ ~db'.lead.here
      BY <3>1 DEF PurgeEffect
    <3> QED BY <1>2, <2>2, <3>2 DEF PurgeActs, OutApart, NotEngagement, engagementVars
  <2>3. CASE AddedAgain
    <3>1. db'.lead.score = 0 /\ db'.lead.age = 0
      BY <1>0, <2>3, AddKeeps, FreshTypes DEF AddedAgain
    <3>2. ledger'.score = 0 /\ ledger'.days = 0
      BY <2>3 DEF AddedAgain
    <3> QED BY <3>1, <3>2 DEF ScoreInv, Lead
  <2>4. CASE /\ OpenLink \/ SuppressByHand \/ LiftSuppression \/ StartPurge \/ PurgeKilled \/ LinkKilled
             /\ OutApart
    <3>1. OnlyIn({"supp", "token"})
      BY <1>0, <2>4, WayOutKeeps
    <3> QED BY <1>3, <2>4, <3>1 DEF OutApart, NotEngagement, engagementVars, Tables
  <2> QED BY <1>12, <2>1, <2>2, <2>3, <2>4 DEF ErasureActs
<1>13. CASE UNCHANGED vars
  BY <1>2, <1>13 DEF vars, engagementVars
<1> QED BY <1>7, <1>8, <1>9, <1>10, <1>11, <1>12, <1>13 DEF Next

\* Unless two writers of the score overlapped, it is every point earned less the
\* decay of every day gone by (engagement_scorer.py), for any points, any decay
\* and any number of jobs that run it, also when calls fail and the lead is
\* erased and added again.
THEOREM ScoreCorrect == Spec => []ScoreIsExact
<1>1. Init => ScoreInv
  <2> SUFFICES ASSUME Init PROVE ScoreInv
    OBVIOUS
  <2>1. db.lead.score = 0 /\ db.lead.age = 0
    BY FreshTypes DEF Init, TableInit
  <2>2. ledger.score = 0 /\ ledger.days = 0
    BY DEF Init, EngagementInit
  <2> QED BY <2>1, <2>2 DEF ScoreInv, Lead
<1>2. ScoreInv => ScoreIsExact
  BY DEF ScoreInv, ScoreIsExact
<1> QED BY <1>1, <1>2, TypeInvInit, TypeInvStep, ScoreInvStep, PTL DEF Spec

-----------------------------------------------------------------------------
(* Who has to do with replies.                                              *)

LEMMA RepliesApart ==
  ASSUME db \in DbRow, FunnelInv, EngagementOK, RepliesOK, ScanInv, BouncesOK, EnrichmentOK, ErasureOK,
         PlaceInv, router \in [Routers -> RouterRow], [Next]_vars, ~RepliesAct, ~PurgeActs
  PROVE  UNCHANGED <<given, scan, mail>> /\ db'.replies = db.replies
<1>1. CASE FunnelStep /\ OnlyFunnel
  BY <1>1, FunnelKeeps DEF FunnelEffect, OnlyFunnel, NotReplies, repliesVars, OnlyIn, Tables
<1>2. CASE EngagementStep /\ OnlyEngagement
  BY <1>2, ScoreKeeps DEF ScoreEffect, OnlyEngagement, NotReplies, repliesVars, OnlyIn, Tables
<1>3. CASE BouncesStep /\ OnlyBounces
  BY <1>3, BouncesKeep DEF BounceEffect, OnlyBounces, NotReplies, repliesVars, OnlyIn, Tables
<1>4. CASE EnrichmentStep /\ OnlyEnrichment
  BY <1>4, EnrichmentKeeps DEF OnlyEnrichment, NotReplies, repliesVars, OnlyIn, Tables
<1>5. CASE ErasureActs
  <2>1. CASE LinkActs
    <3>1. UNCHANGED <<given, scan, mail>>
      BY <2>1 DEF LinkActs, OutApart
    <3>2. CASE UseToken
      BY <3>1, <3>2, WayOutKeeps DEF OnlyIn, Tables
    <3>3. CASE RouteStep("link")
      BY <3>1, <3>3, RouteKeeps DEF RouteEffect, Routers, OnlyIn, Tables
    <3> QED BY <2>1, <3>2, <3>3 DEF LinkActs, LinkStep
  <2>2. CASE AddedAgain
    <3>1. OnlyIn({"lead", "place", "job"}) /\ UNCHANGED <<given, scan, mail>>
      BY <2>2, AddKeeps DEF AddedAgain
    <3> QED BY <3>1 DEF OnlyIn, Tables
  <2>3. CASE /\ OpenLink \/ SuppressByHand \/ LiftSuppression \/ StartPurge \/ PurgeKilled \/ LinkKilled
             /\ UNCHANGED given /\ OutApart
    BY <2>3, WayOutKeeps DEF OutApart, OnlyIn, Tables
  <2> QED BY <1>5, <2>1, <2>2, <2>3 DEF ErasureActs
<1>6. CASE UNCHANGED vars
  BY <1>6 DEF vars, repliesVars
<1> QED BY <1>1, <1>2, <1>3, <1>4, <1>5, <1>6 DEF Next

-----------------------------------------------------------------------------
(* A reply is handed on once.                                               *)

\* What was handed on is in the table, where the look-up finds it, unless it was
\* erased, and a message on its way through the scan has not been handed on.
Fresh(m) == given[m] \in {"never", "erased"}
HandledInv ==
  env.faults = 0 => \A m \in Msgs \ NoId :
    /\ given[m] # "again"
    /\ given[m] = "once" => db.replies[m] > 0
    /\ scan.pc \in {"store", "publish"} /\ scan.at = m => Fresh(m)
    /\ scan.pc = "publish" /\ scan.at = m => given[m] = "erased" \/ db.replies[m] > 0

LEMMA HandledInvStep == TypeInv /\ HandledInv /\ [Next]_vars => HandledInv'
<1> SUFFICES ASSUME TypeInv, HandledInv, [Next]_vars, env'.faults = 0, NEW m \in Msgs \ NoId
             PROVE  /\ given'[m] # "again"
                    /\ given'[m] = "once" => db'.replies[m] > 0
                    /\ scan'.pc \in {"store", "publish"} /\ scan'.at = m => Fresh(m)'
                    /\ scan'.pc = "publish" /\ scan'.at = m => given'[m] = "erased" \/ db'.replies[m] > 0
  BY DEF HandledInv
<1>0. /\ db \in DbRow /\ FunnelInv /\ EngagementOK /\ RepliesOK /\ ScanInv /\ BouncesOK
      /\ EnrichmentOK /\ ErasureOK /\ router \in [Routers -> RouterRow] /\ PlaceInv
      /\ given \in [Msgs -> Givens] /\ scan \in ScanRow /\ db.replies \in [Msgs -> 0..2]
  BY RepliesRows DEF TypeInv, FunnelInv, DbRow
<1>1. env.faults = 0 /\ ~Fault
  BY NoFaultYet DEF TypeInv
<1>2. /\ given[m] \in Givens /\ given[m] # "again" /\ m \in Msgs /\ db.replies[m] \in 0..2
      /\ given[m] = "once" => db.replies[m] > 0
      /\ scan.pc \in {"store", "publish"} /\ scan.at = m => Fresh(m)
      /\ scan.pc = "publish" /\ scan.at = m => given[m] = "erased" \/ db.replies[m] > 0
  BY <1>0, <1>1 DEF HandledInv
<1> DEFINE Goal == /\ given'[m] # "again"
                   /\ given'[m] = "once" => db'.replies[m] > 0
                   /\ scan'.pc \in {"store", "publish"} /\ scan'.at = m => Fresh(m)'
                   /\ scan'.pc = "publish" /\ scan'.at = m => given'[m] = "erased" \/ db'.replies[m] > 0
\* What the others do: neither the replies nor the scan.
<1>3. ASSUME given' = given, scan' = scan \/ scan'.pc \notin {"store", "publish"}, db'.replies = db.replies
      PROVE  Goal
  BY <1>2, <1>3 DEF Fresh
<1>4. CASE RepliesAct
  <2>1. CASE Store
    <3>1. /\ scan'.pc \in {"publish", "look"} /\ scan.pc = "store" /\ scan.at \in Msgs
          /\ given' \in {given, [given EXCEPT ![scan.at] = "erased"]}
          /\ db.replies \in [Msgs -> Nat] /\ db'.replies \in [Msgs -> Nat]
          /\ db'.replies[m] >= db.replies[m]
          /\ scan'.pc = "publish" => scan'.at = scan.at /\ given' = given /\ db'.replies[scan.at] > 0
      BY <1>0, <1>2, <2>1, StoreEffect DEF StoredBy, Store
    <3>2. db'.replies[m] \in Nat /\ db.replies[m] \in Nat
      BY <1>2, <3>1
    <3>3. given'[m] \in {given[m], "erased"}
      BY <1>0, <1>2, <3>1
    <3>4. scan'.pc = "publish" /\ scan'.at = m => Fresh(m)' /\ db'.replies[m] > 0
      BY <1>2, <3>1 DEF Fresh
    <3> QED BY <1>2, <3>1, <3>2, <3>3, <3>4
  \* Only a message that is not in the table is taken up: it was not handed on,
  \* or its row was erased.
  <2>2. CASE LookUp
    <3>1. /\ UNCHANGED <<db, given>>
          /\ \/ scan'.pc = "look"
             \/ scan'.pc = "store" /\ scan'.at = scan.at /\ ~Known(scan.at)
      BY <1>0, <1>1, <2>2, LookUpEffect
    <3>2. scan'.pc = "store" /\ scan'.at = m => Fresh(m)'
      BY <1>2, <3>1 DEF Known, Fresh, Givens
    <3> QED BY <1>2, <3>1, <3>2
  <2>3. CASE Publish
    <3>1. /\ db' = db /\ scan.pc = "publish" /\ scan.at \in Msgs /\ scan'.pc = "handlers"
          /\ given' = [given EXCEPT ![scan.at] = Handed(given[scan.at])]
      BY <1>0, <2>3, PublishEffect
    <3>2. CASE scan.at = m
      <4>1. given'[m] = Handed(given[m])
        BY <1>0, <1>2, <3>1, <3>2
      <4>2. given[m] = "erased" \/ (given[m] = "never" /\ db.replies[m] > 0)
        BY <1>2, <3>1, <3>2 DEF Fresh
      <4> QED BY <3>1, <4>1, <4>2 DEF Handed
    <3>3. CASE scan.at # m
      BY <1>0, <1>2, <3>1, <3>3
    <3> QED BY <3>2, <3>3
  <2>4. ASSUME NEW n \in Msgs, Fetch(n) PROVE Goal
    BY <1>0, <1>3, <2>4, FetchEffect
  <2>5. CASE OtherMailStep
    BY <1>0, <1>3, <2>5, OtherMailEffect DEF InScan
  <2>6. ASSUME NEW w \in {"scan", "api"}, Routed(w) PROVE Goal
    BY <1>0, <1>3, <2>6, RouteKeeps DEF Routed, Routers, RouteEffect, OnlyIn, Tables
  <2>7. CASE WriteEngagement("reply") /\ NotReplies
    BY <1>0, <1>3, <2>7, WriteEngagementEffect DEF Adders, NotReplies, repliesVars, OnlyIn, Tables
  <2> QED BY <1>4, <2>1, <2>2, <2>3, <2>4, <2>5, <2>6, <2>7 DEF RepliesAct, ScanActs, ScanStep, OtherMailStep
\* What is erased is known to be.
<1>5. CASE PurgeActs
  <2>1. /\ db' \in DbRow /\ (db'.replies = db.replies \/ \A n \in Msgs : db'.replies[n] = 0)
    BY <1>0, <1>1, <1>5, PurgeKeeps DEF PurgeActs, PurgeEffect
  <2>2. /\ given'[m] = IF db.replies[m] > 0 /\ db'.replies[m] = 0 THEN "erased" ELSE given[m]
        /\ scan' = scan
    BY <1>2, <1>5 DEF PurgeActs, OutApart
  <2>3. db'.replies[m] = db.replies[m] \/ db'.replies[m] = 0
    BY <1>2, <2>1
  <2> QED BY <1>2, <2>2, <2>3 DEF Fresh
<1>6. ~RepliesAct /\ ~PurgeActs => UNCHANGED <<given, scan>> /\ db'.replies = db.replies
  BY <1>0, RepliesApart
<1> QED BY <1>3, <1>4, <1>5, <1>6

\* A reply that has a Message-ID is handed to the handlers once as long as its row
\* is in reply_inbox (imap_processor.py), over any number of scans of a mailbox in
\* which the operator marks messages as unread again, if no look-up fails.
THEOREM HandledCorrect == Spec => []HandledOnce
<1>1. Init => HandledInv
  BY DEF Init, RepliesInit, HandledInv, IdleScan
<1>2. TypeInv /\ HandledInv => HandledOnce
  BY DEF HandledOnce, HandledInv, TypeInv, EnvOK
<1> QED BY <1>1, <1>2, TypeInvInit, TypeInvStep, HandledInvStep, PTL DEF Spec

-----------------------------------------------------------------------------
(* A reply is not lost for nothing.                                         *)

\* Not handed on, and marked or stored already: no scan will do more for it. One
\* that the scan has in its hands is not given up yet, unless it was stored by an
\* earlier scan.
InHand(m) ==
  /\ scan.at = m
  /\ \/ scan.pc \in {"publish", "handlers"}
     \/ scan.pc \in {"dedup", "store"} /\ db.replies[m] = 0
GivenUp(m) == given[m] = "never" /\ (db.replies[m] > 0 \/ mail[m].state = "fetched") /\ ~InHand(m)
Gone == {m \in Msgs : GivenUp(m)}
LostInv ==
  /\ Cardinality(Gone) <= env.faults
  /\ scan.pc = "handlers" => given[scan.at] # "never"

\* A step gives up no message, unless a call fails or the scan is killed, which
\* costs one.
LEMMA GivingUp ==
  ASSUME TypeInv, LostInv, [Next]_vars
  PROVE  /\ \/ \A m \in Msgs : GivenUp(m)' => GivenUp(m)
            \/ Fault /\ \E x \in Msgs : \A m \in Msgs \ {x} : GivenUp(m)' => GivenUp(m)
         /\ scan'.pc = "handlers" => given'[scan'.at] # "never"
<1> DEFINE Goal == /\ \/ \A m \in Msgs : GivenUp(m)' => GivenUp(m)
                      \/ Fault /\ \E x \in Msgs : \A m \in Msgs \ {x} : GivenUp(m)' => GivenUp(m)
                   /\ scan'.pc = "handlers" => given'[scan'.at] # "never"
<1>0. /\ db \in DbRow /\ FunnelInv /\ EngagementOK /\ RepliesOK /\ ScanInv /\ BouncesOK
      /\ EnrichmentOK /\ ErasureOK /\ router \in [Routers -> RouterRow] /\ PlaceInv
      /\ given \in [Msgs -> Givens] /\ scan \in ScanRow /\ db.replies \in [Msgs -> 0..2]
  BY RepliesRows DEF TypeInv, FunnelInv, DbRow
<1>1. scan.pc = "handlers" => given[scan.at] # "never"
  BY DEF LostInv
\* What the others do.
<1>2. ASSUME given' = given, scan' = scan, db'.replies = db.replies,
             \A m \in Msgs : mail'[m].state = "fetched" => mail[m].state = "fetched"
      PROVE  Goal
  BY <1>1, <1>2 DEF GivenUp, InHand
<1>3. CASE RepliesAct
  <2>1. CASE Store
    <3>1. /\ scan'.pc \in {"publish", "look"} /\ scan.pc = "store" /\ scan.at \in Msgs /\ mail' = mail
          /\ given' \in {given, [given EXCEPT ![scan.at] = "erased"]}
          /\ \A m \in Msgs \ {scan.at} : db'.replies[m] = db.replies[m]
          /\ scan'.pc = "publish" => scan'.at = scan.at
          /\ ~Fault => scan'.pc = "publish" \/ given' = [given EXCEPT ![scan.at] = "erased"]
      BY <1>0, <2>1, StoreEffect DEF StoredBy, Store
    <3>2. \A m \in Msgs \ {scan.at} : GivenUp(m)' => GivenUp(m)
      BY <1>0, <3>1 DEF GivenUp, InHand
    <3>3. CASE scan'.pc = "publish"
      <4>1. ~GivenUp(scan.at)'
        BY <3>1, <3>3 DEF GivenUp, InHand
      <4> QED BY <3>1, <3>2, <3>3, <4>1
    <3>4. CASE given' = [given EXCEPT ![scan.at] = "erased"]
      <4>1. given'[scan.at] = "erased"
        BY <1>0, <3>1, <3>4
      <4>2. \A m \in Msgs : m = scan.at => ~GivenUp(m)'
        BY <4>1 DEF GivenUp
      <4> QED BY <3>1, <3>2, <4>2
    <3>5. CASE Fault
      BY <3>1, <3>2, <3>5
    <3> QED BY <3>1, <3>3, <3>4, <3>5
  <2>2. CASE LookUp
    <3>1. /\ UNCHANGED <<db, mail, given>> /\ scan.pc = "dedup" /\ scan.at \in Msgs
          /\ \/ scan'.pc = "look" /\ Known(scan.at)
             \/ scan'.pc = "store" /\ scan'.at = scan.at
      BY <1>0, <2>2, LookUpEffect
    <3>2. CASE scan'.pc = "look" /\ Known(scan.at)
      BY <1>0, <3>1, <3>2 DEF GivenUp, InHand, Known
    <3>3. CASE scan'.pc = "store" /\ scan'.at = scan.at
      BY <1>0, <3>1, <3>3 DEF GivenUp, InHand
    <3> QED BY <3>1, <3>2, <3>3
  <2>3. CASE Publish
    <3>1. /\ UNCHANGED <<db, mail>> /\ scan.pc = "publish" /\ scan.at \in Msgs
          /\ scan'.pc = "handlers" /\ scan'.at = scan.at /\ given'[scan.at] # "never"
          /\ given' = [given EXCEPT ![scan.at] = Handed(given[scan.at])]
      BY <1>0, <2>3, PublishEffect
    <3>2. ~GivenUp(scan.at)'
      BY <3>1 DEF GivenUp
    <3>3. \A m \in Msgs \ {scan.at} : GivenUp(m)' => GivenUp(m)
      BY <1>0, <3>1 DEF GivenUp, InHand
    <3> QED BY <3>1, <3>2, <3>3
  <2>4. ASSUME NEW n \in Msgs, Fetch(n) PROVE Goal
    <3>1. /\ db' = db /\ given' = given /\ scan.pc = "look" /\ scan'.pc \in {"dedup", "look"}
          /\ scan'.pc = "dedup" => scan'.at = n
          /\ \A m \in Msgs \ {n} : mail'[m] = mail[m]
          /\ ~Fault /\ mail'[n].state = "fetched" => scan'.pc = "dedup"
      BY <1>0, <2>4, FetchEffect
    <3>2. \A m \in Msgs \ {n} : GivenUp(m)' => GivenUp(m)
      BY <3>1 DEF GivenUp, InHand
    <3>3. ~Fault => (GivenUp(n)' => GivenUp(n))
      <4>1. db.replies[n] = 0 \/ db.replies[n] > 0
        BY <1>0
      <4> QED BY <3>1, <4>1 DEF GivenUp, InHand
    <3> QED BY <3>1, <3>2, <3>3
  <2>5. CASE OtherMailStep
    <3>1. /\ db' = db /\ given' = given /\ (scan'.pc \in InScan => scan' = scan)
          /\ \A m \in Msgs : mail'[m].state = "fetched" => mail[m].state = "fetched"
      BY <1>0, <2>5, OtherMailEffect
    <3>2. CASE scan' = scan
      BY <1>2, <3>1, <3>2
    <3>3. CASE ListLeads \/ ListUnseen \/ Scanned \/ Published
      <4>1. scan.pc \notin {"dedup", "store", "publish"}
        BY <3>3 DEF ListLeads, ListUnseen, Scanned, Published
      <4>2. \A m \in Msgs : GivenUp(m)' => GivenUp(m)
        BY <1>1, <3>1, <4>1 DEF GivenUp, InHand
      <4> QED BY <1>1, <3>1, <4>2 DEF InScan
    <3>4. CASE ScanKilled
      <4>1. Fault /\ scan'.pc \notin InScan
        BY <3>4 DEF ScanKilled, IdleScan, InScan
      <4>2. \A m \in Msgs \ {scan.at} : GivenUp(m)' => GivenUp(m)
        BY <3>1 DEF GivenUp, InHand
      <4>3. CASE scan.at \in Msgs
        BY <4>1, <4>2, <4>3 DEF InScan
      <4>4. CASE scan.at \notin Msgs
        BY <4>1, <4>2, <4>4 DEF InScan
      <4> QED BY <4>3, <4>4
    <3> QED BY <2>5, <3>2, <3>3, <3>4 DEF OtherMailStep, BumpEngagement, MailboxStep, RescueSpam,
               PatchRule, RouteByHand, ReadInGmail, MarkUnread, Arrive
  <2>6. ASSUME NEW w \in {"scan", "api"}, Routed(w) PROVE Goal
    BY <1>0, <1>2, <2>6, RouteKeeps DEF Routed, Routers, RouteEffect, OnlyIn, Tables
  <2>7. CASE WriteEngagement("reply") /\ NotReplies
    BY <1>0, <1>2, <2>7, WriteEngagementEffect DEF Adders, NotReplies, repliesVars, OnlyIn, Tables
  <2> QED BY <1>3, <2>1, <2>2, <2>3, <2>4, <2>5, <2>6, <2>7 DEF RepliesAct, ScanActs, ScanStep, OtherMailStep
<1>4. CASE PurgeActs
  <2>1. /\ db' \in DbRow /\ (db'.replies = db.replies \/ \A n \in Msgs : db'.replies[n] = 0)
    BY <1>0, <1>4, PurgeKeeps DEF PurgeActs, PurgeEffect
  <2>2. /\ UNCHANGED <<scan, mail>>
        /\ \A m \in Msgs : given'[m] = IF db.replies[m] > 0 /\ db'.replies[m] = 0 THEN "erased" ELSE given[m]
    BY <1>4 DEF PurgeActs, OutApart
  <2>3. \A m \in Msgs : db'.replies[m] = db.replies[m] \/ db'.replies[m] = 0
    BY <2>1
  <2>4. \A m \in Msgs : GivenUp(m)' => GivenUp(m)
    BY <1>0, <2>2, <2>3 DEF GivenUp, InHand
  <2>5. scan.pc = "handlers" => scan.at \in Msgs
    BY <1>0 DEF ScanInv, InScan
  <2> QED BY <1>1, <2>2, <2>4, <2>5
<1>5. ~RepliesAct /\ ~PurgeActs => UNCHANGED <<given, scan, mail>> /\ db'.replies = db.replies
  BY <1>0, RepliesApart
<1> QED BY <1>2, <1>3, <1>4, <1>5

LEMMA LostInvStep == TypeInv /\ LostInv /\ [Next]_vars => LostInv'
<1> SUFFICES ASSUME TypeInv, LostInv, [Next]_vars PROVE LostInv'
  OBVIOUS
<1>1. /\ Gone' \subseteq Gone \/ (Fault /\ \E x \in Msgs : Gone' \subseteq Gone \cup {x})
      /\ scan'.pc = "handlers" => given'[scan'.at] # "never"
  BY GivingUp DEF Gone
<1>2. IsFiniteSet(Gone) /\ Cardinality(Gone) \in Nat
  <2>1. Gone \subseteq Msgs
    BY DEF Gone
  <2> QED BY <2>1, RepliesAssumption, FS_Subset, FS_CardinalityType
<1>3. env.faults \in Nat /\ env'.faults \in Nat /\ env'.faults >= env.faults
      /\ (Fault => env'.faults = env.faults + 1) /\ Cardinality(Gone) <= env.faults
  BY EnvNext, EnvMovesHow DEF EnvMoves, EnvOK, TypeInv, LostInv
<1>4. CASE Gone' \subseteq Gone
  <2>1. Cardinality(Gone') <= Cardinality(Gone) /\ Cardinality(Gone') \in Nat
    BY <1>2, <1>4, FS_Subset, FS_CardinalityType
  <2> QED BY <1>1, <1>2, <1>3, <2>1 DEF LostInv
<1>5. ASSUME Fault, NEW x \in Msgs, Gone' \subseteq Gone \cup {x} PROVE LostInv'
  <2>1. IsFiniteSet(Gone \cup {x}) /\ Cardinality(Gone \cup {x}) <= Cardinality(Gone) + 1
    <3>1. /\ IsFiniteSet(Gone \cup {x})
          /\ Cardinality(Gone \cup {x}) = IF x \in Gone THEN Cardinality(Gone) ELSE Cardinality(Gone) + 1
      BY <1>2, FS_AddElement
    <3> QED BY <1>2, <3>1
  <2>2. /\ Cardinality(Gone') <= Cardinality(Gone \cup {x})
        /\ Cardinality(Gone') \in Nat /\ Cardinality(Gone \cup {x}) \in Nat
    BY <1>5, <2>1, FS_Subset, FS_CardinalityType
  <2> QED BY <1>1, <1>2, <1>3, <1>5, <2>1, <2>2 DEF LostInv
<1> QED BY <1>1, <1>4, <1>5

\* Whatever the scan takes from the mailbox for a reply of the lead reaches the
\* handlers (imap_processor.py), but for one message for every failing call and
\* every kill, and what an erasure takes: for any number of messages, scans and
\* messages that are marked as unread again.
THEOREM LostCorrect == Spec => []LostRepliesNeedFaults
<1>1. Init => LostInv
  <2> SUFFICES ASSUME Init PROVE LostInv
    OBVIOUS
  <2>1. Gone = {}
    BY DEF Init, TableInit, FreshDb, RepliesInit, Gone, GivenUp
  <2>2. env.faults = 0
    BY EnvInit DEF Init, TableInit
  <2> QED BY <2>1, <2>2, FS_EmptySet DEF LostInv, Init, RepliesInit, IdleScan
<1>2. TypeInv /\ LostInv => LostRepliesNeedFaults
  <2> SUFFICES ASSUME TypeInv, LostInv PROVE LostRepliesNeedFaults
    OBVIOUS
  <2>1. Gone \subseteq Msgs /\ {m \in Msgs : Lost(m)} \subseteq Gone
    BY DEF Gone, GivenUp, InHand, Lost
  <2>2. IsFiniteSet(Gone)
    BY <2>1, RepliesAssumption, FS_Subset
  <2>3. Cardinality({m \in Msgs : Lost(m)}) <= Cardinality(Gone)
        /\ Cardinality({m \in Msgs : Lost(m)}) \in Nat /\ Cardinality(Gone) \in Nat
    BY <2>1, <2>2, FS_Subset, FS_CardinalityType
  <2> QED BY <2>3 DEF LostInv, LostRepliesNeedFaults, TypeInv, EnvOK
<1> QED BY <1>1, <1>2, TypeInvInit, TypeInvStep, LostInvStep, PTL DEF Spec
=============================================================================
