------------------------------ MODULE LeadLife ------------------------------
(* One lead and all programs that write to it: the scheduler, the reply     *)
(* scan, the bounce handler, the enrichment workers, the daily jobs and the *)
(* API, in any interleaving of their database calls.                        *)
EXTENDS Erasure, Bounces, Enrichment

CONSTANT Scheduled   \* the programs a schedule starts, of those the API starts too

vars == <<db, env, funnelVars, engagementVars, repliesVars, bouncesVars, worker, erasureVars>>

Init ==
  /\ TableInit /\ FunnelInit /\ EngagementInit /\ RepliesInit
  /\ BouncesInit /\ EnrichmentInit /\ ErasureInit

\* What each program leaves alone.
NotFunnel == UNCHANGED funnelVars
NotEngagement == UNCHANGED engagementVars
NotReplies == UNCHANGED repliesVars
NotBounces == UNCHANGED bouncesVars
NotEnrichment == UNCHANGED worker
NotErasure == UNCHANGED erasureVars

OnlyFunnel == NotEngagement /\ NotReplies /\ NotBounces /\ NotEnrichment /\ NotErasure
OnlyEngagement == NotFunnel /\ NotReplies /\ NotBounces /\ NotEnrichment /\ NotErasure
OnlyBounces == NotFunnel /\ NotEngagement /\ NotReplies /\ NotEnrichment /\ NotErasure
OnlyEnrichment == NotFunnel /\ NotEngagement /\ NotReplies /\ NotBounces /\ NotErasure

Apart == NotBounces /\ NotEnrichment /\ NotErasure
\* A routed reply moves the lead in the funnel: no longer the operator's doing.
Routed(w) == RouteStep(w) /\ byhand' = (byhand /\ router[w].pc # "stage")
             /\ UNCHANGED <<sender, nurse, late, blind, engagementVars>>

ScanActs ==
  \/ ScanStep /\ NotFunnel /\ NotEngagement /\ Apart
  \/ Routed("scan") /\ Apart
  \/ BumpEngagement /\ UNCHANGED <<decayer, ledger>> /\ NotFunnel /\ Apart
  \/ WriteEngagement("reply") /\ NotFunnel /\ NotReplies /\ Apart
RepliesAct ==
  \/ ScanActs
  \/ Routed("api") /\ Apart
  \/ MailboxStep /\ NotFunnel /\ NotEngagement /\ Apart
  \/ ScanKilled /\ UNCHANGED <<decayer, ledger>> /\ NotFunnel /\ Apart

OutApart == /\ NotEngagement /\ NotBounces /\ NotEnrichment
            /\ UNCHANGED <<sender, nurse, byhand, mail, scan, optrule>> /\ Recount
LinkActs == LinkStep /\ UNCHANGED given /\ OutApart
\* Nothing knows of a reply whose row was erased.
PurgeActs == /\ PurgeTable /\ UNCHANGED router /\ OutApart
             /\ given' = [m \in Msgs |-> IF db.replies[m] > 0 /\ db'.replies[m] = 0
                                           THEN "erased" ELSE given[m]]

\* A lead that is added again is a new row, and nobody is at work on it.
AllIdle ==
  /\ sender.pc = "idle" /\ scan.pc = "idle" /\ link = "idle" /\ purge \notin DOMAIN PurgeOrder
  /\ \A n \in Nurses : nurse[n] = "idle"
  /\ \A a \in Adders : adder[a].pc = "idle"
  /\ \A d \in Decayers : decayer[d].pc = "idle"
  /\ \A w \in Routers : router[w].pc = "idle"
  /\ \A h \in Handlers : bscan[h].pc = "idle"
  /\ \A w \in Workers : worker[w].pc = "idle"
AddedAgain ==
  /\ AllIdle
  /\ \E bulk \in BOOLEAN : AddLead(bulk)
  /\ ledger' = [score |-> 0, days |-> 0, raced |-> FALSE]
  /\ byhand' = FALSE
  /\ Recount
  /\ UNCHANGED <<sender, nurse, adder, decayer, mail, scan, router, optrule, given, dsn, bscan, worker>>

ErasureActs ==
  \/ LinkActs \/ PurgeActs \/ AddedAgain
  \/ /\ OpenLink \/ SuppressByHand \/ LiftSuppression \/ StartPurge \/ PurgeKilled
     /\ UNCHANGED <<router, given>> /\ OutApart
  \/ LinkKilled /\ UNCHANGED given /\ OutApart

Next ==
  \/ FunnelStep /\ OnlyFunnel
  \/ EngagementStep /\ OnlyEngagement
  \/ BouncesStep /\ OnlyBounces
  \/ EnrichmentStep /\ OnlyEnrichment
  \/ RepliesAct
  \/ ErasureActs
Spec == Init /\ [][Next]_vars

\* The scheduled jobs come back and finish a run that was not killed, a call of
\* the enrichment that has begun ends, and pauses pass. Nothing is assumed of the
\* lead, of the operators or of who calls the API.
Fairness ==
  /\ WF_<<db, env, funnelVars>>(SenderStep)
  /\ WF_<<db, env, funnelVars>>(CoolsDown)
  /\ \A n \in Nurses \cap Scheduled : WF_<<db, env, funnelVars>>(NurseStep(n))
  /\ WF_vars(ScanActs)
  /\ \A w \in Workers : WF_<<db, env, worker>>(WorkerStep(w))
FairSpec == Spec /\ Fairness

TypeOK ==
  /\ TablesOK /\ FunnelOK /\ EngagementOK /\ RepliesOK
  /\ BouncesOK /\ EnrichmentOK /\ ErasureOK
=============================================================================
