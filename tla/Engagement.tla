---------------------------- MODULE Engagement ----------------------------
(* engagement_scorer.py: points for what a lead does, taken off again for   *)
(* every day it does nothing. Both read the score in one call and write it  *)
(* in another, from several programs at once.                               *)
EXTENDS LeadTable

CONSTANTS
  Points,      \* points of "opened", "clicked", "replied" and "interested"
  Decay,       \* points a day
  MaxAge,      \* days without activity that are told apart
  Decayers     \* daily_reset and POST /inboxes/reset-daily-counts

ASSUME EngagementAssumption ==
  /\ Points \in [{"opened", "clicked", "replied", "interested"} -> Nat]
  /\ Decay \in Nat /\ MaxAge \in Nat \ {0}

VARIABLES
  adder,    \* a call of add_engagement: of the tracking endpoints, of a reply
  decayer,  \* a run of apply_daily_decay
  ledger    \* history: the score as it should be, and whether two writers overlapped

engagementVars == <<adder, decayer, ledger>>

Adders == {"tracking", "reply"}
NoAdd == [pc |-> "idle", base |-> 0, event |-> "opened"]
NoDecay == [pc |-> "idle", base |-> 0, days |-> 0]

EngagementInit ==
  /\ adder = [a \in Adders |-> NoAdd]
  /\ decayer = [d \in Decayers |-> NoDecay]
  /\ ledger = [score |-> 0, days |-> 0, raced |-> FALSE]

Lower(m, n) == IF m < n THEN m ELSE n
Minus(m, n) == IF m < n THEN 0 ELSE m - n

\* The rest of a behaviour is about the other parts: the score stays as it is.
Scoring == Plays("score")

\* add_engagement, first call: nothing is added to a lead that is not there.
AddEngagement(a, event) ==
  adder' = IF Scoring /\ Lead.here
           THEN [adder EXCEPT ![a] = [pc |-> "write", base |-> Lead.score, event |-> event]]
           ELSE adder

Added(score, event) == Lower(MaxScore, score + Points[event])

WriteEngagement(a) ==
  /\ adder[a].pc = "write"
  /\ \/ /\ db' = WithLead([Lead EXCEPT !.score = Added(adder[a].base, adder[a].event), !.age = 0])
        /\ ledger' = [score |-> Added(ledger.score, adder[a].event), days |-> 0,
                      raced |-> ledger.raced \/ adder[a].base # Lead.score]
        /\ UNCHANGED env
     \/ Fault /\ UNCHANGED <<db, ledger>>
  /\ adder' = [adder EXCEPT ![a] = NoAdd]
  /\ UNCHANGED decayer

\* The days are counted from the last activity or the last decay.
Decays == Lead.here /\ Lead.score > 0 /\ Lead.age >= 1

ListForDecay(d) ==
  /\ Scoring /\ decayer[d].pc = "idle"
  /\ Decays
  /\ decayer' = [decayer EXCEPT ![d] = [pc |-> "write", base |-> Lead.score, days |-> Lead.age]]
  /\ UNCHANGED <<db, env, adder, ledger>>

\* Mutant: the decay does not stamp the row.
DecayedUnstamped(row, base, days) == [row EXCEPT !.score = Minus(base, Decay * days)]

Decayed(row, base, days) == [row EXCEPT !.score = Minus(base, Decay * days), !.age = 0]

WriteDecay(d) ==
  LET c == decayer[d] IN
  /\ c.pc = "write"
  /\ \/ /\ db' = WithLead(Decayed(Lead, c.base, c.days))
        /\ ledger' = [score |-> Minus(ledger.score, Decay * ledger.days), days |-> 0,
                      raced |-> ledger.raced \/ c.base # Lead.score \/ c.days # Lead.age]
        /\ UNCHANGED env
     \/ Fault /\ UNCHANGED <<db, ledger>>
  /\ decayer' = [decayer EXCEPT ![d] = NoDecay]
  /\ UNCHANGED adder

DayPasses ==
  /\ Scoring /\ Lead.here /\ Lead.age < MaxAge
  /\ db' = [db EXCEPT !.lead.age = @ + 1]
  /\ ledger' = [ledger EXCEPT !.days = @ + 1]
  /\ UNCHANGED <<env, adder, decayer>>

\* GET /t and GET /c: the tracking row, the event, then the points. The row of
\* email_tracking refers to no lead, and the link outlives the lead.
Track(fact) ==
  /\ adder["tracking"].pc = "idle"
  /\ Event(fact)
  /\ db' = [WithFact(fact) EXCEPT !.tracked = TRUE]
  /\ AddEngagement("tracking", fact)
  /\ UNCHANGED <<decayer, ledger>>

TrackStep == WriteEngagement("tracking") \/ Track("opened") \/ Track("clicked")
DecayStep(d) == ListForDecay(d) \/ WriteDecay(d)
EngagementStep == TrackStep \/ DayPasses \/ \E d \in Decayers : DecayStep(d)

EngagementOK ==
  /\ adder \in [Adders -> [pc : {"idle", "write"}, base : 0..MaxScore, event : DOMAIN Points]]
  /\ decayer \in [Decayers -> [pc : {"idle", "write"}, base : 0..MaxScore, days : Nat]]
  /\ ledger \in [score : 0..MaxScore, days : Nat, raced : BOOLEAN]

\* Unless two writers of the score overlapped, it holds every point that was
\* earned less exactly the decay of the days gone by, however often and by
\* however many jobs the decay was run.
ScoreIsExact == Lead.here /\ ~ledger.raced => Lead.score = ledger.score
=============================================================================
