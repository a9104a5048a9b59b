------------------------- MODULE CampaignSend_proofs -------------------------
(***************************************************************************)
(* What is true of a campaign for any number of runs, leads and steps, any *)
(* mixture of other writers and any number of crashes.                     *)
(***************************************************************************)
EXTENDS CampaignSend, FiniteSetTheorems, TLAPS

\* A run past Select knows its lead and still has room for it.
Busy(r) == pc[r] \in {"claim", "smtp", "revert", "log", "advance"}
BusyOK == \A r \in Runs : Busy(r) => cur[r] \in Leads \X Steps /\ room[r] > 0

TypeInv == TypeOK /\ BusyOK

-----------------------------------------------------------------------------
(* Types.                                                                  *)

LEMMA QuotaType == ASSUME TypeOK PROVE Quota \in 0..DailyLimit
<1>1. IsFiniteSet(Steps)
  BY FS_Interval, CampaignSendAssumption DEF Steps
<1>2. IsFiniteSet(Leads \X Steps)
  BY <1>1, FS_Product, CampaignSendAssumption
<1>3. IsFiniteSet(sentToday)
  BY <1>2, FS_Subset DEF TypeOK, TablesOK
<1>4. Cardinality(sentToday) \in Nat
  BY <1>3, FS_CardinalityType
<1> QED BY <1>4, CampaignSendAssumption DEF Quota

LEMMA TypeInit == Init => TypeInv
<1> USE CampaignSendAssumption
<1> SUFFICES ASSUME Init PROVE TypeInv
  OBVIOUS
<1>1. RowsOK
  BY DEF Init, RowsOK
<1>2. TablesOK
  BY DEF Init, TablesOK
<1>3. RunsOK
  BY DEF Init, RunsOK, Labels, NoLead
<1>4. WorldOK
  BY DEF Init, WorldOK
<1>5. BusyOK
  BY DEF Init, BusyOK, Busy
<1> QED BY <1>1, <1>2, <1>3, <1>4, <1>5 DEF TypeInv, TypeOK

LEMMA BusyCur ==
  ASSUME TypeInv, NEW r \in Runs, Busy(r)
  PROVE  CurLead(r) \in Leads /\ CurStep(r) \in Steps /\ cur[r] = <<CurLead(r), CurStep(r)>>
BY DEF TypeInv, BusyOK, CurLead, CurStep

\* The actions of a run keep the types of its own variables.
LEMMA RunsStep ==
  ASSUME TypeInv, NEW r \in Runs, Scheduler(r)
  PROVE  RunsOK' /\ BusyOK'
<1> USE CampaignSendAssumption DEF Goto, Labels, Busy
<1>0. RunsOK /\ BusyOK
  BY DEF TypeInv, TypeOK
<1>1. CASE Begin(r)
  BY <1>0, <1>1 DEF Begin, RunsOK, BusyOK
<1>2. CASE Load(r)
  <2>1. Quota \in 0..DailyLimit
    BY QuotaType DEF TypeInv
  <2>2. DueRows \subseteq Leads \X (1..(NSteps + 1))
    BY DEF DueRows, TypeInv, TypeOK, RowsOK
  <2> QED BY <1>0, <1>2, <2>1, <2>2 DEF Load, RunsOK, BusyOK
<1>3. ASSUME NEW l \in Leads, NEW k \in 1..(NSteps + 1), Take(r, l, k),
             UNCHANGED <<pc, cur, room, sentAny>>
      PROVE  RunsOK' /\ BusyOK'
  BY <1>0, <1>3 DEF Take, RunsOK, BusyOK
<1>4. ASSUME NEW l \in Leads, NEW k \in 1..(NSteps + 1), Select(r, l, k)
      PROVE  RunsOK' /\ BusyOK'
  <2>1. <<l, k>> \in Leads \X Steps
    BY <1>4 DEF Select, Steps
  <2> QED BY <1>0, <1>4, <2>1 DEF Select, Take, RunsOK, BusyOK
<1>5. CASE Screen(r)
  BY <1>3, <1>4, <1>5
  DEF Screen, Defer, StopSuppressed, StopExhausted, SkipStep, PassOver, StopBounced
<1>6. ASSUME UNCHANGED <<todo, cur, room, sentAny>>, Busy(r),
             NEW x \in {"loop", "smtp", "revert", "log", "advance"}, Goto(r, x)
      PROVE  RunsOK' /\ BusyOK'
  BY <1>0, <1>6 DEF RunsOK, BusyOK
<1>7. CASE Claim(r) \/ ClaimLost(r)
  BY <1>6, <1>7 DEF Claim, ClaimLost
<1>8. CASE Send(r) \/ SendRefused(r) \/ SendUnsure(r)
  BY <1>6, <1>8 DEF Send, SendRefused, SendUnsure, LogRefusal
<1>9. CASE Revert(r) \/ RevertLost(r) \/ LogSent(r) \/ LogLost(r)
  BY <1>6, <1>9 DEF Revert, RevertLost, LogSent, LogLost
<1>10. CASE Advance(r) \/ AdvanceLost(r)
  <2>1. room[r] - 1 \in 0..DailyLimit
    BY <1>0, <1>10 DEF Advance, AdvanceLost, RunsOK, BusyOK
  <2> QED BY <1>0, <1>10, <2>1 DEF Advance, AdvanceLost, CountSend, RunsOK, BusyOK
<1>11. CASE Close(r) \/ Crash(r)
  BY <1>0, <1>11 DEF Close, Crash, RunsOK, BusyOK
<1> QED BY <1>1, <1>2, <1>5, <1>7, <1>8, <1>9, <1>10, <1>11 DEF Scheduler, Deliver

\* The three ways a row is written.
LEMMA WriteType ==
  ASSUME RowsOK, NEW l \in Leads, NEW x \in {"active", "sending"} \cup Closed
  PROVE  /\ SetStatus(l, x) => /\ status' \in [Leads -> {"active", "sending"} \cup Closed]
                               /\ aged' \in [Leads -> BOOLEAN]
         /\ Mark(l, x) => RowsOK'
         /\ MarkOpen(l, x) => RowsOK'
BY DEF RowsOK, SetStatus, Mark, MarkOpen

\* A run's actions keep the types of the rows.
LEMMA RowsStep ==
  ASSUME TypeInv, NEW r \in Runs, Scheduler(r)
  PROVE  RowsOK'
<1> USE CampaignSendAssumption
<1>0. RowsOK
  BY DEF TypeInv, TypeOK
<1>1. CASE UNCHANGED row
  BY <1>0, <1>1 DEF row, RowsOK
<1>2. ASSUME NEW l \in Leads, NEW k \in 1..(NSteps + 1), Defer(r, l, k) PROVE RowsOK'
  BY <1>0, <1>2 DEF Defer, RowsOK
<1>3. ASSUME NEW l \in Leads, NEW x \in Closed, Mark(l, x) PROVE RowsOK'
  BY <1>0, <1>3, WriteType
<1>4. ASSUME NEW l \in Leads, NEW k \in 1..(NSteps + 1), SkipStep(r, l, k) PROVE RowsOK'
  <2>1. k \in Steps
    BY <1>4 DEF SkipStep
  <2>2. CASE SkipTo[k] # 0
    <3>1. SkipTo[k] \in 1..(NSteps + 1)
      BY <2>1, <2>2
    <3>2. status' \in [Leads -> {"active", "sending"} \cup Closed] /\ aged' \in [Leads -> BOOLEAN]
      BY <1>0, <1>4, <2>2, WriteType DEF SkipStep
    <3> QED BY <1>0, <1>4, <2>2, <3>1, <3>2 DEF SkipStep, RowsOK
  <2>3. CASE SkipTo[k] = 0
    BY <1>3, <1>4, <2>3 DEF SkipStep, Closed
  <2> QED BY <2>2, <2>3
<1>5. CASE Screen(r)
  BY <1>1, <1>2, <1>3, <1>4, <1>5
  DEF Screen, StopSuppressed, StopExhausted, PassOver, StopBounced, Select, Closed
<1>6. ASSUME Busy(r), NEW x \in {"active", "sending"} \cup Closed,
             SetStatus(CurLead(r), x), UNCHANGED <<step, due>>
      PROVE  RowsOK'
  BY <1>0, <1>6, BusyCur, WriteType DEF RowsOK
<1>7. CASE Claim(r) \/ ClaimLost(r) \/ Revert(r)
  BY <1>1, <1>6, <1>7 DEF Claim, ClaimLost, Revert, Busy
<1>8. CASE Advance(r)
  <2>1. CurLead(r) \in Leads /\ NextStep(r) \in 1..(NSteps + 1)
    <3>1. CurLead(r) \in Leads /\ CurStep(r) \in 1..NSteps
      BY <1>8, BusyCur DEF Advance, Busy, Steps
    <3> QED BY <3>1 DEF NextStep
  <2>2. status' \in [Leads -> {"active", "sending"} \cup Closed] /\ aged' \in [Leads -> BOOLEAN]
    BY <1>0, <1>8, <2>1, WriteType DEF Advance, Closed
  <2> QED BY <1>0, <1>8, <2>1, <2>2 DEF Advance, RowsOK
<1>9. CASE \/ Begin(r) \/ Load(r) \/ Send(r) \/ SendRefused(r) \/ SendUnsure(r)
           \/ LogSent(r) \/ LogLost(r) \/ RevertLost(r) \/ AdvanceLost(r) \/ Close(r) \/ Crash(r)
  BY <1>1, <1>9 DEF Begin, Load, Send, SendRefused, SendUnsure, LogRefusal, LogSent,
     LogLost, RevertLost, AdvanceLost, Close, Crash
<1> QED BY <1>5, <1>7, <1>8, <1>9 DEF Scheduler, Deliver

\* ... and those of the tables.
LEMMA TablesStep ==
  ASSUME TypeInv, NEW r \in Runs, Scheduler(r)
  PROVE  TablesOK'
<1> USE CampaignSendAssumption
<1>0. TablesOK
  BY DEF TypeInv, TypeOK
<1>1. CASE UNCHANGED tables
  BY <1>0, <1>1 DEF tables, TablesOK
<1>2. CASE Screen(r)
  BY <1>1, <1>2 DEF Screen, Defer, StopSuppressed, StopExhausted, SkipStep, PassOver,
     StopBounced, Select
<1>3. CASE SendRefused(r) \/ SendUnsure(r)
  BY <1>0, <1>3 DEF SendRefused, SendUnsure, LogRefusal, TablesOK
<1>4. CASE LogSent(r)
  <2>1. cur[r] \in Leads \X Steps
    BY <1>4 DEF LogSent, Busy, BusyOK, TypeInv
  <2> QED BY <1>0, <1>4, <2>1 DEF LogSent, TablesOK
<1>5. CASE Close(r)
  BY <1>0, <1>5 DEF Close, TablesOK
<1>6. CASE \/ Begin(r) \/ Load(r) \/ Claim(r) \/ ClaimLost(r) \/ Send(r) \/ Revert(r)
           \/ LogLost(r) \/ RevertLost(r) \/ Advance(r) \/ AdvanceLost(r) \/ Crash(r)
  BY <1>1, <1>6 DEF Begin, Load, Claim, ClaimLost, Send, Revert, LogLost, Advance,
     RevertLost, AdvanceLost, Crash
<1> QED BY <1>2, <1>3, <1>4, <1>5, <1>6 DEF Scheduler, Deliver

\* ... and those of the world.
LEMMA WorldStep ==
  ASSUME TypeInv, NEW r \in Runs, Scheduler(r)
  PROVE  WorldOK'
<1> USE CampaignSendAssumption
<1>0. WorldOK
  BY DEF TypeInv, TypeOK
<1>1. CASE UNCHANGED <<world, bad>>
  BY <1>0, <1>1 DEF world, bad, WorldOK
<1>2. CASE UNCHANGED world /\ Fault
  BY <1>0, <1>2 DEF world, Fault, WorldOK
<1>3. CASE Send(r) \/ SendUnsure(r)
  <2>1. CurLead(r) \in Leads /\ CurStep(r) \in Steps
    BY <1>3, BusyCur DEF Send, SendUnsure, Busy
  <2>2. MailLeaves(CurLead(r), CurStep(r)) /\ (UNCHANGED bad \/ Fault)
    BY <1>3 DEF Send, SendUnsure
  <2>3. /\ mailed' \in [Leads -> [Steps -> Nat]]
        /\ today' \in Nat
    BY <1>0, <2>1, <2>2 DEF MailLeaves, WorldOK
  <2> QED BY <1>0, <2>2, <2>3 DEF WorldOK, bad, Fault
<1>4. CASE Screen(r)
  BY <1>1, <1>4 DEF Screen, Defer, StopSuppressed, StopExhausted, SkipStep, PassOver,
     StopBounced, Select
<1>5. CASE \/ Begin(r) \/ Load(r) \/ Claim(r) \/ SendRefused(r) \/ Revert(r)
           \/ LogSent(r) \/ Advance(r) \/ Close(r)
  BY <1>1, <1>5 DEF Begin, Load, Claim, SendRefused, Revert, LogSent, Advance, Close, world, bad
<1>6. CASE ClaimLost(r) \/ LogLost(r) \/ RevertLost(r) \/ AdvanceLost(r) \/ Crash(r)
  BY <1>2, <1>6 DEF ClaimLost, LogLost, RevertLost, AdvanceLost, Crash
<1> QED BY <1>3, <1>4, <1>5, <1>6 DEF Scheduler, Deliver

\* The other writers, the reaper and the clock.
Others == \/ \E l \in Leads : Age(l) \/ Outside(l)
          \/ Reap
          \/ NextDay
          \/ \E s \in {"active", "paused"} : Operate(s)

\* They leave the runs alone ...
LEMMA OthersKeepRuns == ASSUME Others PROVE UNCHANGED local
BY DEF Others, Age, Outside, Reap, NextDay, Operate, OptOut, LiftSuppression, HardBounce,
   StopSequence, Postpone, local

\* ... and keep all types.
LEMMA OthersStep == ASSUME TypeInv, Others PROVE TypeInv'
<1> USE CampaignSendAssumption
<1>0. RowsOK /\ TablesOK /\ RunsOK /\ WorldOK /\ BusyOK
  BY DEF TypeInv, TypeOK
<1>1. RunsOK' /\ BusyOK'
  BY <1>0, OthersKeepRuns DEF local, RunsOK, BusyOK, Busy
<1>2. ASSUME NEW l \in Leads, Age(l) PROVE RowsOK' /\ TablesOK' /\ WorldOK'
  BY <1>0, <1>2 DEF Age, RowsOK, TablesOK, tables, WorldOK, world
<1>3. ASSUME NEW l \in Leads, OptOut(l) \/ HardBounce(l) \/ StopSequence(l)
      PROVE  RowsOK' /\ TablesOK' /\ WorldOK'
  <2>1. RowsOK'
    BY <1>0, <1>3, WriteType DEF OptOut, HardBounce, StopSequence, Closed
  <2> QED BY <1>0, <1>3, <2>1 DEF OptOut, HardBounce, StopSequence, tables, TablesOK,
             WorldOK, world, bad
<1>4. ASSUME NEW l \in Leads, LiftSuppression(l) PROVE RowsOK' /\ TablesOK' /\ WorldOK'
  BY <1>0, <1>4 DEF LiftSuppression, row, RowsOK, TablesOK, WorldOK, world, bad
<1>5. ASSUME NEW l \in Leads, Postpone(l) PROVE RowsOK' /\ TablesOK' /\ WorldOK'
  BY <1>0, <1>5 DEF Postpone, tables, row, RowsOK, TablesOK, WorldOK, world, bad
<1>6. ASSUME Reap PROVE RowsOK' /\ TablesOK' /\ WorldOK'
  BY <1>0, <1>6 DEF Reap, Stranded, tables, RowsOK, TablesOK, WorldOK, world, bad
<1>7. ASSUME NextDay PROVE RowsOK' /\ TablesOK' /\ WorldOK'
  BY <1>0, <1>7 DEF NextDay, RowsOK, TablesOK, WorldOK, bad
<1>8. ASSUME NEW s \in {"active", "paused"}, Operate(s) PROVE RowsOK' /\ TablesOK' /\ WorldOK'
  BY <1>0, <1>8 DEF Operate, row, RowsOK, TablesOK, WorldOK, world, bad
<1>9. RowsOK' /\ TablesOK' /\ WorldOK'
  BY <1>2, <1>3, <1>4, <1>5, <1>6, <1>7, <1>8 DEF Others, Outside
<1> QED BY <1>1, <1>9 DEF TypeInv, TypeOK

LEMMA NextCases == Next <=> Others \/ \E r \in Runs : Scheduler(r)
BY DEF Next, Others

LEMMA TypeStep == TypeInv /\ [Next]_vars => TypeInv'
<1> SUFFICES ASSUME TypeInv, [Next]_vars PROVE TypeInv'
  OBVIOUS
<1>1. ASSUME NEW r \in Runs, Scheduler(r) PROVE TypeInv'
  BY <1>1, RowsStep, TablesStep, RunsStep, WorldStep DEF TypeInv, TypeOK
<1>2. CASE UNCHANGED vars
  BY <1>2 DEF vars, row, tables, local, world, bad, TypeInv, TypeOK, RowsOK, TablesOK,
     RunsOK, WorldOK, BusyOK, Busy
<1> QED BY <1>1, <1>2, OthersStep, NextCases

\* Types, with one fact a unit test would hardly reach: a run never takes a
\* lead it has no room for, so the room left never goes below zero.
THEOREM TypeCorrect == Spec => []TypeOK
<1>1. TypeInv => TypeOK
  BY DEF TypeInv
<1> QED BY <1>1, TypeInit, TypeStep, PTL DEF Spec

-----------------------------------------------------------------------------
(* The claim is exclusive.  ClaimExclusive is not inductive: the row of a  *)
(* lead in flight must be shown never to be claimable.  Nothing writes     *)
(* "active" to it but the run that holds it, the reaper once it is aged,   *)
(* and the jump of a conditional step, which asks for no status at all;    *)
(* hence the theorem is about sequences whose conditions never jump.       *)

\* No condition jumps: a lead whose condition fails is done.
NoJumps == \A k \in Conditional : SkipTo[k] = 0

Held(r) == status[CurLead(r)] # "active" /\ ~aged[CurLead(r)]
ClaimInv == hangs = 0 => ClaimExclusive /\ \A r \in Runs : InFlight(r) => Held(r)

\* No run gets a lead in its hands.
NoNewClaim == \A r \in Runs : InFlight(r)' => InFlight(r) /\ cur'[r] = cur[r]

LEMMA ClaimInit == Init => ClaimInv
BY DEF Init, ClaimInv, ClaimExclusive, InFlight

LEMMA InFlightLead ==
  ASSUME TypeInv, NEW r \in Runs, InFlight(r) PROVE Busy(r) /\ CurLead(r) \in Leads
BY BusyCur DEF InFlight, Busy

LEMMA KeepClaims ==
  ASSUME ClaimInv, hangs = 0, NoNewClaim, \A r \in Runs : InFlight(r)' => Held(r)'
  PROVE  ClaimInv'
BY DEF ClaimInv, ClaimExclusive, NoNewClaim, CurLead

\* Rows left alone, closed, or written by the run that has the lead.
LEMMA RowsKeepClaims ==
  ASSUME TypeInv, ClaimInv, hangs = 0, NoNewClaim,
         \/ UNCHANGED <<status, aged>>
         \/ \E l \in Leads, x \in Closed : Mark(l, x) \/ MarkOpen(l, x)
         \/ \E q \in Runs : /\ InFlight(q) /\ ~InFlight(q)'
                            /\ \E x \in {"active", "completed"} : SetStatus(CurLead(q), x)
  PROVE  ClaimInv'
<1> SUFFICES ASSUME NEW r \in Runs, InFlight(r)' PROVE Held(r)'
  BY KeepClaims
<1>1. InFlight(r) /\ CurLead(r)' = CurLead(r) /\ Held(r) /\ CurLead(r) \in Leads
  BY InFlightLead DEF NoNewClaim, ClaimInv, CurLead
<1>2. CASE UNCHANGED <<status, aged>>
  BY <1>1, <1>2 DEF Held
<1>3. ASSUME NEW l \in Leads, NEW x \in Closed, Mark(l, x) \/ MarkOpen(l, x) PROVE Held(r)'
  BY <1>1, <1>3 DEF Held, Mark, MarkOpen, Closed, TypeInv, TypeOK, RowsOK
<1>4. ASSUME NEW q \in Runs, InFlight(q), ~InFlight(q)', NEW x, SetStatus(CurLead(q), x)
      PROVE  Held(r)'
  <2>1. q # r
    BY <1>4
  <2>2. CurLead(q) # CurLead(r)
    BY <1>1, <1>4, <2>1 DEF ClaimInv, ClaimExclusive
  <2> QED BY <1>1, <1>4, <2>2 DEF Held, SetStatus, TypeInv, TypeOK, RowsOK
<1> QED BY <1>2, <1>3, <1>4

LEMMA ClaimStep ==
  ASSUME NoJumps, TypeInv, ClaimInv, [Next]_vars
  PROVE  ClaimInv'
<1> SUFFICES ASSUME hangs' = 0 PROVE ClaimInv'
  BY DEF ClaimInv
<1>0. ClaimInv /\ RunsOK /\ RowsOK /\ hangs \in Nat
  BY DEF TypeInv, TypeOK, WorldOK
<1>1. ASSUME NEW q \in Runs, Screen(q) PROVE ClaimInv'
  <2>1. NoNewClaim /\ hangs = 0
    BY <1>0, <1>1 DEF Screen, Defer, StopSuppressed, StopExhausted, SkipStep, PassOver,
       StopBounced, Select, Goto, NoNewClaim, InFlight, RunsOK, bad
  <2>2. \/ UNCHANGED <<status, aged>>
        \/ \E l \in Leads, x \in Closed : Mark(l, x)
    BY <1>1 DEF NoJumps, Screen, Defer, StopSuppressed, StopExhausted, SkipStep, PassOver,
       StopBounced, Select, row, Closed
  <2> QED BY <2>1, <2>2, RowsKeepClaims
<1>2. ASSUME NEW q \in Runs,
             \/ Begin(q) \/ Load(q) \/ Send(q) \/ SendRefused(q) \/ SendUnsure(q) \/ LogSent(q)
             \/ LogLost(q) \/ RevertLost(q) \/ AdvanceLost(q) \/ Close(q) \/ Crash(q)
      PROVE  ClaimInv'
  <2>1. NoNewClaim /\ hangs = 0 /\ UNCHANGED <<status, aged>>
    BY <1>0, <1>2 DEF Begin, Load, Send, SendRefused, SendUnsure, LogRefusal, LogSent, LogLost,
       RevertLost, AdvanceLost, Close, Crash, Goto, NoNewClaim, InFlight, RunsOK, bad, row, Fault
  <2> QED BY <2>1, RowsKeepClaims
<1>3. ASSUME NEW q \in Runs, Advance(q) \/ Revert(q) PROVE ClaimInv'
  <2>1. NoNewClaim /\ hangs = 0
    BY <1>0, <1>3 DEF Advance, Revert, Goto, CountSend, NoNewClaim, InFlight, RunsOK, bad
  <2>2. InFlight(q) /\ ~InFlight(q)'
    BY <1>0, <1>3 DEF Advance, Revert, Goto, InFlight, RunsOK
  <2>3. UNCHANGED <<status, aged>> \/ \E x \in {"active", "completed"} : SetStatus(CurLead(q), x)
    BY <1>3 DEF Advance, Revert, row
  <2> QED BY <2>1, <2>2, <2>3, RowsKeepClaims
\* The winner of a claim takes a lead nobody has: its row is "active".
<1>4. ASSUME NEW q \in Runs, Claim(q) \/ ClaimLost(q) PROVE ClaimInv'
  <2>1. hangs = 0 /\ UNCHANGED cur /\ CurLead(q) \in Leads
    BY <1>4, BusyCur DEF Claim, ClaimLost, Fault, bad, Busy
  <2>2. CASE status[CurLead(q)] # "active"
    <3>1. NoNewClaim /\ UNCHANGED <<status, aged>>
      BY <1>0, <1>4, <2>2 DEF Claim, ClaimLost, Goto, row, NoNewClaim, InFlight, RunsOK
    <3> QED BY <2>1, <3>1, RowsKeepClaims
  <2>3. CASE status[CurLead(q)] = "active"
    <3>1. \A r \in Runs : CurLead(r)' = CurLead(r)
      BY <2>1 DEF CurLead
    <3>2. \A r \in Runs \ {q} : InFlight(r)' => InFlight(r)
      BY <1>0, <1>4 DEF Claim, ClaimLost, Goto, InFlight, RunsOK
    <3>3. \A r \in Runs \ {q} : InFlight(r)' => CurLead(r) # CurLead(q)
      BY <2>1, <2>3, <3>2 DEF ClaimInv, Held
    <3>4. SetStatus(CurLead(q), "sending")
      BY <1>4, <2>3 DEF Claim, ClaimLost
    <3>5. \A r \in Runs : InFlight(r)' => Held(r)'
      <4> SUFFICES ASSUME NEW r \in Runs, InFlight(r)' PROVE Held(r)'
        OBVIOUS
      <4>1. CASE r = q
        BY <1>0, <2>1, <3>1, <3>4, <4>1 DEF Held, SetStatus, RowsOK
      <4>2. CASE r # q
        <5>1. CurLead(r) \in Leads /\ Held(r) /\ CurLead(r) # CurLead(q)
          BY <2>1, <3>2, <3>3, <4>2, InFlightLead DEF ClaimInv
        <5> QED BY <1>0, <2>1, <3>1, <3>4, <5>1 DEF Held, SetStatus, RowsOK
      <4> QED BY <4>1, <4>2
    <3>6. ClaimExclusive'
      BY <2>1, <3>1, <3>2, <3>3 DEF ClaimInv, ClaimExclusive
    <3> QED BY <3>5, <3>6 DEF ClaimInv
  <2> QED BY <2>2, <2>3
<1>5. ASSUME Others PROVE ClaimInv'
  <2>1. NoNewClaim
    BY <1>5, OthersKeepRuns DEF local, NoNewClaim, InFlight
  <2>2. ASSUME NEW l \in Leads, Age(l) PROVE ClaimInv'
    <3>1. hangs = 0 /\ \A r \in Runs : InFlight(r) => CurLead(r) # l
      BY <1>0, <2>2 DEF Age
    <3>2. ASSUME NEW r \in Runs, InFlight(r)' PROVE Held(r)'
      <4>1. CurLead(r)' = CurLead(r) /\ Held(r) /\ CurLead(r) \in Leads /\ CurLead(r) # l
        BY <2>1, <3>1, <3>2, InFlightLead DEF NoNewClaim, ClaimInv, CurLead
      <4> QED BY <1>0, <2>2, <4>1 DEF Age, Held, RowsOK
    <3> QED BY <2>1, <3>1, <3>2, KeepClaims
  <2>3. CASE Reap
    <3>1. hangs = 0
      BY <2>3 DEF Reap, bad
    <3>2. ASSUME NEW r \in Runs, InFlight(r)' PROVE Held(r)'
      <4>1. CurLead(r)' = CurLead(r) /\ Held(r) /\ CurLead(r) \in Leads
        BY <2>1, <3>1, <3>2, InFlightLead DEF NoNewClaim, ClaimInv, CurLead
      <4>2. CurLead(r) \notin Stranded
        BY <4>1 DEF Stranded, Held
      <4> QED BY <2>3, <4>1, <4>2 DEF Reap, Held
    <3> QED BY <2>1, <3>1, <3>2, KeepClaims
  <2>4. ASSUME NEW l \in Leads, Outside(l) PROVE ClaimInv'
    <3>1. hangs = 0
      BY <2>4 DEF Outside, OptOut, LiftSuppression, HardBounce, StopSequence, Postpone,
         bad
    <3>2. UNCHANGED <<status, aged>> \/ \E x \in Closed : MarkOpen(l, x)
      BY <2>4 DEF Outside, OptOut, LiftSuppression, HardBounce, StopSequence, Postpone,
         row, Closed
    <3> QED BY <2>1, <3>1, <3>2, RowsKeepClaims
  <2>5. ASSUME NextDay \/ \E s \in {"active", "paused"} : Operate(s) PROVE ClaimInv'
    <3>1. hangs = 0 /\ UNCHANGED <<status, aged>>
      BY <2>5 DEF NextDay, Operate, row, bad
    <3> QED BY <2>1, <3>1, RowsKeepClaims
  <2> QED BY <1>5, <2>2, <2>3, <2>4, <2>5 DEF Others
<1>6. CASE UNCHANGED vars
  <2>1. NoNewClaim /\ hangs = 0 /\ UNCHANGED <<status, aged>>
    BY <1>6 DEF vars, row, local, bad, NoNewClaim, InFlight
  <2> QED BY <2>1, RowsKeepClaims
<1>7. ASSUME NEW q \in Runs, Scheduler(q) PROVE ClaimInv'
  BY <1>1, <1>2, <1>3, <1>4, <1>7 DEF Scheduler, Deliver
<1> QED BY <1>5, <1>6, <1>7, NextCases

\* Of two overlapping runs only one has a lead in its hands, as long as the
\* reaper never takes a lead from a run that is still mailing it.
THEOREM ClaimIsExclusive == ASSUME NoJumps PROVE Spec => []ClaimExclusive
<1>1. ClaimInv => ClaimExclusive
  BY DEF ClaimInv, ClaimExclusive
<1> QED BY <1>1, TypeInit, TypeStep, ClaimInit, ClaimStep, PTL DEF Spec

-----------------------------------------------------------------------------
(* No step is lost.  What is true of a row must be true of the steps the   *)
(* runs remember, since a run writes back the step of its snapshot.        *)

Excused(l, k) == mailed[l][k] > 0 \/ \E c \in Conditional : c <= k /\ k < SkipTo[c]
Done(l, n) == \A k \in Steps : k < n => Excused(l, k)

StepInv ==
  /\ \A l \in Leads : Done(l, step[l])
  /\ \A r \in Runs, l \in Leads, k \in 1..(NSteps + 1) : <<l, k>> \in todo[r] => Done(l, k)
  /\ \A r \in Runs : Busy(r) => Done(CurLead(r), CurStep(r))
  /\ \A r \in Runs : pc[r] \in {"log", "advance"} => mailed[CurLead(r)][CurStep(r)] > 0

LEMMA StepInit == Init => StepInv
BY CampaignSendAssumption DEF Init, StepInv, Done, Steps, Busy

LEMMA StepInvNoStepLost == StepInv => NoStepLost
BY DEF StepInv, NoStepLost, Done, Excused

LEMMA MailedGrows ==
  ASSUME TypeInv, UNCHANGED mailed \/ \E r \in Runs : Busy(r) /\ MailLeaves(CurLead(r), CurStep(r))
  PROVE  /\ \A l \in Leads, k \in Steps : mailed[l][k] > 0 => mailed'[l][k] > 0
         /\ \A l \in Leads, n \in Nat : Done(l, n) => Done(l, n)'
<1>1. ASSUME NEW l \in Leads, NEW k \in Steps, mailed[l][k] > 0 PROVE mailed'[l][k] > 0
  <2>1. CASE UNCHANGED mailed
    BY <1>1, <2>1
  <2>2. ASSUME NEW r \in Runs, Busy(r), MailLeaves(CurLead(r), CurStep(r)) PROVE mailed'[l][k] > 0
    <3>1. CurLead(r) \in Leads /\ CurStep(r) \in Steps
      BY <2>2, BusyCur
    <3>2. mailed \in [Leads -> [Steps -> Nat]]
      BY DEF TypeInv, TypeOK, WorldOK
    <3> QED BY <1>1, <2>2, <3>1, <3>2 DEF MailLeaves
  <2> QED BY <2>1, <2>2
<1> QED BY <1>1 DEF Done, Excused

\* Runs that remember nothing new.
LEMMA StepKeep ==
  ASSUME TypeInv, StepInv,
         UNCHANGED mailed,
         \A l \in Leads : Done(l, step'[l]),
         \A r \in Runs : todo'[r] \subseteq todo[r],
         \A r \in Runs : Busy(r)' => Busy(r) /\ cur'[r] = cur[r],
         \A r \in Runs : pc'[r] \in {"log", "advance"} => pc[r] \in {"log", "advance"}
  PROVE  StepInv'
<1>1. \A l, n : Done(l, n)' <=> Done(l, n)
  BY DEF Done, Excused
<1>2. \A l \in Leads : Done(l, step[l])'
  BY <1>1 DEF Done, Excused
<1>3. ASSUME NEW r \in Runs, NEW l \in Leads, NEW k \in 1..(NSteps + 1), <<l, k>> \in todo'[r]
      PROVE  Done(l, k)'
  BY <1>1, <1>3 DEF StepInv
<1>4. ASSUME NEW r \in Runs, Busy(r)' PROVE Done(CurLead(r), CurStep(r))'
  <2>1. Done(CurLead(r), CurStep(r)) /\ CurLead(r)' = CurLead(r) /\ CurStep(r)' = CurStep(r)
    BY <1>4 DEF StepInv, CurLead, CurStep
  <2> QED BY <1>1, <2>1 DEF Done, Excused
<1>5. ASSUME NEW r \in Runs, pc'[r] \in {"log", "advance"} PROVE (mailed[CurLead(r)][CurStep(r)] > 0)'
  <2>1. Busy(r)' /\ pc[r] \in {"log", "advance"}
    BY <1>5 DEF Busy
  <2>2. CurLead(r)' = CurLead(r) /\ CurStep(r)' = CurStep(r)
    BY <2>1 DEF CurLead, CurStep
  <2> QED BY <2>1, <2>2 DEF StepInv
<1> QED BY <1>2, <1>3, <1>4, <1>5 DEF StepInv

LEMMA StepStep == ASSUME TypeInv, StepInv, [Next]_vars PROVE StepInv'
<1>0. /\ RunsOK /\ RowsOK /\ WorldOK
      /\ \A l \in Leads : Done(l, step[l])
  BY DEF TypeInv, TypeOK, StepInv
<1> USE CampaignSendAssumption
<1>1. ASSUME NEW r \in Runs, Load(r) PROVE StepInv'
  <2>1. \A l, n : Done(l, n)' <=> Done(l, n)
    BY <1>1 DEF Load, world, Done, Excused
  <2>2. \A l \in Leads : Done(l, step[l])'
    BY <1>0, <1>1, <2>1 DEF Load, row, Done, Excused
  <2>3. ASSUME NEW s \in Runs, NEW l \in Leads, NEW k \in 1..(NSteps + 1), <<l, k>> \in todo'[s]
        PROVE  Done(l, k)'
    <3>1. CASE s = r
      <4>1. k = step[l]
        BY <1>0, <1>1, <2>3, <3>1 DEF Load, DueRows, RunsOK
      <4> QED BY <1>0, <2>1, <4>1
    <3>2. CASE s # r
      BY <1>0, <1>1, <2>1, <2>3, <3>2 DEF Load, RunsOK, StepInv
    <3> QED BY <3>1, <3>2
  <2>4. \A s \in Runs : /\ Busy(s)' => Busy(s)
                        /\ pc'[s] \in {"log", "advance"} => pc[s] \in {"log", "advance"}
    BY <1>0, <1>1 DEF Load, Goto, Busy, RunsOK
  <2>5. mailed' = mailed /\ cur' = cur
    BY <1>1 DEF Load, world
  <2>6. ASSUME NEW s \in Runs, Busy(s)' PROVE Done(CurLead(s), CurStep(s))'
    <3>1. Busy(s) /\ CurLead(s)' = CurLead(s) /\ CurStep(s)' = CurStep(s)
      BY <2>4, <2>5, <2>6 DEF CurLead, CurStep
    <3> QED BY <2>5, <3>1 DEF StepInv, Done, Excused
  <2>7. ASSUME NEW s \in Runs, pc'[s] \in {"log", "advance"} PROVE (mailed[CurLead(s)][CurStep(s)] > 0)'
    <3>1. CurLead(s)' = CurLead(s) /\ CurStep(s)' = CurStep(s)
      BY <2>5 DEF CurLead, CurStep
    <3>2. mailed[CurLead(s)][CurStep(s)] > 0
      BY <2>4, <2>7 DEF StepInv
    <3> QED BY <2>5, <3>1, <3>2
  <2> QED BY <2>2, <2>3, <2>6, <2>7 DEF StepInv
<1>2. ASSUME NEW r \in Runs, NEW l \in Leads, NEW k \in 1..(NSteps + 1), Select(r, l, k)
      PROVE  StepInv'
  <2>1. mailed' = mailed /\ step' = step /\ \A s \in Runs : todo'[s] \subseteq todo[s]
    BY <1>0, <1>2 DEF Select, Take, row, world, RunsOK
  <2>2. Done(l, k) /\ cur'[r] = <<l, k>>
    BY <1>0, <1>2 DEF Select, Take, StepInv, RunsOK
  <2>3. ASSUME NEW s \in Runs, Busy(s)' PROVE Done(CurLead(s), CurStep(s))'
    <3>1. CASE s = r
      BY <2>1, <2>2, <3>1 DEF CurLead, CurStep, Done, Excused
    <3>2. CASE s # r
      <4>1. Busy(s) /\ cur'[s] = cur[s]
        BY <1>0, <1>2, <2>3, <3>2 DEF Select, Goto, Busy, RunsOK
      <4> QED BY <2>1, <4>1 DEF StepInv, CurLead, CurStep, Done, Excused
    <3> QED BY <3>1, <3>2
  <2>4. ASSUME NEW s \in Runs, pc'[s] \in {"log", "advance"} PROVE (mailed[CurLead(s)][CurStep(s)] > 0)'
    <3>1. pc[s] \in {"log", "advance"} /\ cur'[s] = cur[s]
      BY <1>0, <1>2, <2>4 DEF Select, Goto, RunsOK
    <3> QED BY <2>1, <3>1 DEF StepInv, CurLead, CurStep
  <2> QED BY <2>1, <2>3, <2>4 DEF StepInv, Done, Excused
\* The only step that changes what has been mailed.
<1>3. ASSUME NEW r \in Runs, Send(r) \/ SendUnsure(r) PROVE StepInv'
  <2>1. /\ MailLeaves(CurLead(r), CurStep(r)) /\ Busy(r)
        /\ step' = step /\ todo' = todo /\ cur' = cur
    BY <1>3 DEF Send, SendUnsure, LogRefusal, Busy, row
  <2>2. CurLead(r) \in Leads /\ CurStep(r) \in Steps
    BY <2>1, BusyCur
  <2>3. /\ \A l \in Leads, k \in Steps : mailed[l][k] > 0 => mailed'[l][k] > 0
        /\ \A l \in Leads, n \in Nat : Done(l, n) => Done(l, n)'
    BY <2>1, MailedGrows
  <2>4. mailed'[CurLead(r)][CurStep(r)] > 0
    BY <1>0, <2>1, <2>2 DEF MailLeaves, WorldOK
  <2>5. \A l \in Leads : Done(l, step[l])'
    <3> SUFFICES ASSUME NEW l \in Leads PROVE Done(l, step[l])'
      OBVIOUS
    <3>1. Done(l, step[l]) /\ step[l] \in Nat
      BY <1>0 DEF RowsOK
    <3>2. \A k \in Steps : k < step[l] => Excused(l, k)'
      BY <2>3, <3>1 DEF Done, Excused
    <3> QED BY <2>1, <3>2 DEF Done
  <2>6. \A s \in Runs, l \in Leads, k \in 1..(NSteps + 1) : <<l, k>> \in todo'[s] => Done(l, k)'
    BY <2>1, <2>3 DEF StepInv
  <2>7. ASSUME NEW s \in Runs, Busy(s)'
        PROVE  /\ Done(CurLead(s), CurStep(s))'
               /\ pc'[s] \in {"log", "advance"} => (mailed[CurLead(s)][CurStep(s)] > 0)'
    <3>1. /\ Busy(s) /\ CurLead(s)' = CurLead(s) /\ CurStep(s)' = CurStep(s)
          /\ s # r => pc'[s] = pc[s]
      BY <1>0, <1>3, <2>1, <2>7 DEF Send, SendUnsure, LogRefusal, Goto, Busy, RunsOK, CurLead, CurStep
    <3>2. CurLead(s) \in Leads /\ CurStep(s) \in Steps /\ Done(CurLead(s), CurStep(s))
      BY <3>1, BusyCur DEF StepInv
    <3>3. \A k \in Steps : k < CurStep(s) => Excused(CurLead(s), k)'
      BY <2>3, <3>1, <3>2 DEF Done, Excused
    <3>4. Done(CurLead(s), CurStep(s))'
      BY <3>1, <3>3 DEF Done, Excused
    <3>5. pc'[s] \in {"log", "advance"} => mailed'[CurLead(s)][CurStep(s)] > 0
      BY <2>3, <2>4, <3>1, <3>2 DEF StepInv
    <3> QED BY <3>1, <3>4, <3>5
  <2>8. \A s \in Runs : pc'[s] \in {"log", "advance"} => Busy(s)'
    BY DEF Busy
  <2> QED BY <2>5, <2>6, <2>7, <2>8 DEF StepInv
\* A jump excuses the steps it skips, an advance has mailed its own.
<1>4. ASSUME NEW r \in Runs, NEW l \in Leads, NEW k \in 1..(NSteps + 1), SkipStep(r, l, k)
      PROVE  \A m \in Leads : Done(m, step'[m])
  <2>1. k \in Conditional /\ k \in Steps /\ Done(l, k)
    BY <1>4 DEF SkipStep, Take, StepInv
  <2>2. Done(l, SkipTo[k])
    BY <2>1 DEF Done, Excused, Steps
  <2>3. \A m \in Leads : step'[m] = step[m] \/ (m = l /\ step'[m] = SkipTo[k])
    BY <1>0, <1>4 DEF SkipStep, Mark, RowsOK
  <2> QED BY <1>0, <2>2, <2>3
<1>5. ASSUME NEW r \in Runs, Advance(r) PROVE \A m \in Leads : Done(m, step'[m])
  <2>1. Busy(r) /\ CurLead(r) \in Leads /\ CurStep(r) \in 1..NSteps
    BY <1>5, BusyCur DEF Advance, Busy, Steps
  <2>2. Done(CurLead(r), CurStep(r)) /\ mailed[CurLead(r)][CurStep(r)] > 0
    BY <1>5, <2>1 DEF StepInv, Advance
  <2>3. Done(CurLead(r), CurStep(r) + 1)
    BY <2>1, <2>2 DEF Done, Excused, Steps
  <2>4. \A m \in Leads : step'[m] = step[m] \/ (m = CurLead(r) /\ step'[m] = CurStep(r) + 1)
    BY <1>0, <1>5 DEF Advance, NextStep, RowsOK
  <2> QED BY <1>0, <2>3, <2>4
\* Everything else a run does leaves the steps and what was mailed alone.
<1>6. ASSUME NEW r \in Runs, Scheduler(r),
             ~Load(r), ~Send(r), ~SendUnsure(r),
             \A l \in Leads, k \in 1..(NSteps + 1) : ~Select(r, l, k)
      PROVE  StepInv'
  <2>1. mailed' = mailed /\ \A m \in Leads : Done(m, step'[m])
    <3>1. CASE Screen(r)
      BY <1>0, <1>4, <1>6, <3>1 DEF Screen, Defer, StopSuppressed, StopExhausted, SkipStep,
         PassOver, StopBounced, Mark, row, world
    <3>2. CASE Advance(r)
      BY <1>5, <3>2 DEF Advance, world
    <3>3. CASE ~Screen(r) /\ ~Advance(r)
      <4>1. mailed' = mailed /\ step' = step
        BY <1>6, <3>3 DEF Scheduler, Deliver, Begin, Claim, ClaimLost, SendRefused,
           LogRefusal, Revert, LogSent, LogLost, RevertLost, AdvanceLost, Close, Crash, row, world
      <4> QED BY <1>0, <4>1
    <3> QED BY <3>1, <3>2, <3>3
  <2>2. /\ \A s \in Runs : todo'[s] \subseteq todo[s]
        /\ \A s \in Runs : Busy(s)' => Busy(s) /\ cur'[s] = cur[s]
        /\ \A s \in Runs : pc'[s] \in {"log", "advance"} => pc[s] \in {"log", "advance"}
    <3>1. CASE Screen(r)
      BY <1>0, <1>6, <3>1 DEF Screen, Defer, StopSuppressed, StopExhausted, SkipStep,
         PassOver, StopBounced, Take, Goto, Busy, RunsOK
    <3>2. CASE ~Screen(r)
      BY <1>0, <1>6, <3>2 DEF Scheduler, Deliver, Begin, Claim, ClaimLost, SendRefused, LogRefusal,
         Revert, LogSent, LogLost, Advance, RevertLost, AdvanceLost, Close, Crash, Goto, Busy, RunsOK
    <3> QED BY <3>1, <3>2
  <2> QED BY <2>1, <2>2, StepKeep
<1>7. CASE Others
  <2>1. mailed' = mailed /\ step' = step
    BY <1>7 DEF Others, Age, Outside, Reap, NextDay, Operate, OptOut, LiftSuppression, HardBounce,
       StopSequence, Postpone, MarkOpen, Mark, row, world
  <2> QED BY <1>0, <1>7, <2>1, OthersKeepRuns, StepKeep DEF local, Busy
<1>8. CASE UNCHANGED vars
  BY <1>0, <1>8, StepKeep DEF vars, row, local, world, Busy
<1>9. ASSUME NEW r \in Runs, Scheduler(r) PROVE StepInv'
  BY <1>1, <1>2, <1>3, <1>6, <1>9
<1> QED BY <1>7, <1>8, <1>9, NextCases

\* No row moves past a step that was not mailed, whatever crashes, overlaps
\* or is refused, except by the jump of a condition.
THEOREM NoStepIsLost == Spec => []NoStepLost
BY TypeInit, TypeStep, StepInit, StepStep, StepInvNoStepLost, PTL DEF Spec

-----------------------------------------------------------------------------
(* A single scheduler.  Without Overlap at most one run is awake, and what *)
(* it read at Load is still what the rows hold: nobody else writes         *)
(* current_step.                                                           *)

SingleInv == \A r, s \in Runs : pc[r] # "idle" /\ pc[s] # "idle" => r = s

SnapInv ==
  /\ \A r \in Runs : pc[r] \in {"idle", "begun"} => todo[r] = {}
  /\ \A r \in Runs, l \in Leads, k \in 1..(NSteps + 1) : <<l, k>> \in todo[r] => k = step[l]
  /\ \A r \in Runs : Busy(r) => /\ CurStep(r) = step[CurLead(r)]
                                /\ \A k \in 1..(NSteps + 1) : <<CurLead(r), k>> \notin todo[r]

OneRunInv == TypeInv /\ SingleInv /\ SnapInv

LEMMA OneRunInit == Init => SingleInv /\ SnapInv
BY DEF Init, SingleInv, SnapInv, Busy

\* A run writes its own variables only.
OnlyRun(r) == \A s \in Runs : s # r => /\ pc'[s] = pc[s] /\ cur'[s] = cur[s]
                                       /\ todo'[s] = todo[s] /\ room'[s] = room[s]

LEMMA RunWritesItsOwn ==
  ASSUME RunsOK, NEW r \in Runs, Scheduler(r)
  PROVE  OnlyRun(r) /\ (Begin(r) \/ pc[r] # "idle")
<1>1. CASE Begin(r) \/ Load(r) \/ Close(r) \/ Crash(r)
  BY <1>1 DEF Begin, Load, Close, Crash, Goto, OnlyRun, RunsOK
<1>2. CASE Screen(r)
  BY <1>2 DEF Screen, Defer, StopSuppressed, StopExhausted, SkipStep, PassOver, StopBounced,
     Select, Take, Goto, OnlyRun, RunsOK
<1>3. CASE Deliver(r)
  BY <1>3 DEF Deliver, Claim, ClaimLost, Send, SendRefused, SendUnsure, LogRefusal, Revert,
     RevertLost, LogSent, LogLost, Advance, AdvanceLost, CountSend, Goto, OnlyRun, RunsOK
<1> QED BY <1>1, <1>2, <1>3 DEF Scheduler

\* So the other runs are idle while one acts.
LEMMA OthersIdle ==
  ASSUME ~Overlap, OneRunInv, NEW r \in Runs, Scheduler(r)
  PROVE  \A s \in Runs \ {r} : /\ pc[s] = "idle" /\ pc'[s] = "idle"
                               /\ todo[s] = {} /\ todo'[s] = {}
<1>1. OnlyRun(r) /\ (Begin(r) \/ pc[r] # "idle")
  BY RunWritesItsOwn DEF OneRunInv, TypeInv, TypeOK
<1>2. \A s \in Runs \ {r} : pc[s] = "idle"
  BY <1>1 DEF Begin, OneRunInv, SingleInv
<1> QED BY <1>1, <1>2 DEF OneRunInv, SnapInv, OnlyRun

LEMMA SingleStep ==
  ASSUME ~Overlap, OneRunInv, [Next]_vars PROVE SingleInv'
<1>1. ASSUME NEW r \in Runs, Scheduler(r) PROVE SingleInv'
  BY <1>1, OthersIdle DEF SingleInv
<1>2. CASE Others \/ UNCHANGED vars
  BY <1>2, OthersKeepRuns DEF vars, local, OneRunInv, SingleInv
<1> QED BY <1>1, <1>2, NextCases

LEMMA SnapStep ==
  ASSUME ~Overlap, OneRunInv, [Next]_vars PROVE SnapInv'
<1>0. RunsOK /\ RowsOK /\ SnapInv /\ TypeInv
  BY DEF OneRunInv, TypeInv, TypeOK
<1>1. ASSUME NEW r \in Runs, Scheduler(r) PROVE SnapInv'
  <2>0. \A s \in Runs \ {r} : pc'[s] = "idle" /\ todo'[s] = {}
    BY <1>1, OthersIdle
  \* What has to be shown of the run itself.
  <2>1. ASSUME pc'[r] \in {"idle", "begun"} => todo'[r] = {},
               \A l \in Leads, k \in 1..(NSteps + 1) : <<l, k>> \in todo'[r] => k = step'[l],
               Busy(r)' => (/\ CurStep(r) = step[CurLead(r)]
                            /\ \A k \in 1..(NSteps + 1) : <<CurLead(r), k>> \notin todo[r])'
        PROVE  SnapInv'
    BY <2>0, <2>1 DEF SnapInv, Busy
  <2>2. CASE Begin(r) \/ Close(r) \/ Crash(r)
    BY <1>0, <2>1, <2>2 DEF Begin, Close, Crash, Goto, RunsOK, SnapInv, Busy
  <2>3. CASE Load(r)
    BY <1>0, <2>1, <2>3 DEF Load, DueRows, row, Goto, RunsOK, Busy
  <2>4. ASSUME NEW l \in Leads, NEW k \in 1..(NSteps + 1), Take(r, l, k), pc' = pc, step' = step
        PROVE  SnapInv'
    BY <1>0, <2>1, <2>4 DEF Take, RunsOK, SnapInv, Busy
  <2>5. ASSUME NEW l \in Leads, NEW k \in 1..(NSteps + 1), SkipStep(r, l, k) PROVE SnapInv'
    <3>1. /\ pc'[r] = "loop" /\ k = step[l] /\ todo'[r] = todo[r] \ {<<l, k>>}
          /\ \A m \in Leads \ {l} : step'[m] = step[m]
      BY <1>0, <2>5 DEF SkipStep, Take, Mark, RunsOK, RowsOK, SnapInv
    <3>2. ASSUME NEW m \in Leads, NEW j \in 1..(NSteps + 1), <<m, j>> \in todo'[r] PROVE j = step'[m]
      BY <1>0, <3>1, <3>2 DEF SnapInv
    <3> QED BY <2>1, <3>1, <3>2 DEF Busy
  <2>6. ASSUME NEW l \in Leads, NEW k \in 1..(NSteps + 1), Select(r, l, k) PROVE SnapInv'
    <3>1. /\ pc'[r] = "claim" /\ k = step[l] /\ todo'[r] = todo[r] \ {<<l, k>>}
          /\ cur'[r] = <<l, k>> /\ step' = step
      BY <1>0, <2>6 DEF Select, Take, Goto, row, RunsOK, SnapInv
    <3>2. ASSUME NEW m \in Leads, NEW j \in 1..(NSteps + 1), <<m, j>> \in todo'[r]
          PROVE  j = step'[m] /\ m # l
      BY <1>0, <3>1, <3>2 DEF SnapInv
    <3> QED BY <2>1, <3>1, <3>2 DEF CurLead, CurStep
  <2>7. CASE Screen(r)
    BY <2>4, <2>5, <2>6, <2>7
    DEF Screen, Defer, StopSuppressed, StopExhausted, PassOver, StopBounced, Mark, row
  <2>8. ASSUME UNCHANGED <<step, todo, cur>>, Busy(r),
               NEW x \in {"loop", "smtp", "revert", "log", "advance"}, Goto(r, x)
        PROVE  SnapInv'
    BY <1>0, <2>1, <2>8 DEF Goto, RunsOK, SnapInv, CurLead, CurStep
  <2>9. CASE Advance(r)
    <3>1. /\ pc'[r] = "loop" /\ todo'[r] = todo[r] /\ Busy(r)
          /\ \A m \in Leads \ {CurLead(r)} : step'[m] = step[m]
      BY <1>0, <2>9 DEF Advance, Goto, RunsOK, RowsOK, Busy
    <3>2. ASSUME NEW m \in Leads, NEW j \in 1..(NSteps + 1), <<m, j>> \in todo'[r] PROVE j = step'[m]
      BY <1>0, <3>1, <3>2 DEF SnapInv
    <3> QED BY <2>1, <3>1, <3>2 DEF Busy
  <2>10. CASE Claim(r) \/ ClaimLost(r) \/ Send(r) \/ SendRefused(r) \/ SendUnsure(r)
    BY <2>8, <2>10 DEF Claim, ClaimLost, Send, SendRefused, SendUnsure, LogRefusal, row, Busy
  <2>11. CASE Revert(r) \/ RevertLost(r) \/ LogSent(r) \/ LogLost(r) \/ AdvanceLost(r)
    BY <2>8, <2>11 DEF Revert, RevertLost, LogSent, LogLost, AdvanceLost, row, Busy
  <2> QED BY <1>1, <2>2, <2>3, <2>7, <2>9, <2>10, <2>11 DEF Scheduler, Deliver
<1>2. CASE Others \/ UNCHANGED vars
  <2>1. UNCHANGED local /\ step' = step
    BY <1>2, OthersKeepRuns DEF Others, Age, Outside, Reap, NextDay, Operate, OptOut,
       LiftSuppression, HardBounce, StopSequence, Postpone, MarkOpen, Mark, vars, row
  <2> QED BY <1>0, <2>1 DEF local, SnapInv, Busy, CurLead, CurStep
<1> QED BY <1>1, <1>2, NextCases

LEMMA OneRunStep ==
  ASSUME ~Overlap, OneRunInv, [Next]_vars PROVE OneRunInv'
BY TypeStep, SingleStep, SnapStep DEF OneRunInv

-----------------------------------------------------------------------------
(* The steps of a single scheduler that matter to copies and quotas.  All  *)
(* others are calm.                                                        *)

Post == {"log", "advance"}

Calm ==
  /\ UNCHANGED <<step, mailed, today, sentLog, sentToday>>
  /\ faults' >= faults
  /\ \A r \in Runs : /\ cur'[r] = cur[r] \/ pc'[r] \notin Post
                     /\ pc'[r] = pc[r] \/ (pc[r] \notin Post /\ pc'[r] \notin Post)
                     /\ pc'[r] \notin {"idle", "begun"} =>
                          pc[r] \notin {"idle", "begun"} /\ room'[r] = room[r]

\* A condition that jumps.
Jump(r, l, k) == SkipStep(r, l, k) /\ SkipTo[k] # 0

LEMMA CalmScreen ==
  ASSUME TypeInv, NEW r \in Runs, Screen(r),
         \A l \in Leads, k \in 1..(NSteps + 1) : ~Jump(r, l, k)
  PROVE  Calm
<1>0. RunsOK /\ WorldOK
  BY DEF TypeInv, TypeOK
<1>1. ASSUME NEW l \in Leads, NEW k \in 1..(NSteps + 1), Take(r, l, k),
             pc'[r] \in {"loop", "claim"}, \A s \in Runs \ {r} : pc'[s] = pc[s] /\ cur'[s] = cur[s],
             UNCHANGED <<step, tables, room, world, bad>>
      PROVE  Calm
  BY <1>0, <1>1 DEF Take, Calm, Post, RunsOK, WorldOK, tables, world, bad
<1>2. ASSUME NEW l \in Leads, NEW k \in 1..(NSteps + 1), SkipStep(r, l, k) PROVE Calm
  <2>1. step' = step
    BY <1>2 DEF Jump, SkipStep, Mark
  <2> QED BY <1>0, <1>1, <1>2, <2>1 DEF SkipStep, Take
<1>3. ASSUME NEW l \in Leads, NEW k \in 1..(NSteps + 1), Select(r, l, k) PROVE Calm
  BY <1>0, <1>1, <1>3 DEF Select, Goto, RunsOK, row
<1>4. ASSUME NEW l \in Leads, NEW k \in 1..(NSteps + 1),
             \/ Defer(r, l, k) \/ StopSuppressed(r, l, k) \/ StopExhausted(r, l, k)
             \/ PassOver(r, l, k) \/ StopBounced(r, l, k)
      PROVE  Calm
  BY <1>0, <1>1, <1>4 DEF Defer, StopSuppressed, StopExhausted, PassOver, StopBounced, Take,
     Mark, row
<1> QED BY <1>2, <1>3, <1>4 DEF Screen

LEMMA CalmRun ==
  ASSUME TypeInv, NEW r \in Runs,
         \/ Begin(r) \/ Close(r) \/ (Crash(r) /\ pc[r] \notin Post)
         \/ Claim(r) \/ ClaimLost(r) \/ SendRefused(r) \/ Revert(r) \/ RevertLost(r)
  PROVE  Calm
<1>0. RunsOK /\ WorldOK
  BY DEF TypeInv, TypeOK
<1>1. CASE Begin(r) \/ Close(r) \/ (Crash(r) /\ pc[r] \notin Post)
  BY <1>0, <1>1 DEF Begin, Close, Crash, Goto, Calm, Post, RunsOK, WorldOK, Fault, row, tables, world, bad
<1>2. CASE Claim(r) \/ ClaimLost(r) \/ SendRefused(r) \/ Revert(r) \/ RevertLost(r)
  BY <1>0, <1>2 DEF Claim, ClaimLost, SendRefused, LogRefusal, Revert, RevertLost, Goto, Calm, Post,
     RunsOK, WorldOK, Fault, row, tables, world, bad
<1> QED BY <1>1, <1>2

LEMMA CalmOthers ==
  ASSUME TypeInv, Others \/ UNCHANGED vars, ~NextDay
  PROVE  Calm
<1>0. WorldOK
  BY DEF TypeInv, TypeOK
<1>1. UNCHANGED local
  BY OthersKeepRuns DEF vars
<1>2. UNCHANGED <<step, mailed, today, sentLog, sentToday, faults>>
  BY DEF Others, Age, Outside, Reap, Operate, OptOut, LiftSuppression, HardBounce,
     StopSequence, Postpone, MarkOpen, Mark, vars, row, tables, world, bad
<1> QED BY <1>0, <1>1, <1>2 DEF local, Calm, WorldOK

LEMMA CalmCases ==
  ASSUME TypeInv, [Next]_vars
  PROVE  \/ Calm
         \/ NextDay
         \/ \E r \in Runs : \/ Load(r) \/ Send(r) \/ SendUnsure(r) \/ LogSent(r) \/ LogLost(r)
                            \/ Advance(r) \/ AdvanceLost(r) \/ (Crash(r) /\ pc[r] \in Post)
                            \/ \E l \in Leads, k \in 1..(NSteps + 1) : Jump(r, l, k)
<1>1. ASSUME NEW r \in Runs, Scheduler(r)
      PROVE  \/ Calm
             \/ Load(r) \/ Send(r) \/ SendUnsure(r) \/ LogSent(r) \/ LogLost(r)
             \/ Advance(r) \/ AdvanceLost(r) \/ (Crash(r) /\ pc[r] \in Post)
             \/ \E l \in Leads, k \in 1..(NSteps + 1) : Jump(r, l, k)
  BY <1>1, CalmScreen, CalmRun DEF Scheduler, Deliver
<1> QED BY <1>1, CalmOthers, NextCases

\* A set that grows or shrinks by one element.
LEMMA CardinalityMoves ==
  ASSUME NEW S, IsFiniteSet(S), NEW T, NEW x
  PROVE  /\ Cardinality(S) \in Nat
         /\ T \subseteq S => IsFiniteSet(T) /\ Cardinality(T) <= Cardinality(S)
         /\ T \subseteq S \cup {x} => IsFiniteSet(T) /\ Cardinality(T) <= Cardinality(S) + 1
         /\ x \in S /\ T \subseteq S \ {x} => IsFiniteSet(T) /\ Cardinality(T) + 1 <= Cardinality(S)
<1>1. Cardinality(S) \in Nat
  BY FS_CardinalityType
<1>2. ASSUME NEW U, T \subseteq U, IsFiniteSet(U)
      PROVE  IsFiniteSet(T) /\ Cardinality(T) <= Cardinality(U)
  BY <1>2, FS_Subset
<1>3. /\ IsFiniteSet(S \cup {x})
      /\ Cardinality(S \cup {x}) = Cardinality(S) \/ Cardinality(S \cup {x}) = Cardinality(S) + 1
  BY FS_AddElement
<1>4. x \in S => IsFiniteSet(S \ {x}) /\ Cardinality(S \ {x}) = Cardinality(S) - 1
  BY FS_RemoveElement
<1>5. T \subseteq S \cup {x} => IsFiniteSet(T) /\ Cardinality(T) <= Cardinality(S) + 1
  <2> SUFFICES ASSUME T \subseteq S \cup {x}
               PROVE  IsFiniteSet(T) /\ Cardinality(T) <= Cardinality(S) + 1
    OBVIOUS
  <2>1. IsFiniteSet(T) /\ Cardinality(T) <= Cardinality(S \cup {x})
    BY <1>2, <1>3
  <2>2. Cardinality(T) \in Nat
    BY <2>1, FS_CardinalityType
  <2> QED BY <1>1, <1>3, <2>1, <2>2
<1>6. x \in S /\ T \subseteq S \ {x} => IsFiniteSet(T) /\ Cardinality(T) + 1 <= Cardinality(S)
  <2> SUFFICES ASSUME x \in S, T \subseteq S \ {x}
               PROVE  IsFiniteSet(T) /\ Cardinality(T) + 1 <= Cardinality(S)
    OBVIOUS
  <2>1. IsFiniteSet(T) /\ Cardinality(T) <= Cardinality(S \ {x})
    BY <1>2, <1>4
  <2>2. Cardinality(T) \in Nat
    BY <2>1, FS_CardinalityType
  <2> QED BY <1>1, <1>4, <2>1, <2>2
<1> QED BY <1>1, <1>2, <1>5, <1>6

-----------------------------------------------------------------------------
(* Copies.  That a copy costs a crash or a lost answer is not inductive: a *)
(* crash between the mail and the write of the row copies nothing yet, but *)
(* leaves a row whose step was mailed.  Such rows are at risk, and have    *)
(* paid already.                                                           *)

Settling(l) == \E r \in Runs : pc[r] \in Post /\ CurLead(r) = l
Risk == {l \in Leads : ~Settling(l) /\ step[l] <= NSteps /\ mailed[l][step[l]] > 0}

\* Nothing beyond the step of the row was mailed.
NoneAhead == \A l \in Leads, k \in Steps : k > step[l] => mailed[l][k] = 0

CopyInv ==
  /\ IsFiniteSet(ExtraCopies)
  /\ Cardinality(ExtraCopies) + Cardinality(Risk) <= faults
  /\ NoneAhead

\* Jumps, if any, go forward.
Forward == \A k \in Conditional : SkipTo[k] = 0 \/ SkipTo[k] > k

LEMMA SettlingRun ==
  ASSUME ~Overlap, OneRunInv, NEW r \in Runs, Scheduler(r), NEW l
  PROVE  /\ Settling(l) <=> (pc[r] \in Post /\ CurLead(r) = l)
         /\ Settling(l)' <=> (pc[r] \in Post /\ CurLead(r) = l)'
BY OthersIdle DEF Settling, Post

LEMMA SettlingCalm == ASSUME Calm, NEW l PROVE Settling(l)' <=> Settling(l)
BY DEF Calm, Settling, CurLead

\* A jump leaves its lead for a step nobody mailed or logged.
LEMMA JumpFacts ==
  ASSUME OneRunInv, Forward, NEW r \in Runs, NEW l \in Leads, NEW k \in 1..(NSteps + 1), Jump(r, l, k)
  PROVE  /\ UNCHANGED <<tables, pc, cur, room, world, bad>>
         /\ step'[l] = SkipTo[k] /\ SkipTo[k] > step[l] /\ SkipTo[k] \in Nat
         /\ \A m \in Leads \ {l} : step'[m] = step[m]
<1>1. k = step[l]
  BY DEF Jump, SkipStep, Take, OneRunInv, SnapInv
<1>2. SkipTo[k] \in Nat /\ SkipTo[k] > k /\ SkipTo[k] # 0
  BY CampaignSendAssumption DEF Jump, SkipStep, Forward
<1> QED BY <1>1, <1>2 DEF Jump, SkipStep, OneRunInv, TypeInv, TypeOK, RowsOK

LEMMA CopiesMember ==
  ASSUME NEW m, NEW x
  PROVE  x \in UNION {{<<l, k>>} \X (2..m[l][k]) : l \in Leads, k \in Steps}
         <=> \E l \in Leads, k \in Steps : \E i \in 2..m[l][k] : x = <<<<l, k>>, i>>
<1>1. ASSUME NEW a, NEW S PROVE x \in {a} \X S <=> \E i \in S : x = <<a, i>>
  OBVIOUS
<1>2. x \in UNION {{<<l, k>>} \X (2..m[l][k]) : l \in Leads, k \in Steps}
      <=> \E l \in Leads, k \in Steps : x \in {<<l, k>>} \X (2..m[l][k])
  <2> DEFINE Of(l, k) == {<<l, k>>} \X (2..m[l][k])
             All == {Of(l, k) : l \in Leads, k \in Steps}
  <2>1. \A S : S \in All <=> \E l \in Leads, k \in Steps : S = Of(l, k)
    <3> HIDE DEF Of
    <3> QED OBVIOUS
  <2>2. x \in UNION All <=> \E S \in All : x \in S
    OBVIOUS
  <2> HIDE DEF Of, All
  <2>3. x \in UNION All <=> \E l \in Leads, k \in Steps : x \in Of(l, k)
    BY <2>1, <2>2
  <2> QED BY <2>3 DEF Of, All
<1>3. ASSUME NEW l, NEW k
      PROVE  x \in {<<l, k>>} \X (2..m[l][k]) <=> \E i \in 2..m[l][k] : x = <<<<l, k>>, i>>
  BY <1>1
<1> QED BY <1>2, <1>3

LEMMA ExtraMember ==
  ASSUME NEW x
  PROVE  x \in ExtraCopies <=> \E l \in Leads, k \in Steps : \E i \in 2..mailed[l][k] : x = <<<<l, k>>, i>>
BY CopiesMember DEF ExtraCopies

LEMMA ExtraOfMail ==
  ASSUME WorldOK, NEW l \in Leads, NEW k \in Steps, MailLeaves(l, k)
  PROVE  /\ mailed[l][k] = 0 => ExtraCopies' = ExtraCopies
         /\ ExtraCopies' \subseteq ExtraCopies \cup {<<<<l, k>>, mailed[l][k] + 1>>}
<1>1. /\ mailed[l][k] \in Nat /\ mailed'[l][k] = mailed[l][k] + 1
      /\ \A m \in Leads, j \in Steps : <<m, j>> # <<l, k>> => mailed'[m][j] = mailed[m][j]
  BY DEF MailLeaves, WorldOK
<1>2. ASSUME NEW x
      PROVE  x \in ExtraCopies' <=> \E m \in Leads, j \in Steps : \E i \in 2..mailed'[m][j] : x = <<<<m, j>>, i>>
  <2> DEFINE after == mailed'
  <2>1. ExtraCopies' = UNION {{<<m, j>>} \X (2..after[m][j]) : m \in Leads, j \in Steps}
    BY DEF ExtraCopies
  <2> HIDE DEF after
  <2>2. x \in UNION {{<<m, j>>} \X (2..after[m][j]) : m \in Leads, j \in Steps}
        <=> \E m \in Leads, j \in Steps : \E i \in 2..after[m][j] : x = <<<<m, j>>, i>>
    BY CopiesMember
  <2>3. x \in ExtraCopies' <=> \E m \in Leads, j \in Steps : \E i \in 2..after[m][j] : x = <<<<m, j>>, i>>
    BY <2>1, <2>2
  <2> QED BY <2>3 DEF after
<1>3. ExtraCopies' \subseteq ExtraCopies \cup {<<<<l, k>>, mailed[l][k] + 1>>}
  <2> SUFFICES ASSUME NEW m \in Leads, NEW j \in Steps, NEW i \in 2..mailed'[m][j],
                      <<<<m, j>>, i>> # <<<<l, k>>, mailed[l][k] + 1>>
               PROVE  i \in 2..mailed[m][j]
    BY <1>2, ExtraMember
  <2>1. CASE <<m, j>> = <<l, k>>
    <3>1. i \in 2..(mailed[l][k] + 1) /\ i # mailed[l][k] + 1
      BY <1>1, <2>1
    <3> QED BY <1>1, <2>1, <3>1
  <2>2. CASE <<m, j>> # <<l, k>>
    BY <1>1, <2>2
  <2> QED BY <2>1, <2>2
<1>4. ASSUME mailed[l][k] = 0 PROVE ExtraCopies' = ExtraCopies
  <2>1. ASSUME NEW m \in Leads, NEW j \in Steps PROVE 2..mailed'[m][j] = 2..mailed[m][j]
    BY <1>1, <1>4
  <2> QED BY <1>2, <2>1, ExtraMember
<1> QED BY <1>3, <1>4

LEMMA RiskFinite ==
  ASSUME OneRunInv, CopyInv
  PROVE  /\ IsFiniteSet(Risk) /\ Cardinality(Risk) \in Nat
         /\ Cardinality(ExtraCopies) \in Nat /\ faults \in Nat
<1>1. IsFiniteSet(Risk)
  BY FS_Subset, CampaignSendAssumption DEF Risk
<1>2. faults \in Nat
  BY CampaignSendAssumption DEF OneRunInv, TypeInv, TypeOK, WorldOK
<1> QED BY <1>1, <1>2, FS_CardinalityType DEF CopyInv

LEMMA CopyInit == Init => CopyInv
<1> SUFFICES ASSUME Init PROVE CopyInv
  OBVIOUS
<1>1. \A l \in Leads, k \in Steps : mailed[l][k] = 0
  BY DEF Init
<1>2. ExtraCopies = {}
  <2>1. \A l \in Leads, k \in Steps : 2..mailed[l][k] = {}
    BY <1>1
  <2> QED BY <2>1, ExtraMember
<1>3. Risk = {}
  <2> SUFFICES ASSUME NEW l \in Risk PROVE FALSE
    OBVIOUS
  <2>1. step[l] = 1 /\ 1 \in Steps
    BY CampaignSendAssumption DEF Risk, Init, Steps
  <2> QED BY <1>1, <2>1 DEF Risk
<1> QED BY <1>1, <1>2, <1>3, FS_EmptySet DEF CopyInv, NoneAhead, Init

\* Nothing is mailed: what has to be shown is about the rows at risk only.
LEMMA CopyKeep ==
  ASSUME OneRunInv, CopyInv, UNCHANGED mailed, faults' \in Nat, NEW l \in Leads,
         \/ faults' >= faults /\ Risk' \subseteq Risk
         \/ faults' = faults + 1 /\ Risk' \subseteq Risk \cup {l},
         NoneAhead'
  PROVE  CopyInv'
<1>1. ExtraCopies' = ExtraCopies
  BY DEF ExtraCopies
<1>2. Cardinality(Risk') \in Nat /\
      \/ faults' >= faults /\ Cardinality(Risk') <= Cardinality(Risk)
      \/ faults' = faults + 1 /\ Cardinality(Risk') <= Cardinality(Risk) + 1
  BY RiskFinite, CardinalityMoves, FS_CardinalityType
<1> QED BY <1>1, <1>2, RiskFinite DEF CopyInv

LEMMA CopyMail ==
  ASSUME ~Overlap, OneRunInv, CopyInv, NEW r \in Runs, Send(r) \/ SendUnsure(r)
  PROVE  CopyInv'
<1> DEFINE l == CurLead(r)
           k == CurStep(r)
           new == <<<<l, k>>, mailed[l][k] + 1>>
<1>1. /\ l \in Leads /\ k \in Steps /\ k = step[l] /\ k <= NSteps /\ MailLeaves(l, k)
      /\ step' = step /\ cur' = cur /\ pc[r] = "smtp"
      /\ OnlyRun(r)
  <2>1. Busy(r) /\ MailLeaves(l, k) /\ step' = step /\ cur' = cur /\ pc[r] = "smtp"
    BY DEF Send, SendUnsure, LogRefusal, Busy, row
  <2>2. l \in Leads /\ k \in Steps /\ k = step[l]
    BY <2>1, BusyCur DEF OneRunInv, SnapInv
  <2>3. OnlyRun(r)
    BY RunWritesItsOwn DEF Scheduler, Deliver, OneRunInv, TypeInv, TypeOK
  <2> QED BY <2>1, <2>2, <2>3, CampaignSendAssumption DEF Steps
<1>2. /\ mailed[l][k] \in Nat /\ mailed'[l][k] = mailed[l][k] + 1
      /\ \A m \in Leads, j \in Steps : m # l \/ j # k => mailed'[m][j] = mailed[m][j]
  BY <1>1 DEF MailLeaves, OneRunInv, TypeInv, TypeOK, WorldOK
<1>3. \A m : ~Settling(m) /\ (Settling(m)' <=> pc'[r] \in Post /\ m = l)
  BY <1>1, SettlingRun DEF Scheduler, Deliver, Post, CurLead
<1>4. \A m \in Leads \ {l} : m \in Risk' => m \in Risk
  <2> SUFFICES ASSUME NEW m \in Leads \ {l}, m \in Risk' PROVE m \in Risk
    OBVIOUS
  <2>1. step[m] <= NSteps /\ mailed'[m][step[m]] > 0 /\ step[m] \in 1..(NSteps + 1)
    BY <1>1 DEF Risk, OneRunInv, TypeInv, TypeOK, RowsOK
  <2>2. step[m] \in Steps
    BY <2>1, CampaignSendAssumption DEF Steps
  <2>3. mailed[m][step[m]] > 0
    BY <1>2, <2>1, <2>2
  <2> QED BY <1>3, <2>1, <2>3 DEF Risk
<1>5. mailed[l][k] > 0 <=> l \in Risk
  BY <1>1, <1>3 DEF Risk
<1>6. NoneAhead'
  <2> SUFFICES ASSUME NEW m \in Leads, NEW j \in Steps, j > step[m] PROVE mailed'[m][j] = 0
    BY <1>1 DEF NoneAhead
  <2>1. (m # l \/ j # k) /\ mailed[m][j] = 0
    BY <1>1, CampaignSendAssumption DEF CopyInv, NoneAhead, Steps
  <2> QED BY <1>2, <2>1
<1>7. /\ IsFiniteSet(ExtraCopies') /\ Cardinality(ExtraCopies') \in Nat
      /\ mailed[l][k] = 0 => Cardinality(ExtraCopies') = Cardinality(ExtraCopies)
      /\ Cardinality(ExtraCopies') <= Cardinality(ExtraCopies) + 1
  <2>1. /\ mailed[l][k] = 0 => ExtraCopies' = ExtraCopies
        /\ ExtraCopies' \subseteq ExtraCopies \cup {new}
    BY <1>1, ExtraOfMail DEF OneRunInv, TypeInv, TypeOK
  <2>2. IsFiniteSet(ExtraCopies)
    BY DEF CopyInv
  <2> HIDE DEF new
  <2>3. IsFiniteSet(ExtraCopies') /\ Cardinality(ExtraCopies') <= Cardinality(ExtraCopies) + 1
    BY <2>1, <2>2, CardinalityMoves
  <2>4. Cardinality(ExtraCopies') \in Nat
    BY <2>3, FS_CardinalityType
  <2> QED BY <2>1, <2>3, <2>4
<1>8. CASE Send(r)
  <2>1. pc'[r] = "log" /\ faults' = faults
    BY <1>8 DEF Send, Goto, OneRunInv, TypeInv, TypeOK, RunsOK, bad
  <2>2. l \notin Risk'
    BY <1>3, <2>1 DEF Risk, Post
  <2>3. CASE mailed[l][k] = 0
    <3>1. Risk' \subseteq Risk
      BY <1>4, <2>2 DEF Risk
    <3>2. Cardinality(Risk') <= Cardinality(Risk) /\ Cardinality(Risk') \in Nat
      BY <3>1, RiskFinite, CardinalityMoves, FS_CardinalityType
    <3> QED BY <1>6, <1>7, <2>1, <2>3, <3>2, RiskFinite DEF CopyInv
  <2>4. CASE mailed[l][k] # 0
    <3>1. l \in Risk /\ Risk' \subseteq Risk \ {l}
      BY <1>2, <1>4, <1>5, <2>2, <2>4 DEF Risk
    <3> HIDE DEF l, k
    <3>2. Cardinality(Risk') + 1 <= Cardinality(Risk) /\ Cardinality(Risk') \in Nat
      BY <3>1, RiskFinite, CardinalityMoves, FS_CardinalityType
    <3> QED BY <1>6, <1>7, <2>1, <3>2, RiskFinite DEF CopyInv
  <2> QED BY <2>3, <2>4
<1>9. CASE SendUnsure(r)
  <2>1. faults' = faults + 1
    BY <1>9 DEF SendUnsure, Fault
  <2>2. CASE mailed[l][k] = 0
    <3>1. Risk' \subseteq Risk \cup {l}
      BY <1>4 DEF Risk
    <3> HIDE DEF l, k
    <3>2. Cardinality(Risk') <= Cardinality(Risk) + 1 /\ Cardinality(Risk') \in Nat
      BY <3>1, RiskFinite, CardinalityMoves, FS_CardinalityType
    <3> QED BY <1>6, <1>7, <2>1, <2>2, <3>2, RiskFinite DEF CopyInv
  <2>3. CASE mailed[l][k] # 0
    <3>1. Risk' \subseteq Risk
      BY <1>2, <1>4, <1>5, <2>3 DEF Risk
    <3>2. Cardinality(Risk') <= Cardinality(Risk) /\ Cardinality(Risk') \in Nat
      BY <3>1, RiskFinite, CardinalityMoves, FS_CardinalityType
    <3> QED BY <1>6, <1>7, <2>1, <3>2, RiskFinite DEF CopyInv
  <2> QED BY <2>2, <2>3
<1> QED BY <1>8, <1>9

LEMMA CopyStep ==
  ASSUME ~Overlap, Forward, OneRunInv, CopyInv, [Next]_vars
  PROVE  CopyInv'
<1>0. /\ RunsOK /\ RowsOK /\ WorldOK /\ faults \in Nat /\ NoneAhead
      /\ NSteps \in Nat
  BY RiskFinite, CampaignSendAssumption DEF OneRunInv, TypeInv, TypeOK, CopyInv
<1>1. CASE Calm
  <2>1. UNCHANGED <<step, mailed>> /\ faults' >= faults
    BY <1>1 DEF Calm
  <2>2. Risk' = Risk /\ NoneAhead'
    <3>1. \A l \in Leads : Settling(l)' <=> Settling(l)
      BY <1>1, SettlingCalm
    <3> QED BY <1>0, <2>1, <3>1 DEF Risk, NoneAhead
  <2>3. ExtraCopies' = ExtraCopies
    BY <2>1 DEF ExtraCopies
  <2>4. faults' \in Nat
    BY TypeStep, CampaignSendAssumption DEF OneRunInv, TypeInv, TypeOK, WorldOK
  <2> QED BY <2>1, <2>2, <2>3, <2>4, RiskFinite DEF CopyInv
<1>2. CASE NextDay
  <2>1. UNCHANGED <<step, mailed, pc, cur, faults>>
    BY <1>2 DEF NextDay, local, bad
  <2> QED BY <2>1 DEF CopyInv, ExtraCopies, Risk, Settling, CurLead, NoneAhead
<1>3. ASSUME NEW r \in Runs, Load(r) \/ LogSent(r) \/ LogLost(r) PROVE CopyInv'
  <2>1. UNCHANGED <<step, mailed, cur>> /\ (faults' = faults \/ faults' = faults + 1)
    BY <1>3 DEF Load, LogSent, LogLost, Fault, row, world, bad
  <2>2. \A l \in Leads : Settling(l)' <=> Settling(l)
    BY <1>0, <1>3, <2>1 DEF Load, LogSent, LogLost, Goto, Settling, Post, CurLead, RunsOK
  <2>3. Risk' = Risk /\ NoneAhead' /\ ExtraCopies' = ExtraCopies
    BY <1>0, <2>1, <2>2 DEF Risk, NoneAhead, ExtraCopies
  <2> QED BY <1>0, <2>1, <2>3, RiskFinite DEF CopyInv
<1>4. ASSUME NEW r \in Runs, NEW l \in Leads, NEW k \in 1..(NSteps + 1), Jump(r, l, k)
      PROVE  CopyInv'
  <2>1. /\ step'[l] > step[l] /\ step'[l] \in Nat /\ step[l] \in Nat
        /\ \A m \in Leads \ {l} : step'[m] = step[m]
        /\ UNCHANGED <<mailed, pc, cur, faults>>
    BY <1>0, <1>4, JumpFacts DEF world, bad, RowsOK
  <2>2. NoneAhead'
    <3> SUFFICES ASSUME NEW m \in Leads, NEW j \in Steps, j > step'[m] PROVE mailed'[m][j] = 0
      BY DEF NoneAhead
    <3>1. j > step[m]
      BY <2>1 DEF Steps
    <3> QED BY <1>0, <2>1, <3>1 DEF NoneAhead
  <2>3. Risk' \subseteq Risk
    <3> SUFFICES ASSUME NEW m \in Leads, m \in Risk', m \notin Risk PROVE FALSE
      BY DEF Risk
    <3>1. m = l
      BY <2>1 DEF Risk, Settling, CurLead
    <3>2. step'[l] \in Steps /\ mailed[l][step'[l]] > 0
      BY <1>0, <2>1, <3>1 DEF Risk, Steps
    <3> QED BY <1>0, <2>1, <3>2 DEF NoneAhead
  <2> QED BY <1>0, <2>1, <2>2, <2>3, CopyKeep
<1>5. ASSUME NEW r \in Runs, Advance(r) PROVE CopyInv'
  <2> DEFINE l == CurLead(r)
  <2>1. Busy(r) /\ l \in Leads /\ step[l] \in Steps /\ step'[l] = step[l] + 1
    BY <1>0, <1>5, BusyCur DEF Advance, NextStep, Busy, OneRunInv, SnapInv, RowsOK
  <2>2. /\ \A m \in Leads \ {l} : step'[m] = step[m]
        /\ UNCHANGED <<mailed, cur, faults>>
    BY <1>0, <1>5 DEF Advance, world, bad, RowsOK
  <2>3. NoneAhead'
    <3> SUFFICES ASSUME NEW m \in Leads, NEW j \in Steps, j > step'[m] PROVE mailed'[m][j] = 0
      BY DEF NoneAhead
    <3>1. j > step[m]
      BY <2>1, <2>2 DEF Steps
    <3> QED BY <1>0, <2>2, <3>1 DEF NoneAhead
  <2>4. Risk' \subseteq Risk
    <3> SUFFICES ASSUME NEW m \in Leads, m \in Risk', m \notin Risk PROVE FALSE
      BY DEF Risk
    <3>1. Settling(m) <=> (pc[r] \in Post /\ CurLead(r) = m)
      BY <1>5, SettlingRun DEF Scheduler, Deliver
    <3>2. m = l
      BY <2>2, <3>1 DEF Risk
    <3>3. step'[l] \in Steps /\ mailed[l][step'[l]] > 0
      BY <1>0, <2>1, <2>2, <3>2 DEF Risk, Steps
    <3> QED BY <1>0, <2>1, <3>3 DEF NoneAhead, Steps
  <2> QED BY <1>0, <2>1, <2>2, <2>3, <2>4, CopyKeep
<1>6. ASSUME NEW r \in Runs, AdvanceLost(r) \/ (Crash(r) /\ pc[r] \in Post) PROVE CopyInv'
  <2> DEFINE l == CurLead(r)
  <2>1. pc[r] \in Post /\ UNCHANGED <<step, mailed, cur>> /\ faults' = faults + 1
    BY <1>6 DEF AdvanceLost, Crash, Fault, row, world, Post
  <2>2. l \in Leads
    BY <2>1, BusyCur DEF Post, Busy, OneRunInv
  <2>3. Risk' \subseteq Risk \cup {l}
    <3>1. \A m \in Leads : Settling(m) <=> m = l
      BY <1>6, <2>1, SettlingRun DEF Scheduler, Deliver
    <3> QED BY <2>1, <3>1 DEF Risk
  <2>4. NoneAhead'
    BY <1>0, <2>1 DEF NoneAhead
  <2> HIDE DEF l
  <2> QED BY <1>0, <2>1, <2>2, <2>3, <2>4, CopyKeep
<1> QED BY <1>1, <1>2, <1>3, <1>4, <1>5, <1>6, CopyMail, CalmCases DEF OneRunInv

\* A single scheduler mails a step twice only after a crash or a lost answer,
\* and each of those costs at most one copy, however many other writers there
\* are and however long a call hangs.
THEOREM CopiesCostFaults == ASSUME ~Overlap, Forward PROVE Spec => []DuplicatesNeedFaults
<1>1. Init => OneRunInv /\ CopyInv
  BY TypeInit, OneRunInit, CopyInit DEF OneRunInv
<1>2. OneRunInv /\ CopyInv /\ [Next]_vars => OneRunInv' /\ CopyInv'
  BY OneRunStep, CopyStep
<1>3. OneRunInv /\ CopyInv => DuplicatesNeedFaults
  BY RiskFinite DEF CopyInv, DuplicatesNeedFaults
<1> QED BY <1>1, <1>2, <1>3, PTL DEF Spec

-----------------------------------------------------------------------------
(* The sequence as promised.  Without faults no row is at risk, so the     *)
(* step that goes out was never mailed, and neither was a later one.       *)

LEMMA MailsAreDeliveries ==
  ASSUME ~Overlap, Forward, MaxFaults = 0, OneRunInv, CopyInv, [Next]_vars
  PROVE  [Sequence!Next]_mailed
<1>0. faults = 0 /\ WorldOK
  BY DEF OneRunInv, TypeInv, TypeOK, WorldOK
<1>1. Risk = {}
  <2>1. Cardinality(Risk) = 0
    BY <1>0, RiskFinite DEF CopyInv
  <2> QED BY <2>1, RiskFinite, FS_EmptySet
<1>2. ASSUME NEW r \in Runs, Send(r) PROVE Sequence!Next
  <2> DEFINE l == CurLead(r)
             k == CurStep(r)
  <2>1. /\ l \in Leads /\ k \in Steps /\ k = step[l] /\ k <= NSteps /\ MailLeaves(l, k)
        /\ pc[r] = "smtp"
    BY <1>2, BusyCur, CampaignSendAssumption DEF Send, Busy, Steps, OneRunInv, SnapInv
  <2>2. ~Settling(l)
    BY <1>2, <2>1, SettlingRun DEF Scheduler, Deliver, Post
  <2>3. mailed[l][k] \in Nat /\ ~(mailed[l][k] > 0)
    BY <1>0, <1>1, <2>1, <2>2 DEF Risk, WorldOK
  <2>4. \A j \in Steps : j >= k => mailed[l][j] = 0
    BY <2>1, <2>3, CampaignSendAssumption DEF CopyInv, NoneAhead, Steps
  <2>5. mailed' = [mailed EXCEPT ![l][k] = 1]
    <3>1. mailed[l][k] + 1 = 1
      BY <2>3
    <3>2. mailed' = [mailed EXCEPT ![l] = [mailed[l] EXCEPT ![k] = mailed[l][k] + 1]]
      BY <2>1 DEF MailLeaves
    <3> QED BY <3>1, <3>2
  <2> HIDE DEF l, k
  <2> QED BY <2>1, <2>4, <2>5 DEF Sequence!Next, Sequence!Deliver, Sequence!Steps, Steps
<1>3. ASSUME NEW r \in Runs, SendUnsure(r) PROVE FALSE
  BY <1>0, <1>3 DEF SendUnsure, Fault
<1>4. ASSUME NEW r \in Runs, NEW l \in Leads, NEW k \in 1..(NSteps + 1), Jump(r, l, k)
      PROVE  mailed' = mailed
  BY <1>4 DEF Jump, SkipStep, world
<1>5. CASE Calm \/ NextDay
  BY <1>5 DEF Calm, NextDay
<1>6. ASSUME NEW r \in Runs,
             \/ Load(r) \/ LogSent(r) \/ LogLost(r) \/ Advance(r) \/ AdvanceLost(r) \/ Crash(r)
      PROVE  mailed' = mailed
  BY <1>6 DEF Load, LogSent, LogLost, Advance, AdvanceLost, Crash, world
<1> QED BY <1>2, <1>3, <1>4, <1>5, <1>6, CalmCases DEF OneRunInv

\* A single scheduler that neither crashes nor loses answers gives each lead
\* the steps of its sequence in order, each at most once.
THEOREM DeliversTheSequence ==
  ASSUME ~Overlap, Forward, MaxFaults = 0 PROVE Spec => ImplementsSequenceDelivery
<1>1. Init => OneRunInv /\ CopyInv
  BY TypeInit, OneRunInit, CopyInit DEF OneRunInv
<1>2. OneRunInv /\ CopyInv /\ [Next]_vars => OneRunInv' /\ CopyInv'
  BY OneRunStep, CopyStep
<1>3. Init => Sequence!Init
  BY DEF Init, Sequence!Init, Sequence!Steps, Steps
<1>4. OneRunInv /\ CopyInv /\ [Next]_vars => [Sequence!Next]_mailed
  BY MailsAreDeliveries
<1> QED BY <1>1, <1>2, <1>3, <1>4, PTL DEF Spec, ImplementsSequenceDelivery, Sequence!Spec

-----------------------------------------------------------------------------
(* The day's limit.  The quota is read once per run, from the log.  A mail *)
(* that was logged on an earlier attempt is not logged again, so a row     *)
(* whose step is in the log is a debt: its next mail will not count.       *)

Debt == {l \in Leads : ~Settling(l) /\ <<l, step[l]>> \in sentLog}

\* A mail is out and its row in the log still to come.
Unlogged == IF \E r \in Runs : pc[r] = "log" /\ cur[r] \notin sentLog THEN 1 ELSE 0

\* The log holds no step beyond the one of the row.
NoLogAhead == \A l \in Leads, k \in Steps : <<l, k>> \in sentLog => k <= step[l]

\* What a run may still send fits below the limit; after the mail and before
\* the count its own mail is in both.
RoomFits ==
  \A r \in Runs : pc[r] \notin {"idle", "begun"} =>
    today + room[r] <= DailyLimit + faults + (IF pc[r] \in Post THEN 1 ELSE 0)

LimitInv ==
  /\ Cardinality(Debt) <= faults
  /\ today + Cardinality(Debt) <= Cardinality(sentToday) + faults + Unlogged
  /\ today <= DailyLimit + faults
  /\ RoomFits
  /\ NoLogAhead

LEMMA LimitTypes ==
  ASSUME OneRunInv
  PROVE  /\ IsFiniteSet(Debt) /\ Cardinality(Debt) \in Nat
         /\ IsFiniteSet(sentToday) /\ Cardinality(sentToday) \in Nat
         /\ faults \in Nat /\ today \in Nat /\ DailyLimit \in Nat
         /\ Unlogged \in 0..1
         /\ \A r \in Runs : room[r] \in Nat
         /\ \A l \in Leads : step[l] \in 1..(NSteps + 1)
         /\ NSteps \in Nat
<1>1. IsFiniteSet(Debt)
  BY FS_Subset, CampaignSendAssumption DEF Debt
<1>2. IsFiniteSet(Leads \X Steps)
  <2>1. IsFiniteSet(Steps)
    BY FS_Interval, CampaignSendAssumption DEF Steps
  <2> QED BY <2>1, FS_Product, CampaignSendAssumption
<1>3. IsFiniteSet(sentToday)
  BY <1>2, FS_Subset DEF OneRunInv, TypeInv, TypeOK, TablesOK
<1>4. /\ faults \in Nat /\ today \in Nat /\ DailyLimit \in Nat /\ NSteps \in Nat
      /\ \A r \in Runs : room[r] \in Nat
      /\ \A l \in Leads : step[l] \in 1..(NSteps + 1)
  BY CampaignSendAssumption DEF OneRunInv, TypeInv, TypeOK, WorldOK, RunsOK, RowsOK
<1>5. Unlogged \in 0..1
  BY DEF Unlogged
<1> QED BY <1>1, <1>3, <1>4, <1>5, FS_CardinalityType

LEMMA LimitInit == Init => LimitInv
<1> SUFFICES ASSUME Init PROVE LimitInv
  OBVIOUS
<1>1. sentLog = {} /\ sentToday = {} /\ today = 0 /\ faults = 0 /\ \A r \in Runs : pc[r] = "idle"
  BY DEF Init
<1>2. Debt = {} /\ Unlogged = 0 /\ NoLogAhead /\ RoomFits
  BY <1>1 DEF Debt, Unlogged, NoLogAhead, RoomFits
<1> QED BY <1>1, <1>2, FS_EmptySet, CampaignSendAssumption DEF LimitInv

\* The arithmetic of a step, once it is known how the debts move.
LEMMA DebtMoves ==
  ASSUME OneRunInv, OneRunInv', NEW l
  PROVE  /\ Debt' \subseteq Debt => Cardinality(Debt') <= Cardinality(Debt)
         /\ Debt' \subseteq Debt \cup {l} => Cardinality(Debt') <= Cardinality(Debt) + 1
         /\ l \in Debt /\ Debt' \subseteq Debt \ {l} => Cardinality(Debt') + 1 <= Cardinality(Debt)
         /\ Cardinality(Debt') \in Nat /\ Cardinality(sentToday') \in Nat
         /\ faults' \in Nat /\ today' \in Nat /\ Unlogged' \in 0..1
         /\ \A r \in Runs : room'[r] \in Nat
<1>1. /\ faults' \in Nat /\ today' \in Nat /\ Unlogged' \in 0..1
      /\ \A r \in Runs : room'[r] \in Nat
  BY CampaignSendAssumption DEF OneRunInv, TypeInv, TypeOK, WorldOK, RunsOK, Unlogged
<1>2. IsFiniteSet(Debt')
  BY FS_Subset, CampaignSendAssumption DEF Debt
<1>3. IsFiniteSet(Leads \X Steps)
  <2>1. IsFiniteSet(Steps)
    BY FS_Interval, CampaignSendAssumption DEF Steps
  <2> QED BY <2>1, FS_Product, CampaignSendAssumption
<1>4. IsFiniteSet(sentToday')
  BY <1>3, FS_Subset DEF OneRunInv, TypeInv, TypeOK, TablesOK
<1> QED BY <1>1, <1>2, <1>4, FS_CardinalityType, LimitTypes, CardinalityMoves

LEMMA UnloggedRun ==
  ASSUME ~Overlap, OneRunInv, NEW r \in Runs, Scheduler(r)
  PROVE  /\ Unlogged = (IF pc[r] = "log" /\ cur[r] \notin sentLog THEN 1 ELSE 0)
         /\ Unlogged' = (IF pc'[r] = "log" /\ cur'[r] \notin sentLog' THEN 1 ELSE 0)
BY OthersIdle DEF Unlogged

\* Only the run that acts has room to account for.
LEMMA RoomRun ==
  ASSUME ~Overlap, OneRunInv, OneRunInv', NEW r \in Runs, Scheduler(r),
         \/ pc'[r] \in {"idle", "begun"}
         \/ pc'[r] \in Post /\ today' + room'[r] <= DailyLimit + faults' + 1
         \/ pc'[r] \notin Post /\ today' + room'[r] <= DailyLimit + faults'
  PROVE  RoomFits'
<1> SUFFICES ASSUME NEW s \in Runs, pc'[s] \notin {"idle", "begun"}
             PROVE  today' + room'[s] <= DailyLimit + faults' + (IF pc'[s] \in Post THEN 1 ELSE 0)
  BY DEF RoomFits
<1>1. s = r
  BY OthersIdle
<1>2. today' \in Nat /\ room'[r] \in Nat /\ DailyLimit \in Nat /\ faults' \in Nat
  BY LimitTypes, DebtMoves
<1>3. CASE pc'[r] \in Post
  BY <1>1, <1>3
<1>4. CASE pc'[r] \notin Post
  BY <1>1, <1>2, <1>4
<1> QED BY <1>3, <1>4

\* ... and the run in hand has its lead.
LEMMA LimitRun ==
  ASSUME ~Overlap, OneRunInv, OneRunInv', NEW r \in Runs, Scheduler(r), Busy(r)
  PROVE  /\ CurLead(r) \in Leads /\ CurStep(r) \in Steps /\ CurStep(r) = step[CurLead(r)]
         /\ cur[r] = <<CurLead(r), CurStep(r)>>
         /\ room[r] \in Nat \ {0}
BY BusyCur, LimitTypes DEF OneRunInv, SnapInv, TypeInv, BusyOK

LEMMA LimitSend ==
  ASSUME ~Overlap, OneRunInv, OneRunInv', LimitInv, NEW r \in Runs, Send(r) \/ SendUnsure(r)
  PROVE  LimitInv'
<1> DEFINE l == CurLead(r)
<1>1. /\ pc[r] = "smtp" /\ today' = today + 1
      /\ UNCHANGED <<step, cur, room, sentLog, sentToday>>
      /\ Scheduler(r) /\ Busy(r)
  BY DEF Send, SendUnsure, LogRefusal, MailLeaves, Scheduler, Deliver, Busy, row, tables
<1>2. /\ l \in Leads /\ cur[r] = <<l, step[l]>> /\ room[r] \in Nat \ {0}
  BY <1>1, LimitRun
<1>3. \A m \in Leads : ~Settling(m) /\ (Settling(m)' <=> pc'[r] \in Post /\ l' = m)
  BY <1>1, SettlingRun DEF Post
<1>4. l' = l
  BY <1>1 DEF CurLead
<1>5. today + room[r] <= DailyLimit + faults
  <2>1. pc[r] \notin Post /\ pc[r] \notin {"idle", "begun"}
    BY <1>1 DEF Post
  <2>2. today + room[r] <= DailyLimit + faults + 0
    BY <2>1 DEF LimitInv, RoomFits
  <2> QED BY <2>2, LimitTypes
<1>6. Unlogged = 0
  BY <1>1, UnloggedRun
<1>7. NoLogAhead'
  BY <1>1 DEF LimitInv, NoLogAhead
<1> USE LimitTypes, DebtMoves
<1>8. CASE Send(r)
  <2>1. pc'[r] = "log" /\ faults' = faults
    BY <1>8 DEF Send, Goto, OneRunInv, TypeInv, TypeOK, RunsOK, bad
  <2>2. Debt' \subseteq Debt \ {l}
    BY <1>1, <1>3, <1>4, <2>1 DEF Debt, Post
  <2>3. Unlogged' = (IF cur[r] \notin sentLog THEN 1 ELSE 0)
    BY <1>1, <2>1, UnloggedRun
  <2>4. RoomFits'
    BY <1>1, <1>2, <1>5, <2>1, RoomRun DEF Post
  <2>5. today' <= DailyLimit + faults'
    BY <1>1, <1>2, <1>5, <2>1
  <2>6. CASE cur[r] \in sentLog
    <3>1. l \in Debt
      BY <1>2, <1>3, <2>6 DEF Debt
    <3> HIDE DEF l
    <3>2. Cardinality(Debt') + 1 <= Cardinality(Debt)
      BY <2>2, <3>1
    <3>3. today' + Cardinality(Debt') <= Cardinality(sentToday') + faults' + Unlogged'
      BY <1>1, <1>6, <2>1, <2>3, <2>6, <3>2 DEF LimitInv
    <3> QED BY <1>7, <2>1, <2>4, <2>5, <3>2, <3>3 DEF LimitInv
  <2>7. CASE cur[r] \notin sentLog
    <3>1. Debt' \subseteq Debt
      BY <2>2
    <3>2. Cardinality(Debt') <= Cardinality(Debt)
      BY <3>1
    <3>3. today' + Cardinality(Debt') <= Cardinality(sentToday') + faults' + Unlogged'
      BY <1>1, <1>6, <2>1, <2>3, <2>7, <3>2 DEF LimitInv
    <3> QED BY <1>7, <2>1, <2>4, <2>5, <3>2, <3>3 DEF LimitInv
  <2> QED BY <2>6, <2>7
<1>9. CASE SendUnsure(r)
  <2>1. pc'[r] = "revert" /\ faults' = faults + 1
    BY <1>9 DEF SendUnsure, LogRefusal, Fault, Goto, OneRunInv, TypeInv, TypeOK, RunsOK
  <2>2. Debt' \subseteq Debt
    BY <1>1, <1>3 DEF Debt
  <2>3. Cardinality(Debt') <= Cardinality(Debt)
    BY <2>2
  <2>4. Unlogged' = 0
    BY <1>1, <2>1, UnloggedRun
  <2>5. RoomFits'
    BY <1>1, <1>2, <1>5, <2>1, RoomRun DEF Post
  <2> QED BY <1>1, <1>2, <1>5, <1>6, <1>7, <2>1, <2>3, <2>4, <2>5 DEF LimitInv
<1> QED BY <1>8, <1>9

LEMMA LimitLog ==
  ASSUME ~Overlap, OneRunInv, OneRunInv', LimitInv, NEW r \in Runs, LogSent(r) \/ LogLost(r)
  PROVE  LimitInv'
<1> DEFINE l == CurLead(r)
<1>1. /\ pc[r] = "log" /\ pc'[r] = "advance"
      /\ UNCHANGED <<step, cur, room, today>>
      /\ Scheduler(r) /\ Busy(r)
  BY DEF LogSent, LogLost, Scheduler, Deliver, Busy, Goto, row, world, OneRunInv, TypeInv, TypeOK, RunsOK
<1>2. l \in Leads /\ cur[r] = <<l, step[l]>>
  BY <1>1, LimitRun
<1>3. \A m \in Leads : (Settling(m) <=> m = l) /\ (Settling(m)' <=> m = l)
  BY <1>1, SettlingRun DEF Post, CurLead
<1>4. today + room[r] <= DailyLimit + faults + 1
  BY <1>1 DEF LimitInv, RoomFits, Post
<1>5. Unlogged = (IF cur[r] \notin sentLog THEN 1 ELSE 0) /\ Unlogged' = 0
  BY <1>1, UnloggedRun
<1> USE LimitTypes, DebtMoves
<1>6. CASE LogSent(r)
  <2>1. /\ sentLog' = sentLog \cup {cur[r]} /\ faults' = faults
        /\ sentToday' = IF cur[r] \in sentLog THEN sentToday ELSE sentToday \cup {cur[r]}
    BY <1>6 DEF LogSent, bad
  <2>2. Debt' \subseteq Debt
    <3> SUFFICES ASSUME NEW m \in Debt' PROVE m \in Debt
      OBVIOUS
    <3>1. m \in Leads /\ m # l /\ <<m, step[m]>> \in sentLog'
      BY <1>1, <1>3 DEF Debt
    <3>2. <<m, step[m]>> \in sentLog
      BY <1>2, <2>1, <3>1
    <3> QED BY <1>3, <3>1, <3>2 DEF Debt
  <2>3. Cardinality(Debt') <= Cardinality(Debt)
    BY <2>2
  <2>4. Cardinality(sentToday') = Cardinality(sentToday) + Unlogged
    <3>1. sentToday \subseteq sentLog
      BY DEF OneRunInv, TypeInv, TypeOK, TablesOK
    <3>2. CASE cur[r] \in sentLog
      BY <1>5, <2>1, <3>2
    <3>3. CASE cur[r] \notin sentLog
      <4>1. sentToday' = sentToday \cup {cur[r]} /\ cur[r] \notin sentToday
        BY <2>1, <3>1, <3>3
      <4>2. Cardinality(sentToday') = Cardinality(sentToday) + 1
        BY <4>1, FS_AddElement
      <4> QED BY <1>5, <3>3, <4>2
    <3> QED BY <3>2, <3>3
  <2>5. RoomFits'
    BY <1>1, <1>4, <2>1, RoomRun DEF Post
  <2>6. NoLogAhead'
    BY <1>1, <1>2, <2>1 DEF LimitInv, NoLogAhead
  <2>7. today' + Cardinality(Debt') <= Cardinality(sentToday') + faults' + Unlogged'
    BY <1>1, <1>5, <2>1, <2>3, <2>4 DEF LimitInv
  <2> QED BY <1>1, <2>1, <2>3, <2>5, <2>6, <2>7 DEF LimitInv
<1>7. CASE LogLost(r)
  <2>1. UNCHANGED <<sentLog, sentToday>> /\ faults' = faults + 1
    BY <1>7 DEF LogLost, Fault, tables
  <2>2. Debt' \subseteq Debt
    BY <1>1, <1>3, <2>1 DEF Debt
  <2>3. Cardinality(Debt') <= Cardinality(Debt)
    BY <2>2
  <2>4. RoomFits'
    BY <1>1, <1>4, <2>1, RoomRun DEF Post
  <2>5. NoLogAhead'
    BY <1>1, <2>1 DEF LimitInv, NoLogAhead
  <2>6. today' + Cardinality(Debt') <= Cardinality(sentToday') + faults' + Unlogged'
    <3>1. Cardinality(sentToday') = Cardinality(sentToday)
      BY <2>1
    <3>2. today + Cardinality(Debt) <= Cardinality(sentToday) + faults + Unlogged
      BY DEF LimitInv
    <3> QED BY <1>1, <1>5, <2>1, <2>3, <3>1, <3>2
  <2> QED BY <1>1, <2>1, <2>3, <2>4, <2>5, <2>6 DEF LimitInv
<1> QED BY <1>6, <1>7

LEMMA LimitAdvance ==
  ASSUME ~Overlap, OneRunInv, OneRunInv', LimitInv, NEW r \in Runs, Advance(r) \/ AdvanceLost(r)
  PROVE  LimitInv'
<1> DEFINE l == CurLead(r)
<1>1. /\ pc[r] = "advance" /\ pc'[r] = "loop" /\ room'[r] = room[r] - 1
      /\ UNCHANGED <<cur, today, sentLog, sentToday>>
      /\ Scheduler(r) /\ Busy(r)
  BY DEF Advance, AdvanceLost, CountSend, Scheduler, Deliver, Busy, Goto, tables, world,
     OneRunInv, TypeInv, TypeOK, RunsOK
<1>2. l \in Leads /\ CurStep(r) = step[l] /\ room[r] \in Nat \ {0}
  BY <1>1, LimitRun
<1>3. \A m \in Leads : (Settling(m) <=> m = l) /\ ~Settling(m)'
  BY <1>1, SettlingRun DEF Post
<1> USE LimitTypes, DebtMoves
<1>4. RoomFits'
  <2>1. today + room[r] <= DailyLimit + faults + 1
    BY <1>1 DEF LimitInv, RoomFits, Post
  <2>2. faults' >= faults
    BY DEF Advance, AdvanceLost, Fault, bad
  <2> QED BY <1>1, <1>2, <2>1, <2>2, RoomRun DEF Post
<1>5. Unlogged = 0 /\ Unlogged' = 0
  BY <1>1, UnloggedRun
<1>6. CASE Advance(r)
  <2>1. faults' = faults /\ step'[l] = step[l] + 1 /\ \A m \in Leads \ {l} : step'[m] = step[m]
    BY <1>2, <1>6 DEF Advance, NextStep, bad, OneRunInv, TypeInv, TypeOK, RowsOK
  <2>2. NoLogAhead'
    <3> SUFFICES ASSUME NEW m \in Leads, NEW k \in Steps, <<m, k>> \in sentLog PROVE k <= step'[m]
      BY <1>1 DEF NoLogAhead
    <3>1. k <= step[m] /\ step[m] \in Nat /\ k \in Nat
      BY DEF LimitInv, NoLogAhead, Steps
    <3> QED BY <1>2, <2>1, <3>1
  <2>3. Debt' \subseteq Debt
    <3> SUFFICES ASSUME NEW m \in Debt' PROVE m \in Debt
      OBVIOUS
    <3>1. m \in Leads /\ <<m, step'[m]>> \in sentLog
      BY <1>1 DEF Debt
    <3>2. m # l
      <4> SUFFICES ASSUME m = l PROVE FALSE
        OBVIOUS
      <4>1. step'[m] \in Steps
        BY <3>1 DEF OneRunInv, TypeInv, TypeOK, TablesOK
      <4> QED BY <1>2, <2>1, <3>1, <4>1 DEF LimitInv, NoLogAhead
    <3> QED BY <1>3, <2>1, <3>1, <3>2 DEF Debt
  <2>4. Cardinality(Debt') <= Cardinality(Debt)
    BY <2>3
  <2>5. Cardinality(sentToday') = Cardinality(sentToday)
    BY <1>1
  <2>6. today' + Cardinality(Debt') <= Cardinality(sentToday') + faults' + Unlogged'
    <3>1. today + Cardinality(Debt) <= Cardinality(sentToday) + faults + Unlogged
      BY DEF LimitInv
    <3> QED BY <1>1, <1>5, <2>1, <2>4, <2>5, <3>1
  <2> QED BY <1>1, <1>4, <2>1, <2>2, <2>4, <2>6 DEF LimitInv
<1>7. CASE AdvanceLost(r)
  <2>1. step' = step /\ faults' = faults + 1
    BY <1>7 DEF AdvanceLost, Fault, row
  <2>2. NoLogAhead'
    BY <1>1, <2>1 DEF LimitInv, NoLogAhead
  <2>3. Debt' \subseteq Debt \cup {l}
    BY <1>1, <1>3, <2>1 DEF Debt
  <2> HIDE DEF l
  <2>4. Cardinality(Debt') <= Cardinality(Debt) + 1
    BY <2>3
  <2>5. Cardinality(sentToday') = Cardinality(sentToday)
    BY <1>1
  <2>6. today' + Cardinality(Debt') <= Cardinality(sentToday') + faults' + Unlogged'
    <3>1. today + Cardinality(Debt) <= Cardinality(sentToday) + faults + Unlogged
      BY DEF LimitInv
    <3>2. today' = today /\ faults' = faults + 1 /\ Unlogged = 0 /\ Unlogged' = 0
      BY <1>1, <1>5, <2>1
    <3>3. /\ today \in Nat /\ faults \in Nat
          /\ Cardinality(Debt) \in Nat /\ Cardinality(Debt') \in Nat /\ Cardinality(sentToday) \in Nat
      OBVIOUS
    <3> QED BY ONLY <2>4, <2>5, <3>1, <3>2, <3>3
  <2> QED BY <1>1, <1>4, <2>1, <2>2, <2>4, <2>6 DEF LimitInv
<1> QED BY <1>6, <1>7

\* A crash after the mail leaves a debt when the mail was logged, and a mail
\* that no row of today's log stands for when it was not.
LEMMA LimitCrash ==
  ASSUME ~Overlap, OneRunInv, OneRunInv', LimitInv, NEW r \in Runs, Crash(r), pc[r] \in Post
  PROVE  LimitInv'
<1> DEFINE l == CurLead(r)
<1>1. /\ pc'[r] = "idle" /\ faults' = faults + 1
      /\ UNCHANGED <<step, cur, room, today, sentLog, sentToday>>
      /\ Scheduler(r) /\ Busy(r)
  BY DEF Crash, Fault, Scheduler, Busy, Post, Goto, row, tables, world, OneRunInv, TypeInv, TypeOK, RunsOK
<1>2. l \in Leads /\ cur[r] = <<l, step[l]>>
  BY <1>1, LimitRun
<1>3. \A m \in Leads : (Settling(m) <=> m = l) /\ ~Settling(m)'
  BY <1>1, SettlingRun DEF Post
<1>4. RoomFits'
  BY <1>1, RoomRun
<1>5. NoLogAhead'
  BY <1>1 DEF LimitInv, NoLogAhead
<1>6. Unlogged' = 0 /\ Unlogged = (IF pc[r] = "log" /\ cur[r] \notin sentLog THEN 1 ELSE 0)
  BY <1>1, UnloggedRun
<1> USE LimitTypes, DebtMoves
<1>7. Debt' \subseteq Debt \cup {l} /\ (cur[r] \notin sentLog => Debt' \subseteq Debt)
  BY <1>1, <1>2, <1>3 DEF Debt
<1> HIDE DEF l
<1>10. Cardinality(sentToday') = Cardinality(sentToday)
  BY <1>1
<1>8. CASE cur[r] \in sentLog
  <2>1. Cardinality(Debt') <= Cardinality(Debt) + 1
    BY <1>7
  <2>2. today' + Cardinality(Debt') <= Cardinality(sentToday') + faults' + Unlogged'
    BY <1>1, <1>6, <1>8, <1>10, <2>1 DEF LimitInv
  <2> QED BY <1>1, <1>4, <1>5, <2>1, <2>2 DEF LimitInv
<1>9. CASE cur[r] \notin sentLog
  <2>1. Cardinality(Debt') <= Cardinality(Debt)
    BY <1>7, <1>9
  <2>2. today' + Cardinality(Debt') <= Cardinality(sentToday') + faults' + Unlogged'
    <3>1. today + Cardinality(Debt) <= Cardinality(sentToday) + faults + Unlogged
      BY DEF LimitInv
    <3>2. Unlogged' = 0 /\ Unlogged \in 0..1
      BY <1>6
    <3>3. today' = today /\ faults' = faults + 1
      BY <1>1
    <3>4. /\ today \in Nat /\ faults \in Nat
          /\ Cardinality(Debt) \in Nat /\ Cardinality(Debt') \in Nat /\ Cardinality(sentToday) \in Nat
      OBVIOUS
    <3> QED BY ONLY <1>10, <2>1, <3>1, <3>2, <3>3, <3>4
  <2> QED BY <1>1, <1>4, <1>5, <2>1, <2>2 DEF LimitInv
<1> QED BY <1>8, <1>9

LEMMA LimitLoad ==
  ASSUME ~Overlap, OneRunInv, OneRunInv', LimitInv, NEW r \in Runs, Load(r)
  PROVE  LimitInv'
<1>1. /\ pc[r] = "begun" /\ pc'[r] = "loop" /\ room'[r] = Quota
      /\ UNCHANGED <<step, cur, today, sentLog, sentToday, faults>>
      /\ Scheduler(r)
  BY DEF Load, Scheduler, Goto, row, tables, world, bad, OneRunInv, TypeInv, TypeOK, RunsOK
<1>2. Debt' = Debt /\ NoLogAhead'
  <2>1. \A m \in Leads : Settling(m)' <=> Settling(m)
    BY <1>1, SettlingRun DEF Post
  <2> QED BY <1>1, <2>1 DEF Debt, LimitInv, NoLogAhead
<1>3. Unlogged = 0 /\ Unlogged' = 0
  BY <1>1, UnloggedRun
<1> USE LimitTypes, DebtMoves
<1>4. today + Quota <= DailyLimit + faults
  <2>1. today <= Cardinality(sentToday) + faults /\ today <= DailyLimit + faults
    BY <1>3 DEF LimitInv
  <2>2. CASE Cardinality(sentToday) >= DailyLimit
    BY <2>1, <2>2 DEF Quota
  <2>3. CASE ~(Cardinality(sentToday) >= DailyLimit)
    BY <2>1, <2>3 DEF Quota
  <2> QED BY <2>2, <2>3
<1>5. RoomFits'
  BY <1>1, <1>4, RoomRun DEF Post
<1> QED BY <1>1, <1>2, <1>3, <1>5 DEF LimitInv

\* At midnight the count and the day's log start afresh; the debts stay, and
\* a run of the evening goes on with the room it read.
LEMMA LimitNextDay ==
  ASSUME OneRunInv, OneRunInv', LimitInv, NextDay
  PROVE  LimitInv'
<1>1. /\ sentToday' = {} /\ today' = 0
      /\ UNCHANGED <<step, pc, cur, room, sentLog, faults>>
  BY DEF NextDay, local, bad
<1>2. Debt' = Debt /\ Unlogged' = Unlogged /\ NoLogAhead'
  BY <1>1 DEF Debt, Settling, CurLead, Unlogged, LimitInv, NoLogAhead
<1>3. Cardinality(sentToday') = 0
  BY <1>1, FS_EmptySet
<1>4. RoomFits'
  <2> SUFFICES ASSUME NEW s \in Runs PROVE 0 + room[s] <= DailyLimit + faults
    BY <1>1, LimitTypes DEF RoomFits
  <2>1. room[s] <= DailyLimit
    BY CampaignSendAssumption DEF OneRunInv, TypeInv, TypeOK, RunsOK
  <2> QED BY <2>1, LimitTypes
<1> QED BY <1>1, <1>2, <1>3, <1>4, LimitTypes DEF LimitInv

LEMMA LimitJump ==
  ASSUME ~Overlap, Forward, OneRunInv, OneRunInv', LimitInv,
         NEW r \in Runs, NEW l \in Leads, NEW k \in 1..(NSteps + 1), Jump(r, l, k)
  PROVE  LimitInv'
<1>1. /\ step'[l] > step[l] /\ step'[l] \in Nat
      /\ \A m \in Leads \ {l} : step'[m] = step[m]
      /\ UNCHANGED <<pc, cur, room, today, sentLog, sentToday, faults>>
  BY JumpFacts DEF tables, world, bad
<1>2. NoLogAhead'
  <2> SUFFICES ASSUME NEW m \in Leads, NEW j \in Steps, <<m, j>> \in sentLog PROVE j <= step'[m]
    BY <1>1 DEF NoLogAhead
  <2>1. j <= step[m] /\ step[m] \in Nat /\ j \in Nat
    BY LimitTypes DEF LimitInv, NoLogAhead, Steps
  <2> QED BY <1>1, <2>1
<1>3. Debt' \subseteq Debt
  <2> SUFFICES ASSUME NEW m \in Debt' PROVE m \in Debt
    OBVIOUS
  <2>1. m \in Leads /\ <<m, step'[m]>> \in sentLog
    BY <1>1 DEF Debt
  <2>2. m # l
    <3> SUFFICES ASSUME m = l PROVE FALSE
      OBVIOUS
    <3>1. step'[m] \in Steps /\ step[m] \in Nat
      BY <2>1, LimitTypes DEF OneRunInv, TypeInv, TypeOK, TablesOK
    <3> QED BY <1>1, <2>1, <3>1 DEF LimitInv, NoLogAhead
  <2>3. ~Settling(m)
    BY <1>1 DEF Debt, Settling, CurLead
  <2> QED BY <1>1, <2>1, <2>2, <2>3 DEF Debt
<1>4. Unlogged' = Unlogged /\ RoomFits'
  BY <1>1 DEF Unlogged, LimitInv, RoomFits
<1>5. Cardinality(Debt') <= Cardinality(Debt)
  BY <1>3, DebtMoves
<1> QED BY <1>1, <1>2, <1>4, <1>5, LimitTypes, DebtMoves DEF LimitInv

LEMMA LimitCalm ==
  ASSUME OneRunInv, OneRunInv', LimitInv, Calm
  PROVE  LimitInv'
<1>1. UNCHANGED <<step, today, sentLog, sentToday>> /\ faults' >= faults
  BY DEF Calm
<1>2. Debt' = Debt /\ NoLogAhead'
  <2>1. \A m \in Leads : Settling(m)' <=> Settling(m)
    BY SettlingCalm
  <2> QED BY <1>1, <2>1 DEF Debt, LimitInv, NoLogAhead
<1>3. Unlogged' = Unlogged
  <2>1. \A s \in Runs : (pc'[s] = "log" <=> pc[s] = "log") /\ (pc'[s] = "log" => cur'[s] = cur[s])
    BY DEF Calm, Post
  <2>2. (\E s \in Runs : pc[s] = "log" /\ cur[s] \notin sentLog)
        <=> \E s \in Runs : pc'[s] = "log" /\ cur'[s] \notin sentLog'
    BY <1>1, <2>1
  <2> QED BY <2>2 DEF Unlogged
<1>4. RoomFits'
  <2> SUFFICES ASSUME NEW s \in Runs, pc'[s] \notin {"idle", "begun"}
               PROVE  today' + room'[s] <= DailyLimit + faults' + (IF pc'[s] \in Post THEN 1 ELSE 0)
    BY DEF RoomFits
  <2>1. /\ pc[s] \notin {"idle", "begun"} /\ room'[s] = room[s]
        /\ pc'[s] \in Post <=> pc[s] \in Post
    BY DEF Calm
  <2>2. today + room[s] <= DailyLimit + faults + (IF pc'[s] \in Post THEN 1 ELSE 0)
    BY <2>1 DEF LimitInv, RoomFits
  <2>3. CASE pc'[s] \in Post
    BY <1>1, <2>1, <2>2, <2>3, LimitTypes, DebtMoves
  <2>4. CASE pc'[s] \notin Post
    BY <1>1, <2>1, <2>2, <2>4, LimitTypes, DebtMoves
  <2> QED BY <2>3, <2>4
<1> QED BY <1>1, <1>2, <1>3, <1>4, LimitTypes, DebtMoves DEF LimitInv

LEMMA LimitStep ==
  ASSUME ~Overlap, Forward, OneRunInv, LimitInv, [Next]_vars
  PROVE  LimitInv'
<1>1. OneRunInv'
  BY OneRunStep
<1> QED BY <1>1, CalmCases, LimitCalm, LimitNextDay, LimitLoad, LimitSend, LimitLog,
           LimitAdvance, LimitCrash, LimitJump DEF OneRunInv

\* A single scheduler stays below the day's limit, but for one message per
\* crash or lost answer.
THEOREM LimitIsHeld == ASSUME ~Overlap, Forward PROVE Spec => []DailyLimitHeld
<1>1. Init => OneRunInv /\ LimitInv
  BY TypeInit, OneRunInit, LimitInit DEF OneRunInv
<1>2. OneRunInv /\ LimitInv /\ [Next]_vars => OneRunInv' /\ LimitInv'
  BY OneRunStep, LimitStep
<1>3. LimitInv => DailyLimitHeld
  BY DEF LimitInv, DailyLimitHeld
<1> QED BY <1>1, <1>2, <1>3, PTL DEF Spec

-----------------------------------------------------------------------------
(* Closed rows.  An advance writes the row whatever it holds, so a closed  *)
(* row stays closed only because the row of a lead in flight is "sending", *)
(* which nobody else may turn into anything, the reaper excepted.          *)

FlightInv ==
  hangs = 0 => \A r \in Runs :
    InFlight(r) => status[CurLead(r)] = "sending" /\ ~aged[CurLead(r)]

LEMMA FlightInit == Init => FlightInv
BY DEF Init, FlightInv, InFlight

\* The steps of the run itself.
LEMMA FlightRun ==
  ASSUME ~Overlap, NoJumps, OneRunInv, FlightInv, NEW r \in Runs, Scheduler(r)
  PROVE  /\ FlightInv'
         /\ \A l \in Leads : hangs = 0 /\ status[l] \in Closed => status'[l] \in Closed
<1>0. RunsOK /\ RowsOK
  BY DEF OneRunInv, TypeInv, TypeOK
<1>1. hangs' = hangs
  BY DEF Scheduler, Begin, Load, Screen, Defer, StopSuppressed, StopExhausted, SkipStep, PassOver,
     StopBounced, Select, Deliver, Claim, ClaimLost, Send, SendRefused, SendUnsure, LogRefusal, Revert,
     RevertLost, LogSent, LogLost, Advance, AdvanceLost, Close, Crash, Fault, bad
<1>2. \A s \in Runs \ {r} : ~InFlight(s) /\ ~InFlight(s)'
  BY OthersIdle DEF InFlight
<1>3. ASSUME hangs = 0 /\ InFlight(r)' => (status[CurLead(r)] = "sending" /\ ~aged[CurLead(r)])'
      PROVE  FlightInv'
  BY <1>1, <1>2, <1>3 DEF FlightInv
<1>4. CASE Begin(r) \/ Load(r) \/ Close(r) \/ Crash(r)
  <2>1. ~InFlight(r)' /\ status' = status
    BY <1>0, <1>4 DEF Begin, Load, Close, Crash, Goto, InFlight, RunsOK, row
  <2> QED BY <1>3, <2>1
<1>5. CASE Screen(r)
  <2>1. ~InFlight(r)'
    BY <1>0, <1>5 DEF Screen, Defer, StopSuppressed, StopExhausted, SkipStep, PassOver, StopBounced,
       Select, Take, Goto, InFlight, RunsOK
  <2>2. status' = status \/ \E l \in Leads, x \in Closed : Mark(l, x)
    BY <1>5 DEF Screen, Defer, StopSuppressed, StopExhausted, SkipStep, NoJumps, PassOver,
       StopBounced, Select, row, Closed
  <2>3. \A l \in Leads : status[l] \in Closed => status'[l] \in Closed
    BY <1>0, <2>2 DEF Mark, RowsOK
  <2> QED BY <1>3, <2>1, <2>3
<1>6. CASE Claim(r) \/ ClaimLost(r)
  <2>1. CurLead(r) \in Leads /\ cur' = cur
    BY <1>6, BusyCur DEF Claim, ClaimLost, Busy, OneRunInv
  <2>2. \/ pc'[r] = "loop" /\ status' = status
        \/ status[CurLead(r)] = "active" /\ SetStatus(CurLead(r), "sending")
    <3>1. CASE status[CurLead(r)] = "active"
      BY <1>6, <3>1 DEF Claim, ClaimLost
    <3>2. CASE status[CurLead(r)] # "active"
      BY <1>0, <1>6, <3>2 DEF Claim, ClaimLost, Goto, row, RunsOK
    <3> QED BY <3>1, <3>2
  <2>3. \A l \in Leads : status[l] \in Closed => status'[l] \in Closed
    BY <1>0, <2>1, <2>2 DEF SetStatus, RowsOK, Closed
  <2>4. InFlight(r)' => (status[CurLead(r)] = "sending" /\ ~aged[CurLead(r)])'
    BY <1>0, <2>1, <2>2 DEF SetStatus, RowsOK, InFlight, CurLead
  <2> QED BY <1>3, <2>3, <2>4
<1>7. CASE Send(r) \/ SendRefused(r) \/ SendUnsure(r) \/ LogSent(r) \/ LogLost(r)
  <2>1. InFlight(r) /\ UNCHANGED <<status, aged, cur>>
    BY <1>7 DEF Send, SendRefused, SendUnsure, LogRefusal, LogSent, LogLost, InFlight, row
  <2> QED BY <1>3, <2>1 DEF FlightInv, CurLead
<1>8. CASE Revert(r) \/ RevertLost(r) \/ Advance(r) \/ AdvanceLost(r)
  <2>1. ~InFlight(r)' /\ InFlight(r) /\ CurLead(r) \in Leads
    BY <1>0, <1>8, BusyCur DEF Revert, RevertLost, Advance, AdvanceLost, Goto, InFlight, Busy,
       RunsOK, OneRunInv
  <2>2. status' = status \/ \E x : SetStatus(CurLead(r), x)
    BY <1>8 DEF Revert, RevertLost, Advance, AdvanceLost, row
  <2>3. hangs = 0 => status[CurLead(r)] = "sending"
    BY <2>1 DEF FlightInv
  <2>4. \A l \in Leads : hangs = 0 /\ status[l] \in Closed => status'[l] \in Closed
    BY <1>0, <2>1, <2>2, <2>3 DEF SetStatus, RowsOK, Closed
  <2> QED BY <1>3, <2>1, <2>4
<1> QED BY <1>4, <1>5, <1>6, <1>7, <1>8 DEF Scheduler, Deliver

LEMMA FlightOthers ==
  ASSUME OneRunInv, FlightInv, Others \/ UNCHANGED vars
  PROVE  /\ FlightInv'
         /\ \A l \in Leads : hangs = 0 /\ status[l] \in Closed => status'[l] \in Closed
<1>0. RowsOK /\ hangs \in Nat
  BY CampaignSendAssumption DEF OneRunInv, TypeInv, TypeOK, WorldOK
<1>1. UNCHANGED local
  BY OthersKeepRuns DEF vars
<1>2. \A r \in Runs : /\ InFlight(r)' <=> InFlight(r)
                      /\ CurLead(r)' = CurLead(r)
                      /\ InFlight(r) => CurLead(r) \in Leads
  BY <1>1, InFlightLead DEF local, InFlight, CurLead, OneRunInv
\* What has to be shown of a row.
<1>3. ASSUME hangs' = 0 => hangs = 0,
             \A l \in Leads : status[l] \in Closed => status'[l] \in Closed,
             \A l \in Leads : hangs' = 0 /\ status[l] = "sending" /\ ~aged[l]
                                         /\ (\E r \in Runs : InFlight(r) /\ CurLead(r) = l) =>
               status'[l] = "sending" /\ ~aged'[l]
      PROVE  /\ FlightInv'
             /\ \A l \in Leads : hangs = 0 /\ status[l] \in Closed => status'[l] \in Closed
  BY <1>2, <1>3 DEF FlightInv
<1>4. ASSUME NEW l \in Leads, Age(l)
      PROVE  /\ status' = status
             /\ \A m \in Leads \ {l} : aged'[m] = aged[m]
             /\ (\E r \in Runs : InFlight(r) /\ CurLead(r) = l) => hangs' = hangs + 1
             /\ hangs' = hangs \/ hangs' = hangs + 1
  BY <1>0, <1>4 DEF Age, RowsOK
<1>5. CASE \E l \in Leads : Age(l)
  BY <1>0, <1>3, <1>4, <1>5
<1>6. ASSUME NEW l \in Leads, Outside(l)
      PROVE  hangs' = hangs /\ ((status' = status /\ aged' = aged) \/ \E x \in Closed : MarkOpen(l, x))
  BY <1>6 DEF Outside, OptOut, LiftSuppression, HardBounce, StopSequence, Postpone, row, bad, Closed
<1>7. CASE \E l \in Leads : Outside(l)
  <2>1. PICK l \in Leads : Outside(l)
    BY <1>7
  <2>2. CASE status' = status /\ aged' = aged
    BY <1>3, <1>6, <2>1, <2>2
  <2>3. ASSUME NEW x \in Closed, MarkOpen(l, x)
        PROVE  /\ aged' = aged
               /\ \A m \in Leads : status'[m] = status[m] \/ (status[m] = "active" /\ status'[m] \in Closed)
    BY <1>0, <2>3 DEF MarkOpen, Mark, RowsOK
  <2>4. CASE \E x \in Closed : MarkOpen(l, x)
    BY <1>3, <1>6, <2>1, <2>3, <2>4 DEF Closed
  <2> QED BY <1>6, <2>1, <2>2, <2>4
<1>8. CASE Reap
  BY <1>0, <1>3, <1>8 DEF Reap, Stranded, bad, Closed
<1>9. CASE NextDay \/ UNCHANGED vars \/ \E s \in {"active", "paused"} : Operate(s)
  <2>1. UNCHANGED <<status, aged, hangs>>
    BY <1>9 DEF NextDay, Operate, vars, row, bad
  <2> QED BY <1>3, <2>1
<1> QED BY <1>5, <1>7, <1>8, <1>9 DEF Others

\* A closed row stays closed: nothing a single run does on a stale snapshot,
\* and no revert or reap, brings it back.
THEOREM ClosedIsFinal == ASSUME ~Overlap, NoJumps PROVE Spec => ClosedStaysClosed
<1>1. Init => OneRunInv /\ FlightInv
  BY TypeInit, OneRunInit, FlightInit DEF OneRunInv
<1>2. OneRunInv /\ FlightInv /\ [Next]_vars
      => /\ OneRunInv' /\ FlightInv'
         /\ \A l \in Leads : hangs = 0 /\ status[l] \in Closed => status'[l] \in Closed
  BY OneRunStep, FlightRun, FlightOthers, NextCases
<1> QED BY <1>1, <1>2, PTL DEF Spec, ClosedStaysClosed
=============================================================================
