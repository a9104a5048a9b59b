----------------------------- MODULE Analytics -----------------------------
(* analytics_engine.py: the events of a day are counted into one row of     *)
(* analytics_cache for the campaign, its step and the inbox. One of each.   *)
EXTENDS Casting, FiniteSetsExt

CONSTANTS
  LastDay,     \* days of the run
  Lookback,    \* DEFAULT_LOOKBACK_DAYS
  Back         \* days of a run by hand, to fill in older ones

ASSUME AnalyticsAssumption == LastDay \in Nat /\ Lookback \in Nat \ {0} /\ Back \in Nat \ {0}

VARIABLES
  today,
  happened,   \* events by day
  cache,      \* analytics_cache by kind of entity and day
  agg,        \* a run
  inexact,    \* history: days with events since they were last counted alone
  erased      \* history: days that have lost their events

analyticsVars == <<today, happened, cache, agg, inexact, erased>>

AllDays == 0..LastDay
Entities == {"campaign", "step", "inbox"}
Runs == {"nightly", "hand"}
Missing == -1
NoRun == [at |-> 0, end |-> 0, back |-> 1, pc |-> "read", seen |-> 0, clean |-> {}]

AnalyticsInit ==
  /\ today = 0
  /\ happened = [d \in AllDays |-> 0]
  /\ cache = [e \in Entities |-> [d \in AllDays |-> Missing]]
  /\ agg = [w \in Runs |-> NoRun]
  /\ inexact = {}
  /\ erased = {}

---------------------------------------------------------------------------
Changed(d) ==
  /\ inexact' = inexact \cup {d}
  /\ agg' = [w \in Runs |-> [agg[w] EXCEPT !.clean = @ \ {d}]]

EventHappens ==
  /\ Event("event")
  /\ happened' = [happened EXCEPT ![today] = @ + 1]
  /\ Changed(today)
  /\ UNCHANGED <<today, cache, erased>>

\* An erasure or the retention takes the events of a day.
EventsErased(d) ==
  /\ happened[d] > 0 /\ Event("erase")
  /\ happened' = [happened EXCEPT ![d] = 0]
  /\ Changed(d)
  /\ erased' = erased \cup {d}
  /\ UNCHANGED <<today, cache>>

DayEnds ==
  /\ Plays("nightly") /\ today < LastDay
  /\ today' = today + 1
  /\ UNCHANGED <<env, happened, cache, agg, inexact, erased>>

---------------------------------------------------------------------------
\* Mutant: the day the run begins on is not one of them.
CoveredBefore(end, back) == {d \in AllDays : end - back <= d /\ d < end}

\* The days of a run are those up to the day it begins on.
Covered(end, back) == {d \in AllDays : end - back < d /\ d <= end}
Active(w) == agg[w].at > 0

BeginRun(w, back) ==
  /\ ~Active(w)
  /\ LET alone == \A v \in Runs : ~Active(v)
         clean == IF alone THEN Covered(today, back) ELSE {}
     IN agg' = [v \in Runs |->
          IF v = w THEN [NoRun EXCEPT !.at = 1, !.end = today, !.back = back, !.clean = clean]
                   ELSE [agg[v] EXCEPT !.clean = {}]]
  /\ UNCHANGED <<today, happened, cache, inexact, erased>>

BeginNightly == Plays("nightly") /\ BeginRun("nightly", Lookback) /\ UNCHANGED env
BeginByHand == Event("backfill") /\ BeginRun("hand", Back)

\* First the campaign and its step, day by day; then the inbox, day by day.
Entity(r) == IF r.at > 2 * r.back THEN "inbox" ELSE IF r.at % 2 = 1 THEN "campaign" ELSE "step"
DayOf(r) == r.end - r.back + (IF r.at > 2 * r.back THEN r.at - 2 * r.back ELSE (r.at + 1) \div 2)

\* A run that is through with its days.
To(w, n) ==
  LET r == agg[w] IN
  IF r.at + n <= 3 * r.back
    THEN /\ agg' = [agg EXCEPT ![w].at = @ + n, ![w].pc = "read"]
         /\ UNCHANGED inexact
    ELSE /\ agg' = [agg EXCEPT ![w] = NoRun]
         /\ inexact' = inexact \ r.clean
SpoiledTo(w, n) ==
  LET r == agg[w] IN
  /\ agg' = [agg EXCEPT ![w] = IF r.at + n <= 3 * r.back
                                 THEN [r EXCEPT !.at = @ + n, !.pc = "read", !.clean = {}] ELSE NoRun]
  /\ UNCHANGED inexact

\* A day before the first has no events. A step without events has no row.
Count(w) ==
  LET r == agg[w]
      n == IF DayOf(r) \in AllDays THEN happened[DayOf(r)] ELSE 0
  IN
  /\ Active(w) /\ r.pc = "read"
  /\ IF DayOf(r) \notin AllDays \/ (Entity(r) = "step" /\ n = 0) THEN To(w, 1)
     ELSE agg' = [agg EXCEPT ![w].pc = "write", ![w].seen = n] /\ UNCHANGED inexact
  /\ UNCHANGED <<env, today, happened, cache, erased>>

\* A count that fails goes to the next day, and takes the step with it.
CountFails(w) ==
  /\ Active(w) /\ agg[w].pc = "read"
  /\ Fault
  /\ SpoiledTo(w, IF Entity(agg[w]) = "campaign" THEN 2 ELSE 1)
  /\ UNCHANGED <<today, happened, cache, erased>>

\* Mutant: the upsert ignores a row that is there.
InsertedOnly(e, d, n) == [cache EXCEPT ![e][d] = IF @ = Missing THEN n ELSE @]

\* The row of the entity and day is inserted or replaced.
Upserted(e, d, n) == [cache EXCEPT ![e][d] = n]

Upsert(w) ==
  LET r == agg[w] IN
  /\ Active(w) /\ r.pc = "write"
  /\ \/ cache' = Upserted(Entity(r), DayOf(r), r.seen) /\ To(w, 1) /\ UNCHANGED env
     \/ Fault /\ SpoiledTo(w, 1) /\ UNCHANGED cache
  /\ UNCHANGED <<today, happened, erased>>

RunKilled(w) ==
  /\ Active(w) /\ Fault
  /\ agg' = [agg EXCEPT ![w] = NoRun]
  /\ UNCHANGED <<today, happened, cache, inexact, erased>>

AnalyticsStep ==
  \/ EventHappens \/ DayEnds \/ BeginNightly \/ BeginByHand
  \/ \E d \in AllDays : EventsErased(d)
  \/ \E w \in Runs : Count(w) \/ CountFails(w) \/ Upsert(w) \/ RunKilled(w)

RunRow == [at : Nat, end : AllDays, back : Nat \ {0}, pc : {"read", "write"},
           seen : Nat, clean : SUBSET AllDays]
AnalyticsOK ==
  /\ today \in AllDays
  /\ happened \in [AllDays -> Nat]
  /\ cache \in [Entities -> [AllDays -> Nat \cup {Missing}]]
  /\ agg \in [Runs -> RunRow]
  /\ inexact \subseteq AllDays /\ erased \subseteq AllDays

Cached(e, d) == IF cache[e][d] = Missing THEN 0 ELSE cache[e][d]
Total(byDay) == MapThenSumSet(LAMBDA d : byDay[d], AllDays)
\* What the pages of the dashboard show. The campaign's counts the events of days
\* without a row, the steps' those of all days; inboxes and overview add up rows.
Shown(d) == IF cache["campaign"][d] = Missing THEN happened[d] ELSE cache["campaign"][d]
CampaignPage == Total([d \in AllDays |-> Shown(d)])
StepsPage == Total(happened)
InboxesPage == Total([d \in AllDays |-> Cached("inbox", d)])
OverviewPage == Total([d \in AllDays |-> Cached("campaign", d)])

\* A day is cached exactly once a run that covers it has come to its end: one
\* that began after the day's last event, ran alone and met no failing call. Only
\* a step whose events have all been erased keeps its old row. Then the pages of
\* the dashboard, which count in different ways, agree.
CountedDayIsExact ==
  (\A w \in Runs : ~Active(w)) =>
    /\ \A e \in Entities, d \in AllDays \ inexact :
         (e = "step" /\ d \in erased) \/ Cached(e, d) = happened[d]
    /\ inexact = {} => {CampaignPage, InboxesPage, OverviewPage} = {StepsPage}
=============================================================================
