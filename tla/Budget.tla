------------------------------- MODULE Budget -------------------------------
(* What a day of Claude calls costs (utils/cost_tracker.py): the calls that *)
(* are counted against DAILY_API_BUDGET_EUR, and those that go past it. A   *)
(* call costs one unit, the most expensive there is.                        *)
EXTENDS Casting, Sequences

CONSTANTS
  Limit,       \* DAILY_API_BUDGET_EUR, in calls
  Days,        \* last day of the run
  Writers,     \* runs of warmup_engine.py
  Scanners,    \* scans of the client's inboxes
  Networkers   \* scans of the warmup network, which belong to no client

\* A budget of 0 means no budget.
ASSUME BudgetAssumption ==
  /\ Limit \in Nat \ {0} /\ Days \in Nat
  /\ IsFiniteSet(Writers) /\ IsFiniteSet(Scanners) /\ IsFiniteSet(Networkers)

VARIABLES
  clock,    \* the day on the host, which dates the rows, and in the database
  rows,     \* api_cost_log by day and client
  call,     \* a tracked call
  ask,      \* a request that calls Claude directly: the stage it is at
  kept,     \* requests whose answer has been stored
  bill,     \* history: what was used, by day on the host
  loose     \* history: days on which a check or a row went wrong

budgetVars == <<clock, rows, call, ask, kept, bill, loose>>

Callers == Writers \cup Scanners \cup Networkers
Scopes == {"client", "shared"}
Scope(c) == IF c \in Networkers THEN "shared" ELSE "client"
Jobs == {"mail", "signals", "plain", "answer"}
Idle == [pc |-> "idle", job |-> "mail"]
CallDays == 0..Days

\* The stages of the requests: "read" ends the request when it fails or finds
\* nothing, "ask" ends it when Claude's answer is no use, "try" goes on without
\* one, "store" and "send" may fail quietly.
IntentStages == <<"read", "ask", "store">>
AnalysisStages == <<"try">>
ScoreStages == AnalysisStages \o <<"store">>
GatherStages == <<"read">>
FocusStages == <<"try">>
BriefingStages == GatherStages \o FocusStages \o <<"send">>
SubjectStages == <<"ask">>
SuggestStages == <<"ask">>
SequenceStages == <<"ask">>
OpenerStages == <<"try">>
Handler == [intent |-> IntentStages, score |-> ScoreStages, briefing |-> BriefingStages,
            subject |-> SubjectStages, suggest |-> SuggestStages,
            sequence |-> SequenceStages, opener |-> OpenerStages]
Requests == DOMAIN Handler

BudgetInit ==
  /\ clock = [host |-> 0, base |-> 0]
  /\ rows = [d \in CallDays |-> [s \in Scopes |-> 0]]
  /\ call = [c \in Callers |-> Idle]
  /\ ask = [q \in Requests |-> 0]
  /\ kept = {}
  /\ bill = [d \in CallDays |-> [s \in Scopes \cup {"direct"} |-> 0]]
  /\ loose = {}

---------------------------------------------------------------------------
\* The host counts days in its own time zone, the database in UTC: for some
\* hours one of them is a day ahead.
Midnight(where) ==
  /\ Plays("claude")
  /\ clock[where] < Days
  /\ \A other \in DOMAIN clock : clock[where] <= clock[other]
  /\ clock' = [clock EXCEPT ![where] = @ + 1]
  /\ UNCHANGED <<env, rows, call, ask, kept, bill, loose>>

At(c, pc) == call' = [call EXCEPT ![c].pc = pc]

Begin(c, job, pc) ==
  /\ call[c].pc = "idle"
  /\ Event("claude")
  /\ call' = [call EXCEPT ![c] = [pc |-> pc, job |-> job]]
  /\ UNCHANGED <<clock, rows, ask, kept, bill, loose>>

\* A sampled part of the warmup mails asks Claude, the rest is a template.
WriteMail(c) == c \in Writers /\ Begin(c, "mail", "check")
\* A reply from a lead is classified.
Classify(c) == c \in Scanners /\ Begin(c, "signals", "check")
\* A warmup mail is answered.
AnswerMail(c) == c \in Scanners \cup Networkers /\ Begin(c, "answer", "check")

\* Without an answer a mail becomes a template and an answer is not sent; the
\* reply goes to the plain classifier once, and is "other" after that.
WithoutAnswer(c) == At(c, IF call[c].job = "signals" THEN "plain" ELSE "idle")

\* Over words that give it away; only the rest is a question for Claude.
PlainClassify(c) ==
  /\ call[c].pc = "plain"
  /\ \/ At(c, "idle")
     \/ call' = [call EXCEPT ![c] = [pc |-> "check", job |-> "plain"]]
  /\ UNCHANGED <<env, clock, rows, ask, kept, bill, loose>>

\* Without a client the sum is over all rows, with one over the client's.
Spent(day, scope) == IF scope = "client" THEN rows[day]["client"]
                     ELSE rows[day]["client"] + rows[day]["shared"]

\* Mutant: the last unit of the budget can be spent twice.
VerdictLate(c, spent) == IF spent <= Limit THEN At(c, "use") ELSE WithoutAnswer(c)

Verdict(c, spent) == IF spent < Limit THEN At(c, "use") ELSE WithoutAnswer(c)

\* The database sums the rows of its own day. While the host is on another,
\* the answer says nothing about the day the row will have.
CheckBudget(c) ==
  /\ call[c].pc = "check"
  /\ \/ /\ Verdict(c, Spent(clock.base, Scope(c)))
        /\ loose' = IF clock.base = clock.host THEN loose ELSE loose \cup {clock.host}
        /\ UNCHANGED env
     \/ Fault /\ At(c, "scan") /\ UNCHANGED loose
  /\ UNCHANGED <<clock, rows, ask, kept, bill>>

\* The rows of the host's day; when they cannot be read either, nothing is spent.
ScanRows(c) ==
  /\ call[c].pc = "scan"
  /\ \/ Verdict(c, Spent(clock.host, Scope(c))) /\ UNCHANGED <<env, loose>>
     \/ Fault /\ At(c, "use") /\ loose' = loose \cup {clock.host}
  /\ UNCHANGED <<clock, rows, ask, kept, bill>>

Billed(scope) == bill' = [bill EXCEPT ![clock.host][scope] = @ + 1]

UseClaude(c) ==
  /\ call[c].pc = "use"
  /\ \/ Billed(Scope(c)) /\ At(c, "log")
     \/ WithoutAnswer(c) /\ UNCHANGED bill
  /\ UNCHANGED <<env, clock, rows, ask, kept, loose>>

\* Mutant: the row has no client.
WithRowShared(scope) == [rows EXCEPT ![clock.host]["shared"] = @ + 1]

WithRow(scope) == [rows EXCEPT ![clock.host][scope] = @ + 1]

\* A row that cannot be written is forgotten. An answer that is no JSON counts
\* as none.
LogCost(c) ==
  /\ call[c].pc = "log"
  /\ \/ rows' = WithRow(Scope(c)) /\ UNCHANGED <<env, loose>>
     \/ Fault /\ loose' = loose \cup {clock.host} /\ UNCHANGED rows
  /\ At(c, "idle") \/ WithoutAnswer(c)
  /\ UNCHANGED <<clock, ask, kept, bill>>

CallKilled(c) ==
  /\ call[c].pc # "idle" /\ Fault
  /\ At(c, "idle")
  /\ loose' = IF call[c].pc = "log" THEN loose \cup {clock.host} ELSE loose
  /\ UNCHANGED <<clock, rows, ask, kept, bill>>

---------------------------------------------------------------------------
\* Requests that use a client of their own: no check, no row.
AskDirectly(q) ==
  /\ ask[q] = 0
  /\ Event("ask")
  /\ ask' = [ask EXCEPT ![q] = 1]
  /\ UNCHANGED <<clock, rows, call, kept, bill, loose>>

NextStage(q) == IF ask[q] = Len(Handler[q]) THEN 0 ELSE ask[q] + 1

HandleStage(q) ==
  LET stage == Handler[q][ask[q]]
      Goes(to) == ask' = [ask EXCEPT ![q] = to]
  IN
  /\ ask[q] # 0
  /\ \/ stage = "read" /\ (Goes(NextStage(q)) \/ Goes(0)) /\ UNCHANGED <<env, bill, kept>>
     \/ stage \in {"ask", "try"} /\ Billed("direct") /\ Goes(NextStage(q)) /\ UNCHANGED <<env, kept>>
     \/ stage = "ask" /\ Goes(0) /\ (Billed("direct") \/ UNCHANGED bill) /\ UNCHANGED <<env, kept>>
     \/ stage = "try" /\ Goes(NextStage(q)) /\ UNCHANGED <<env, bill, kept>>
     \/ stage = "store" /\ Goes(NextStage(q)) /\ kept' = kept \cup {q} /\ UNCHANGED <<env, bill>>
     \/ stage = "store" /\ Goes(NextStage(q)) /\ Fault /\ UNCHANGED <<bill, kept>>
     \/ stage = "send" /\ Goes(NextStage(q)) /\ UNCHANGED <<env, bill, kept>>
  /\ UNCHANGED <<clock, rows, call, loose>>

TrackedStep(c) == \/ WriteMail(c) \/ Classify(c) \/ AnswerMail(c) \/ PlainClassify(c)
                  \/ CheckBudget(c) \/ ScanRows(c) \/ UseClaude(c) \/ LogCost(c) \/ CallKilled(c)
BudgetStep == \/ \E c \in Callers : TrackedStep(c)
              \/ \E q \in Requests : AskDirectly(q) \/ HandleStage(q)
              \/ \E where \in DOMAIN clock : Midnight(where)

BudgetOK ==
  /\ clock \in [{"host", "base"} -> CallDays]
  /\ rows \in [CallDays -> [Scopes -> Nat]]
  /\ call \in [Callers -> [pc : {"idle", "plain", "check", "scan", "use", "log"}, job : Jobs]]
  /\ ask \in [Requests -> Nat] /\ \A q \in Requests : ask[q] <= Len(Handler[q])
  /\ kept \subseteq Requests
  /\ bill \in [CallDays -> [Scopes \cup {"direct"} -> Nat]]
  /\ loose \subseteq CallDays

\* "Budget check - reject if daily spend exceeds DAILY_API_BUDGET_EUR": what is
\* used on a day beyond the budget is at most one call of each caller in flight,
\* if no check or row went wrong and host and database agreed on the date at
\* every check. The direct calls are not part of it.
SpendBounded ==
  \A d \in CallDays \ loose, s \in Scopes :
    bill[d][s] <= Limit - 1 + Cardinality({c \in Callers : Scope(c) = s})
=============================================================================
