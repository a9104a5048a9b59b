----------------------------- MODULE ClientLife -----------------------------
(* What the programs keep for a client beside its leads and inboxes: the    *)
(* budget of Claude calls, the account and its end, the sending domain, the *)
(* mails an operator sends by hand, and the counted days. A cast brings     *)
(* together the programs that meet on a table.                              *)
EXTENDS Budget, Accounts, Domains, Answers, Analytics

vars == <<env, budgetVars, accountVars, domainVars, answerVars, analyticsVars>>

Init == CastInit /\ BudgetInit /\ AccountInit /\ DomainInit /\ AnswerInit /\ AnalyticsInit

NotBudget == UNCHANGED budgetVars
NotAccounts == UNCHANGED accountVars
NotDomains == UNCHANGED domainVars
NotAnswers == UNCHANGED answerVars
NotAnalytics == UNCHANGED analyticsVars

Next ==
  \/ BudgetStep /\ NotAccounts /\ NotDomains /\ NotAnswers /\ NotAnalytics
  \/ AccountStep /\ NotBudget /\ NotDomains /\ NotAnswers /\ NotAnalytics
  \/ DomainStep /\ NotBudget /\ NotAccounts /\ NotAnswers /\ NotAnalytics
  \/ AnswerStep /\ NotBudget /\ NotAccounts /\ NotDomains /\ NotAnalytics
  \/ AnalyticsStep /\ NotBudget /\ NotAccounts /\ NotDomains /\ NotAnswers
Spec == Init /\ [][Next]_vars

\* The schedules start the retention and the monitor again and again, and a run
\* that was not killed goes on. Nothing is assumed of operators and requests.
Fairness ==
  /\ WF_<<env, accountVars>>(RetentionStep)
  /\ \A m \in Steady : WF_<<env, domainVars>>(DriftStep(m))
FairSpec == Spec /\ Fairness

TypeOK ==
  /\ CastOK /\ BudgetOK /\ AccountOK /\ DomainOK /\ AnswerOK /\ AnalyticsOK
=============================================================================
