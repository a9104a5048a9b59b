------------------------------ MODULE Answers ------------------------------
(* Mails an operator sends by hand through the API: the answer to a reply,  *)
(* and the preview of a step of a campaign. Both go through                 *)
(* utils/smtp_retry.py, which tries again when it does not know better.     *)
EXTENDS Casting

CONSTANTS
  Attempts,     \* WARMR_SMTP_MAX_ATTEMPTS
  TestAttempts  \* attempts of a preview

ASSUME AnswersAssumption == Attempts \in Nat \ {0} /\ TestAttempts \in Nat \ {0}

VARIABLES
  letter,    \* a request, by kind
  thread,    \* the reply's row: answered or not
  onList,    \* what of the prospect is on the suppression list
  retired,   \* the inbox the reply came to
  copies,    \* mails that were accepted, by kind
  clicks,    \* requests, by kind
  lost,      \* acceptances the code did not hear of, by kind
  off        \* history: answers to an address on the list

answerVars == <<letter, thread, onList, retired, copies, clicks, lost, off>>

Kinds == {"answer", "preview"}
Allowed(k) == IF k = "answer" THEN Attempts ELSE TestAttempts

AnswerInit ==
  /\ letter = [k \in Kinds |-> [pc |-> "idle", tries |-> 0]]
  /\ thread = "open"
  /\ onList = {}
  /\ retired = FALSE
  /\ copies = [k \in Kinds |-> 0]
  /\ clicks = [k \in Kinds |-> 0]
  /\ lost = [k \in Kinds |-> 0]
  /\ off = 0

World == <<thread, onList, retired>>
Tallies == <<copies, clicks, lost, off>>

Letter(k, pc) == letter' = [letter EXCEPT ![k].pc = pc]
Done(k) == letter' = [letter EXCEPT ![k] = [pc |-> "idle", tries |-> 0]]

---------------------------------------------------------------------------
\* Others put the prospect on the list, by address or by company, and retire
\* inboxes.
OptsOut(what) ==
  /\ what \notin onList /\ Event("optout")
  /\ onList' = onList \cup {what}
  /\ UNCHANGED <<letter, thread, retired, Tallies>>

InboxRetires ==
  /\ ~retired /\ Event("retire")
  /\ retired' = TRUE
  /\ UNCHANGED <<letter, thread, onList, Tallies>>

---------------------------------------------------------------------------
\* An answer that has been sent may be sent again: nothing asks for it.
SendReply ==
  /\ letter["answer"].pc = "idle" /\ Event("answer")
  /\ clicks' = [clicks EXCEPT !["answer"] = @ + 1]
  /\ \/ Letter("answer", "list")
     \/ UNCHANGED letter               \* no such reply, or nobody to answer
  /\ UNCHANGED <<World, copies, lost, off>>

\* The address is looked up, the company is not; when the list cannot be read,
\* the answer goes on.
AskList ==
  /\ letter["answer"].pc = "list"
  /\ \/ (IF "email" \in onList THEN Done("answer") ELSE Letter("answer", "inbox")) /\ UNCHANGED env
     \/ Fault /\ Letter("answer", "inbox")
  /\ UNCHANGED <<World, Tallies>>

TakeInbox ==
  /\ letter["answer"].pc = "inbox"
  /\ IF retired THEN Done("answer") ELSE Letter("answer", "smtp")
  /\ UNCHANGED <<env, World, Tallies>>

\* One that fails the checks is refused: campaign, step, recipient, inbox. Only
\* an inbox the request does not name has to be one that is not retired.
SendPreview ==
  /\ letter["preview"].pc = "idle" /\ Event("preview")
  /\ clicks' = [clicks EXCEPT !["preview"] = @ + 1]
  /\ \/ Letter("preview", "smtp")
     \/ UNCHANGED letter
  /\ UNCHANGED <<World, copies, lost, off>>

---------------------------------------------------------------------------
Accepted(k) ==
  /\ copies' = [copies EXCEPT ![k] = @ + 1]
  /\ off' = IF k = "answer" /\ "email" \in onList THEN off + 1 ELSE off

\* Again, after a pause that keeps the request waiting; or given up.
Retried(k) ==
  letter' = [letter EXCEPT ![k] = IF @.tries + 1 < Allowed(k) THEN [pc |-> "smtp", tries |-> @.tries + 1]
                                  ELSE [pc |-> "idle", tries |-> 0]]

\* Mutant: an accepted mail is sent again.
SentNoted(k) == Retried(k)

Sent(k) == letter' = [letter EXCEPT ![k] = [pc |-> IF k = "answer" THEN "record" ELSE "idle", tries |-> 0]]

\* An attempt: accepted and heard of; accepted, and the connection is lost before
\* the code knows; refused for the moment; refused for good.
Attempt(k) ==
  /\ letter[k].pc = "smtp"
  /\ \/ Accepted(k) /\ Sent(k) /\ UNCHANGED <<env, lost>>
     \/ Event("lost") /\ Accepted(k) /\ Retried(k) /\ lost' = [lost EXCEPT ![k] = @ + 1]
     \/ Event("refused") /\ (Retried(k) \/ Done(k)) /\ UNCHANGED <<copies, off, lost>>
  /\ UNCHANGED <<World, clicks>>

\* What was sent is noted in the row of the reply; the log of the inbox follows.
RecordAnswer ==
  /\ letter["answer"].pc = "record"
  /\ Done("answer")
  /\ \/ thread' = "answered" /\ UNCHANGED env
     \/ Fault /\ UNCHANGED thread
  /\ UNCHANGED <<onList, retired, Tallies>>

AnswerStep ==
  \/ \E what \in {"email", "company"} : OptsOut(what)
  \/ InboxRetires \/ SendReply \/ AskList \/ TakeInbox \/ SendPreview \/ RecordAnswer
  \/ \E k \in Kinds : Attempt(k)

AnswerOK ==
  /\ letter \in [Kinds -> [pc : {"idle", "list", "inbox", "smtp", "record"}, tries : Nat]]
  /\ \A k \in Kinds : letter[k].tries < Allowed(k)
  /\ thread \in {"open", "answered"}
  /\ onList \subseteq {"email", "company"}
  /\ retired \in BOOLEAN
  /\ copies \in [Kinds -> Nat] /\ clicks \in [Kinds -> Nat] /\ lost \in [Kinds -> Nat]
  /\ off \in Nat

\* A request mails once, and once more for every acceptance it did not hear of.
\* An address that was on the list when it was looked up is not answered: one
\* that gets there meanwhile, as often as the request still tries.
CopiesExplained ==
  /\ \A k \in Kinds : copies[k] <= clicks[k] + lost[k]
  /\ env.faults = 0 => off <= 1 + lost["answer"]
=============================================================================
