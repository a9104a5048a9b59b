----------------------- MODULE WebhookDelivery_proofs -----------------------
(***************************************************************************)
(* What is true of the dispatcher for any number of overlapping cycles,    *)
(* events and webhooks, any retry limit and any number of failures.        *)
(***************************************************************************)
EXTENDS WebhookDelivery, SequenceTheorems, FiniteSetTheorems, TLAPS

\* What a cycle has in hand fits what it is about to do with it.
HandOK ==
  \A w \in Workers :
    /\ pc[w] \in {"repost", "update"} => at[w] \in (DOMAIN log) \X (1..(MaxAttempts - 1))
    /\ pc[w] = "targets" => \E e \in Events : at[w] = <<e>>
    /\ pc[w] = "log" => at[w] \in Events \X Hooks

\* A row waits for a retry only below the limit.
RetriesOK == \A i \in DOMAIN log : log[i].retry # "none" => log[i].attempts < MaxAttempts

TypeInv == TypeOK /\ HandOK /\ RetriesOK

-----------------------------------------------------------------------------
(* Lemmas about log.                                                       *)

LEMMA RowAt == ASSUME log \in Seq(Rows), NEW i \in DOMAIN log PROVE log[i] \in Rows
<1>1. DOMAIN log = 1..Len(log)
  OBVIOUS
<1> QED BY <1>1, ElementOfSeq

LEMMA SetRow ==
  ASSUME log \in Seq(Rows), RetriesOK, NEW i \in DOMAIN log, NEW r \in Rows,
         r.retry # "none" => r.attempts < MaxAttempts,
         log' = [log EXCEPT ![i] = r]
  PROVE  log' \in Seq(Rows) /\ DOMAIN log' = DOMAIN log /\ RetriesOK'
<1>1. DOMAIN log = 1..Len(log)
  OBVIOUS
<1>2. /\ log' \in Seq(Rows) /\ Len(log') = Len(log)
      /\ \A j \in 1..Len(log) : log'[j] = IF j = i THEN r ELSE log[j]
  BY <1>1, ExceptSeq
<1> QED BY <1>1, <1>2 DEF RetriesOK

LEMMA AddRow ==
  ASSUME log \in Seq(Rows), RetriesOK, NEW r \in Rows,
         r.retry # "none" => r.attempts < MaxAttempts,
         log' = Append(log, r)
  PROVE  log' \in Seq(Rows) /\ DOMAIN log \subseteq DOMAIN log' /\ RetriesOK'
<1>1. DOMAIN log = 1..Len(log) /\ Len(log) \in Nat
  OBVIOUS
<1>2. /\ log' \in Seq(Rows) /\ Len(log') = Len(log) + 1
      /\ \A j \in 1..Len(log) : log'[j] = log[j]
      /\ log'[Len(log) + 1] = r
  BY AppendProperties
<1>3. DOMAIN log' = 1..(Len(log) + 1)
  BY <1>2
<1> QED BY <1>1, <1>2, <1>3 DEF RetriesOK

LEMMA RowType ==
  ASSUME NEW e \in Events, NEW h \in Hooks, NEW n \in 1..MaxAttempts, NEW s \in BOOLEAN
  PROVE  Row(e, h, n, s) \in Rows /\ (Row(e, h, n, s).retry # "none" => n < MaxAttempts)
BY WebhookDeliveryAssumption DEF Row, RetryAt, Rows

-----------------------------------------------------------------------------
(* Types.                                                                  *)

LEMMA TypeInit == Init => TypeInv
<1> SUFFICES ASSUME Init PROVE TypeInv
  OBVIOUS
<1>1. TablesOK
  BY DEF Init, TablesOK
<1>2. CyclesOK
  BY DEF Init, CyclesOK, Labels, Hands, Nothing
<1>3. WorldOK
  BY WebhookDeliveryAssumption DEF Init, WorldOK
<1>4. HandOK /\ RetriesOK
  BY DEF Init, HandOK, RetriesOK
<1> QED BY <1>1, <1>2, <1>3, <1>4 DEF TypeInv, TypeOK

\* A post changes what the world has seen and keeps its types.
LEMMA DeliverTypes ==
  ASSUME TypeInv, NEW w \in Workers, NEW e \in Events, NEW h \in Hooks, Deliver(w, e, h),
         UNCHANGED <<everOff, faults, switches>>
  PROVE  WorldOK' /\ ok' \in [Workers -> BOOLEAN]
<1> USE WebhookDeliveryAssumption DEF TypeInv, TypeOK
<1>1. posts' \in [Events -> [Hooks -> Nat]] /\ latePosts' \in [Hooks -> Nat]
  BY DEF Deliver, WorldOK
<1>2. received' \in [Events -> [Hooks -> Nat]] /\ lost' \in 0..MaxLost
  <2>1. /\ received \in [Events -> [Hooks -> Nat]] /\ lost \in 0..MaxLost
        /\ [received EXCEPT ![e][h] = @ + 1] \in [Events -> [Hooks -> Nat]]
    BY DEF WorldOK
  <2>2. \/ UNCHANGED lost
        \/ lost < MaxLost /\ lost' = lost + 1
    BY DEF Deliver
  <2>3. received' = received \/ received' = [received EXCEPT ![e][h] = @ + 1]
    BY DEF Deliver
  <2> QED BY <2>1, <2>2, <2>3
<1>3. ok' \in [Workers -> BOOLEAN]
  BY DEF Deliver, CyclesOK
<1> QED BY <1>1, <1>2, <1>3 DEF WorldOK

LEMMA RetryTypes == ASSUME TypeInv, NEW w \in Workers, Retry(w) PROVE TypeInv'
<1> USE WebhookDeliveryAssumption DEF TypeInv, TypeOK
<1>1. ASSUME NEW r \in retries[w], CheckRetry(w, r) PROVE TypeInv'
  <2> USE <1>1 DEF CheckRetry, TakeRetry, Goto
  <2>1. TablesOK' /\ WorldOK' /\ RetriesOK'
    BY DEF tables, world, TablesOK, WorldOK, RetriesOK
  <2>2. r \in (DOMAIN log) \X (1..(MaxAttempts - 1))
    BY DEF CyclesOK
  <2>3. CyclesOK'
    BY <2>2 DEF tables, CyclesOK, Labels, Hands
  <2>4. HandOK'
    BY <2>2 DEF tables, HandOK, CyclesOK
  <2> QED BY <2>1, <2>3, <2>4
<1>2. ASSUME NEW r \in retries[w], ClearRetry(w, r) PROVE TypeInv'
  <2> USE <1>2 DEF ClearRetry, TakeRetry
  <2>1. r[1] \in DOMAIN log
    BY DEF CyclesOK
  <2> DEFINE row == [log[r[1]] EXCEPT !.retry = "none"]
  <2>2. row \in Rows /\ row.retry = "none"
    BY <2>1, RowAt DEF TablesOK, Rows
  <2>3. log' = [log EXCEPT ![r[1]] = row]
    OBVIOUS
  <2> HIDE DEF row
  <2>4. log' \in Seq(Rows) /\ DOMAIN log' = DOMAIN log /\ RetriesOK'
    BY <2>1, <2>2, <2>3, SetRow DEF TablesOK
  <2>5. TablesOK' /\ WorldOK'
    BY <2>4 DEF world, TablesOK, WorldOK
  <2>6. CyclesOK'
    BY <2>4 DEF CyclesOK, Hands
  <2>7. HandOK'
    BY <2>4 DEF HandOK
  <2> QED BY <2>4, <2>5, <2>6, <2>7
<1>3. ASSUME NEW r \in retries[w], SkipRetry(w, r) PROVE TypeInv'
  <2> USE <1>3 DEF SkipRetry, TakeRetry, Fault
  <2>1. TablesOK' /\ WorldOK' /\ RetriesOK'
    BY DEF tables, world, TablesOK, WorldOK, RetriesOK
  <2>2. CyclesOK' /\ HandOK'
    BY DEF tables, CyclesOK, Hands, HandOK
  <2> QED BY <2>1, <2>2
<1>4. CASE Repost(w)
  <2> USE <1>4 DEF Repost, Goto
  <2>1. at[w] \in (DOMAIN log) \X (1..(MaxAttempts - 1))
    BY DEF HandOK
  <2>2. log[at[w][1]].event \in Events /\ log[at[w][1]].hook \in Hooks
    BY <2>1, RowAt DEF TablesOK, Rows
  <2>3. WorldOK' /\ ok' \in [Workers -> BOOLEAN]
    BY <2>2, DeliverTypes
  <2>4. TablesOK' /\ RetriesOK'
    BY DEF tables, TablesOK, RetriesOK
  <2>5. CyclesOK' /\ HandOK'
    BY <2>1, <2>3 DEF tables, CyclesOK, Labels, Hands, HandOK
  <2> QED BY <2>3, <2>4, <2>5
<1>5. CASE UpdateRow(w)
  <2> DEFINE i == at[w][1]
             row == Row(log[i].event, log[i].hook, at[w][2] + 1, ok[w])
  <2>1. i \in DOMAIN log /\ at[w][2] + 1 \in 1..MaxAttempts
    BY <1>5 DEF UpdateRow, HandOK
  <2>2. row \in Rows /\ (row.retry # "none" => row.attempts < MaxAttempts)
    <3>1. log[i].event \in Events /\ log[i].hook \in Hooks /\ ok[w] \in BOOLEAN
      BY <2>1, RowAt DEF TablesOK, CyclesOK, Rows
    <3>2. row.attempts = at[w][2] + 1
      BY DEF Row
    <3> QED BY <2>1, <3>1, <3>2, RowType
  <2>3. log' = log \/ log' = [log EXCEPT ![i] = row]
    BY <1>5 DEF UpdateRow
  <2>4. log' \in Seq(Rows) /\ DOMAIN log' = DOMAIN log /\ RetriesOK'
    <3> HIDE DEF i, row
    <3>1. CASE log' = log
      BY <3>1 DEF TablesOK, RetriesOK
    <3>2. CASE log' = [log EXCEPT ![i] = row]
      BY <2>1, <2>2, <3>2, SetRow DEF TablesOK
    <3> QED BY <2>3, <3>1, <3>2
  <2> HIDE DEF i, row
  <2> USE <1>5 DEF UpdateRow, NextIn, Goto
  <2>5. TablesOK' /\ WorldOK'
    BY <2>4 DEF world, TablesOK, WorldOK
  <2>6. CyclesOK'
    BY <2>4 DEF CyclesOK, Labels, Hands
  <2>7. HandOK'
    BY <2>4 DEF CyclesOK, HandOK
  <2> QED BY <2>4, <2>5, <2>6, <2>7
<1>6. CASE UpdateLost(w)
  <2> USE <1>6 DEF UpdateLost, NextIn, Goto, Fault
  <2>1. TablesOK' /\ WorldOK' /\ RetriesOK'
    BY DEF tables, world, TablesOK, WorldOK, RetriesOK
  <2>2. CyclesOK' /\ HandOK'
    BY DEF tables, CyclesOK, Labels, Hands, HandOK
  <2> QED BY <2>1, <2>2
<1> QED
  <2> Retry(w)
    OBVIOUS
  <2> QED BY <1>1, <1>2, <1>3, <1>4, <1>5, <1>6 DEF Retry

LEMMA DispatchTypes == ASSUME TypeInv, NEW w \in Workers, Dispatch(w) PROVE TypeInv'
<1> USE WebhookDeliveryAssumption DEF TypeInv, TypeOK
<1>1. ASSUME NEW e \in Events, Match(w, e) \/ MatchFails(w, e) PROVE TypeInv'
  <2> USE <1>1 DEF Match, MatchFails, Goto, Fault
  <2>1. TablesOK' /\ WorldOK' /\ RetriesOK'
    BY DEF tables, world, TablesOK, WorldOK, RetriesOK
  <2>2. CyclesOK'
    BY DEF tables, CyclesOK, Labels, Hands
  <2>3. HandOK'
    BY DEF tables, CyclesOK, HandOK
  <2> QED BY <2>1, <2>2, <2>3
<1>2. ASSUME NEW h \in Hooks, Post(w, h) PROVE TypeInv'
  <2> USE <1>2 DEF Post, Goto
  <2>1. at[w][1] \in Events
    BY DEF HandOK
  <2>2. WorldOK' /\ ok' \in [Workers -> BOOLEAN]
    BY <2>1, DeliverTypes
  <2>3. TablesOK' /\ RetriesOK'
    BY DEF tables, TablesOK, RetriesOK
  <2>4. CyclesOK'
    BY <2>1, <2>2 DEF tables, CyclesOK, Labels, Hands
  <2>5. HandOK'
    BY <2>1 DEF tables, CyclesOK, HandOK
  <2> QED BY <2>2, <2>3, <2>4, <2>5
<1>3. CASE LogAttempt(w)
  <2> DEFINE row == Row(at[w][1], at[w][2], 1, ok[w])
  <2>1. at[w] \in Events \X Hooks
    BY <1>3 DEF LogAttempt, HandOK
  <2>2. row \in Rows /\ (row.retry # "none" => row.attempts < MaxAttempts)
    <3>1. row.attempts = 1 /\ ok[w] \in BOOLEAN
      BY DEF Row, CyclesOK
    <3> QED BY <2>1, <3>1, RowType
  <2>3. log' = log \/ log' = Append(log, row)
    BY <1>3 DEF LogAttempt
  <2>4. log' \in Seq(Rows) /\ DOMAIN log \subseteq DOMAIN log' /\ RetriesOK'
    <3> HIDE DEF row
    <3>1. CASE log' = log
      BY <3>1 DEF TablesOK, RetriesOK
    <3>2. CASE log' = Append(log, row)
      BY <2>2, <3>2, AddRow DEF TablesOK
    <3> QED BY <2>3, <3>1, <3>2
  <2> HIDE DEF row
  <2> USE <1>3 DEF LogAttempt, NextIn, Goto
  <2>5. TablesOK' /\ WorldOK'
    BY <2>4 DEF world, TablesOK, WorldOK
  <2>6. CyclesOK'
    BY <2>1, <2>4 DEF CyclesOK, Labels, Hands
  <2>7. HandOK'
    BY <2>1, <2>4 DEF CyclesOK, HandOK
  <2> QED BY <2>4, <2>5, <2>6, <2>7
<1>4. CASE LogLost(w)
  <2> USE <1>4 DEF LogLost, NextIn, Goto, Fault
  <2>1. TablesOK' /\ WorldOK' /\ RetriesOK'
    BY DEF tables, world, TablesOK, WorldOK, RetriesOK
  <2>2. at[w][1] \in Events
    BY DEF HandOK
  <2>3. CyclesOK' /\ HandOK'
    BY <2>2 DEF tables, CyclesOK, Labels, Hands, HandOK
  <2> QED BY <2>1, <2>3
<1>5. CASE MarkDispatched(w) \/ MarkLost(w)
  <2> USE <1>5 DEF MarkDispatched, MarkLost, NextIn, Goto, Fault
  <2>1. at[w][1] \in Events
    BY DEF HandOK
  <2>2. event' \in [Events -> {"none", "pending", "dispatched"}] /\ UNCHANGED <<hook, log>>
    BY <2>1 DEF tables, TablesOK
  <2>3. TablesOK' /\ RetriesOK'
    BY <2>2 DEF TablesOK, RetriesOK
  <2>4. WorldOK'
    BY DEF world, WorldOK
  <2>5. /\ pc' = [pc EXCEPT ![w] = "events"] /\ at' = [at EXCEPT ![w] = Nothing]
        /\ ok' = [ok EXCEPT ![w] = FALSE] /\ UNCHANGED <<log, retries, batch, targets>>
    BY <2>2
  <2>6. CyclesOK'
    BY <2>5 DEF CyclesOK, Labels, Hands
  <2>7. HandOK'
    BY <2>5 DEF CyclesOK, HandOK
  <2> QED BY <2>3, <2>4, <2>6, <2>7
<1> QED BY <1>1, <1>2, <1>3, <1>4, <1>5 DEF Dispatch

\* Beginning, going on, ending and breaking off.
LEMMA FrameTypes ==
  ASSUME TypeInv, NEW w \in Workers,
         \/ LoadRetries(w) \/ LoadRetriesFails(w) \/ LoadEvents(w) \/ EndCycle(w) \/ Crash(w)
  PROVE  TypeInv'
<1> USE WebhookDeliveryAssumption
    DEF TypeInv, TypeOK, LoadRetries, LoadRetriesFails, LoadEvents, EndCycle, Crash,
        Goto, NextIn, Fault
<1>1. TablesOK' /\ WorldOK' /\ RetriesOK'
  BY DEF tables, world, TablesOK, WorldOK, RetriesOK
<1>2. {<<i, log[i].attempts>> : i \in DueRetries} \subseteq (DOMAIN log) \X (1..(MaxAttempts - 1))
  <2>1. ASSUME NEW i \in DueRetries
        PROVE  i \in DOMAIN log /\ log[i].attempts \in 1..(MaxAttempts - 1)
    <3>1. i \in DOMAIN log
      BY DEF DueRetries
    <3> QED BY <3>1, RowAt DEF DueRetries, RetriesOK, TablesOK, Rows
  <2> QED BY <2>1
<1>3. CyclesOK'
  <2>1. log' = log
    BY DEF tables
  <2>2. retries' \in [Workers -> SUBSET ((DOMAIN log) \X (1..(MaxAttempts - 1)))]
    BY <1>2 DEF CyclesOK
  <2>3. at' \in [Workers -> Hands]
    BY DEF CyclesOK, Hands
  <2>4. /\ pc' \in [Workers -> Labels] /\ batch' \in [Workers -> SUBSET Events]
        /\ targets' \in [Workers -> SUBSET Hooks] /\ ok' \in [Workers -> BOOLEAN]
    BY DEF CyclesOK, Labels
  <2> QED BY <2>1, <2>2, <2>3, <2>4 DEF CyclesOK, Hands
<1>4. HandOK'
  BY DEF tables, CyclesOK, HandOK
<1> QED BY <1>1, <1>3, <1>4

LEMMA WorldTypes ==
  ASSUME TypeInv,
         \/ \E e \in Events : Emit(e)
         \/ \E i \in DOMAIN log : BackoffEnds(i)
         \/ \E h \in Hooks, s \in {"on", "off", "gone"} : SwitchHook(h, s)
  PROVE  TypeInv'
<1> USE WebhookDeliveryAssumption DEF TypeInv, TypeOK
<1>1. ASSUME NEW e \in Events, Emit(e) PROVE TypeInv'
  BY <1>1 DEF Emit, local, world, TablesOK, CyclesOK, Hands, WorldOK, HandOK, RetriesOK
<1>2. ASSUME NEW i \in DOMAIN log, BackoffEnds(i) PROVE TypeInv'
  <2> USE <1>2 DEF BackoffEnds
  <2> DEFINE row == [log[i] EXCEPT !.retry = "due"]
  <2>1. row \in Rows /\ row.attempts < MaxAttempts /\ log' = [log EXCEPT ![i] = row]
    BY RowAt DEF TablesOK, Rows, RetriesOK
  <2> HIDE DEF row
  <2>2. log' \in Seq(Rows) /\ DOMAIN log' = DOMAIN log /\ RetriesOK'
    BY <2>1, SetRow DEF TablesOK
  <2>3. TablesOK' /\ WorldOK' /\ CyclesOK' /\ HandOK'
    BY <2>2 DEF local, world, TablesOK, CyclesOK, Hands, WorldOK, HandOK
  <2> QED BY <2>2, <2>3
<1>3. ASSUME NEW h \in Hooks, NEW s \in {"on", "off", "gone"}, SwitchHook(h, s) PROVE TypeInv'
  <2> USE <1>3 DEF SwitchHook, local
  <2>1. TablesOK' /\ RetriesOK' /\ CyclesOK' /\ HandOK'
    BY DEF TablesOK, CyclesOK, Hands, HandOK, RetriesOK
  <2>2. WorldOK'
    BY DEF WorldOK
  <2> QED BY <2>1, <2>2
<1> QED BY <1>1, <1>2, <1>3

LEMMA TypeNext == TypeInv /\ [Next]_vars => TypeInv'
<1>1. ASSUME TypeInv, UNCHANGED vars PROVE TypeInv'
  BY <1>1 DEF vars, tables, local, world, TypeInv, TypeOK, TablesOK, CyclesOK, Hands, WorldOK,
              HandOK, RetriesOK
<1>2. ASSUME TypeInv, Next PROVE TypeInv'
  BY <1>2, RetryTypes, DispatchTypes, FrameTypes, WorldTypes DEF Next, Cycle
<1> QED BY <1>1, <1>2

\* The variables keep their types: in particular no row is ever due again at
\* its last attempt, and no cycle counts an attempt beyond it.
THEOREM TypeCorrect == Spec => []TypeOK
<1>1. TypeInv => TypeOK
  BY DEF TypeInv
<1> QED BY TypeInit, TypeNext, <1>1, PTL DEF Spec
-----------------------------------------------------------------------------
(* Silence after a webhook is switched off.                                *)

\* The cycle is past its check of h and has not posted to it yet.
Poised(w, h) ==
  \/ pc[w] \in {"targets", "log"} /\ h \in targets[w]
  \/ pc[w] = "repost" /\ log[at[w][1]].hook = h

PoisedAt(h) == {w \in Workers : Poised(w, h)}

\* What a webhook that is off has got and may still get.
QuietInv ==
  \A h \in Hooks :
    IF hook[h] = "on" THEN latePosts[h] = 0
    ELSE latePosts[h] + Cardinality(PoisedAt(h)) <= Cardinality(Workers)

\* What a row is about never changes.
RowStays(i) == /\ i \in DOMAIN log'
               /\ log'[i].hook = log[i].hook /\ log'[i].event = log[i].event

LEMMA RowsKeepTheirHook ==
  ASSUME TypeInv, Next, NEW i \in DOMAIN log
  PROVE  RowStays(i)
<1> USE DEF TypeInv, TypeOK, RowStays
<1>1. log \in Seq(Rows) /\ log[i] \in Rows
  BY RowAt DEF TablesOK
<1>2. ASSUME NEW w \in Workers, NEW r \in retries[w], ClearRetry(w, r)
      PROVE  RowStays(i)
  <2>1. r[1] \in DOMAIN log /\ log[r[1]] \in Rows
    BY RowAt DEF CyclesOK, TablesOK
  <2> QED BY <1>1, <1>2, <2>1 DEF ClearRetry, Rows
<1>3. ASSUME NEW w \in Workers, UpdateRow(w) PROVE RowStays(i)
  <2>1. at[w][1] \in DOMAIN log
    BY <1>3 DEF UpdateRow, HandOK
  <2> QED BY <1>1, <1>3, <2>1 DEF UpdateRow, Row
<1>4. ASSUME NEW w \in Workers, LogAttempt(w) PROVE RowStays(i)
  <2>1. i \in 1..Len(log)
    BY <1>1
  <2>2. log' = log \/ log' = Append(log, Row(at[w][1], at[w][2], 1, ok[w]))
    BY <1>4 DEF LogAttempt
  <2> QED BY <1>1, <2>1, <2>2
<1>5. ASSUME NEW j \in DOMAIN log, BackoffEnds(j) PROVE RowStays(i)
  <2>1. log[j] \in Rows
    BY <1>1, RowAt
  <2> QED BY <1>1, <1>5, <2>1 DEF BackoffEnds, Rows
<1>6. CASE log' = log
  BY <1>6
<1> QED
  BY <1>2, <1>3, <1>4, <1>5, <1>6
  DEF Next, Cycle, Crash, LoadRetries, LoadRetriesFails, Retry, CheckRetry, SkipRetry, Repost,
      UpdateLost, LoadEvents, Dispatch, Match, MatchFails, Post, LogLost, MarkDispatched, MarkLost,
      EndCycle, Emit, SwitchHook, tables

\* A cycle leaves the others where they are.
LEMMA OthersStay ==
  ASSUME TypeInv, NEW w \in Workers, Cycle(w) \/ Crash(w), NEW v \in Workers \ {w}
  PROVE  pc'[v] = pc[v] /\ at'[v] = at[v] /\ targets'[v] = targets[v]
BY DEF TypeInv, TypeOK, CyclesOK, Cycle, Crash, Goto, NextIn,
       LoadRetries, LoadRetriesFails, Retry, CheckRetry, ClearRetry, SkipRetry, Repost, UpdateRow,
       UpdateLost, LoadEvents, Dispatch, Match, MatchFails, Post, LogAttempt, LogLost,
       MarkDispatched, MarkLost, EndCycle

\* No cycle becomes poised at a webhook that is off.
LEMMA NobodyPoises ==
  ASSUME TypeInv, NEW w \in Workers, Cycle(w) \/ Crash(w),
         NEW h \in Hooks, hook[h] # "on", Poised(w, h)'
  PROVE  Poised(w, h)
<1> USE DEF TypeInv, TypeOK, Poised, Goto, NextIn
<1>1. ASSUME NEW x \in Labels, pc' = [pc EXCEPT ![w] = x], x \notin {"targets", "log", "repost"}
      PROVE  FALSE
  BY <1>1 DEF CyclesOK, Labels
<1>2. ASSUME pc' = pc, UNCHANGED <<at, targets, log>> PROVE Poised(w, h)
  BY <1>2
<1>3. CASE LoadRetries(w) \/ LoadRetriesFails(w) \/ LoadEvents(w) \/ EndCycle(w) \/ Crash(w)
  BY <1>1, <1>3 DEF LoadRetries, LoadRetriesFails, LoadEvents, EndCycle, Crash, Labels
<1>4. ASSUME NEW r \in retries[w], CheckRetry(w, r) PROVE Poised(w, h)
  BY <1>4 DEF CheckRetry, TakeRetry, StillActive, CyclesOK, tables
<1>5. ASSUME NEW r \in retries[w], ClearRetry(w, r) \/ SkipRetry(w, r) PROVE Poised(w, h)
  BY <1>5 DEF ClearRetry, SkipRetry, TakeRetry, CyclesOK
<1>6. CASE Repost(w) \/ UpdateRow(w) \/ UpdateLost(w) \/ MarkDispatched(w) \/ MarkLost(w)
  BY <1>1, <1>6 DEF Repost, UpdateRow, UpdateLost, MarkDispatched, MarkLost, Labels
<1>7. ASSUME NEW e \in Events, Match(w, e) PROVE Poised(w, h)
  BY <1>7 DEF Match, CyclesOK
<1>8. ASSUME NEW e \in Events, MatchFails(w, e) PROVE Poised(w, h)
  BY <1>8 DEF MatchFails, CyclesOK
<1>9. ASSUME NEW k \in Hooks, Post(w, k) PROVE Poised(w, h)
  BY <1>9 DEF Post, CyclesOK
<1>10. CASE LogAttempt(w) \/ LogLost(w)
  BY <1>10 DEF LogAttempt, LogLost, CyclesOK
<1> QED
  BY <1>3, <1>4, <1>5, <1>6, <1>7, <1>8, <1>9, <1>10 DEF Cycle, Retry, Dispatch

\* Hence a step that posts to nobody keeps the invariant ...
LEMMA QuietFrame ==
  ASSUME TypeInv, QuietInv, UNCHANGED <<hook, latePosts>>,
         \A h \in Hooks : hook[h] # "on" => PoisedAt(h)' \subseteq PoisedAt(h)
  PROVE  QuietInv'
<1> SUFFICES ASSUME NEW h \in Hooks, hook[h] # "on"
             PROVE  latePosts[h] + Cardinality(PoisedAt(h)') <= Cardinality(Workers)
  BY DEF QuietInv
<1>1. IsFiniteSet(PoisedAt(h)) /\ Cardinality(PoisedAt(h)) \in Nat
  BY FS_Subset, FS_CardinalityType, WebhookDeliveryAssumption DEF PoisedAt
<1>2. Cardinality(PoisedAt(h)') <= Cardinality(PoisedAt(h)) /\ Cardinality(PoisedAt(h)') \in Nat
  BY <1>1, FS_Subset, FS_CardinalityType
<1>3. latePosts[h] \in Nat /\ Cardinality(Workers) \in Nat
  BY FS_CardinalityType, WebhookDeliveryAssumption DEF TypeInv, TypeOK, WorldOK
<1> QED BY <1>1, <1>2, <1>3 DEF QuietInv

\* ... and one that posts uses up what a cycle was poised for.
LEMMA QuietPost ==
  ASSUME TypeInv, QuietInv, NEW w \in Workers, NEW e, NEW k \in Hooks, Deliver(w, e, k),
         hook' = hook, Poised(w, k), ~Poised(w, k)',
         \A h \in Hooks : hook[h] # "on" => PoisedAt(h)' \subseteq PoisedAt(h)
  PROVE  QuietInv'
<1> SUFFICES ASSUME NEW h \in Hooks PROVE
      IF hook[h] = "on" THEN latePosts'[h] = 0
      ELSE latePosts'[h] + Cardinality(PoisedAt(h)') <= Cardinality(Workers)
  BY DEF QuietInv
<1>1. latePosts \in [Hooks -> Nat] /\ Cardinality(Workers) \in Nat
  BY FS_CardinalityType, WebhookDeliveryAssumption DEF TypeInv, TypeOK, WorldOK
<1>2. latePosts' = [latePosts EXCEPT ![k] = IF hook[k] = "on" THEN @ ELSE @ + 1]
  BY DEF Deliver
<1>3. CASE hook[h] = "on"
  BY <1>1, <1>2, <1>3 DEF QuietInv
<1>4. CASE hook[h] # "on"
  <2>1. IsFiniteSet(PoisedAt(h)) /\ Cardinality(PoisedAt(h)) \in Nat
    BY FS_Subset, FS_CardinalityType, WebhookDeliveryAssumption DEF PoisedAt
  <2>2. Cardinality(PoisedAt(h)') <= Cardinality(PoisedAt(h)) /\ Cardinality(PoisedAt(h)') \in Nat
    BY <1>4, <2>1, FS_Subset, FS_CardinalityType
  <2>3. CASE h # k
    BY <1>1, <1>2, <1>4, <2>1, <2>2, <2>3 DEF QuietInv
  <2>4. CASE h = k
    <3>1. w \in PoisedAt(h) /\ w \notin PoisedAt(h)'
      BY <2>4 DEF PoisedAt
    <3>2. PoisedAt(h)' \subseteq PoisedAt(h) \ {w}
      BY <1>4, <3>1
    <3>3. /\ IsFiniteSet(PoisedAt(h) \ {w})
          /\ Cardinality(PoisedAt(h) \ {w}) = Cardinality(PoisedAt(h)) - 1
      BY <2>1, <3>1, FS_RemoveElement
    <3>4. Cardinality(PoisedAt(h)') <= Cardinality(PoisedAt(h)) - 1
      BY <3>2, <3>3, FS_Subset
    <3> QED BY <1>1, <1>2, <1>4, <2>1, <2>2, <2>4, <3>4 DEF QuietInv
  <2> QED BY <2>3, <2>4
<1> QED BY <1>3, <1>4

LEMMA QuietNext == TypeInv /\ QuietInv /\ [Next]_vars => QuietInv'
<1>1. ASSUME TypeInv, QuietInv, UNCHANGED vars PROVE QuietInv'
  BY <1>1 DEF vars, tables, local, world, QuietInv, PoisedAt, Poised
<1>2. ASSUME TypeInv, QuietInv, NEW w \in Workers, Cycle(w) \/ Crash(w) PROVE QuietInv'
  <2> USE <1>2
  <2>1. ASSUME NEW h \in Hooks, hook[h] # "on" PROVE PoisedAt(h)' \subseteq PoisedAt(h)
    <3> SUFFICES ASSUME NEW v \in Workers, Poised(v, h)' PROVE Poised(v, h)
      BY DEF PoisedAt
    <3>1. CASE v = w
      BY <2>1, <3>1, NobodyPoises
    <3>2. CASE v # w
      <4>1. pc'[v] = pc[v] /\ at'[v] = at[v] /\ targets'[v] = targets[v]
        BY <3>2, OthersStay
      <4>2. CASE pc[v] = "repost"
        <5>1. at[v][1] \in DOMAIN log
          BY <4>2 DEF TypeInv, HandOK
        <5>2. log'[at[v][1]].hook = log[at[v][1]].hook
          BY <5>1, RowsKeepTheirHook DEF Next, RowStays
        <5> QED BY <4>1, <4>2, <5>2 DEF Poised
      <4> QED BY <4>1, <4>2 DEF Poised
    <3> QED BY <3>1, <3>2
  <2>2. CASE UNCHANGED <<hook, latePosts>>
    BY <2>1, <2>2, QuietFrame
  <2>3. CASE Repost(w)
    <3>1. at[w][1] \in DOMAIN log
      BY <2>3 DEF Repost, TypeInv, HandOK
    <3>2. log[at[w][1]].hook \in Hooks
      BY <3>1, RowAt DEF TypeInv, TypeOK, TablesOK, Rows
    <3> PICK k \in Hooks : k = log[at[w][1]].hook
      BY <3>2
    <3>3. Poised(w, k) /\ ~Poised(w, k)'
      BY <2>3 DEF Repost, Goto, Poised, TypeInv, TypeOK, CyclesOK
    <3>4. hook' = hook /\ Deliver(w, log[at[w][1]].event, k)
      BY <2>3 DEF Repost, tables
    <3> QED BY <2>1, <3>3, <3>4, QuietPost
  <2>4. ASSUME NEW k \in Hooks, Post(w, k) PROVE QuietInv'
    <3>1. Poised(w, k) /\ ~Poised(w, k)'
      BY <2>4 DEF Post, Goto, Poised, TypeInv, TypeOK, CyclesOK
    <3>2. hook' = hook /\ Deliver(w, at[w][1], k)
      BY <2>4 DEF Post, tables
    <3> QED BY <2>1, <2>4, <3>1, <3>2, QuietPost
  <2> QED
    BY <2>2, <2>3, <2>4
    DEF Cycle, Crash, LoadRetries, LoadRetriesFails, Retry, CheckRetry, ClearRetry, SkipRetry,
        UpdateRow, UpdateLost, LoadEvents, Dispatch, Match, MatchFails, LogAttempt, LogLost,
        MarkDispatched, MarkLost, EndCycle, tables, world
<1>3. ASSUME TypeInv, QuietInv, NEW e \in Events, Emit(e) PROVE QuietInv'
  BY <1>3 DEF Emit, local, world, QuietInv, PoisedAt, Poised
<1>4. ASSUME TypeInv, QuietInv, NEW i \in DOMAIN log, BackoffEnds(i) PROVE QuietInv'
  <2>1. ASSUME NEW h \in Hooks, NEW v \in Workers, Poised(v, h)' PROVE Poised(v, h)
    <3>1. pc' = pc /\ at' = at /\ targets' = targets
      BY <1>4 DEF BackoffEnds, local
    <3>2. CASE pc[v] = "repost"
      <4>1. at[v][1] \in DOMAIN log
        BY <1>4, <3>2 DEF TypeInv, HandOK
      <4>2. log'[at[v][1]].hook = log[at[v][1]].hook
        BY <1>4, <4>1, RowsKeepTheirHook DEF Next, RowStays
      <4> QED BY <2>1, <3>1, <3>2, <4>2 DEF Poised
    <3> QED BY <2>1, <3>1, <3>2 DEF Poised
  <2> QED BY <1>4, <2>1, QuietFrame DEF PoisedAt, BackoffEnds, world
<1>5. ASSUME TypeInv, QuietInv,
             NEW h \in Hooks, NEW s \in {"on", "off", "gone"}, SwitchHook(h, s)
      PROVE  QuietInv'
  <2> SUFFICES ASSUME NEW k \in Hooks PROVE
        IF hook'[k] = "on" THEN latePosts'[k] = 0
        ELSE latePosts'[k] + Cardinality(PoisedAt(k)') <= Cardinality(Workers)
    BY DEF QuietInv
  <2>1. PoisedAt(k)' = PoisedAt(k)
    BY <1>5 DEF SwitchHook, local, PoisedAt, Poised
  <2>2. Cardinality(PoisedAt(k)) <= Cardinality(Workers) /\ Cardinality(PoisedAt(k)) \in Nat
    BY FS_Subset, FS_CardinalityType, WebhookDeliveryAssumption DEF PoisedAt
  <2>3. /\ hook \in [Hooks -> {"on", "off", "gone"}] /\ latePosts \in [Hooks -> Nat]
        /\ hook' = [hook EXCEPT ![h] = s] /\ hook[h] # s
        /\ latePosts' = [latePosts EXCEPT ![h] = IF s = "on" THEN 0 ELSE @]
    BY <1>5 DEF SwitchHook, TypeInv, TypeOK, TablesOK, WorldOK
  <2> QED BY <1>5, <2>1, <2>2, <2>3 DEF QuietInv
<1> QED BY <1>1, <1>2, <1>3, <1>4, <1>5 DEF Next

\* Whatever overlaps or crashes, a webhook that is switched off or deleted
\* gets at most one more post from each cycle.
THEOREM SilentWhenOff == Spec => []QuietWhenOff
<1>1. Init => QuietInv
  BY DEF Init, QuietInv
<1>2. TypeInv /\ QuietInv => QuietWhenOff
  <2> SUFFICES ASSUME TypeInv, QuietInv, NEW h \in Hooks
               PROVE  latePosts[h] <= Cardinality(Workers)
    BY DEF QuietWhenOff
  <2>1. Cardinality(PoisedAt(h)) \in Nat /\ Cardinality(Workers) \in Nat /\ latePosts[h] \in Nat
    BY FS_Subset, FS_CardinalityType, WebhookDeliveryAssumption
    DEF PoisedAt, TypeInv, TypeOK, WorldOK
  <2> QED BY <2>1 DEF QuietInv
<1> QED BY TypeInit, TypeNext, QuietNext, <1>1, <1>2, PTL DEF Spec

-----------------------------------------------------------------------------
(* No delivery is forgotten.                                               *)

\* The endpoint has it, or there is a row to try it again from.
Known(e, h) ==
  received[e][h] > 0 \/ \E i \in DOMAIN log : log[i].event = e /\ log[i].hook = h

\* A cycle that processes e is done with h.
Through(w, e, h) ==
  /\ pc[w] \in {"targets", "log"}
  /\ at[w][1] = e
  /\ h \notin targets[w]
  /\ ~(pc[w] = "log" /\ at[w] = <<e, h>>)

Past(e, h) == event[e] = "dispatched" \/ \E w \in Workers : Through(w, e, h)

\* The deliveries that are, or are about to be, forgotten.
Missed == {d \in Events \X Hooks : d[2] \notin everOff /\ ~Known(d[1], d[2]) /\ Past(d[1], d[2])}

\* A row that gets no more attempts was delivered or has had them all.
RowsInv ==
  \A i \in DOMAIN log : log[i].hook \notin everOff =>
    \/ received[log[i].event][log[i].hook] > 0
    \/ log[i].retry # "none"
    \/ log[i].attempts = MaxAttempts

\* A success is not made up.
OkInv ==
  \A w \in Workers : ok[w] =>
    /\ pc[w] = "log" => received[at[w][1]][at[w][2]] > 0
    /\ pc[w] = "update" => received[log[at[w][1]].event][log[at[w][1]].hook] > 0

OffInv == \A h \in Hooks : hook[h] # "on" => h \in everOff

DeliveryInv == RowsInv /\ OkInv /\ OffInv

\* What the endpoint has it keeps, and a webhook that has been off has been.
LEMMA DeliveriesGrow ==
  ASSUME TypeInv, Next
  PROVE  /\ \A e \in Events, h \in Hooks : received[e][h] <= received'[e][h]
         /\ everOff \subseteq everOff'
<1> USE DEF TypeInv, TypeOK, WorldOK
<1>1. ASSUME NEW w \in Workers, NEW f, NEW k, Deliver(w, f, k)
      PROVE  \A e \in Events, h \in Hooks : received[e][h] <= received'[e][h]
  BY <1>1 DEF Deliver
<1>2. ASSUME NEW w \in Workers, Repost(w) \/ \E h \in Hooks : Post(w, h)
      PROVE  /\ \A e \in Events, h \in Hooks : received[e][h] <= received'[e][h]
             /\ everOff' = everOff
  BY <1>1, <1>2 DEF Repost, Post
<1>3. CASE UNCHANGED received /\ everOff \subseteq everOff'
  BY <1>3
<1> QED
  BY <1>2, <1>3
  DEF Next, Cycle, Crash, LoadRetries, LoadRetriesFails, Retry, CheckRetry, ClearRetry, SkipRetry,
      UpdateRow, UpdateLost, LoadEvents, Dispatch, Match, MatchFails, LogAttempt, LogLost,
      MarkDispatched, MarkLost, EndCycle, Emit, BackoffEnds, SwitchHook, world

LEMMA KnownGrows ==
  ASSUME TypeInv, TypeInv', Next, NEW e \in Events, NEW h \in Hooks, Known(e, h)
  PROVE  Known(e, h)'
<1>1. received[e][h] \in Nat /\ received'[e][h] \in Nat /\ received[e][h] <= received'[e][h]
  BY DeliveriesGrow DEF TypeInv, TypeOK, WorldOK
<1>2. \A i \in DOMAIN log : RowStays(i)
  BY RowsKeepTheirHook
<1> QED BY <1>1, <1>2 DEF Known, RowStays

LEMMA OffNext == TypeInv /\ OffInv /\ [Next]_vars => OffInv'
<1>1. CASE UNCHANGED <<hook, everOff>>
  BY <1>1 DEF OffInv
<1>2. ASSUME TypeInv, OffInv,
             NEW h \in Hooks, NEW s \in {"on", "off", "gone"}, SwitchHook(h, s)
      PROVE  OffInv'
  BY <1>2 DEF SwitchHook, OffInv, TypeInv, TypeOK, TablesOK
<1> QED
  BY <1>1, <1>2
  DEF Next, Cycle, Crash, LoadRetries, LoadRetriesFails, Retry, CheckRetry, ClearRetry, SkipRetry,
      Repost, UpdateRow, UpdateLost, LoadEvents, Dispatch, Match, MatchFails, Post, LogAttempt,
      LogLost, MarkDispatched, MarkLost, EndCycle, Emit, BackoffEnds, tables, vars

\* A post that succeeds was received.
LEMMA DeliverCounts ==
  ASSUME TypeInv, NEW w \in Workers, NEW e \in Events, NEW h \in Hooks, Deliver(w, e, h)
  PROVE  /\ ok'[w] => received'[e][h] > 0
         /\ \A v \in Workers \ {w} : ok'[v] = ok[v]
<1>1. received[e][h] \in Nat /\ received \in [Events -> [Hooks -> Nat]] /\ ok \in [Workers -> BOOLEAN]
  BY DEF TypeInv, TypeOK, WorldOK, CyclesOK
<1>2. CASE ok' = [ok EXCEPT ![w] = TRUE] /\ received' = [received EXCEPT ![e][h] = @ + 1]
  BY <1>1, <1>2
<1>3. CASE ok' = [ok EXCEPT ![w] = FALSE]
  BY <1>1, <1>3
<1> QED BY <1>2, <1>3 DEF Deliver

\* What was received for a cycle stays received while the cycle stands still.
LEMMA OthersKeepOk ==
  ASSUME TypeInv, TypeInv', Next, OkInv, NEW v \in Workers,
         pc'[v] = pc[v], at'[v] = at[v], ok'[v] = ok[v], ok[v]
  PROVE  /\ pc'[v] = "log" => received'[at'[v][1]][at'[v][2]] > 0
         /\ pc'[v] = "update" => received'[log'[at'[v][1]].event][log'[at'[v][1]].hook] > 0
<1>1. CASE pc[v] = "log"
  <2>1. at[v] \in Events \X Hooks
    BY <1>1 DEF TypeInv, HandOK
  <2> PICK e \in Events, h \in Hooks : e = at[v][1] /\ h = at[v][2]
    BY <2>1
  <2>2. received[e][h] > 0 /\ received[e][h] <= received'[e][h]
    BY <1>1, DeliveriesGrow DEF OkInv
  <2>3. received[e][h] \in Nat /\ received'[e][h] \in Nat
    BY DEF TypeInv, TypeOK, WorldOK
  <2> QED BY <1>1, <2>2, <2>3
<1>2. CASE pc[v] = "update"
  <2>1. at[v][1] \in DOMAIN log
    BY <1>2 DEF TypeInv, HandOK
  <2>2. RowStays(at[v][1])
    BY <2>1, RowsKeepTheirHook
  <2>3. log[at[v][1]].event \in Events /\ log[at[v][1]].hook \in Hooks
    BY <2>1, RowAt DEF TypeInv, TypeOK, TablesOK, Rows
  <2> PICK e \in Events, h \in Hooks : e = log[at[v][1]].event /\ h = log[at[v][1]].hook
    BY <2>3
  <2>4. received[e][h] > 0 /\ received[e][h] <= received'[e][h]
    BY <1>2, DeliveriesGrow DEF OkInv
  <2>5. received[e][h] \in Nat /\ received'[e][h] \in Nat
    BY DEF TypeInv, TypeOK, WorldOK
  <2> QED BY <1>2, <2>2, <2>4, <2>5 DEF RowStays
<1> QED BY <1>1, <1>2

LEMMA OthersOkStay ==
  ASSUME TypeInv, NEW w \in Workers, Cycle(w) \/ Crash(w), NEW v \in Workers \ {w}
  PROVE  ok'[v] = ok[v]
BY DEF TypeInv, TypeOK, CyclesOK, Cycle, Crash, Goto, NextIn, Deliver,
       LoadRetries, LoadRetriesFails, Retry, CheckRetry, ClearRetry, SkipRetry, Repost, UpdateRow,
       UpdateLost, LoadEvents, Dispatch, Match, MatchFails, Post, LogAttempt, LogLost,
       MarkDispatched, MarkLost, EndCycle

LEMMA OkNext == TypeInv /\ TypeInv' /\ OkInv /\ [Next]_vars => OkInv'
<1>1. ASSUME OkInv, UNCHANGED vars PROVE OkInv'
  BY <1>1 DEF vars, tables, local, world, OkInv
<1>2. ASSUME TypeInv, TypeInv', OkInv, NEW w \in Workers, Cycle(w) \/ Crash(w) PROVE OkInv'
  <2> USE <1>2
  <2>1. Next
    BY DEF Next
  <2>2. ASSUME NEW v \in Workers \ {w}, ok'[v]
        PROVE  /\ pc'[v] = "log" => received'[at'[v][1]][at'[v][2]] > 0
               /\ pc'[v] = "update" => received'[log'[at'[v][1]].event][log'[at'[v][1]].hook] > 0
    <3>1. pc'[v] = pc[v] /\ at'[v] = at[v] /\ ok'[v] = ok[v]
      BY OthersStay, OthersOkStay
    <3>2. ok[v]
      BY <2>2, <3>1
    <3> QED BY <2>1, <3>1, <3>2, OthersKeepOk
  <2>3. ASSUME ok'[w]
        PROVE  /\ pc'[w] = "log" => received'[at'[w][1]][at'[w][2]] > 0
               /\ pc'[w] = "update" => received'[log'[at'[w][1]].event][log'[at'[w][1]].hook] > 0
    <3>1. CASE pc'[w] \notin {"log", "update"}
      BY <3>1
    <3>2. CASE Repost(w)
      <4>1. at[w][1] \in DOMAIN log
        BY <3>2 DEF Repost, TypeInv, HandOK
      <4>2. log[at[w][1]].event \in Events /\ log[at[w][1]].hook \in Hooks
        BY <4>1, RowAt DEF TypeInv, TypeOK, TablesOK, Rows
      <4>3. received'[log[at[w][1]].event][log[at[w][1]].hook] > 0
        BY <2>3, <3>2, <4>2, DeliverCounts DEF Repost
      <4>4. pc'[w] = "update" /\ at' = at /\ log' = log
        BY <3>2 DEF Repost, Goto, tables, TypeInv, TypeOK, CyclesOK
      <4> QED BY <4>3, <4>4
    <3>3. ASSUME NEW h \in Hooks, Post(w, h) PROVE received'[at'[w][1]][at'[w][2]] > 0 /\ pc'[w] = "log"
      <4>1. at[w][1] \in Events
        BY <3>3 DEF Post, TypeInv, HandOK
      <4>2. received'[at[w][1]][h] > 0
        BY <2>3, <3>3, <4>1, DeliverCounts DEF Post
      <4>3. at'[w] = <<at[w][1], h>> /\ pc'[w] = "log"
        BY <3>3 DEF Post, Goto, TypeInv, TypeOK, CyclesOK
      <4> QED BY <4>2, <4>3
    <3>4. CASE LoadRetries(w) \/ LoadRetriesFails(w) \/ LoadEvents(w) \/ EndCycle(w) \/ Crash(w)
      BY <3>1, <3>4
      DEF LoadRetries, LoadRetriesFails, LoadEvents, EndCycle, Crash, Goto, NextIn,
          TypeInv, TypeOK, CyclesOK
    <3>5. ASSUME NEW r \in retries[w], CheckRetry(w, r) \/ ClearRetry(w, r) \/ SkipRetry(w, r)
          PROVE  pc'[w] \notin {"log", "update"}
      BY <3>5 DEF CheckRetry, ClearRetry, SkipRetry, TakeRetry, Goto, TypeInv, TypeOK, CyclesOK
    <3>6. CASE UpdateRow(w) \/ UpdateLost(w) \/ LogAttempt(w) \/ LogLost(w)
                 \/ MarkDispatched(w) \/ MarkLost(w)
      BY <3>1, <3>6
      DEF UpdateRow, UpdateLost, LogAttempt, LogLost, MarkDispatched, MarkLost, Goto, NextIn,
          TypeInv, TypeOK, CyclesOK
    <3>7. ASSUME NEW e \in Events, Match(w, e) \/ MatchFails(w, e)
          PROVE  pc'[w] \notin {"log", "update"}
      BY <3>7 DEF Match, MatchFails, Goto, TypeInv, TypeOK, CyclesOK
    <3> QED
      BY <3>1, <3>2, <3>3, <3>4, <3>5, <3>6, <3>7 DEF Cycle, Retry, Dispatch
  <2> QED BY <2>2, <2>3 DEF OkInv
<1>3. ASSUME TypeInv, TypeInv', OkInv, Next, UNCHANGED <<pc, at, ok>> PROVE OkInv'
  <2> SUFFICES ASSUME NEW v \in Workers, ok'[v]
               PROVE  /\ pc'[v] = "log" => received'[at'[v][1]][at'[v][2]] > 0
                      /\ pc'[v] = "update" =>
                           received'[log'[at'[v][1]].event][log'[at'[v][1]].hook] > 0
    BY DEF OkInv
  <2>1. pc'[v] = pc[v] /\ at'[v] = at[v] /\ ok'[v] = ok[v] /\ ok[v]
    BY <1>3
  <2> QED BY <1>3, <2>1, OthersKeepOk
<1>4. Next => \/ \E w \in Workers : Cycle(w) \/ Crash(w)
              \/ UNCHANGED <<pc, at, ok>>
  BY DEF Next, Emit, BackoffEnds, SwitchHook, local
<1> QED BY <1>1, <1>2, <1>3, <1>4

\* A row stays settled while it is left alone.
RowSettled(i) ==
  log[i].hook \notin everOff =>
    \/ received[log[i].event][log[i].hook] > 0
    \/ log[i].retry # "none"
    \/ log[i].attempts = MaxAttempts

LEMMA RowKept ==
  ASSUME TypeInv, TypeInv', Next, NEW i \in DOMAIN log, RowSettled(i), log'[i] = log[i]
  PROVE  RowSettled(i)'
<1>1. log[i].event \in Events /\ log[i].hook \in Hooks
  BY RowAt DEF TypeInv, TypeOK, TablesOK, Rows
<1> PICK e \in Events, h \in Hooks : e = log[i].event /\ h = log[i].hook
  BY <1>1
<1>2. received[e][h] \in Nat /\ received'[e][h] \in Nat
  BY DEF TypeInv, TypeOK, WorldOK
<1>3. received[e][h] <= received'[e][h] /\ everOff \subseteq everOff'
  BY DeliveriesGrow
<1> QED BY <1>2, <1>3 DEF RowSettled

\* The row of an attempt is settled by what the attempt found.
LEMMA RowBySettles ==
  ASSUME TypeInv, NEW e \in Events, NEW h \in Hooks, NEW n \in 1..MaxAttempts, NEW s \in BOOLEAN,
         s => received[e][h] > 0
  PROVE  LET row == Row(e, h, n, s)
         IN  \/ received[row.event][row.hook] > 0
             \/ row.retry # "none"
             \/ row.attempts = MaxAttempts
BY WebhookDeliveryAssumption DEF Row, RetryAt

LEMMA RowsNext == TypeInv /\ TypeInv' /\ DeliveryInv /\ [Next]_vars => RowsInv'
<1> SUFFICES ASSUME TypeInv, TypeInv', DeliveryInv, [Next]_vars, NEW i \in DOMAIN log'
             PROVE  RowSettled(i)'
  BY DEF RowsInv, RowSettled
<1>1. CASE UNCHANGED vars
  BY <1>1 DEF vars, tables, world, DeliveryInv, RowsInv, RowSettled
<1> SUFFICES ASSUME Next PROVE RowSettled(i)'
  BY <1>1
<1>2. i \in DOMAIN log => RowSettled(i)
  BY DEF DeliveryInv, RowsInv, RowSettled
<1>3. CASE i \in DOMAIN log /\ log'[i] = log[i]
  BY <1>2, <1>3, RowKept
<1>4. ASSUME NEW w \in Workers, NEW r \in retries[w], ClearRetry(w, r) PROVE RowSettled(i)'
  <2>1. r[1] \in DOMAIN log
    BY DEF TypeInv, TypeOK, CyclesOK
  <2>2. log[r[1]] \in Rows
    BY <2>1, RowAt DEF TypeInv, TypeOK, TablesOK
  <2>3. DOMAIN log' = DOMAIN log /\ hook[log[r[1]].hook] # "on" /\ everOff' = everOff
    BY <1>4 DEF ClearRetry, StillActive
  <2>4. CASE i = r[1]
    <3>1. log'[i].hook = log[r[1]].hook
      BY <1>4, <2>1, <2>4, RowsKeepTheirHook DEF RowStays
    <3>2. log[r[1]].hook \in everOff
      BY <2>2, <2>3 DEF DeliveryInv, OffInv, Rows
    <3> QED BY <2>3, <3>1, <3>2 DEF RowSettled
  <2>5. CASE i # r[1]
    <3>1. i \in DOMAIN log /\ log'[i] = log[i]
      BY <1>4, <2>3, <2>5 DEF ClearRetry
    <3> QED BY <1>3, <3>1
  <2> QED BY <2>4, <2>5
<1>5. ASSUME NEW w \in Workers, UpdateRow(w) PROVE RowSettled(i)'
  <2> DEFINE j == at[w][1]
             row == Row(log[j].event, log[j].hook, at[w][2] + 1, ok[w])
  <2>1. j \in DOMAIN log /\ at[w][2] + 1 \in 1..MaxAttempts
    BY <1>5, WebhookDeliveryAssumption DEF UpdateRow, TypeInv, HandOK
  <2>2. log[j].event \in Events /\ log[j].hook \in Hooks /\ ok[w] \in BOOLEAN
    BY <2>1, RowAt DEF TypeInv, TypeOK, TablesOK, CyclesOK, Rows
  <2>3. ok[w] => received[log[j].event][log[j].hook] > 0
    BY <1>5 DEF UpdateRow, DeliveryInv, OkInv
  <2>4. \/ received[row.event][row.hook] > 0
        \/ row.retry # "none"
        \/ row.attempts = MaxAttempts
    BY <2>1, <2>2, <2>3, RowBySettles
  <2>5. received' = received /\ (log' = log \/ log' = [log EXCEPT ![j] = row])
    BY <1>5 DEF UpdateRow, world
  <2> HIDE DEF row, j
  <2>6. CASE log' = log
    BY <1>3, <2>6
  <2>7. CASE log' = [log EXCEPT ![j] = row] /\ i # j
    BY <1>3, <2>7
  <2>8. CASE log' = [log EXCEPT ![j] = row] /\ i = j
    <3>1. log'[i] = row
      BY <2>1, <2>8
    <3> QED BY <2>4, <2>5, <3>1 DEF RowSettled
  <2> QED BY <2>5, <2>6, <2>7, <2>8
<1>6. ASSUME NEW w \in Workers, LogAttempt(w) PROVE RowSettled(i)'
  <2> DEFINE row == Row(at[w][1], at[w][2], 1, ok[w])
  <2>1. at[w][1] \in Events /\ at[w][2] \in Hooks /\ ok[w] \in BOOLEAN
    BY <1>6 DEF LogAttempt, TypeInv, TypeOK, CyclesOK, HandOK
  <2>2. ok[w] => received[at[w][1]][at[w][2]] > 0
    BY <1>6 DEF LogAttempt, DeliveryInv, OkInv
  <2>3. 1 \in 1..MaxAttempts
    BY WebhookDeliveryAssumption
  <2>4. \/ received[row.event][row.hook] > 0
        \/ row.retry # "none"
        \/ row.attempts = MaxAttempts
    BY <2>1, <2>2, <2>3, RowBySettles
  <2>5. received' = received /\ (log' = log \/ log' = Append(log, row))
    BY <1>6 DEF LogAttempt, world
  <2>6. log \in Seq(Rows) /\ row \in Rows
    BY <2>1, <2>3, RowType DEF TypeInv, TypeOK, TablesOK
  <2> HIDE DEF row
  <2>7. CASE log' = log
    BY <1>3, <2>7
  <2>8. CASE log' = Append(log, row)
    <3>1. /\ DOMAIN log = 1..Len(log) /\ DOMAIN log' = 1..(Len(log) + 1) /\ Len(log) \in Nat
          /\ \A k \in 1..Len(log) : log'[k] = log[k]
          /\ log'[Len(log) + 1] = row
      BY <2>6, <2>8, AppendProperties
    <3>2. CASE i = Len(log) + 1
      BY <2>4, <2>5, <3>1, <3>2 DEF RowSettled
    <3> QED BY <1>3, <3>1, <3>2
  <2> QED BY <2>5, <2>7, <2>8
<1>7. ASSUME NEW j \in DOMAIN log, BackoffEnds(j) PROVE RowSettled(i)'
  <2>1. DOMAIN log' = DOMAIN log /\ log[j] \in Rows
    BY <1>7, RowAt DEF BackoffEnds, TypeInv, TypeOK, TablesOK
  <2>2. CASE i = j
    <3>1. log'[i].retry = "due"
      BY <1>7, <2>1, <2>2 DEF BackoffEnds, Rows
    <3> QED BY <3>1 DEF RowSettled
  <2>3. CASE i # j
    BY <1>3, <1>7, <2>1, <2>3 DEF BackoffEnds
  <2> QED BY <2>2, <2>3
<1> QED
  BY <1>3, <1>4, <1>5, <1>6, <1>7
  DEF Next, Cycle, Crash, LoadRetries, LoadRetriesFails, Retry, CheckRetry, SkipRetry, Repost,
      UpdateLost, LoadEvents, Dispatch, Match, MatchFails, Post, LogLost, MarkDispatched, MarkLost,
      EndCycle, Emit, SwitchHook, tables

\* A delivery that is given up now was given up before, unless this step is
\* the failed write that loses it.
LEMMA ThroughStep ==
  ASSUME TypeInv, DeliveryInv, NEW w \in Workers, Cycle(w) \/ Crash(w),
         NEW e \in Events, NEW h \in Hooks, Through(w, e, h)'
  PROVE  \/ Through(w, e, h)
         \/ h \in everOff'
         \/ Known(e, h)'
         \/ LogLost(w) /\ at[w] = <<e, h>>
<1> USE DEF TypeInv, TypeOK, CyclesOK, Goto, NextIn
<1>1. ASSUME NEW x \in Labels \ {"targets", "log"}, pc' = [pc EXCEPT ![w] = x] PROVE FALSE
  BY <1>1 DEF Through
<1>2. ASSUME UNCHANGED <<pc, at, targets>> PROVE Through(w, e, h)
  BY <1>2 DEF Through
<1>3. ASSUME NEW f \in Events, Match(w, f)
      PROVE  Through(w, e, h) \/ h \in everOff'
  <2>1. targets'[w] = {k \in Hooks : hook[k] = "on"} /\ everOff' = everOff
    BY <1>3 DEF Match
  <2>2. hook[h] # "on"
    BY <2>1 DEF Through
  <2> QED BY <2>1, <2>2 DEF DeliveryInv, OffInv
<1>4. ASSUME NEW k \in Hooks, Post(w, k) PROVE Through(w, e, h)
  <2>1. /\ pc[w] = "targets" /\ pc'[w] = "log" /\ at'[w] = <<at[w][1], k>>
        /\ targets'[w] = targets[w] \ {k}
    BY <1>4 DEF Post
  <2>2. at[w][1] = e /\ h # k /\ h \notin targets[w]
    BY <2>1 DEF Through
  <2> QED BY <2>1, <2>2 DEF Through
<1>5. ASSUME LogAttempt(w) \/ LogLost(w), at[w] # <<e, h>> PROVE Through(w, e, h)
  <2>1. /\ pc[w] = "log" /\ pc'[w] = "targets" /\ at'[w] = <<at[w][1]>>
        /\ targets'[w] = targets[w]
    BY <1>5 DEF LogAttempt, LogLost
  <2> QED BY <1>5, <2>1 DEF Through
<1>6. ASSUME LogAttempt(w), at[w] = <<e, h>> PROVE h \in everOff' \/ Known(e, h)'
  <2>1. everOff' = everOff
    BY <1>6 DEF LogAttempt
  <2>2. CASE hook[h] = "gone"
    BY <2>1, <2>2 DEF DeliveryInv, OffInv
  <2>3. CASE hook[h] # "gone"
    <3> DEFINE row == Row(e, h, 1, ok[w])
    <3>1. log' = Append(log, row) /\ row.event = e /\ row.hook = h
      BY <1>6, <2>3 DEF LogAttempt, Row
    <3>2. log \in Seq(Rows) /\ row \in Rows
      BY WebhookDeliveryAssumption, RowType DEF TablesOK
    <3> HIDE DEF row
    <3>3. DOMAIN log' = 1..(Len(log) + 1) /\ Len(log) \in Nat /\ log'[Len(log) + 1] = row
      BY <3>1, <3>2, AppendProperties
    <3>4. Len(log) + 1 \in DOMAIN log' /\ log'[Len(log) + 1].event = e /\ log'[Len(log) + 1].hook = h
      BY <3>1, <3>3
    <3> QED BY <3>4 DEF Known
  <2> QED BY <2>2, <2>3
<1>7. CASE LoadRetries(w) \/ LoadRetriesFails(w) \/ LoadEvents(w) \/ EndCycle(w) \/ Crash(w)
             \/ Repost(w) \/ UpdateRow(w) \/ UpdateLost(w) \/ MarkDispatched(w) \/ MarkLost(w)
  BY <1>1, <1>7 DEF LoadRetries, LoadRetriesFails, LoadEvents, EndCycle, Crash, Repost, UpdateRow,
                    UpdateLost, MarkDispatched, MarkLost, Labels
<1>8. ASSUME NEW r \in retries[w], CheckRetry(w, r) PROVE FALSE
  BY <1>1, <1>8 DEF CheckRetry, Labels
<1>9. ASSUME NEW r \in retries[w], ClearRetry(w, r) \/ SkipRetry(w, r) PROVE Through(w, e, h)
  BY <1>2, <1>9 DEF ClearRetry, SkipRetry
<1>10. ASSUME NEW f \in Events, MatchFails(w, f) PROVE Through(w, e, h)
  BY <1>2, <1>10 DEF MatchFails
<1> QED
  BY <1>3, <1>4, <1>5, <1>6, <1>7, <1>8, <1>9, <1>10 DEF Cycle, Retry, Dispatch

LEMMA PastStep ==
  ASSUME TypeInv, DeliveryInv, Next, NEW e \in Events, NEW h \in Hooks, Past(e, h)'
  PROVE  \/ Past(e, h)
         \/ h \in everOff'
         \/ Known(e, h)'
         \/ \E w \in Workers : LogLost(w) /\ at[w] = <<e, h>>
<1>1. ASSUME NEW w \in Workers, Cycle(w) \/ Crash(w), NEW v \in Workers, Through(v, e, h)'
      PROVE  \/ Past(e, h)
             \/ h \in everOff'
             \/ Known(e, h)'
             \/ LogLost(w) /\ at[w] = <<e, h>>
  <2>1. CASE v = w
    BY <1>1, <2>1, ThroughStep DEF Past
  <2>2. CASE v # w
    <3>1. pc'[v] = pc[v] /\ at'[v] = at[v] /\ targets'[v] = targets[v]
      BY <1>1, <2>2, OthersStay
    <3>2. Through(v, e, h)
      BY <1>1, <3>1 DEF Through
    <3> QED BY <3>2 DEF Past
  <2> QED BY <2>1, <2>2
<1>2. ASSUME NEW v \in Workers, Through(v, e, h)', UNCHANGED <<pc, at, targets>>
      PROVE  Past(e, h)
  BY <1>2 DEF Past, Through
<1>3. ASSUME event'[e] = "dispatched" PROVE Past(e, h)
  <2>1. ASSUME NEW w \in Workers, MarkDispatched(w) PROVE Past(e, h)
    <3>1. \E f \in Events : at[w] = <<f>>
      BY <2>1 DEF MarkDispatched, TypeInv, HandOK
    <3>2. CASE at[w][1] = e
      <4>1. Through(w, e, h)
        BY <2>1, <3>2 DEF MarkDispatched, Through
      <4> QED BY <4>1 DEF Past
    <3>3. CASE at[w][1] # e
      BY <1>3, <2>1, <3>3 DEF MarkDispatched, Past
    <3> QED BY <3>2, <3>3
  <2>2. ASSUME NEW f \in Events, Emit(f) PROVE Past(e, h)
    BY <1>3, <2>2 DEF Emit, Past, TypeInv, TypeOK, TablesOK
  <2>3. CASE event' = event
    BY <1>3, <2>3 DEF Past
  <2> QED
    BY <2>1, <2>2, <2>3
    DEF Next, Cycle, Crash, LoadRetries, LoadRetriesFails, Retry, CheckRetry, ClearRetry, SkipRetry,
        Repost, UpdateRow, UpdateLost, LoadEvents, Dispatch, Match, MatchFails, Post, LogAttempt,
        LogLost, MarkLost, EndCycle, BackoffEnds, SwitchHook, tables
<1>4. \/ \E w \in Workers : Cycle(w) \/ Crash(w)
      \/ UNCHANGED <<pc, at, targets>>
  BY DEF Next, Emit, BackoffEnds, SwitchHook, local
<1> QED BY <1>1, <1>2, <1>3, <1>4 DEF Past

\* An element more is one more at most.
LEMMA OneMoreElement ==
  ASSUME NEW S, IsFiniteSet(S), NEW x
  PROVE  /\ IsFiniteSet(S \cup {x})
         /\ Cardinality(S \cup {x}) <= Cardinality(S) + 1
         /\ Cardinality(S \cup {x}) \in Nat
<1>1. /\ IsFiniteSet(S \cup {x})
      /\ Cardinality(S \cup {x}) = IF x \in S THEN Cardinality(S) ELSE Cardinality(S) + 1
  BY FS_AddElement
<1>2. Cardinality(S) \in Nat /\ Cardinality(S \cup {x}) \in Nat
  BY <1>1, FS_CardinalityType
<1> QED BY <1>1, <1>2

\* Every forgotten delivery has a failure of its own.
MissedInv == Cardinality(Missed) <= faults

LEMMA MissedNext ==
  TypeInv /\ TypeInv' /\ DeliveryInv /\ MissedInv /\ [Next]_vars => MissedInv'
<1> SUFFICES ASSUME TypeInv, TypeInv', DeliveryInv, MissedInv, [Next]_vars PROVE MissedInv'
  OBVIOUS
<1>1. CASE UNCHANGED vars
  BY <1>1 DEF vars, tables, local, world, MissedInv, Missed, Known, Past, Through
<1> SUFFICES ASSUME Next PROVE MissedInv'
  BY <1>1
<1>2. /\ IsFiniteSet(Missed) /\ Cardinality(Missed) \in Nat
      /\ faults \in Nat /\ faults' \in Nat
  <2>1. IsFiniteSet(Events \X Hooks)
    BY FS_Product, WebhookDeliveryAssumption
  <2>2. IsFiniteSet(Missed)
    BY <2>1, FS_Subset DEF Missed
  <2> QED BY <2>2, FS_CardinalityType, WebhookDeliveryAssumption DEF TypeInv, TypeOK, WorldOK
<1>3. faults <= faults'
  <2>1. faults' = faults \/ faults' = faults + 1
    BY DEF Next, Cycle, Crash, LoadRetries, LoadRetriesFails, Retry, CheckRetry, ClearRetry, SkipRetry,
        Repost, UpdateRow, UpdateLost, LoadEvents, Dispatch, Match, MatchFails, Post, LogAttempt,
        LogLost, MarkDispatched, MarkLost, EndCycle, Emit, BackoffEnds, SwitchHook, Fault
  <2> QED BY <1>2, <2>1
<1>4. ASSUME NEW d \in Missed'
      PROVE  d \in Missed \/ \E w \in Workers : LogLost(w) /\ d = at[w]
  <2> PICK e \in Events, h \in Hooks : d = <<e, h>>
    BY DEF Missed
  <2>1. h \notin everOff' /\ ~Known(e, h)' /\ Past(e, h)'
    BY DEF Missed
  <2>2. h \notin everOff /\ ~Known(e, h)
    BY <2>1, KnownGrows, DeliveriesGrow
  <2>3. Past(e, h) \/ \E w \in Workers : LogLost(w) /\ at[w] = <<e, h>>
    BY <2>1, PastStep
  <2>4. Past(e, h) => d \in Missed
    BY <2>2 DEF Missed
  <2> QED BY <2>3, <2>4
<1>5. CASE \E w \in Workers : LogLost(w)
  <2> PICK w \in Workers : LogLost(w)
    BY <1>5
  <2>1. pc[w] = "log" /\ pc' = [pc EXCEPT ![w] = "targets"] /\ faults' = faults + 1
    BY DEF LogLost, NextIn, Goto, Fault
  <2>2. \A v \in Workers : LogLost(v) => v = w
    <3>1. ASSUME NEW v \in Workers, LogLost(v) PROVE v = w
      <4>1. pc[v] = "log" /\ pc' = [pc EXCEPT ![v] = "targets"]
        BY <3>1 DEF LogLost, NextIn, Goto
      <4> QED BY <2>1, <4>1 DEF TypeInv, TypeOK, CyclesOK
    <3> QED BY <3>1
  <2>3. Missed' \subseteq Missed \cup {at[w]}
    BY <1>4, <2>2
  <2>4. /\ IsFiniteSet(Missed \cup {at[w]})
        /\ Cardinality(Missed \cup {at[w]}) <= Cardinality(Missed) + 1
        /\ Cardinality(Missed \cup {at[w]}) \in Nat
    BY <1>2, OneMoreElement
  <2>5. Cardinality(Missed') <= Cardinality(Missed) + 1 /\ Cardinality(Missed') \in Nat
    BY <1>2, <2>3, <2>4, FS_Subset, FS_CardinalityType
  <2> QED BY <1>2, <2>1, <2>5 DEF MissedInv
<1>6. CASE ~\E w \in Workers : LogLost(w)
  <2>1. Missed' \subseteq Missed
    BY <1>4, <1>6
  <2>2. Cardinality(Missed') <= Cardinality(Missed) /\ Cardinality(Missed') \in Nat
    BY <1>2, <2>1, FS_Subset, FS_CardinalityType
  <2> QED BY <1>2, <1>3, <2>2 DEF MissedInv
<1> QED BY <1>5, <1>6

\* However cycles overlap, crash or lose their writes, an event marked as
\* dispatched is settled with every webhook that stayed active, but for one
\* webhook with each failure.
THEOREM NothingIsForgotten == Spec => []NothingForgotten
<1>1. Init => DeliveryInv /\ MissedInv
  <2> SUFFICES ASSUME Init PROVE DeliveryInv /\ MissedInv
    OBVIOUS
  <2>1. Missed = {}
    BY DEF Init, Missed, Past, Through
  <2>2. MissedInv
    BY <2>1, FS_EmptySet DEF Init, MissedInv
  <2> QED BY <2>2 DEF Init, DeliveryInv, RowsInv, OkInv, OffInv
<1>2. TypeInv /\ TypeInv' /\ DeliveryInv /\ [Next]_vars => DeliveryInv'
  BY RowsNext, OkNext, OffNext DEF DeliveryInv
<1>3. TypeInv /\ DeliveryInv /\ MissedInv => NothingForgotten
  <2> SUFFICES ASSUME TypeInv, DeliveryInv, MissedInv PROVE NothingForgotten
    OBVIOUS
  <2> DEFINE D == {d \in Events \X Hooks :
        event[d[1]] = "dispatched" /\ d[2] \notin everOff /\ ~Settled(d[1], d[2])}
  <2>1. ASSUME NEW d \in D PROVE d \in Missed
    <3> PICK e \in Events, h \in Hooks : d = <<e, h>>
      OBVIOUS
    <3>1. event[e] = "dispatched" /\ h \notin everOff /\ ~Settled(e, h)
      OBVIOUS
    <3>2. ~Known(e, h)
      BY <3>1 DEF Known, Settled, DeliveryInv, RowsInv
    <3> QED BY <3>1, <3>2 DEF Missed, Past
  <2>2. IsFiniteSet(Missed)
    <3>1. IsFiniteSet(Events \X Hooks)
      BY FS_Product, WebhookDeliveryAssumption
    <3> QED BY <3>1, FS_Subset DEF Missed
  <2> HIDE DEF D
  <2>3. /\ Cardinality(D) <= Cardinality(Missed)
        /\ Cardinality(D) \in Nat /\ Cardinality(Missed) \in Nat
    <3>1. D \subseteq Missed
      BY <2>1
    <3> QED BY <2>2, <3>1, FS_Subset, FS_CardinalityType
  <2>4. faults \in Nat
    BY WebhookDeliveryAssumption DEF TypeInv, TypeOK, WorldOK
  <2>5. Cardinality(D) <= faults
    BY <2>3, <2>4 DEF MissedInv
  <2> QED BY <2>5 DEF D, NothingForgotten
<1> QED BY TypeInit, TypeNext, MissedNext, <1>1, <1>2, <1>3, PTL DEF Spec

-----------------------------------------------------------------------------
(* The number of attempts.  For one cycle at a time what is left of each   *)
(* delivery's attempts is counted, and no step but a failure adds to it.   *)

SingleCycle == \A v, w \in Workers : v = w

\* The cycle's snapshot of the rows agrees with the rows.
RowsCurrent(w) ==
  /\ \A r \in retries[w] : log[r[1]].attempts = r[2]
  /\ pc[w] \in {"repost", "update"} => /\ log[at[w][1]].attempts = at[w][2]
                                       /\ \A r \in retries[w] : r[1] # at[w][1]

\* The events it has still to process, or is processing, are pending.
EventsCurrent(w) ==
  /\ \A e \in batch[w] : event[e] = "pending"
  /\ pc[w] \in {"targets", "log"} => event[at[w][1]] = "pending" /\ at[w][1] \notin batch[w]
  /\ pc[w] = "log" => at[w][2] \notin targets[w]

SnapInv == \A w \in Workers : RowsCurrent(w) /\ EventsCurrent(w)

\* The first attempt is made and not logged yet, and the pass over the
\* event is done with the webhook.
InLog(e, h) == \E w \in Workers : pc[w] = "log" /\ at[w] = <<e, h>>
Passed(e, h) == \E w \in Workers : pc[w] \in {"targets", "log"} /\ at[w][1] = e /\ h \notin targets[w]

\* What the dispatcher may still post without a row to count it in.
Fresh(e, h) == IF InLog(e, h) THEN MaxAttempts - 1
               ELSE IF event[e] # "dispatched" /\ ~Passed(e, h) THEN MaxAttempts ELSE 0

\* A cycle is about to make, or has made, the n-th attempt of row i.
Reposting(i, n) == \E w \in Workers : pc[w] = "repost" /\ at[w] = <<i, n - 1>>
Reposted(i, n) == \E w \in Workers : pc[w] = "update" /\ at[w] = <<i, n - 1>>

\* The attempts the rows may still ask for.
Owed(e, h) ==
  {x \in (DOMAIN log) \X (1..MaxAttempts) :
     /\ log[x[1]].event = e /\ log[x[1]].hook = h /\ x[2] > log[x[1]].attempts
     /\ ~Reposted(x[1], x[2])
     /\ hook[h] = "gone" => Reposting(x[1], x[2])}

AttemptsInv ==
  \A e \in Events, h \in Hooks :
    posts[e][h] + Cardinality(Owed(e, h)) + Fresh(e, h) <= MaxAttempts * (1 + faults)

\* The attempts of a row change only when its result is written.
LEMMA AttemptsStay ==
  ASSUME TypeInv, Next, ~\E w \in Workers : UpdateRow(w), NEW i \in DOMAIN log
  PROVE  log'[i].attempts = log[i].attempts
<1> USE DEF TypeInv, TypeOK
<1>1. log \in Seq(Rows) /\ log[i] \in Rows
  BY RowAt DEF TablesOK
<1>2. ASSUME NEW w \in Workers, NEW r \in retries[w], ClearRetry(w, r)
      PROVE  log'[i].attempts = log[i].attempts
  <2>1. r[1] \in DOMAIN log /\ log[r[1]] \in Rows
    BY RowAt DEF CyclesOK, TablesOK
  <2> QED BY <1>1, <1>2, <2>1 DEF ClearRetry, Rows
<1>3. ASSUME NEW w \in Workers, LogAttempt(w) PROVE log'[i].attempts = log[i].attempts
  <2>1. i \in 1..Len(log)
    BY <1>1
  <2>2. log' = log \/ log' = Append(log, Row(at[w][1], at[w][2], 1, ok[w]))
    BY <1>3 DEF LogAttempt
  <2> QED BY <1>1, <2>1, <2>2
<1>4. ASSUME NEW j \in DOMAIN log, BackoffEnds(j) PROVE log'[i].attempts = log[i].attempts
  <2>1. log[j] \in Rows
    BY <1>1, RowAt
  <2> QED BY <1>1, <1>4, <2>1 DEF BackoffEnds, Rows
<1>5. CASE log' = log
  BY <1>5
<1> QED
  BY <1>2, <1>3, <1>4, <1>5
  DEF Next, Cycle, Crash, LoadRetries, LoadRetriesFails, Retry, CheckRetry, SkipRetry, Repost,
      UpdateLost, LoadEvents, Dispatch, Match, MatchFails, Post, LogLost, MarkDispatched, MarkLost,
      EndCycle, Emit, SwitchHook, tables

\* The result of an attempt is written with the number read at the beginning.
LEMMA UpdateCounts ==
  ASSUME TypeInv, NEW w \in Workers, UpdateRow(w), NEW i \in DOMAIN log
  PROVE  /\ DOMAIN log' = DOMAIN log
         /\ log'[i].event = log[i].event /\ log'[i].hook = log[i].hook
         /\ log'[i].attempts = IF i = at[w][1] /\ hook[log[i].hook] # "gone" THEN at[w][2] + 1
                               ELSE log[i].attempts
<1>1. at[w][1] \in DOMAIN log /\ log[i] \in Rows
  BY RowAt DEF UpdateRow, TypeInv, TypeOK, TablesOK, HandOK
<1>2. CASE hook[log[at[w][1]].hook] = "gone"
  <2>1. log' = log
    BY <1>2 DEF UpdateRow
  <2> QED BY <1>1, <1>2, <2>1
<1>3. CASE hook[log[at[w][1]].hook] # "gone"
  <2> DEFINE j == at[w][1]
             row == Row(log[j].event, log[j].hook, at[w][2] + 1, ok[w])
  <2>1. log' = [log EXCEPT ![j] = row]
    BY <1>3 DEF UpdateRow
  <2>2. row.event = log[j].event /\ row.hook = log[j].hook /\ row.attempts = at[w][2] + 1
    BY DEF Row
  <2> HIDE DEF row
  <2> QED BY <1>1, <1>3, <2>1, <2>2
<1> QED BY <1>2, <1>3

\* A step of no cycle leaves what the cycles hold; the one cycle takes every
\* other step.
LEMMA OneCycle ==
  ASSUME SingleCycle, Next, NEW w \in Workers
  PROVE  \/ Cycle(w) \/ Crash(w)
         \/ UNCHANGED local /\ ~\E v \in Workers : UpdateRow(v)
<1>1. ASSUME NEW v \in Workers, Cycle(v) \/ Crash(v) PROVE Cycle(w) \/ Crash(w)
  <2>1. v = w
    BY DEF SingleCycle
  <2> QED BY <1>1, <2>1
<1>2. ASSUME UNCHANGED local, NEW v \in Workers, UpdateRow(v) PROVE Cycle(w) \/ Crash(w)
  <2>1. v = w
    BY DEF SingleCycle
  <2> QED BY <1>2, <2>1 DEF Cycle, Retry
<1>3. ASSUME ~\E v \in Workers : Cycle(v) \/ Crash(v) PROVE UNCHANGED local
  BY <1>3 DEF Next, Emit, BackoffEnds, SwitchHook
<1> QED BY <1>1, <1>2, <1>3

LEMMA RowsStayCurrent ==
  ASSUME SingleCycle, TypeInv, Next, NEW w \in Workers, RowsCurrent(w)
  PROVE  RowsCurrent(w)'
<1> USE DEF RowsCurrent, TypeInv, TypeOK, CyclesOK, Goto, NextIn
<1>1. \A r \in retries[w] : r[1] \in DOMAIN log /\ r \in (DOMAIN log) \X (1..(MaxAttempts - 1))
  OBVIOUS
<1>2. pc[w] \in {"repost", "update"} => at[w][1] \in DOMAIN log
  BY DEF HandOK
<1>3. CASE UpdateRow(w)
  <2>1. pc[w] = "update" /\ pc'[w] = "retries" /\ retries' = retries
    BY <1>3 DEF UpdateRow
  <2>2. ASSUME NEW r \in retries[w] PROVE log'[r[1]].attempts = r[2]
    <3>1. r[1] \in DOMAIN log /\ r[1] # at[w][1]
      BY <1>1, <2>1
    <3>2. log'[r[1]].attempts = log[r[1]].attempts
      BY <1>3, <3>1, UpdateCounts
    <3> QED BY <3>2
  <2> QED BY <2>1, <2>2
<1> SUFFICES ASSUME ~UpdateRow(w) PROVE RowsCurrent(w)'
  BY <1>3
<1>4. \A i \in DOMAIN log : log'[i].attempts = log[i].attempts
  <2>1. ~\E v \in Workers : UpdateRow(v)
    BY DEF SingleCycle
  <2> QED BY <2>1, AttemptsStay
<1>5. CASE retries'[w] \subseteq retries[w] /\ pc'[w] \notin {"repost", "update"}
  BY <1>1, <1>4, <1>5
<1>6. CASE /\ retries'[w] \subseteq retries[w] /\ at'[w] = at[w]
           /\ pc[w] = "repost" \/ pc'[w] = pc[w]
  BY <1>1, <1>2, <1>4, <1>6
<1>7. CASE LoadRetries(w)
  <2>1. /\ retries'[w] = {<<i, log[i].attempts>> : i \in DueRetries} /\ log' = log
        /\ pc'[w] = "retries"
    BY <1>7 DEF LoadRetries, tables
  <2> QED BY <2>1
<1>8. ASSUME NEW r \in retries[w], CheckRetry(w, r) PROVE RowsCurrent(w)'
  <2>1. at'[w] = r /\ retries'[w] = retries[w] \ {r} /\ log' = log
    BY <1>8 DEF CheckRetry, TakeRetry, tables
  <2>2. ASSUME NEW q \in retries'[w] PROVE q[1] # r[1]
    <3>1. q \in retries[w] /\ q # r
      BY <2>1
    <3>2. q[2] = log[q[1]].attempts /\ r[2] = log[r[1]].attempts
      BY <3>1
    <3> QED BY <1>1, <3>1, <3>2
  <2> QED BY <2>1, <2>2
<1>9. ASSUME NEW r \in retries[w], ClearRetry(w, r) \/ SkipRetry(w, r) PROVE RowsCurrent(w)'
  BY <1>6, <1>9 DEF ClearRetry, SkipRetry, TakeRetry
<1>10. CASE Repost(w)
  BY <1>6, <1>10 DEF Repost
<1>11. CASE LoadRetriesFails(w) \/ UpdateLost(w) \/ LoadEvents(w) \/ EndCycle(w) \/ Crash(w)
  BY <1>5, <1>11 DEF LoadRetriesFails, UpdateLost, LoadEvents, EndCycle, Crash
<1>12. CASE Dispatch(w)
  BY <1>5, <1>12 DEF Dispatch, Match, MatchFails, Post, LogAttempt, LogLost, MarkDispatched, MarkLost
<1>13. CASE UNCHANGED local
  BY <1>6, <1>13 DEF local
<1> QED
  BY OneCycle, <1>7, <1>8, <1>9, <1>10, <1>11, <1>12, <1>13 DEF Cycle, Retry

LEMMA EventsStayCurrent ==
  ASSUME SingleCycle, TypeInv, Next, NEW w \in Workers, EventsCurrent(w)
  PROVE  EventsCurrent(w)'
<1> USE DEF EventsCurrent, TypeInv, TypeOK, CyclesOK, TablesOK, Goto, NextIn
<1>1. CASE LoadEvents(w)
  BY <1>1 DEF LoadEvents, tables
<1>2. ASSUME NEW e \in Events, Match(w, e) PROVE EventsCurrent(w)'
  BY <1>2 DEF Match, tables
<1>3. ASSUME NEW h \in Hooks, Post(w, h) PROVE EventsCurrent(w)'
  BY <1>3 DEF Post, tables
<1>4. CASE LogAttempt(w) \/ LogLost(w)
  BY <1>4 DEF LogAttempt, LogLost, tables
<1>5. CASE MarkDispatched(w)
  <2>1. PICK f \in Events : at[w] = <<f>>
    BY <1>5 DEF MarkDispatched, HandOK
  <2>2. event' = [event EXCEPT ![f] = "dispatched"] /\ batch' = batch /\ pc'[w] = "events"
    BY <1>5, <2>1 DEF MarkDispatched
  <2>3. f \notin batch[w]
    BY <1>5, <2>1 DEF MarkDispatched
  <2> QED BY <2>2, <2>3
<1>6. CASE /\ event' = event /\ batch'[w] \subseteq batch[w]
           /\ pc'[w] \notin {"targets", "log"}
  BY <1>6
<1>7. CASE \/ LoadRetries(w) \/ LoadRetriesFails(w) \/ EndCycle(w) \/ Crash(w) \/ Retry(w) \/ MarkLost(w)
  <2>1. CASE LoadRetries(w) \/ LoadRetriesFails(w) \/ EndCycle(w) \/ Crash(w) \/ MarkLost(w)
    BY <1>6, <2>1 DEF LoadRetries, LoadRetriesFails, EndCycle, Crash, MarkLost, tables
  <2>2. CASE Retry(w)
    BY <1>6, <2>2 DEF Retry, CheckRetry, ClearRetry, SkipRetry, TakeRetry, Repost, UpdateRow,
                      UpdateLost, tables
  <2> QED BY <1>7, <2>1, <2>2
<1>8. ASSUME NEW e \in Events, MatchFails(w, e) PROVE EventsCurrent(w)'
  BY <1>6, <1>8 DEF MatchFails, tables
<1>9. CASE UNCHANGED local
  <2>1. /\ pc'[w] = pc[w] /\ at'[w] = at[w] /\ batch'[w] = batch[w] /\ targets'[w] = targets[w]
    BY <1>9 DEF local
  <2>2. \A e \in Events : event[e] = "pending" => event'[e] = "pending"
    <3>1. ASSUME NEW v \in Workers, Cycle(v) \/ Crash(v) PROVE FALSE \/ event' = event \/ MarkDispatched(v)
      BY <3>1 DEF Cycle, Crash, LoadRetries, LoadRetriesFails, Retry, CheckRetry, ClearRetry,
         SkipRetry, Repost, UpdateRow, UpdateLost, LoadEvents, Dispatch, Match, MatchFails, Post,
         LogAttempt, LogLost, MarkLost, EndCycle, tables
    <3>2. ASSUME NEW v \in Workers, MarkDispatched(v) PROVE FALSE
      BY <1>9, <3>2 DEF MarkDispatched, local
    <3>3. ASSUME NEW f \in Events, Emit(f) PROVE \A e \in Events : event[e] = "pending" => event'[e] = "pending"
      BY <3>3 DEF Emit
    <3>4. CASE (\E i \in DOMAIN log : BackoffEnds(i)) \/ \E h \in Hooks, s \in {"on", "off", "gone"} : SwitchHook(h, s)
      BY <3>4 DEF BackoffEnds, SwitchHook
    <3> QED BY <3>1, <3>2, <3>3, <3>4 DEF Next
  <2>3. batch[w] \subseteq Events /\ (pc[w] \in {"targets", "log"} => at[w][1] \in Events)
    BY DEF HandOK
  <2> QED BY <2>1, <2>2, <2>3
<1> QED
  BY OneCycle, <1>1, <1>2, <1>3, <1>4, <1>5, <1>7, <1>8, <1>9 DEF Cycle, Dispatch

LEMMA SnapNext ==
  ASSUME SingleCycle PROVE TypeInv /\ SnapInv /\ [Next]_vars => SnapInv'
<1>1. CASE UNCHANGED vars
  BY <1>1 DEF vars, tables, local, SnapInv, RowsCurrent, EventsCurrent
<1> QED BY <1>1, RowsStayCurrent, EventsStayCurrent DEF SnapInv

-----------------------------------------------------------------------------
(* What a step does to the attempts that are left of a delivery.           *)

Keeps(e, h) ==
  /\ faults' = faults /\ posts'[e][h] = posts[e][h]
  /\ Owed(e, h)' \subseteq Owed(e, h) /\ Fresh(e, h)' <= Fresh(e, h)

\* A failure: the event may be processed again ...
Restarts(e, h) ==
  /\ faults' = faults + 1 /\ posts'[e][h] = posts[e][h]
  /\ Owed(e, h)' \subseteq Owed(e, h)

\* ... or the row keeps the count from before the attempt.
Recounts(e, h) ==
  /\ faults' = faults + 1 /\ posts'[e][h] = posts[e][h]
  /\ \E x : Owed(e, h)' \subseteq Owed(e, h) \cup {x}
  /\ Fresh(e, h)' <= Fresh(e, h)

PostsFirst(e, h) ==
  /\ faults' = faults /\ posts'[e][h] = posts[e][h] + 1
  /\ Owed(e, h)' \subseteq Owed(e, h)
  /\ Fresh(e, h) = MaxAttempts /\ Fresh(e, h)' = MaxAttempts - 1

PostsAgain(e, h) ==
  /\ faults' = faults /\ posts'[e][h] = posts[e][h] + 1
  /\ \E x \in Owed(e, h) : Owed(e, h)' \subseteq Owed(e, h) \ {x}
  /\ Fresh(e, h)' <= Fresh(e, h)

LogsFirst(e, h) ==
  /\ faults' = faults /\ posts'[e][h] = posts[e][h]
  /\ \E i : Owed(e, h)' \subseteq Owed(e, h) \cup ({i} \X (2..MaxAttempts))
  /\ Fresh(e, h) = MaxAttempts - 1 /\ Fresh(e, h)' = 0

AttemptStep(e, h) ==
  \/ Keeps(e, h) \/ Restarts(e, h) \/ Recounts(e, h)
  \/ PostsFirst(e, h) \/ PostsAgain(e, h) \/ LogsFirst(e, h)

\* Nothing more is owed while the rows and what is in hand stay.
LEMMA OwedStays ==
  ASSUME NEW e \in Events, NEW h \in Hooks,
         DOMAIN log' = DOMAIN log,
         \A i \in DOMAIN log : /\ log'[i].event = log[i].event /\ log'[i].hook = log[i].hook
                               /\ log'[i].attempts = log[i].attempts,
         hook[h] = "gone" => hook'[h] = "gone",
         \A w \in Workers : /\ pc'[w] = "repost" => pc[w] = "repost" /\ at'[w] = at[w]
                            /\ pc[w] = "update" => pc'[w] = "update" /\ at'[w] = at[w]
  PROVE  Owed(e, h)' \subseteq Owed(e, h)
<1> SUFFICES ASSUME NEW x \in Owed(e, h)' PROVE x \in Owed(e, h)
  OBVIOUS
<1>1. /\ x \in (DOMAIN log') \X (1..MaxAttempts)
      /\ log'[x[1]].event = e /\ log'[x[1]].hook = h /\ x[2] > log'[x[1]].attempts
      /\ ~Reposted(x[1], x[2])'
      /\ hook'[h] = "gone" => Reposting(x[1], x[2])'
  BY DEF Owed
<1>2. x \in (DOMAIN log) \X (1..MaxAttempts) /\ x[1] \in DOMAIN log
  BY <1>1
<1>3. log[x[1]].event = e /\ log[x[1]].hook = h /\ x[2] > log[x[1]].attempts
  BY <1>1, <1>2
<1>4. ~Reposted(x[1], x[2])
  BY <1>1 DEF Reposted
<1>5. hook[h] = "gone" => Reposting(x[1], x[2])
  BY <1>1 DEF Reposting
<1> QED BY <1>2, <1>3, <1>4, <1>5 DEF Owed

\* Outside a pass over an event nothing but its mark counts.
LEMMA FreshOutside ==
  ASSUME SingleCycle, NEW w \in Workers, NEW e \in Events, NEW h \in Hooks,
         pc[w] \notin {"targets", "log"}
  PROVE  Fresh(e, h) = IF event[e] # "dispatched" THEN MaxAttempts ELSE 0
<1>1. \A v \in Workers : v = w
  BY DEF SingleCycle
<1>2. ~InLog(e, h) /\ ~Passed(e, h)
  BY <1>1 DEF InLog, Passed
<1> QED BY <1>2 DEF Fresh

LEMMA FreshOutsideNext ==
  ASSUME SingleCycle, NEW w \in Workers, NEW e \in Events, NEW h \in Hooks,
         pc'[w] \notin {"targets", "log"}
  PROVE  Fresh(e, h)' = IF event'[e] # "dispatched" THEN MaxAttempts ELSE 0
<1>1. \A v \in Workers : v = w
  BY DEF SingleCycle
<1>2. ~InLog(e, h)' /\ ~Passed(e, h)'
  BY <1>1 DEF InLog, Passed
<1> QED BY <1>2 DEF Fresh

LEMMA FreshType == ASSUME NEW e, NEW h PROVE Fresh(e, h) \in 0..MaxAttempts
BY WebhookDeliveryAssumption DEF Fresh

LEMMA FreshTypeNext == ASSUME NEW e, NEW h PROVE Fresh(e, h)' \in 0..MaxAttempts
BY WebhookDeliveryAssumption DEF Fresh

\* What a post adds to the count.
LEMMA PostCounts ==
  ASSUME TypeInv, NEW w \in Workers, NEW f \in Events, NEW k \in Hooks, Deliver(w, f, k),
         NEW e \in Events, NEW h \in Hooks
  PROVE  posts'[e][h] = IF e = f /\ h = k THEN posts[e][h] + 1 ELSE posts[e][h]
BY DEF Deliver, TypeInv, TypeOK, WorldOK

\* The steps in which a cycle moves on without posting or writing a row.
LEMMA FrameAttempts ==
  ASSUME SingleCycle, TypeInv, NEW w \in Workers, NEW e \in Events, NEW h \in Hooks,
         UNCHANGED <<event, hook, posts>>, faults' = faults \/ faults' = faults + 1,
         pc[w] \notin {"targets", "log", "update"}, pc'[w] \notin {"targets", "log", "repost"},
         DOMAIN log' = DOMAIN log,
         \A i \in DOMAIN log : /\ log'[i].event = log[i].event /\ log'[i].hook = log[i].hook
                               /\ log'[i].attempts = log[i].attempts
  PROVE  Keeps(e, h) \/ Restarts(e, h)
<1>1. \A v \in Workers : v = w
  BY DEF SingleCycle
<1>2. Owed(e, h)' \subseteq Owed(e, h)
  BY <1>1, OwedStays
<1>3. Fresh(e, h)' = Fresh(e, h) /\ Fresh(e, h) \in Nat
  BY FreshOutside, FreshOutsideNext, FreshType
<1> QED BY <1>2, <1>3 DEF Keeps, Restarts

LEMMA FrameSteps ==
  ASSUME SingleCycle, TypeInv, NEW w \in Workers, NEW e \in Events, NEW h \in Hooks,
         \/ LoadRetries(w) \/ LoadRetriesFails(w) \/ LoadEvents(w) \/ EndCycle(w)
         \/ \E r \in retries[w] : ClearRetry(w, r) \/ SkipRetry(w, r)
         \/ \E f \in Events : MatchFails(w, f)
  PROVE  Keeps(e, h) \/ Restarts(e, h)
<1> USE DEF TypeInv, TypeOK, CyclesOK, Goto, tables, world
<1>1. CASE LoadRetries(w) \/ LoadRetriesFails(w)
  BY <1>1, FrameAttempts DEF LoadRetries, LoadRetriesFails, Fault
<1>2. CASE LoadEvents(w) \/ EndCycle(w)
  BY <1>2, FrameAttempts DEF LoadEvents, EndCycle
<1>3. ASSUME NEW r \in retries[w], ClearRetry(w, r) PROVE Keeps(e, h) \/ Restarts(e, h)
  <2>1. r[1] \in DOMAIN log
    OBVIOUS
  <2>2. log[r[1]] \in Rows
    BY <2>1, RowAt DEF TablesOK
  <2>3. /\ UNCHANGED <<event, hook, posts, faults>> /\ pc' = pc /\ pc[w] = "retries"
        /\ log' = [log EXCEPT ![r[1]].retry = "none"]
    BY <1>3 DEF ClearRetry, TakeRetry
  <2>4. /\ DOMAIN log' = DOMAIN log
        /\ \A i \in DOMAIN log : /\ log'[i].event = log[i].event /\ log'[i].hook = log[i].hook
                                 /\ log'[i].attempts = log[i].attempts
    BY <2>1, <2>2, <2>3 DEF Rows
  <2> QED BY <2>3, <2>4, FrameAttempts
<1>4. ASSUME NEW r \in retries[w], SkipRetry(w, r) PROVE Keeps(e, h) \/ Restarts(e, h)
  BY <1>4, FrameAttempts DEF SkipRetry, TakeRetry, Fault
<1>5. ASSUME NEW f \in Events, MatchFails(w, f) PROVE Keeps(e, h) \/ Restarts(e, h)
  BY <1>5, FrameAttempts DEF MatchFails, Fault
<1> QED BY <1>1, <1>2, <1>3, <1>4, <1>5

\* A cycle that forgets the attempt it has made leaves it owed again.
LEMMA UpdateForgotten ==
  ASSUME SingleCycle, TypeInv, NEW w \in Workers, NEW e \in Events, NEW h \in Hooks,
         pc[w] = "update", pc'[w] \in {"idle", "retries"}, faults' = faults + 1,
         UNCHANGED <<event, hook, log, posts>>
  PROVE  Recounts(e, h)
<1>1. \A v \in Workers : v = w
  BY DEF SingleCycle
<1> DEFINE i == at[w][1]
           n == at[w][2]
<1>2. at[w] = <<i, n>> /\ n \in Nat
  BY WebhookDeliveryAssumption DEF TypeInv, HandOK
<1> HIDE DEF i, n
<1>3. Fresh(e, h)' = Fresh(e, h) /\ Fresh(e, h) \in Nat
  BY FreshOutside, FreshOutsideNext, FreshType
<1>4. ASSUME NEW x \in Owed(e, h)' PROVE x \in Owed(e, h) \/ x = <<i, n + 1>>
  <2>1. /\ x \in (DOMAIN log) \X (1..MaxAttempts)
        /\ log[x[1]].event = e /\ log[x[1]].hook = h /\ x[2] > log[x[1]].attempts
        /\ hook[h] = "gone" => Reposting(x[1], x[2])'
    BY DEF Owed
  <2>2. hook[h] # "gone"
    BY <1>1, <2>1 DEF Reposting
  <2>3. Reposted(x[1], x[2]) => x = <<i, n + 1>>
    <3>1. ASSUME Reposted(x[1], x[2]) PROVE x[1] = i /\ x[2] - 1 = n
      BY <1>1, <1>2, <3>1 DEF Reposted
    <3>2. x[2] \in Nat /\ x = <<x[1], x[2]>>
      BY <2>1
    <3> QED BY <1>2, <3>1, <3>2
  <2> QED BY <2>1, <2>2, <2>3 DEF Owed
<1> QED BY <1>3, <1>4 DEF Recounts

LEMMA RetryAttempts ==
  ASSUME SingleCycle, TypeInv, SnapInv, NEW w \in Workers, Retry(w), NEW e \in Events, NEW h \in Hooks
  PROVE  AttemptStep(e, h)
<1> USE DEF TypeInv, TypeOK, CyclesOK, Goto, NextIn
<1>1. \A v \in Workers : v = w
  BY DEF SingleCycle
<1>2. ASSUME NEW r \in retries[w], CheckRetry(w, r) PROVE Keeps(e, h)
  <2>1. /\ pc[w] = "retries" /\ pc'[w] = "repost" /\ at'[w] = r
        /\ UNCHANGED <<event, hook, log, posts, faults>> /\ hook[log[r[1]].hook] = "on"
    BY <1>2 DEF CheckRetry, TakeRetry, StillActive, tables, world
  <2>2. Fresh(e, h)' = Fresh(e, h) /\ Fresh(e, h) \in Nat
    BY <2>1, FreshOutside, FreshOutsideNext, FreshType
  <2>3. ASSUME NEW x \in Owed(e, h)' PROVE x \in Owed(e, h)
    <3>1. /\ x \in (DOMAIN log) \X (1..MaxAttempts)
          /\ log[x[1]].event = e /\ log[x[1]].hook = h /\ x[2] > log[x[1]].attempts
          /\ hook[h] = "gone" => Reposting(x[1], x[2])'
      BY <2>1 DEF Owed
    <3>2. ~Reposted(x[1], x[2])
      BY <1>1, <2>1 DEF Reposted
    <3>3. hook[h] # "gone"
      <4>1. CASE Reposting(x[1], x[2])'
        BY <1>1, <2>1, <3>1, <4>1 DEF Reposting
      <4> QED BY <3>1, <4>1
    <3> QED BY <3>1, <3>2, <3>3 DEF Owed
  <2> QED BY <2>1, <2>2, <2>3 DEF Keeps
<1>3. CASE Repost(w)
  <2> PICK i \in DOMAIN log, n \in 1..(MaxAttempts - 1) : at[w] = <<i, n>>
    BY <1>3 DEF Repost, HandOK
  <2>1. /\ pc[w] = "repost" /\ pc'[w] = "update" /\ at' = at
        /\ UNCHANGED <<event, hook, log, faults>> /\ Deliver(w, log[i].event, log[i].hook)
    BY <1>3 DEF Repost, tables
  <2>2. i \in DOMAIN log /\ n \in 1..(MaxAttempts - 1) /\ at[w] = <<i, n>>
    OBVIOUS
  <2>3. log[i].event \in Events /\ log[i].hook \in Hooks
    BY <2>2, RowAt DEF TablesOK, Rows
  <2>4. log[i].attempts = n
    BY <2>1, <2>2 DEF SnapInv, RowsCurrent
  <2>5. Fresh(e, h)' = Fresh(e, h) /\ Fresh(e, h) \in Nat
    BY <2>1, FreshOutside, FreshOutsideNext, FreshType
  <2>6. ASSUME NEW x \in Owed(e, h)' PROVE x \in Owed(e, h) /\ x # <<i, n + 1>>
    <3>1. /\ x \in (DOMAIN log) \X (1..MaxAttempts)
          /\ log[x[1]].event = e /\ log[x[1]].hook = h /\ x[2] > log[x[1]].attempts
          /\ ~Reposted(x[1], x[2])'
          /\ hook[h] = "gone" => Reposting(x[1], x[2])'
      BY <2>1 DEF Owed
    <3>2. ~Reposted(x[1], x[2]) /\ ~Reposting(x[1], x[2])'
      BY <1>1, <2>1 DEF Reposted, Reposting
    <3>3. x # <<i, n + 1>>
      <4>1. (n + 1) - 1 = n
        BY <2>2
      <4>2. pc'[w] = "update" /\ at'[w] = <<i, (n + 1) - 1>>
        BY <2>1, <2>2, <4>1
      <4>3. Reposted(i, n + 1)'
        BY <4>2 DEF Reposted
      <4>4. ASSUME x = <<i, n + 1>> PROVE Reposted(x[1], x[2])'
        <5>1. x[1] = i /\ x[2] = n + 1
          BY <4>4
        <5> QED BY <4>3, <5>1
      <4> QED BY <3>1, <4>4
    <3> QED BY <3>1, <3>2, <3>3 DEF Owed
  <2>7. CASE log[i].event = e /\ log[i].hook = h
    <3>1. <<i, n + 1>> \in (DOMAIN log) \X (1..MaxAttempts) /\ n + 1 > log[i].attempts
      BY <2>2, <2>4, WebhookDeliveryAssumption
    <3>2. ~Reposted(i, n + 1)
      BY <1>1, <2>1 DEF Reposted
    <3>3. Reposting(i, n + 1)
      <4>1. (n + 1) - 1 = n
        BY <2>2
      <4> QED BY <2>1, <2>2, <4>1 DEF Reposting
    <3>4. <<i, n + 1>> \in Owed(e, h)
      BY <2>7, <3>1, <3>2, <3>3 DEF Owed
    <3>5. posts'[e][h] = posts[e][h] + 1
      BY <2>1, <2>3, <2>7, PostCounts
    <3>6. Owed(e, h)' \subseteq Owed(e, h) \ {<<i, n + 1>>}
      BY <2>6
    <3> QED BY <2>1, <2>5, <3>4, <3>5, <3>6 DEF PostsAgain, AttemptStep
  <2>8. CASE ~(log[i].event = e /\ log[i].hook = h)
    <3>1. posts'[e][h] = posts[e][h]
      BY <2>1, <2>3, <2>8, PostCounts
    <3>2. Owed(e, h)' \subseteq Owed(e, h)
      BY <2>6
    <3> QED BY <2>1, <2>5, <3>1, <3>2 DEF Keeps, AttemptStep
  <2> QED BY <2>7, <2>8
<1>4. CASE UpdateRow(w)
  <2> DEFINE i == at[w][1]
             n == at[w][2]
  <2>1. /\ pc[w] = "update" /\ pc'[w] = "retries" /\ UNCHANGED <<event, hook, posts, faults>>
    BY <1>4 DEF UpdateRow, world
  <2>2. i \in DOMAIN log /\ n \in 1..(MaxAttempts - 1) /\ at[w] = <<i, n>>
    BY <2>1 DEF HandOK
  <2>3. log[i].attempts = n
    BY <2>1 DEF SnapInv, RowsCurrent
  <2> HIDE DEF i, n
  <2>4. Fresh(e, h)' = Fresh(e, h) /\ Fresh(e, h) \in Nat
    BY <2>1, FreshOutside, FreshOutsideNext, FreshType
  <2>5. ASSUME NEW x \in Owed(e, h)' PROVE x \in Owed(e, h)
    <3>1. /\ x \in (DOMAIN log') \X (1..MaxAttempts)
          /\ log'[x[1]].event = e /\ log'[x[1]].hook = h /\ x[2] > log'[x[1]].attempts
          /\ hook[h] = "gone" => Reposting(x[1], x[2])'
      BY <2>1 DEF Owed
    <3>2. DOMAIN log' = DOMAIN log
      BY <1>4, <2>2, UpdateCounts
    <3>3. x[1] \in DOMAIN log /\ x[2] \in 1..MaxAttempts
      BY <3>1, <3>2
    <3>4. hook[h] # "gone"
      BY <1>1, <2>1, <3>1 DEF Reposting
    <3>5. /\ log[x[1]].event = e /\ log[x[1]].hook = h
          /\ log'[x[1]].attempts = IF x[1] = i THEN n + 1 ELSE log[x[1]].attempts
      BY <1>4, <3>1, <3>3, <3>4, UpdateCounts DEF i, n
    <3>6. x[2] > log[x[1]].attempts /\ (x[1] = i => x[2] > n + 1)
      BY <2>2, <2>3, <3>1, <3>3, <3>5
    <3>7. ~Reposted(x[1], x[2])
      BY <1>1, <2>2, <3>3, <3>6 DEF Reposted
    <3> QED BY <3>1, <3>2, <3>4, <3>5, <3>6, <3>7 DEF Owed
  <2> QED BY <2>1, <2>4, <2>5 DEF Keeps, AttemptStep
<1>5. CASE UpdateLost(w)
  <2>1. /\ pc[w] = "update" /\ pc'[w] = "retries" /\ faults' = faults + 1
        /\ UNCHANGED <<event, hook, log, posts>>
    BY <1>5 DEF UpdateLost, Fault, tables, world
  <2> QED BY <2>1, UpdateForgotten DEF AttemptStep
<1> QED BY <1>2, <1>3, <1>4, <1>5, FrameSteps DEF Retry, AttemptStep

LEMMA LogAttempts ==
  ASSUME SingleCycle, TypeInv, SnapInv, NEW w \in Workers, LogAttempt(w), NEW e \in Events, NEW h \in Hooks
  PROVE  AttemptStep(e, h)
<1> USE DEF TypeInv, TypeOK, CyclesOK, Goto, NextIn
<1>1. \A v \in Workers : v = w
  BY DEF SingleCycle
<1> PICK f \in Events, k \in Hooks : at[w] = <<f, k>>
  BY DEF LogAttempt, HandOK
<1>2. /\ pc[w] = "log" /\ pc'[w] = "targets" /\ at'[w] = <<f>> /\ targets' = targets
      /\ UNCHANGED <<event, hook, posts, faults>> /\ k \notin targets[w]
  BY DEF LogAttempt, world, SnapInv, EventsCurrent
<1>3. log' = log \/ log' = Append(log, Row(f, k, 1, ok[w]))
  BY DEF LogAttempt
<1>4. ASSUME NEW x \in Owed(e, h)'
      PROVE  x \in Owed(e, h) \/ (e = f /\ h = k /\ x \in {Len(log) + 1} \X (2..MaxAttempts))
  <2>1. /\ x \in (DOMAIN log') \X (1..MaxAttempts)
        /\ log'[x[1]].event = e /\ log'[x[1]].hook = h /\ x[2] > log'[x[1]].attempts
        /\ hook[h] = "gone" => Reposting(x[1], x[2])'
    BY <1>2 DEF Owed
  <2>2. hook[h] # "gone" /\ ~Reposted(x[1], x[2])
    BY <1>1, <1>2, <2>1 DEF Reposting, Reposted
  <2>3. CASE log' = log
    BY <2>1, <2>2, <2>3 DEF Owed
  <2>4. CASE log' = Append(log, Row(f, k, 1, ok[w]))
    <3> DEFINE row == Row(f, k, 1, ok[w])
    <3>1. row.event = f /\ row.hook = k /\ row.attempts = 1
      BY DEF Row
    <3>2. log \in Seq(Rows) /\ row \in Rows
      BY WebhookDeliveryAssumption, RowType DEF TablesOK
    <3>3. log' = Append(log, row)
      BY <2>4
    <3> HIDE DEF row
    <3>4. /\ DOMAIN log = 1..Len(log) /\ DOMAIN log' = 1..(Len(log) + 1) /\ Len(log) \in Nat
          /\ \A j \in 1..Len(log) : log'[j] = log[j]
          /\ log'[Len(log) + 1] = row
      BY <3>2, <3>3, AppendProperties
    <3>5. x[1] \in 1..(Len(log) + 1) /\ x[2] \in 1..MaxAttempts /\ x = <<x[1], x[2]>>
      BY <2>1, <3>4
    <3>6. CASE x[1] = Len(log) + 1
      <4>1. e = f /\ h = k /\ x[2] > 1
        BY <2>1, <3>1, <3>4, <3>6
      <4>2. x[2] \in 2..MaxAttempts
        BY <3>5, <4>1, WebhookDeliveryAssumption
      <4> QED BY <3>5, <3>6, <4>1, <4>2
    <3>7. CASE x[1] # Len(log) + 1
      <4>1. x[1] \in DOMAIN log /\ log'[x[1]] = log[x[1]]
        BY <3>4, <3>5, <3>7
      <4>2. x \in (DOMAIN log) \X (1..MaxAttempts)
        BY <3>5, <4>1
      <4> QED BY <2>1, <2>2, <4>1, <4>2 DEF Owed
    <3> QED BY <3>6, <3>7
  <2> QED BY <1>3, <2>3, <2>4
<1>5. CASE e = f /\ h = k
  <2>1. InLog(e, h) /\ ~InLog(e, h)' /\ Passed(e, h)'
    BY <1>1, <1>2, <1>5 DEF InLog, Passed
  <2>2. Fresh(e, h) = MaxAttempts - 1 /\ Fresh(e, h)' = 0
    BY <2>1 DEF Fresh
  <2>3. Owed(e, h)' \subseteq Owed(e, h) \cup ({Len(log) + 1} \X (2..MaxAttempts))
    BY <1>4
  <2> QED BY <1>2, <2>2, <2>3 DEF LogsFirst, AttemptStep
<1>6. CASE ~(e = f /\ h = k)
  <2>1. Owed(e, h)' \subseteq Owed(e, h)
    BY <1>4, <1>6
  <2>2. ~InLog(e, h) /\ ~InLog(e, h)'
    BY <1>1, <1>2, <1>6 DEF InLog
  <2>3. Passed(e, h)' <=> Passed(e, h)
    BY <1>1, <1>2 DEF Passed
  <2>4. Fresh(e, h)' = Fresh(e, h) /\ Fresh(e, h) \in Nat
    BY <1>2, <2>2, <2>3, FreshType DEF Fresh
  <2> QED BY <1>2, <2>1, <2>4 DEF Keeps, AttemptStep
<1> QED BY <1>5, <1>6

LEMMA PostAttempts ==
  ASSUME SingleCycle, TypeInv, SnapInv, NEW w \in Workers, NEW k \in Hooks, Post(w, k),
         NEW e \in Events, NEW h \in Hooks
  PROVE  AttemptStep(e, h)
<1> USE DEF TypeInv, TypeOK, CyclesOK, Goto
<1>1. \A v \in Workers : v = w
  BY DEF SingleCycle
<1> PICK f \in Events : at[w] = <<f>>
  BY DEF Post, HandOK
<1>2. /\ pc[w] = "targets" /\ pc'[w] = "log" /\ at'[w] = <<f, k>>
      /\ targets'[w] = targets[w] \ {k} /\ k \in targets[w]
      /\ UNCHANGED <<event, hook, log, faults>> /\ event[f] = "pending"
  BY DEF Post, tables, SnapInv, EventsCurrent
<1>3. posts'[e][h] = IF e = f /\ h = k THEN posts[e][h] + 1 ELSE posts[e][h]
  BY PostCounts DEF Post
<1>4. Owed(e, h)' \subseteq Owed(e, h)
  BY <1>1, <1>2, OwedStays
<1>5. CASE e = f /\ h = k
  <2>1. ~InLog(e, h) /\ InLog(e, h)' /\ ~Passed(e, h)
    BY <1>1, <1>2, <1>5 DEF InLog, Passed
  <2>2. Fresh(e, h) = MaxAttempts /\ Fresh(e, h)' = MaxAttempts - 1
    BY <1>2, <1>5, <2>1 DEF Fresh
  <2> QED BY <1>2, <1>3, <1>4, <1>5, <2>2 DEF PostsFirst, AttemptStep
<1>6. CASE ~(e = f /\ h = k)
  <2>1. ~InLog(e, h) /\ ~InLog(e, h)'
    BY <1>1, <1>2, <1>6 DEF InLog
  <2>2. Passed(e, h)' <=> Passed(e, h)
    BY <1>1, <1>2, <1>6 DEF Passed
  <2>3. Fresh(e, h)' = Fresh(e, h) /\ Fresh(e, h) \in Nat
    BY <1>2, <2>1, <2>2, FreshType DEF Fresh
  <2> QED BY <1>2, <1>3, <1>4, <1>6, <2>3 DEF Keeps, AttemptStep
<1> QED BY <1>5, <1>6

LEMMA DispatchAttempts ==
  ASSUME SingleCycle, TypeInv, SnapInv, NEW w \in Workers, Dispatch(w), NEW e \in Events, NEW h \in Hooks
  PROVE  AttemptStep(e, h)
<1> USE DEF TypeInv, TypeOK, CyclesOK, Goto, NextIn
<1>1. \A v \in Workers : v = w
  BY DEF SingleCycle
<1>2. ASSUME NEW f \in Events, Match(w, f) PROVE Keeps(e, h)
  <2>1. /\ pc[w] = "events" /\ pc'[w] = "targets" /\ UNCHANGED <<event, hook, log, posts, faults>>
    BY <1>2 DEF Match, tables, world
  <2>2. Owed(e, h)' \subseteq Owed(e, h)
    BY <1>1, <2>1, OwedStays
  <2>3. ~InLog(e, h)'
    BY <1>1, <2>1 DEF InLog
  <2>4. Fresh(e, h)' <= Fresh(e, h)
    <3>1. Fresh(e, h) = IF event[e] # "dispatched" THEN MaxAttempts ELSE 0
      BY <2>1, FreshOutside
    <3> QED BY <2>1, <2>3, <3>1, WebhookDeliveryAssumption DEF Fresh
  <2> QED BY <2>1, <2>2, <2>4 DEF Keeps
<1>3. CASE LogLost(w) \/ MarkLost(w)
  <2>1. /\ pc[w] \in {"log", "targets"} /\ pc'[w] \in {"targets", "events"}
        /\ UNCHANGED <<event, hook, log, posts>> /\ faults' = faults + 1
    BY <1>3 DEF LogLost, MarkLost, Fault, tables, world
  <2>2. Owed(e, h)' \subseteq Owed(e, h)
    BY <1>1, <2>1, OwedStays
  <2> QED BY <2>1, <2>2 DEF Restarts, AttemptStep
<1>4. CASE MarkDispatched(w)
  <2> PICK f \in Events : at[w] = <<f>>
    BY <1>4 DEF MarkDispatched, HandOK
  <2>1. /\ pc[w] = "targets" /\ pc'[w] = "events" /\ UNCHANGED <<hook, log, posts, faults>>
        /\ event' = [event EXCEPT ![f] = "dispatched"]
    BY <1>4 DEF MarkDispatched, world
  <2>2. Owed(e, h)' \subseteq Owed(e, h)
    BY <1>1, <2>1, OwedStays
  <2>3. Fresh(e, h)' = IF event'[e] # "dispatched" THEN MaxAttempts ELSE 0
    BY <2>1, FreshOutsideNext
  <2>4. Fresh(e, h)' <= Fresh(e, h)
    <3>1. CASE e = f
      BY <2>1, <2>3, <3>1, FreshType DEF TablesOK
    <3>2. CASE e # f
      <4>1. ~InLog(e, h) /\ ~Passed(e, h) /\ event'[e] = event[e]
        BY <1>1, <2>1, <3>2 DEF InLog, Passed
      <4> QED BY <2>3, <4>1, WebhookDeliveryAssumption DEF Fresh
    <3> QED BY <3>1, <3>2
  <2> QED BY <2>1, <2>2, <2>4 DEF Keeps, AttemptStep
<1> QED
  BY <1>2, <1>3, <1>4, FrameSteps, PostAttempts, LogAttempts DEF Dispatch, AttemptStep

LEMMA CrashAttempts ==
  ASSUME SingleCycle, TypeInv, NEW w \in Workers, Crash(w), NEW e \in Events, NEW h \in Hooks
  PROVE  AttemptStep(e, h)
<1>1. \A v \in Workers : v = w
  BY DEF SingleCycle
<1>2. /\ pc'[w] = "idle" /\ UNCHANGED <<event, hook, log, posts>> /\ faults' = faults + 1
  BY DEF Crash, Goto, NextIn, Fault, tables, world, TypeInv, TypeOK, CyclesOK
<1>3. CASE pc[w] = "update"
  BY <1>2, <1>3, UpdateForgotten DEF AttemptStep
<1>4. CASE pc[w] # "update"
  <2>1. Owed(e, h)' \subseteq Owed(e, h)
    BY <1>1, <1>2, <1>4, OwedStays
  <2> QED BY <1>2, <2>1 DEF Restarts, AttemptStep
<1> QED BY <1>3, <1>4

LEMMA WorldAttempts ==
  ASSUME TypeInv, NEW e \in Events, NEW h \in Hooks,
         \/ \E f \in Events : Emit(f)
         \/ \E i \in DOMAIN log : BackoffEnds(i)
         \/ \E k \in Hooks, s \in {"on", "off", "gone"} : SwitchHook(k, s)
  PROVE  Keeps(e, h)
<1> USE DEF TypeInv, TypeOK, TablesOK
<1>1. /\ UNCHANGED <<pc, at, targets, posts, faults>>
  BY DEF Emit, BackoffEnds, SwitchHook, local, world
<1>2. hook[h] = "gone" => hook'[h] = "gone"
  BY DEF Emit, BackoffEnds, SwitchHook
<1>3. event'[e] = "dispatched" <=> event[e] = "dispatched"
  BY DEF Emit, BackoffEnds, SwitchHook
<1>4. /\ DOMAIN log' = DOMAIN log
      /\ \A i \in DOMAIN log : /\ log'[i].event = log[i].event /\ log'[i].hook = log[i].hook
                               /\ log'[i].attempts = log[i].attempts
  <2>1. ASSUME NEW j \in DOMAIN log, BackoffEnds(j)
        PROVE  /\ DOMAIN log' = DOMAIN log
               /\ \A i \in DOMAIN log : /\ log'[i].event = log[i].event /\ log'[i].hook = log[i].hook
                                        /\ log'[i].attempts = log[i].attempts
    <3>1. log[j] \in Rows
      BY RowAt
    <3> QED BY <2>1, <3>1 DEF BackoffEnds, Rows
  <2>2. CASE log' = log
    BY <2>2
  <2> QED BY <2>1, <2>2 DEF Emit, SwitchHook
<1>5. Owed(e, h)' \subseteq Owed(e, h)
  BY <1>1, <1>2, <1>4, OwedStays
<1>6. Fresh(e, h)' = Fresh(e, h) /\ Fresh(e, h) \in Nat
  <2>1. InLog(e, h)' <=> InLog(e, h)
    BY <1>1 DEF InLog
  <2>2. Passed(e, h)' <=> Passed(e, h)
    BY <1>1 DEF Passed
  <2>3. Fresh(e, h)' = Fresh(e, h)
    BY <1>3, <2>1, <2>2 DEF Fresh
  <2> QED BY <2>3, FreshType
<1> QED BY <1>1, <1>5, <1>6 DEF Keeps

LEMMA EveryAttemptStep ==
  ASSUME SingleCycle, TypeInv, SnapInv, Next, NEW e \in Events, NEW h \in Hooks
  PROVE  AttemptStep(e, h)
<1>1. ASSUME NEW w \in Workers, Cycle(w) PROVE AttemptStep(e, h)
  BY <1>1, FrameSteps, RetryAttempts, DispatchAttempts DEF Cycle, AttemptStep
<1> QED BY <1>1, CrashAttempts, WorldAttempts DEF Next, AttemptStep

\* None of these steps spends more than it has.
LEMMA OwedIsFinite ==
  ASSUME TypeInv, NEW e, NEW h
  PROVE  IsFiniteSet(Owed(e, h)) /\ Cardinality(Owed(e, h)) \in Nat
<1>1. DOMAIN log = 1..Len(log) /\ Len(log) \in Int
  BY DEF TypeInv, TypeOK, TablesOK
<1>2. IsFiniteSet(DOMAIN log) /\ IsFiniteSet(1..MaxAttempts)
  BY <1>1, FS_Interval, WebhookDeliveryAssumption
<1>3. IsFiniteSet((DOMAIN log) \X (1..MaxAttempts))
  BY <1>2, FS_Product
<1>4. IsFiniteSet(Owed(e, h))
  BY <1>3, FS_Subset DEF Owed
<1> QED BY <1>4, FS_CardinalityType

LEMMA NewRowOwes ==
  ASSUME NEW S, IsFiniteSet(S), NEW T, NEW i, T \subseteq S \cup ({i} \X (2..MaxAttempts))
  PROVE  Cardinality(T) \in Nat /\ Cardinality(T) <= Cardinality(S) + (MaxAttempts - 1)
<1> DEFINE R == {i} \X (2..MaxAttempts)
<1>1. IsFiniteSet({i}) /\ Cardinality({i}) = 1
  BY FS_Singleton
<1>2. IsFiniteSet(2..MaxAttempts) /\ Cardinality(2..MaxAttempts) = MaxAttempts - 1
  <2>1. /\ IsFiniteSet(2..MaxAttempts)
        /\ Cardinality(2..MaxAttempts) = IF 2 > MaxAttempts THEN 0 ELSE MaxAttempts - 2 + 1
    BY FS_Interval, WebhookDeliveryAssumption
  <2> QED BY <2>1, WebhookDeliveryAssumption
<1>3. IsFiniteSet(R) /\ Cardinality(R) = MaxAttempts - 1
  <2>1. IsFiniteSet(R) /\ Cardinality(R) = Cardinality({i}) * Cardinality(2..MaxAttempts)
    BY <1>1, <1>2, FS_Product
  <2> QED BY <1>1, <1>2, <2>1, WebhookDeliveryAssumption
<1> HIDE DEF R
<1>4. /\ IsFiniteSet(S \cup R)
      /\ Cardinality(S \cup R) = Cardinality(S) + Cardinality(R) - Cardinality(S \cap R)
  BY <1>3, FS_Union
<1>5. Cardinality(S) \in Nat /\ Cardinality(R) \in Nat /\ Cardinality(S \cap R) \in Nat
  BY <1>3, FS_Subset, FS_CardinalityType
<1>6. T \subseteq S \cup R
  BY DEF R
<1>7. IsFiniteSet(T) /\ Cardinality(T) <= Cardinality(S \cup R) /\ Cardinality(T) \in Nat
  BY <1>4, <1>6, FS_Subset, FS_CardinalityType
<1> QED BY <1>3, <1>4, <1>5, <1>7, WebhookDeliveryAssumption

LEMMA AttemptsStepKeep ==
  ASSUME TypeInv, TypeInv', NEW e \in Events, NEW h \in Hooks, AttemptStep(e, h),
         posts[e][h] + Cardinality(Owed(e, h)) + Fresh(e, h) <= MaxAttempts * (1 + faults)
  PROVE  posts'[e][h] + Cardinality(Owed(e, h)') + Fresh(e, h)' <= MaxAttempts * (1 + faults')
<1>1. /\ posts[e][h] \in Nat /\ posts'[e][h] \in Nat /\ faults \in Nat /\ faults' \in Nat
      /\ MaxAttempts \in Nat /\ MaxAttempts >= 1
  BY WebhookDeliveryAssumption DEF TypeInv, TypeOK, WorldOK
<1>2. IsFiniteSet(Owed(e, h)) /\ Cardinality(Owed(e, h)) \in Nat
  BY OwedIsFinite
<1>3. Fresh(e, h) \in 0..MaxAttempts /\ Fresh(e, h)' \in 0..MaxAttempts
  BY FreshType, FreshTypeNext
<1>4. faults' = faults + 1 => MaxAttempts * (1 + faults') = MaxAttempts * (1 + faults) + MaxAttempts
  <2>1. \A m \in Nat, n \in Nat : m * (1 + (n + 1)) = m * (1 + n) + m
    OBVIOUS
  <2> QED BY <1>1, <2>1
<1>5. MaxAttempts * (1 + faults) \in Nat
  BY <1>1
<1>6. Owed(e, h)' \subseteq Owed(e, h)
      => Cardinality(Owed(e, h)') \in Nat /\ Cardinality(Owed(e, h)') <= Cardinality(Owed(e, h))
  BY <1>2, FS_Subset, FS_CardinalityType
<1>7. CASE Keeps(e, h)
  BY <1>1, <1>2, <1>3, <1>5, <1>6, <1>7 DEF Keeps
<1>8. CASE Restarts(e, h)
  BY <1>1, <1>2, <1>3, <1>4, <1>5, <1>6, <1>8 DEF Restarts
<1>9. CASE Recounts(e, h)
  <2> PICK x : Owed(e, h)' \subseteq Owed(e, h) \cup {x}
    BY <1>9 DEF Recounts
  <2>1. /\ IsFiniteSet(Owed(e, h) \cup {x}) /\ Cardinality(Owed(e, h) \cup {x}) \in Nat
        /\ Cardinality(Owed(e, h) \cup {x}) <= Cardinality(Owed(e, h)) + 1
    BY <1>2, OneMoreElement
  <2>2. Cardinality(Owed(e, h)') \in Nat /\ Cardinality(Owed(e, h)') <= Cardinality(Owed(e, h)) + 1
    BY <1>2, <2>1, FS_Subset, FS_CardinalityType
  <2> QED BY <1>1, <1>2, <1>3, <1>4, <1>5, <1>9, <2>2 DEF Recounts
<1>10. CASE PostsFirst(e, h)
  BY <1>1, <1>2, <1>3, <1>5, <1>6, <1>10 DEF PostsFirst
<1>11. CASE PostsAgain(e, h)
  <2> PICK x \in Owed(e, h) : Owed(e, h)' \subseteq Owed(e, h) \ {x}
    BY <1>11 DEF PostsAgain
  <2>1. /\ IsFiniteSet(Owed(e, h) \ {x})
        /\ Cardinality(Owed(e, h) \ {x}) = Cardinality(Owed(e, h)) - 1
    BY <1>2, FS_RemoveElement
  <2>2. Cardinality(Owed(e, h)') \in Nat /\ Cardinality(Owed(e, h)') <= Cardinality(Owed(e, h)) - 1
    BY <2>1, FS_Subset, FS_CardinalityType
  <2> QED BY <1>1, <1>2, <1>3, <1>5, <1>11, <2>2 DEF PostsAgain
<1>12. CASE LogsFirst(e, h)
  <2> PICK i : Owed(e, h)' \subseteq Owed(e, h) \cup ({i} \X (2..MaxAttempts))
    BY <1>12 DEF LogsFirst
  <2>1. /\ Cardinality(Owed(e, h)') \in Nat
        /\ Cardinality(Owed(e, h)') <= Cardinality(Owed(e, h)) + (MaxAttempts - 1)
    BY <1>2, NewRowOwes
  <2> QED BY <1>1, <1>2, <1>3, <1>5, <1>12, <2>1 DEF LogsFirst
<1> QED BY <1>7, <1>8, <1>9, <1>10, <1>11, <1>12 DEF AttemptStep

LEMMA AttemptsNext ==
  ASSUME SingleCycle
  PROVE  TypeInv /\ TypeInv' /\ SnapInv /\ AttemptsInv /\ [Next]_vars => AttemptsInv'
<1>1. ASSUME AttemptsInv, UNCHANGED vars PROVE AttemptsInv'
  <2> SUFFICES ASSUME NEW e \in Events, NEW h \in Hooks
               PROVE  posts'[e][h] + Cardinality(Owed(e, h)') + Fresh(e, h)' <= MaxAttempts * (1 + faults')
    BY DEF AttemptsInv
  <2>1. UNCHANGED <<event, hook, log, pc, targets, at, posts, faults>>
    BY <1>1 DEF vars, tables, local, world
  <2>2. Owed(e, h)' = Owed(e, h)
    BY <2>1 DEF Owed, Reposting, Reposted
  <2>3. InLog(e, h)' <=> InLog(e, h)
    BY <2>1 DEF InLog
  <2>4. Passed(e, h)' <=> Passed(e, h)
    BY <2>1 DEF Passed
  <2>5. Fresh(e, h)' = Fresh(e, h)
    BY <2>1, <2>3, <2>4 DEF Fresh
  <2>6. Cardinality(Owed(e, h)') = Cardinality(Owed(e, h))
    BY <2>2
  <2> QED BY <1>1, <2>1, <2>5, <2>6 DEF AttemptsInv
<1>2. ASSUME TypeInv, TypeInv', SnapInv, AttemptsInv, Next, NEW e \in Events, NEW h \in Hooks
      PROVE  posts'[e][h] + Cardinality(Owed(e, h)') + Fresh(e, h)' <= MaxAttempts * (1 + faults')
  <2>1. AttemptStep(e, h)
    BY <1>2, EveryAttemptStep
  <2> QED BY <1>2, <2>1, AttemptsStepKeep DEF AttemptsInv
<1> QED BY <1>1, <1>2 DEF AttemptsInv

\* With one cycle at a time an event is posted to a webhook at most
\* MaxAttempts times, and each crash or failed write at most starts the count
\* afresh, whatever is switched off, deleted or lost meanwhile.
THEOREM AttemptsAreBounded == ASSUME SingleCycle PROVE Spec => []AttemptsBounded
<1>1. Init => SnapInv
  BY DEF Init, SnapInv, RowsCurrent, EventsCurrent
<1>2. Init => AttemptsInv
  <2> SUFFICES ASSUME Init, NEW e \in Events, NEW h \in Hooks
               PROVE  posts[e][h] + Cardinality(Owed(e, h)) + Fresh(e, h) <= MaxAttempts * (1 + faults)
    BY DEF AttemptsInv
  <2>1. DOMAIN log = {}
    BY DEF Init
  <2>2. Owed(e, h) = {}
    BY <2>1 DEF Owed
  <2>3. Cardinality(Owed(e, h)) = 0 /\ posts[e][h] = 0 /\ faults = 0
    BY <2>2, FS_EmptySet DEF Init
  <2>4. Fresh(e, h) \in 0..MaxAttempts
    BY FreshType
  <2> QED BY <2>3, <2>4, WebhookDeliveryAssumption
<1>3. TypeInv /\ AttemptsInv => AttemptsBounded
  <2> SUFFICES ASSUME TypeInv, AttemptsInv, NEW e \in Events, NEW h \in Hooks
               PROVE  posts[e][h] <= MaxAttempts * (1 + faults)
    BY DEF AttemptsBounded
  <2>1. /\ posts[e][h] \in Nat /\ Cardinality(Owed(e, h)) \in Nat /\ Fresh(e, h) \in 0..MaxAttempts
        /\ MaxAttempts * (1 + faults) \in Nat
    BY OwedIsFinite, FreshType, WebhookDeliveryAssumption DEF TypeInv, TypeOK, WorldOK
  <2> QED BY <2>1 DEF AttemptsInv
<1> QED BY TypeInit, TypeNext, SnapNext, AttemptsNext, <1>1, <1>2, <1>3, PTL DEF Spec

-----------------------------------------------------------------------------
(* Duplicates.  For one cycle at a time every chance a delivery still has  *)
(* is counted with what was received of it; only a lost answer or a        *)
(* failure gives it a chance more than it should have.                     *)

\* A row that is, or is about to be, retried is still open.
DueInv ==
  \A w \in Workers :
    /\ \A r \in retries[w] : log[r[1]].retry # "none"
    /\ pc[w] \in {"repost", "update"} => log[at[w][1]].retry # "none"

InHand(i) == \E w \in Workers : pc[w] = "repost" /\ at[w][1] = i
Done(i) == \E w \in Workers : pc[w] = "update" /\ at[w][1] = i /\ ok[w]

\* The rows from which the delivery may still be made.
OpenRows(e, h) ==
  {i \in DOMAIN log : /\ log[i].event = e /\ log[i].hook = h /\ log[i].retry # "none"
                      /\ ~Done(i)
                      /\ hook[h] = "gone" => InHand(i)}

\* It may still be made without a row, or a row is about to be added for it.
Answered(e, h) == \E w \in Workers : pc[w] = "log" /\ at[w] = <<e, h>> /\ ok[w]
FirstOpen(e, h) ==
  IF Answered(e, h) THEN 0
  ELSE IF InLog(e, h) \/ (event[e] # "dispatched" /\ ~Passed(e, h)) THEN 1 ELSE 0

Chances(e, h) == received[e][h] + Cardinality(OpenRows(e, h)) + FirstOpen(e, h)

\* The chances beyond the first of each delivery.
Spare == {x \in (Events \X Hooks) \X Nat : x[2] > 1 /\ x[2] <= Chances(x[1][1], x[1][2])}
SpareInv == IsFiniteSet(Spare) /\ Cardinality(Spare) <= lost + faults * Cardinality(Hooks)

LEMMA DueNext ==
  ASSUME SingleCycle PROVE TypeInv /\ SnapInv /\ DueInv /\ [Next]_vars => DueInv'
<1> SUFFICES ASSUME TypeInv, SnapInv, DueInv, [Next]_vars, NEW w \in Workers
             PROVE  /\ \A r \in retries'[w] : log'[r[1]].retry # "none"
                    /\ pc'[w] \in {"repost", "update"} => log'[at'[w][1]].retry # "none"
  BY DEF DueInv
<1>1. CASE UNCHANGED vars
  BY <1>1 DEF vars, tables, local, DueInv
<1> SUFFICES ASSUME Next
             PROVE  /\ \A r \in retries'[w] : log'[r[1]].retry # "none"
                    /\ pc'[w] \in {"repost", "update"} => log'[at'[w][1]].retry # "none"
  BY <1>1
<1> USE DEF TypeInv, TypeOK, CyclesOK, Goto, NextIn
<1>2. /\ \A r \in retries[w] : r[1] \in DOMAIN log /\ log[r[1]].retry # "none"
      /\ pc[w] \in {"repost", "update"} => at[w][1] \in DOMAIN log /\ log[at[w][1]].retry # "none"
  BY DEF HandOK, DueInv
<1>3. ASSUME \A i \in DOMAIN log : log[i].retry # "none" => log'[i].retry # "none",
             retries'[w] \subseteq retries[w],
             pc'[w] \in {"repost", "update"} =>
               \/ pc[w] \in {"repost", "update"} /\ at'[w] = at[w]
               \/ at'[w] \in retries[w]
      PROVE  /\ \A r \in retries'[w] : log'[r[1]].retry # "none"
             /\ pc'[w] \in {"repost", "update"} => log'[at'[w][1]].retry # "none"
  BY <1>2, <1>3
<1>4. CASE LoadRetries(w)
  <2>1. /\ retries'[w] = {<<i, log[i].attempts>> : i \in DueRetries} /\ log' = log
        /\ pc'[w] = "retries"
    BY <1>4 DEF LoadRetries, tables
  <2>2. \A i \in DueRetries : log[i].retry = "due"
    BY DEF DueRetries
  <2> QED BY <2>1, <2>2
<1>5. ASSUME NEW r \in retries[w], ClearRetry(w, r)
      PROVE  /\ \A q \in retries'[w] : log'[q[1]].retry # "none"
             /\ pc'[w] \in {"repost", "update"} => log'[at'[w][1]].retry # "none"
  <2>1. /\ pc' = pc /\ pc[w] = "retries" /\ retries'[w] = retries[w] \ {r}
        /\ log' = [log EXCEPT ![r[1]].retry = "none"]
    BY <1>5 DEF ClearRetry, TakeRetry
  <2>2. ASSUME NEW q \in retries[w], q # r PROVE q[1] # r[1]
    <3>1. q[2] = log[q[1]].attempts /\ r[2] = log[r[1]].attempts
      BY DEF SnapInv, RowsCurrent
    <3> QED BY <2>2, <3>1
  <2>3. ASSUME NEW q \in retries'[w] PROVE log'[q[1]].retry # "none"
    <3>1. q \in retries[w] /\ q[1] # r[1]
      BY <2>1, <2>2
    <3>2. log'[q[1]] = log[q[1]]
      BY <1>2, <2>1, <3>1
    <3> QED BY <1>2, <3>1, <3>2
  <2> QED BY <2>1, <2>3
<1>6. CASE UpdateRow(w)
  <2>1. pc[w] = "update" /\ pc'[w] = "retries" /\ retries' = retries
    BY <1>6 DEF UpdateRow
  <2>2. ASSUME NEW q \in retries[w] PROVE log'[q[1]] = log[q[1]]
    <3>1. q[1] # at[w][1]
      BY <2>1 DEF SnapInv, RowsCurrent
    <3>2. log' = log \/ \E x : log' = [log EXCEPT ![at[w][1]] = x]
      BY <1>6 DEF UpdateRow
    <3> QED BY <1>2, <3>1, <3>2
  <2> QED BY <1>2, <2>1, <2>2
<1>7. CASE LogAttempt(w)
  <2>1. pc'[w] = "targets" /\ retries' = retries
    BY <1>7 DEF LogAttempt
  <2>2. log' = log \/ log' = Append(log, Row(at[w][1], at[w][2], 1, ok[w]))
    BY <1>7 DEF LogAttempt
  <2>3. \A i \in 1..Len(log) : log'[i] = log[i]
    BY <2>2 DEF TablesOK
  <2>4. DOMAIN log = 1..Len(log)
    BY DEF TablesOK
  <2> QED BY <1>2, <2>1, <2>3, <2>4
<1>8. ASSUME NEW r \in retries[w], CheckRetry(w, r)
      PROVE  /\ \A q \in retries'[w] : log'[q[1]].retry # "none"
             /\ pc'[w] \in {"repost", "update"} => log'[at'[w][1]].retry # "none"
  BY <1>3, <1>8 DEF CheckRetry, TakeRetry, tables
<1>9. ASSUME NEW r \in retries[w], SkipRetry(w, r)
      PROVE  /\ \A q \in retries'[w] : log'[q[1]].retry # "none"
             /\ pc'[w] \in {"repost", "update"} => log'[at'[w][1]].retry # "none"
  BY <1>3, <1>9 DEF SkipRetry, TakeRetry, tables
<1>10. CASE Repost(w)
  BY <1>3, <1>10 DEF Repost, tables
<1>11. CASE LoadRetriesFails(w) \/ UpdateLost(w) \/ LoadEvents(w) \/ EndCycle(w) \/ Crash(w)
  BY <1>3, <1>11 DEF LoadRetriesFails, UpdateLost, LoadEvents, EndCycle, Crash, tables
<1>12. CASE Dispatch(w) /\ ~LogAttempt(w)
  BY <1>3, <1>12 DEF Dispatch, Match, MatchFails, Post, LogLost, MarkDispatched, MarkLost, tables
<1>13. CASE UNCHANGED local
  <2>1. ASSUME NEW j \in DOMAIN log, BackoffEnds(j)
        PROVE  \A i \in DOMAIN log : log[i].retry # "none" => log'[i].retry # "none"
    <3>1. log[j] \in Rows
      BY RowAt DEF TablesOK
    <3> QED BY <2>1, <3>1 DEF BackoffEnds, Rows
  <2>2. ASSUME NEW v \in Workers, Cycle(v) \/ Crash(v)
        PROVE  log' = log \/ (\E r \in retries[v] : ClearRetry(v, r)) \/ UpdateRow(v) \/ LogAttempt(v)
    BY <2>2 DEF Cycle, Crash, LoadRetries, LoadRetriesFails, Retry, CheckRetry,
       SkipRetry, Repost, UpdateLost, LoadEvents, Dispatch, Match, MatchFails, Post,
       LogLost, MarkDispatched, MarkLost, EndCycle, tables
  <2>3. ASSUME NEW v \in Workers, (\E r \in retries[v] : ClearRetry(v, r)) \/ UpdateRow(v) \/ LogAttempt(v)
        PROVE  FALSE
    BY <1>13, <2>3 DEF ClearRetry, TakeRetry, UpdateRow, LogAttempt, local
  <2>4. \A i \in DOMAIN log : log[i].retry # "none" => log'[i].retry # "none"
    <3>1. CASE log' = log
      BY <3>1
    <3> QED BY <2>1, <2>2, <2>3, <3>1 DEF Next, Emit, SwitchHook
  <2> QED BY <1>3, <1>13, <2>4 DEF local
<1> QED
  BY OneCycle, <1>4, <1>5, <1>6, <1>7, <1>8, <1>9, <1>10, <1>11, <1>12, <1>13 DEF Cycle, Retry

LEMMA OpenRowsType ==
  ASSUME TypeInv, NEW e, NEW h
  PROVE  IsFiniteSet(OpenRows(e, h)) /\ Cardinality(OpenRows(e, h)) \in Nat
<1>1. DOMAIN log = 1..Len(log) /\ Len(log) \in Int
  BY DEF TypeInv, TypeOK, TablesOK
<1>2. IsFiniteSet(DOMAIN log)
  BY <1>1, FS_Interval
<1>3. IsFiniteSet(OpenRows(e, h))
  BY <1>2, FS_Subset DEF OpenRows
<1> QED BY <1>3, FS_CardinalityType

LEMMA FirstOpenType == ASSUME NEW e, NEW h PROVE FirstOpen(e, h) \in {0, 1}
BY DEF FirstOpen

LEMMA FirstOpenTypeNext == ASSUME NEW e, NEW h PROVE FirstOpen(e, h)' \in {0, 1}
BY DEF FirstOpen

LEMMA ChancesType ==
  ASSUME TypeInv, NEW e \in Events, NEW h \in Hooks PROVE Chances(e, h) \in Nat
<1>1. received[e][h] \in Nat
  BY DEF TypeInv, TypeOK, WorldOK
<1> QED BY <1>1, OpenRowsType, FirstOpenType DEF Chances

\* With no more rows open, a delivery has what it had and what the step adds.
LEMMA ChancesMove ==
  ASSUME TypeInv, TypeInv', NEW e \in Events, NEW h \in Hooks, NEW d \in Nat,
         OpenRows(e, h)' \subseteq OpenRows(e, h),
         received'[e][h] + FirstOpen(e, h)' <= received[e][h] + FirstOpen(e, h) + d
  PROVE  Chances(e, h)' <= Chances(e, h) + d
<1>1. received[e][h] \in Nat /\ received'[e][h] \in Nat
  BY DEF TypeInv, TypeOK, WorldOK
<1>2. IsFiniteSet(OpenRows(e, h)) /\ Cardinality(OpenRows(e, h)) \in Nat
  BY OpenRowsType
<1>3. Cardinality(OpenRows(e, h)') \in Nat /\ Cardinality(OpenRows(e, h)') <= Cardinality(OpenRows(e, h))
  BY <1>2, FS_Subset, FS_CardinalityType
<1>4. FirstOpen(e, h) \in {0, 1} /\ FirstOpen(e, h)' \in {0, 1}
  BY FirstOpenType, FirstOpenTypeNext
<1> QED BY <1>1, <1>2, <1>3, <1>4 DEF Chances

\* With one row more open it has one chance more.
LEMMA ChancesOpen ==
  ASSUME TypeInv, TypeInv', NEW e \in Events, NEW h \in Hooks, NEW d \in Nat, NEW i,
         OpenRows(e, h)' \subseteq OpenRows(e, h) \cup {i},
         received'[e][h] + FirstOpen(e, h)' + 1 <= received[e][h] + FirstOpen(e, h) + d
  PROVE  Chances(e, h)' <= Chances(e, h) + d
<1>1. received[e][h] \in Nat /\ received'[e][h] \in Nat
  BY DEF TypeInv, TypeOK, WorldOK
<1>2. IsFiniteSet(OpenRows(e, h)) /\ Cardinality(OpenRows(e, h)) \in Nat
  BY OpenRowsType
<1>3. /\ IsFiniteSet(OpenRows(e, h) \cup {i}) /\ Cardinality(OpenRows(e, h) \cup {i}) \in Nat
      /\ Cardinality(OpenRows(e, h) \cup {i}) <= Cardinality(OpenRows(e, h)) + 1
  BY <1>2, OneMoreElement
<1>4. Cardinality(OpenRows(e, h)') \in Nat /\ Cardinality(OpenRows(e, h)') <= Cardinality(OpenRows(e, h)) + 1
  BY <1>2, <1>3, FS_Subset, FS_CardinalityType
<1>5. FirstOpen(e, h) \in {0, 1} /\ FirstOpen(e, h)' \in {0, 1}
  BY FirstOpenType, FirstOpenTypeNext
<1> QED BY <1>1, <1>2, <1>4, <1>5 DEF Chances

\* A row that closes pays for what was received.
LEMMA ChancesClose ==
  ASSUME TypeInv, TypeInv', NEW e \in Events, NEW h \in Hooks, NEW i \in OpenRows(e, h),
         OpenRows(e, h)' \subseteq OpenRows(e, h) \ {i},
         received'[e][h] = received[e][h] + 1, FirstOpen(e, h)' = FirstOpen(e, h)
  PROVE  Chances(e, h)' <= Chances(e, h)
<1>1. received[e][h] \in Nat
  BY DEF TypeInv, TypeOK, WorldOK
<1>2. IsFiniteSet(OpenRows(e, h)) /\ Cardinality(OpenRows(e, h)) \in Nat
  BY OpenRowsType
<1>3. /\ IsFiniteSet(OpenRows(e, h) \ {i})
      /\ Cardinality(OpenRows(e, h) \ {i}) = Cardinality(OpenRows(e, h)) - 1
  BY <1>2, FS_RemoveElement
<1>4. Cardinality(OpenRows(e, h)') \in Nat /\ Cardinality(OpenRows(e, h)') <= Cardinality(OpenRows(e, h)) - 1
  BY <1>3, FS_Subset, FS_CardinalityType
<1>5. FirstOpen(e, h) \in {0, 1}
  BY FirstOpenType
<1> QED BY <1>1, <1>2, <1>4, <1>5 DEF Chances

\* No more rows are open while they, and what is in hand, stay.
LEMMA OpenStays ==
  ASSUME NEW e \in Events, NEW h \in Hooks,
         DOMAIN log' = DOMAIN log,
         \A i \in DOMAIN log : /\ log'[i].event = log[i].event /\ log'[i].hook = log[i].hook
                               /\ log'[i].retry # "none" => log[i].retry # "none",
         hook[h] = "gone" => hook'[h] = "gone",
         \A w \in Workers : /\ pc'[w] = "repost" => pc[w] = "repost" /\ at'[w] = at[w]
                            /\ pc[w] = "update" /\ ok[w] => pc'[w] = "update" /\ at'[w] = at[w] /\ ok'[w]
  PROVE  OpenRows(e, h)' \subseteq OpenRows(e, h)
<1> SUFFICES ASSUME NEW i \in OpenRows(e, h)' PROVE i \in OpenRows(e, h)
  OBVIOUS
<1>1. /\ i \in DOMAIN log /\ log'[i].event = e /\ log'[i].hook = h /\ log'[i].retry # "none"
      /\ ~Done(i)'
      /\ hook'[h] = "gone" => InHand(i)'
  BY DEF OpenRows
<1>2. ~Done(i)
  BY <1>1 DEF Done
<1>3. hook[h] = "gone" => InHand(i)
  BY <1>1 DEF InHand
<1> QED BY <1>1, <1>2, <1>3 DEF OpenRows

\* Outside a pass over an event nothing but its mark counts.
LEMMA FirstOutside ==
  ASSUME SingleCycle, NEW w \in Workers, NEW e \in Events, NEW h \in Hooks,
         pc[w] \notin {"targets", "log"}
  PROVE  FirstOpen(e, h) = IF event[e] # "dispatched" THEN 1 ELSE 0
<1>1. \A v \in Workers : v = w
  BY DEF SingleCycle
<1>2. ~InLog(e, h) /\ ~Passed(e, h) /\ ~Answered(e, h)
  BY <1>1 DEF InLog, Passed, Answered
<1> QED BY <1>2 DEF FirstOpen

LEMMA FirstOutsideNext ==
  ASSUME SingleCycle, NEW w \in Workers, NEW e \in Events, NEW h \in Hooks,
         pc'[w] \notin {"targets", "log"}
  PROVE  FirstOpen(e, h)' = IF event'[e] # "dispatched" THEN 1 ELSE 0
<1>1. \A v \in Workers : v = w
  BY DEF SingleCycle
<1>2. ~InLog(e, h)' /\ ~Passed(e, h)' /\ ~Answered(e, h)'
  BY <1>1 DEF InLog, Passed, Answered
<1> QED BY <1>2 DEF FirstOpen

LEMMA FirstStands ==
  ASSUME SingleCycle, TypeInv, NEW w \in Workers, NEW e \in Events, NEW h \in Hooks, event' = event,
         pc[w] \notin {"targets", "log"}, pc'[w] \notin {"targets", "log"}
  PROVE  FirstOpen(e, h)' = FirstOpen(e, h) /\ FirstOpen(e, h) \in {0, 1} /\ received[e][h] \in Nat
<1>1. FirstOpen(e, h) = IF event[e] # "dispatched" THEN 1 ELSE 0
  BY FirstOutside
<1>2. FirstOpen(e, h)' = IF event'[e] # "dispatched" THEN 1 ELSE 0
  BY FirstOutsideNext
<1>3. received[e][h] \in Nat
  BY DEF TypeInv, TypeOK, WorldOK
<1> QED BY <1>1, <1>2, <1>3

\* What the endpoint took of a post.
LEMMA DeliverReceives ==
  ASSUME TypeInv, NEW w \in Workers, NEW f \in Events, NEW k \in Hooks, Deliver(w, f, k)
  PROVE  /\ \A e \in Events, h \in Hooks : ~(e = f /\ h = k) => received'[e][h] = received[e][h]
         /\ \/ ok'[w] /\ lost' = lost /\ received'[f][k] = received[f][k] + 1
            \/ ~ok'[w] /\ lost' = lost /\ received'[f][k] = received[f][k]
            \/ ~ok'[w] /\ lost' = lost + 1 /\ received'[f][k] = received[f][k] + 1
<1>1. received \in [Events -> [Hooks -> Nat]] /\ ok \in [Workers -> BOOLEAN]
  BY DEF TypeInv, TypeOK, WorldOK, CyclesOK
<1>2. CASE /\ ok' = [ok EXCEPT ![w] = TRUE]
           /\ received' = [received EXCEPT ![f][k] = @ + 1]
           /\ UNCHANGED lost
  BY <1>1, <1>2
<1>3. CASE ok' = [ok EXCEPT ![w] = FALSE] /\ UNCHANGED <<received, lost>>
  BY <1>1, <1>3
<1>4. CASE /\ lost < MaxLost /\ lost' = lost + 1
           /\ ok' = [ok EXCEPT ![w] = FALSE]
           /\ received' = [received EXCEPT ![f][k] = @ + 1]
  BY <1>1, <1>4
<1> QED BY <1>2, <1>3, <1>4 DEF Deliver

-----------------------------------------------------------------------------
(* What a step does to the chances.                                        *)

NoMore(e, h) == Chances(e, h)' <= Chances(e, h)
OneMore(e, h) == Chances(e, h)' <= Chances(e, h) + 1

Steady == /\ faults' = faults /\ lost' = lost
          /\ \A e \in Events, h \in Hooks : NoMore(e, h)

\* The answer to one post is lost.
AnswerLost ==
  /\ faults' = faults /\ lost' = lost + 1
  /\ \E f \in Events, k \in Hooks :
       /\ OneMore(f, k)
       /\ \A e \in Events, h \in Hooks : ~(e = f /\ h = k) => NoMore(e, h)

\* A failure: the webhooks of one event may get it again.
Failed ==
  /\ faults' = faults + 1 /\ lost' = lost
  /\ \/ \A e \in Events, h \in Hooks : NoMore(e, h)
     \/ \E f \in Events :
          /\ \A h \in Hooks : OneMore(f, h)
          /\ \A e \in Events \ {f}, h \in Hooks : NoMore(e, h)

ChanceStep == Steady \/ AnswerLost \/ Failed

\* The two ways in which no row opens.
LEMMA ChancesKept ==
  ASSUME TypeInv, TypeInv', NEW e \in Events, NEW h \in Hooks,
         OpenRows(e, h)' \subseteq OpenRows(e, h),
         received'[e][h] + FirstOpen(e, h)' <= received[e][h] + FirstOpen(e, h)
  PROVE  NoMore(e, h)
<1>1. /\ received[e][h] \in Nat /\ received'[e][h] \in Nat
      /\ FirstOpen(e, h) \in {0, 1} /\ FirstOpen(e, h)' \in {0, 1}
  BY FirstOpenType, FirstOpenTypeNext DEF TypeInv, TypeOK, WorldOK
<1>2. received'[e][h] + FirstOpen(e, h)' <= received[e][h] + FirstOpen(e, h) + 0
  BY <1>1
<1>3. Chances(e, h)' <= Chances(e, h) + 0
  BY <1>2, ChancesMove
<1>4. Chances(e, h) + 0 = Chances(e, h)
  BY ChancesType
<1> QED BY <1>3, <1>4 DEF NoMore

LEMMA ChancesReopened ==
  ASSUME TypeInv, TypeInv', NEW e \in Events, NEW h \in Hooks,
         OpenRows(e, h)' \subseteq OpenRows(e, h), received'[e][h] = received[e][h]
  PROVE  OneMore(e, h)
<1>1. received[e][h] \in Nat /\ FirstOpen(e, h) \in {0, 1} /\ FirstOpen(e, h)' \in {0, 1}
  BY FirstOpenType, FirstOpenTypeNext DEF TypeInv, TypeOK, WorldOK
<1>2. received'[e][h] + FirstOpen(e, h)' <= received[e][h] + FirstOpen(e, h) + 1
  BY <1>1
<1> QED BY <1>2, ChancesMove DEF OneMore

\* The steps in which a cycle moves on without posting or writing a result.
LEMMA FrameChances ==
  ASSUME SingleCycle, TypeInv, TypeInv', NEW w \in Workers,
         UNCHANGED <<event, hook, received>>,
         pc[w] \notin {"targets", "log", "update"}, pc'[w] \notin {"targets", "log", "repost"},
         DOMAIN log' = DOMAIN log,
         \A i \in DOMAIN log : /\ log'[i].event = log[i].event /\ log'[i].hook = log[i].hook
                               /\ log'[i].retry # "none" => log[i].retry # "none"
  PROVE  \A e \in Events, h \in Hooks : NoMore(e, h)
<1> SUFFICES ASSUME NEW e \in Events, NEW h \in Hooks PROVE NoMore(e, h)
  OBVIOUS
<1>1. \A v \in Workers : v = w
  BY DEF SingleCycle
<1>2. OpenRows(e, h)' \subseteq OpenRows(e, h)
  BY <1>1, OpenStays
<1>3. /\ FirstOpen(e, h)' = FirstOpen(e, h) /\ FirstOpen(e, h) \in {0, 1}
      /\ received'[e][h] = received[e][h] /\ received[e][h] \in Nat
  BY FirstStands
<1>4. received'[e][h] + FirstOpen(e, h)' <= received[e][h] + FirstOpen(e, h)
  BY <1>3
<1> QED BY <1>2, <1>4, ChancesKept

LEMMA FrameChanceSteps ==
  ASSUME SingleCycle, TypeInv, TypeInv', NEW w \in Workers,
         \/ LoadRetries(w) \/ LoadRetriesFails(w) \/ LoadEvents(w) \/ EndCycle(w)
         \/ \E r \in retries[w] : ClearRetry(w, r) \/ SkipRetry(w, r)
         \/ \E f \in Events : MatchFails(w, f)
         \/ Crash(w) /\ pc[w] \notin {"targets", "log", "update"}
  PROVE  ChanceStep
<1> USE DEF TypeInv, TypeOK, CyclesOK, Goto, NextIn, tables, world, ChanceStep, Steady, Failed
<1>1. CASE LoadRetries(w) \/ LoadRetriesFails(w)
  <2>1. \A e \in Events, h \in Hooks : NoMore(e, h)
    BY <1>1, FrameChances DEF LoadRetries, LoadRetriesFails
  <2> QED BY <1>1, <2>1 DEF LoadRetries, LoadRetriesFails, Fault
<1>2. CASE LoadEvents(w) \/ EndCycle(w)
  <2>1. \A e \in Events, h \in Hooks : NoMore(e, h)
    BY <1>2, FrameChances DEF LoadEvents, EndCycle
  <2> QED BY <1>2, <2>1 DEF LoadEvents, EndCycle
<1>3. ASSUME NEW r \in retries[w], ClearRetry(w, r) PROVE ChanceStep
  <2>1. r[1] \in DOMAIN log
    OBVIOUS
  <2>2. log[r[1]] \in Rows
    BY <2>1, RowAt DEF TablesOK
  <2>3. /\ UNCHANGED <<event, hook, received, faults, lost>> /\ pc' = pc /\ pc[w] = "retries"
        /\ log' = [log EXCEPT ![r[1]].retry = "none"]
    BY <1>3 DEF ClearRetry, TakeRetry
  <2>4. /\ DOMAIN log' = DOMAIN log
        /\ \A i \in DOMAIN log : /\ log'[i].event = log[i].event /\ log'[i].hook = log[i].hook
                                 /\ log'[i].retry # "none" => log[i].retry # "none"
    BY <2>1, <2>2, <2>3 DEF Rows
  <2>5. \A e \in Events, h \in Hooks : NoMore(e, h)
    BY <2>3, <2>4, FrameChances
  <2> QED BY <2>3, <2>5
<1>4. ASSUME NEW r \in retries[w], SkipRetry(w, r) PROVE ChanceStep
  <2>1. \A e \in Events, h \in Hooks : NoMore(e, h)
    BY <1>4, FrameChances DEF SkipRetry, TakeRetry
  <2> QED BY <1>4, <2>1 DEF SkipRetry, Fault
<1>5. ASSUME NEW f \in Events, MatchFails(w, f) PROVE ChanceStep
  <2>1. \A e \in Events, h \in Hooks : NoMore(e, h)
    BY <1>5, FrameChances DEF MatchFails
  <2> QED BY <1>5, <2>1 DEF MatchFails, Fault
<1>6. CASE Crash(w) /\ pc[w] \notin {"targets", "log", "update"}
  <2>1. \A e \in Events, h \in Hooks : NoMore(e, h)
    BY <1>6, FrameChances DEF Crash
  <2> QED BY <1>6, <2>1 DEF Crash, Fault
<1> QED BY <1>1, <1>2, <1>3, <1>4, <1>5, <1>6

\* A cycle that forgets the attempt it has made leaves the row open.
LEMMA UpdateForgottenReopens ==
  ASSUME SingleCycle, TypeInv, TypeInv', NEW w \in Workers,
         pc[w] = "update", pc'[w] \in {"idle", "retries"}, faults' = faults + 1,
         UNCHANGED <<event, hook, log, received, lost>>
  PROVE  Failed
<1>1. \A v \in Workers : v = w
  BY DEF SingleCycle
<1> PICK i \in DOMAIN log : at[w][1] = i
  BY DEF TypeInv, HandOK
<1> PICK f \in Events : log[i].event = f
  BY RowAt DEF TypeInv, TypeOK, TablesOK, Rows
<1>2. ASSUME NEW e \in Events, NEW h \in Hooks, NEW x \in OpenRows(e, h)'
      PROVE  x \in OpenRows(e, h) \/ (x = i /\ e = f)
  <2>1. /\ x \in DOMAIN log /\ log[x].event = e /\ log[x].hook = h /\ log[x].retry # "none"
        /\ hook[h] = "gone" => InHand(x)'
    BY DEF OpenRows
  <2>2. hook[h] # "gone"
    BY <1>1, <2>1 DEF InHand
  <2>3. Done(x) => x = i
    BY <1>1 DEF Done
  <2> QED BY <2>1, <2>2, <2>3 DEF OpenRows
<1>3. ASSUME NEW e \in Events, NEW h \in Hooks
      PROVE  /\ FirstOpen(e, h)' = FirstOpen(e, h) /\ FirstOpen(e, h) \in {0, 1}
             /\ received'[e][h] = received[e][h] /\ received[e][h] \in Nat
  BY FirstStands
<1>4. ASSUME NEW h \in Hooks PROVE OneMore(f, h)
  <2>1. received'[f][h] + FirstOpen(f, h)' + 1 <= received[f][h] + FirstOpen(f, h) + 1
    BY <1>3
  <2>2. OpenRows(f, h)' \subseteq OpenRows(f, h) \cup {i}
    BY <1>2
  <2> QED BY <2>1, <2>2, ChancesOpen DEF OneMore
<1>5. ASSUME NEW e \in Events \ {f}, NEW h \in Hooks PROVE NoMore(e, h)
  <2>1. received'[e][h] + FirstOpen(e, h)' <= received[e][h] + FirstOpen(e, h)
    BY <1>3
  <2>2. OpenRows(e, h)' \subseteq OpenRows(e, h)
    BY <1>2
  <2> QED BY <2>1, <2>2, ChancesKept
<1> QED BY <1>4, <1>5 DEF Failed

LEMMA RetryChances ==
  ASSUME SingleCycle, TypeInv, TypeInv', DueInv, NEW w \in Workers, Retry(w)
  PROVE  ChanceStep
<1> USE DEF TypeInv, TypeOK, CyclesOK, Goto, NextIn
<1>1. \A v \in Workers : v = w
  BY DEF SingleCycle
<1>2. ASSUME NEW r \in retries[w], CheckRetry(w, r) PROVE ChanceStep
  <2>1. /\ pc[w] = "retries" /\ pc'[w] = "repost" /\ at'[w] = r
        /\ UNCHANGED <<event, hook, log, received, faults, lost>> /\ hook[log[r[1]].hook] = "on"
    BY <1>2 DEF CheckRetry, TakeRetry, StillActive, tables, world
  <2>2. ASSUME NEW e \in Events, NEW h \in Hooks PROVE NoMore(e, h)
    <3>1. ASSUME NEW x \in OpenRows(e, h)' PROVE x \in OpenRows(e, h)
      <4>1. /\ x \in DOMAIN log /\ log[x].event = e /\ log[x].hook = h /\ log[x].retry # "none"
            /\ hook[h] = "gone" => InHand(x)'
        BY <2>1 DEF OpenRows
      <4>2. InHand(x)' => hook[h] = "on"
        BY <1>1, <2>1, <4>1 DEF InHand
      <4>3. ~Done(x)
        BY <1>1, <2>1 DEF Done
      <4> QED BY <4>1, <4>2, <4>3 DEF OpenRows
    <3>2. /\ FirstOpen(e, h)' = FirstOpen(e, h) /\ FirstOpen(e, h) \in {0, 1}
          /\ received'[e][h] = received[e][h] /\ received[e][h] \in Nat
      BY <2>1, FirstStands
    <3>3. received'[e][h] + FirstOpen(e, h)' <= received[e][h] + FirstOpen(e, h)
      BY <3>2
    <3> QED BY <3>1, <3>3, ChancesKept
  <2> QED BY <2>1, <2>2 DEF ChanceStep, Steady
<1>3. CASE Repost(w)
  <2> PICK i \in DOMAIN log : at[w][1] = i
    BY <1>3 DEF Repost, HandOK
  <2> PICK f \in Events, k \in Hooks : log[i].event = f /\ log[i].hook = k
    BY RowAt DEF TablesOK, Rows
  <2>1. /\ pc[w] = "repost" /\ pc'[w] = "update" /\ at' = at
        /\ UNCHANGED <<event, hook, log, faults>> /\ Deliver(w, f, k)
    BY <1>3 DEF Repost, tables
  <2>2. ASSUME NEW e \in Events, NEW h \in Hooks, NEW x \in OpenRows(e, h)'
        PROVE  x \in OpenRows(e, h) /\ (ok'[w] => x # i)
    <3>1. /\ x \in DOMAIN log /\ log[x].event = e /\ log[x].hook = h /\ log[x].retry # "none"
          /\ ~Done(x)'
          /\ hook[h] = "gone" => InHand(x)'
      BY <2>1 DEF OpenRows
    <3>2. ~InHand(x)' /\ ~Done(x)
      BY <1>1, <2>1 DEF InHand, Done
    <3>3. ok'[w] => x # i
      BY <2>1, <3>1 DEF Done
    <3> QED BY <3>1, <3>2, <3>3 DEF OpenRows
  <2>3. ASSUME NEW e \in Events, NEW h \in Hooks
        PROVE  FirstOpen(e, h)' = FirstOpen(e, h) /\ FirstOpen(e, h) \in {0, 1} /\ received[e][h] \in Nat
    BY <2>1, FirstStands
  <2>4. ASSUME NEW e \in Events, NEW h \in Hooks, received'[e][h] = received[e][h] PROVE NoMore(e, h)
    <3>1. received'[e][h] + FirstOpen(e, h)' <= received[e][h] + FirstOpen(e, h)
      BY <2>3, <2>4
    <3>2. OpenRows(e, h)' \subseteq OpenRows(e, h)
      BY <2>2
    <3> QED BY <3>1, <3>2, ChancesKept
  <2>5. \A e \in Events, h \in Hooks : ~(e = f /\ h = k) => NoMore(e, h)
    BY <2>1, <2>4, DeliverReceives
  <2>6. CASE ok'[w] /\ lost' = lost /\ received'[f][k] = received[f][k] + 1
    <3>1. i \in OpenRows(f, k)
      <4>1. log[i].retry # "none"
        BY <2>1 DEF DueInv
      <4>2. ~Done(i) /\ InHand(i)
        BY <1>1, <2>1 DEF Done, InHand
      <4> QED BY <4>1, <4>2 DEF OpenRows
    <3>2. OpenRows(f, k)' \subseteq OpenRows(f, k) \ {i}
      BY <2>2, <2>6
    <3>3. NoMore(f, k)
      BY <2>3, <2>6, <3>1, <3>2, ChancesClose DEF NoMore
    <3> QED BY <2>1, <2>5, <2>6, <3>3 DEF ChanceStep, Steady
  <2>7. CASE ~ok'[w] /\ lost' = lost /\ received'[f][k] = received[f][k]
    BY <2>1, <2>4, <2>5, <2>7 DEF ChanceStep, Steady
  <2>8. CASE ~ok'[w] /\ lost' = lost + 1 /\ received'[f][k] = received[f][k] + 1
    <3>1. received'[f][k] + FirstOpen(f, k)' <= received[f][k] + FirstOpen(f, k) + 1
      BY <2>3, <2>8
    <3>2. OpenRows(f, k)' \subseteq OpenRows(f, k)
      BY <2>2
    <3>3. OneMore(f, k)
      BY <3>1, <3>2, ChancesMove DEF OneMore
    <3> QED BY <2>1, <2>5, <2>8, <3>3 DEF ChanceStep, AnswerLost
  <2> QED BY <2>1, <2>6, <2>7, <2>8, DeliverReceives
<1>4. CASE UpdateRow(w)
  <2> DEFINE row == Row(log[at[w][1]].event, log[at[w][1]].hook, at[w][2] + 1, ok[w])
  <2>1. /\ pc[w] = "update" /\ pc'[w] = "retries"
        /\ UNCHANGED <<event, hook, received, faults, lost>>
        /\ log' = log \/ log' = [log EXCEPT ![at[w][1]] = row]
    BY <1>4 DEF UpdateRow, world
  <2>2. /\ row.event = log[at[w][1]].event /\ row.hook = log[at[w][1]].hook
        /\ ok[w] => row.retry = "none"
    BY DEF Row
  <2> HIDE DEF row
  <2> PICK i \in DOMAIN log : at[w][1] = i
    BY <2>1 DEF HandOK
  <2>3. log[i].retry # "none"
    BY <2>1 DEF DueInv
  <2>4. ASSUME NEW e \in Events, NEW h \in Hooks, NEW x \in OpenRows(e, h)' PROVE x \in OpenRows(e, h)
    <3>1. /\ x \in DOMAIN log' /\ log'[x].event = e /\ log'[x].hook = h /\ log'[x].retry # "none"
          /\ hook[h] = "gone" => InHand(x)'
      BY <2>1 DEF OpenRows
    <3>2. hook[h] # "gone" /\ DOMAIN log' = DOMAIN log
      BY <1>1, <2>1, <3>1 DEF InHand
    <3>3. CASE log' = log /\ ~(x = i /\ ok[w])
      BY <1>1, <3>1, <3>2, <3>3 DEF OpenRows, Done
    <3>4. CASE log' = log /\ x = i /\ ok[w]
      <4>1. hook[log[i].hook] # "gone"
        BY <3>1, <3>2, <3>4
      <4>2. log' = [log EXCEPT ![i] = row]
        BY <1>4, <4>1 DEF UpdateRow, row
      <4>3. log'[i].retry = "none"
        BY <2>2, <3>4, <4>2
      <4> QED BY <3>1, <3>4, <4>3
    <3>5. CASE log' = [log EXCEPT ![i] = row] /\ x # i
      BY <1>1, <3>1, <3>2, <3>5 DEF OpenRows, Done
    <3>6. CASE log' = [log EXCEPT ![i] = row] /\ x = i
      <4>1. log'[i] = row
        BY <3>6
      <4>2. ~ok[w] /\ log[i].event = e /\ log[i].hook = h
        BY <2>2, <3>1, <3>6, <4>1
      <4>3. ~Done(i)
        BY <1>1, <4>2 DEF Done
      <4> QED BY <2>3, <3>2, <3>6, <4>2, <4>3 DEF OpenRows
    <3> QED BY <2>1, <3>3, <3>4, <3>5, <3>6
  <2>5. ASSUME NEW e \in Events, NEW h \in Hooks PROVE NoMore(e, h)
    <3>1. /\ FirstOpen(e, h)' = FirstOpen(e, h) /\ FirstOpen(e, h) \in {0, 1}
          /\ received'[e][h] = received[e][h] /\ received[e][h] \in Nat
      BY <2>1, FirstStands
    <3>2. received'[e][h] + FirstOpen(e, h)' <= received[e][h] + FirstOpen(e, h)
      BY <3>1
    <3>3. OpenRows(e, h)' \subseteq OpenRows(e, h)
      BY <2>4
    <3> QED BY <3>2, <3>3, ChancesKept
  <2> QED BY <2>1, <2>5 DEF ChanceStep, Steady
<1>5. CASE UpdateLost(w)
  <2>1. /\ pc[w] = "update" /\ pc'[w] = "retries" /\ faults' = faults + 1
        /\ UNCHANGED <<event, hook, log, received, lost>>
    BY <1>5 DEF UpdateLost, Fault, tables, world
  <2> QED BY <2>1, UpdateForgottenReopens DEF ChanceStep
<1> QED BY <1>2, <1>3, <1>4, <1>5, FrameChanceSteps DEF Retry

LEMMA LogChances ==
  ASSUME SingleCycle, TypeInv, TypeInv', SnapInv, NEW w \in Workers, LogAttempt(w)
  PROVE  ChanceStep
<1> USE DEF TypeInv, TypeOK, CyclesOK, Goto, NextIn
<1>1. \A v \in Workers : v = w
  BY DEF SingleCycle
<1> PICK f \in Events, k \in Hooks : at[w] = <<f, k>>
  BY DEF LogAttempt, HandOK
<1>2. /\ pc[w] = "log" /\ pc'[w] = "targets" /\ at'[w] = <<f>> /\ targets' = targets
      /\ UNCHANGED <<event, hook, received, faults, lost>> /\ k \notin targets[w]
  BY DEF LogAttempt, world, SnapInv, EventsCurrent
<1>3. log' = log \/ log' = Append(log, Row(f, k, 1, ok[w]))
  BY DEF LogAttempt
<1>4. ASSUME NEW e \in Events, NEW h \in Hooks, NEW x \in OpenRows(e, h)'
      PROVE  x \in OpenRows(e, h) \/ (e = f /\ h = k /\ ~ok[w] /\ x = Len(log) + 1)
  <2>1. /\ x \in DOMAIN log' /\ log'[x].event = e /\ log'[x].hook = h /\ log'[x].retry # "none"
        /\ hook[h] = "gone" => InHand(x)'
    BY <1>2 DEF OpenRows
  <2>2. hook[h] # "gone" /\ ~Done(x)
    BY <1>1, <1>2, <2>1 DEF InHand, Done
  <2>3. CASE log' = log
    BY <2>1, <2>2, <2>3 DEF OpenRows
  <2>4. CASE log' = Append(log, Row(f, k, 1, ok[w]))
    <3> DEFINE row == Row(f, k, 1, ok[w])
    <3>1. row.event = f /\ row.hook = k /\ (ok[w] => row.retry = "none")
      BY DEF Row
    <3>2. log \in Seq(Rows) /\ row \in Rows
      BY WebhookDeliveryAssumption, RowType DEF TablesOK
    <3>3. log' = Append(log, row)
      BY <2>4
    <3> HIDE DEF row
    <3>4. /\ DOMAIN log = 1..Len(log) /\ DOMAIN log' = 1..(Len(log) + 1) /\ Len(log) \in Nat
          /\ \A j \in 1..Len(log) : log'[j] = log[j]
          /\ log'[Len(log) + 1] = row
      BY <3>2, <3>3, AppendProperties
    <3>5. CASE x = Len(log) + 1
      BY <2>1, <3>1, <3>4, <3>5
    <3>6. CASE x # Len(log) + 1
      <4>1. x \in DOMAIN log /\ log'[x] = log[x]
        BY <2>1, <3>4, <3>6
      <4> QED BY <2>1, <2>2, <4>1 DEF OpenRows
    <3> QED BY <3>5, <3>6
  <2> QED BY <1>3, <2>3, <2>4
<1>5. ASSUME NEW e \in Events, NEW h \in Hooks
      PROVE  received'[e][h] = received[e][h] /\ received[e][h] \in Nat
  BY <1>2 DEF WorldOK
<1>6. NoMore(f, k)
  <2>1. ~InLog(f, k)' /\ ~Answered(f, k)' /\ Passed(f, k)'
    BY <1>1, <1>2 DEF InLog, Answered, Passed
  <2>2. FirstOpen(f, k)' = 0
    BY <2>1 DEF FirstOpen
  <2>3. CASE ok[w]
    <3>1. OpenRows(f, k)' \subseteq OpenRows(f, k)
      BY <1>4, <2>3
    <3>2. received'[f][k] + FirstOpen(f, k)' <= received[f][k] + FirstOpen(f, k)
      BY <1>5, <2>2, FirstOpenType
    <3> QED BY <3>1, <3>2, ChancesKept
  <2>4. CASE ~ok[w]
    <3>1. InLog(f, k) /\ ~Answered(f, k)
      BY <1>1, <1>2, <2>4 DEF InLog, Answered
    <3>2. FirstOpen(f, k) = 1
      BY <3>1 DEF FirstOpen
    <3>3. OpenRows(f, k)' \subseteq OpenRows(f, k) \cup {Len(log) + 1}
      BY <1>4
    <3>4. received'[f][k] + FirstOpen(f, k)' + 1 <= received[f][k] + FirstOpen(f, k) + 0
      BY <1>5, <2>2, <3>2
    <3>5. Chances(f, k)' <= Chances(f, k) + 0
      BY <3>3, <3>4, ChancesOpen
    <3>6. Chances(f, k) + 0 = Chances(f, k)
      BY ChancesType
    <3> QED BY <3>5, <3>6 DEF NoMore
  <2> QED BY <2>3, <2>4
<1>7. ASSUME NEW e \in Events, NEW h \in Hooks, ~(e = f /\ h = k) PROVE NoMore(e, h)
  <2>1. OpenRows(e, h)' \subseteq OpenRows(e, h)
    BY <1>4, <1>7
  <2>2. ~InLog(e, h) /\ ~InLog(e, h)' /\ ~Answered(e, h) /\ ~Answered(e, h)'
    BY <1>1, <1>2, <1>7 DEF InLog, Answered
  <2>3. Passed(e, h)' <=> Passed(e, h)
    BY <1>1, <1>2 DEF Passed
  <2>4. FirstOpen(e, h)' = FirstOpen(e, h) /\ FirstOpen(e, h) \in {0, 1}
    BY <1>2, <2>2, <2>3, FirstOpenType DEF FirstOpen
  <2>5. received'[e][h] + FirstOpen(e, h)' <= received[e][h] + FirstOpen(e, h)
    BY <1>5, <2>4
  <2> QED BY <2>1, <2>5, ChancesKept
<1> QED BY <1>2, <1>6, <1>7 DEF ChanceStep, Steady

LEMMA PostChances ==
  ASSUME SingleCycle, TypeInv, TypeInv', SnapInv, NEW w \in Workers, NEW k \in Hooks, Post(w, k)
  PROVE  ChanceStep
<1> USE DEF TypeInv, TypeOK, CyclesOK, Goto
<1>1. \A v \in Workers : v = w
  BY DEF SingleCycle
<1> PICK f \in Events : at[w] = <<f>>
  BY DEF Post, HandOK
<1>2. /\ pc[w] = "targets" /\ pc'[w] = "log" /\ at'[w] = <<f, k>>
      /\ targets'[w] = targets[w] \ {k} /\ k \in targets[w]
      /\ UNCHANGED <<event, hook, log, faults>> /\ event[f] = "pending"
      /\ Deliver(w, f, k)
  BY DEF Post, tables, SnapInv, EventsCurrent
<1>3. ASSUME NEW e \in Events, NEW h \in Hooks PROVE OpenRows(e, h)' \subseteq OpenRows(e, h)
  BY <1>1, <1>2, OpenStays
<1>4. ASSUME NEW e \in Events, NEW h \in Hooks, ~(e = f /\ h = k) PROVE NoMore(e, h)
  <2>1. ~InLog(e, h) /\ ~InLog(e, h)' /\ ~Answered(e, h) /\ ~Answered(e, h)'
    BY <1>1, <1>2, <1>4 DEF InLog, Answered
  <2>2. Passed(e, h)' <=> Passed(e, h)
    BY <1>1, <1>2, <1>4 DEF Passed
  <2>3. FirstOpen(e, h)' = FirstOpen(e, h) /\ FirstOpen(e, h) \in {0, 1}
    BY <1>2, <2>1, <2>2, FirstOpenType DEF FirstOpen
  <2>4. received'[e][h] = received[e][h] /\ received[e][h] \in Nat
    BY <1>2, <1>4, DeliverReceives DEF WorldOK
  <2>5. received'[e][h] + FirstOpen(e, h)' <= received[e][h] + FirstOpen(e, h)
    BY <2>3, <2>4
  <2> QED BY <1>3, <2>5, ChancesKept
<1>5. FirstOpen(f, k) = 1
  <2>1. ~Answered(f, k) /\ ~Passed(f, k)
    BY <1>1, <1>2 DEF Answered, Passed
  <2> QED BY <1>2, <2>1 DEF FirstOpen
<1>6. FirstOpen(f, k)' = IF ok'[w] THEN 0 ELSE 1
  <2>1. Answered(f, k)' <=> ok'[w]
    BY <1>1, <1>2 DEF Answered
  <2>2. InLog(f, k)'
    BY <1>2 DEF InLog
  <2> QED BY <2>1, <2>2 DEF FirstOpen
<1>7. received[f][k] \in Nat
  BY DEF WorldOK
<1>8. CASE ok'[w] /\ lost' = lost /\ received'[f][k] = received[f][k] + 1
  <2>1. received'[f][k] + FirstOpen(f, k)' <= received[f][k] + FirstOpen(f, k)
    BY <1>5, <1>6, <1>7, <1>8
  <2>2. NoMore(f, k)
    BY <1>3, <2>1, ChancesKept
  <2> QED BY <1>2, <1>4, <1>8, <2>2 DEF ChanceStep, Steady
<1>9. CASE ~ok'[w] /\ lost' = lost /\ received'[f][k] = received[f][k]
  <2>1. received'[f][k] + FirstOpen(f, k)' <= received[f][k] + FirstOpen(f, k)
    BY <1>5, <1>6, <1>7, <1>9
  <2>2. NoMore(f, k)
    BY <1>3, <2>1, ChancesKept
  <2> QED BY <1>2, <1>4, <1>9, <2>2 DEF ChanceStep, Steady
<1>10. CASE ~ok'[w] /\ lost' = lost + 1 /\ received'[f][k] = received[f][k] + 1
  <2>1. received'[f][k] + FirstOpen(f, k)' <= received[f][k] + FirstOpen(f, k) + 1
    BY <1>5, <1>6, <1>7, <1>10
  <2>2. OneMore(f, k)
    BY <1>3, <2>1, ChancesMove DEF OneMore
  <2> QED BY <1>2, <1>4, <1>10, <2>2 DEF ChanceStep, AnswerLost
<1> QED BY <1>2, <1>8, <1>9, <1>10, DeliverReceives

\* The pass over an event is broken off, or its end is not written.
LEMMA PassBroken ==
  ASSUME SingleCycle, TypeInv, TypeInv', NEW w \in Workers, NEW f \in Events,
         pc[w] \in {"targets", "log"}, at[w][1] = f,
         pc'[w] \in {"idle", "events", "targets"}, pc'[w] = "targets" => at'[w][1] = f,
         faults' = faults + 1, UNCHANGED <<event, hook, log, received, lost>>
  PROVE  Failed
<1>1. \A v \in Workers : v = w
  BY DEF SingleCycle
<1>2. ASSUME NEW e \in Events, NEW h \in Hooks
      PROVE  /\ OpenRows(e, h)' \subseteq OpenRows(e, h)
             /\ received'[e][h] = received[e][h] /\ received[e][h] \in Nat
  <2>1. OpenRows(e, h)' \subseteq OpenRows(e, h)
    BY <1>1, OpenStays
  <2> QED BY <2>1 DEF TypeInv, TypeOK, WorldOK
<1>3. \A h \in Hooks : OneMore(f, h)
  BY <1>2, ChancesReopened
<1>4. ASSUME NEW e \in Events \ {f}, NEW h \in Hooks PROVE NoMore(e, h)
  <2>1. /\ ~InLog(e, h) /\ ~Answered(e, h) /\ ~Passed(e, h)
        /\ ~InLog(e, h)' /\ ~Answered(e, h)' /\ ~Passed(e, h)'
    BY <1>1 DEF InLog, Answered, Passed
  <2>2. FirstOpen(e, h)' = FirstOpen(e, h)
    BY <2>1 DEF FirstOpen
  <2>3. received'[e][h] + FirstOpen(e, h)' <= received[e][h] + FirstOpen(e, h)
    BY <1>2, <2>2, FirstOpenType
  <2> QED BY <1>2, <2>3, ChancesKept
<1> QED BY <1>3, <1>4 DEF Failed

LEMMA DispatchChances ==
  ASSUME SingleCycle, TypeInv, TypeInv', SnapInv, NEW w \in Workers, Dispatch(w)
  PROVE  ChanceStep
<1> USE DEF TypeInv, TypeOK, CyclesOK, Goto, NextIn
<1>1. \A v \in Workers : v = w
  BY DEF SingleCycle
<1>2. ASSUME NEW f \in Events, Match(w, f) PROVE ChanceStep
  <2>1. /\ pc[w] = "events" /\ pc'[w] = "targets"
        /\ UNCHANGED <<event, hook, log, received, faults, lost>>
    BY <1>2 DEF Match, tables, world
  <2>2. ASSUME NEW e \in Events, NEW h \in Hooks PROVE NoMore(e, h)
    <3>1. OpenRows(e, h)' \subseteq OpenRows(e, h)
      BY <1>1, <2>1, OpenStays
    <3>2. FirstOpen(e, h) = IF event[e] # "dispatched" THEN 1 ELSE 0
      BY <2>1, FirstOutside
    <3>3. ~InLog(e, h)'
      BY <1>1, <2>1 DEF InLog
    <3>4. FirstOpen(e, h)' <= FirstOpen(e, h) /\ FirstOpen(e, h) \in {0, 1} /\ FirstOpen(e, h)' \in {0, 1}
      BY <2>1, <3>2, <3>3 DEF FirstOpen
    <3>5. received'[e][h] + FirstOpen(e, h)' <= received[e][h] + FirstOpen(e, h)
      BY <2>1, <3>4 DEF WorldOK
    <3> QED BY <3>1, <3>5, ChancesKept
  <2> QED BY <2>1, <2>2 DEF ChanceStep, Steady
<1>3. CASE LogLost(w)
  <2> PICK f \in Events, k \in Hooks : at[w] = <<f, k>>
    BY <1>3 DEF LogLost, HandOK
  <2>1. /\ pc[w] = "log" /\ pc'[w] = "targets" /\ at'[w] = <<f>>
        /\ UNCHANGED <<event, hook, log, received, lost>> /\ faults' = faults + 1
    BY <1>3 DEF LogLost, Fault, tables, world
  <2> QED BY <2>1, PassBroken DEF ChanceStep
<1>4. CASE MarkLost(w)
  <2> PICK f \in Events : at[w] = <<f>>
    BY <1>4 DEF MarkLost, HandOK
  <2>1. /\ pc[w] = "targets" /\ pc'[w] = "events"
        /\ UNCHANGED <<event, hook, log, received, lost>> /\ faults' = faults + 1
    BY <1>4 DEF MarkLost, Fault, tables, world
  <2> QED BY <2>1, PassBroken DEF ChanceStep
<1>5. CASE MarkDispatched(w)
  <2> PICK f \in Events : at[w] = <<f>>
    BY <1>5 DEF MarkDispatched, HandOK
  <2>1. /\ pc[w] = "targets" /\ pc'[w] = "events" /\ UNCHANGED <<hook, log, received, faults, lost>>
        /\ event' = [event EXCEPT ![f] = "dispatched"]
    BY <1>5 DEF MarkDispatched, world
  <2>2. ASSUME NEW e \in Events, NEW h \in Hooks PROVE NoMore(e, h)
    <3>1. OpenRows(e, h)' \subseteq OpenRows(e, h)
      BY <1>1, <2>1, OpenStays
    <3>2. FirstOpen(e, h)' = IF event'[e] # "dispatched" THEN 1 ELSE 0
      BY <2>1, FirstOutsideNext
    <3>3. FirstOpen(e, h)' <= FirstOpen(e, h)
      <4>1. CASE e = f
        BY <2>1, <3>2, <4>1, FirstOpenType DEF TablesOK
      <4>2. CASE e # f
        <5>1. ~InLog(e, h) /\ ~Answered(e, h) /\ ~Passed(e, h) /\ event'[e] = event[e]
          BY <1>1, <2>1, <4>2 DEF InLog, Answered, Passed
        <5> QED BY <3>2, <5>1 DEF FirstOpen
      <4> QED BY <4>1, <4>2
    <3>4. FirstOpen(e, h) \in {0, 1} /\ FirstOpen(e, h)' \in {0, 1}
      BY FirstOpenType, FirstOpenTypeNext
    <3>5. received'[e][h] + FirstOpen(e, h)' <= received[e][h] + FirstOpen(e, h)
      BY <2>1, <3>3, <3>4 DEF WorldOK
    <3> QED BY <3>1, <3>5, ChancesKept
  <2> QED BY <2>1, <2>2 DEF ChanceStep, Steady
<1> QED
  BY <1>2, <1>3, <1>4, <1>5, FrameChanceSteps, PostChances, LogChances DEF Dispatch

LEMMA CrashChances ==
  ASSUME SingleCycle, TypeInv, TypeInv', NEW w \in Workers, Crash(w)
  PROVE  ChanceStep
<1>1. /\ pc'[w] = "idle" /\ faults' = faults + 1
      /\ UNCHANGED <<event, hook, log, received, lost>>
  BY DEF Crash, Goto, NextIn, Fault, tables, world, TypeInv, TypeOK, CyclesOK
<1>2. CASE pc[w] = "update"
  BY <1>1, <1>2, UpdateForgottenReopens DEF ChanceStep
<1>3. CASE pc[w] \in {"targets", "log"}
  <2>1. at[w][1] \in Events
    BY <1>3 DEF TypeInv, HandOK
  <2> QED BY <1>1, <1>3, <2>1, PassBroken DEF ChanceStep
<1> QED BY <1>2, <1>3, FrameChanceSteps

LEMMA WorldChances ==
  ASSUME TypeInv, TypeInv',
         \/ \E f \in Events : Emit(f)
         \/ \E i \in DOMAIN log : BackoffEnds(i)
         \/ \E k \in Hooks, s \in {"on", "off", "gone"} : SwitchHook(k, s)
  PROVE  Steady
<1> USE DEF TypeInv, TypeOK, TablesOK
<1>1. UNCHANGED <<pc, at, targets, ok, received, faults, lost>>
  BY DEF Emit, BackoffEnds, SwitchHook, local, world
<1>2. \A h \in Hooks : hook[h] = "gone" => hook'[h] = "gone"
  BY DEF Emit, BackoffEnds, SwitchHook
<1>3. \A e \in Events : event'[e] = "dispatched" <=> event[e] = "dispatched"
  BY DEF Emit, BackoffEnds, SwitchHook
<1>4. /\ DOMAIN log' = DOMAIN log
      /\ \A i \in DOMAIN log : /\ log'[i].event = log[i].event /\ log'[i].hook = log[i].hook
                               /\ log'[i].retry # "none" => log[i].retry # "none"
  <2>1. ASSUME NEW j \in DOMAIN log, BackoffEnds(j)
        PROVE  /\ DOMAIN log' = DOMAIN log
               /\ \A i \in DOMAIN log : /\ log'[i].event = log[i].event /\ log'[i].hook = log[i].hook
                                        /\ log'[i].retry # "none" => log[i].retry # "none"
    <3>1. log[j] \in Rows
      BY RowAt
    <3> QED BY <2>1, <3>1 DEF BackoffEnds, Rows
  <2>2. CASE log' = log
    BY <2>2
  <2> QED BY <2>1, <2>2 DEF Emit, SwitchHook
<1>5. ASSUME NEW e \in Events, NEW h \in Hooks PROVE NoMore(e, h)
  <2>1. OpenRows(e, h)' \subseteq OpenRows(e, h)
    BY <1>1, <1>2, <1>4, OpenStays
  <2>2. InLog(e, h)' <=> InLog(e, h)
    BY <1>1 DEF InLog
  <2>3. Answered(e, h)' <=> Answered(e, h)
    BY <1>1 DEF Answered
  <2>4. Passed(e, h)' <=> Passed(e, h)
    BY <1>1 DEF Passed
  <2>5. FirstOpen(e, h)' = FirstOpen(e, h)
    BY <1>3, <2>2, <2>3, <2>4 DEF FirstOpen
  <2>6. received'[e][h] + FirstOpen(e, h)' <= received[e][h] + FirstOpen(e, h)
    <3>1. received'[e][h] = received[e][h] /\ received[e][h] \in Nat
      BY <1>1 DEF WorldOK
    <3>2. FirstOpen(e, h) \in {0, 1}
      BY FirstOpenType
    <3> QED BY <2>5, <3>1, <3>2
  <2> QED BY <2>1, <2>6, ChancesKept
<1> QED BY <1>1, <1>5 DEF Steady

LEMMA EveryChanceStep ==
  ASSUME SingleCycle, TypeInv, TypeInv', SnapInv, DueInv, Next
  PROVE  ChanceStep
<1>1. ASSUME NEW w \in Workers, Cycle(w) PROVE ChanceStep
  BY <1>1, FrameChanceSteps, RetryChances, DispatchChances DEF Cycle
<1> QED BY <1>1, CrashChances, WorldChances DEF Next, ChanceStep

LEMMA ChancesTypeNext ==
  ASSUME TypeInv', NEW e \in Events, NEW h \in Hooks PROVE Chances(e, h)' \in Nat
<1>1. received'[e][h] \in Nat
  BY DEF TypeInv, TypeOK, WorldOK
<1>2. DOMAIN log' = 1..Len(log') /\ Len(log') \in Int
  BY DEF TypeInv, TypeOK, TablesOK
<1>3. IsFiniteSet(DOMAIN log')
  BY <1>2, FS_Interval
<1>4. OpenRows(e, h)' \subseteq DOMAIN log'
  BY DEF OpenRows
<1>5. IsFiniteSet(OpenRows(e, h)') /\ Cardinality(OpenRows(e, h)') \in Nat
  BY <1>3, <1>4, FS_Subset, FS_CardinalityType
<1> QED BY <1>1, <1>5, FirstOpenTypeNext DEF Chances

\* A set with one element for each member of S is no larger than S.
LEMMA ImageBound ==
  ASSUME NEW S, IsFiniteSet(S), NEW g, g = [s \in S |-> g[s]]
  PROVE  LET T == {g[s] : s \in S}
         IN  IsFiniteSet(T) /\ Cardinality(T) \in Nat /\ Cardinality(T) <= Cardinality(S)
<1> DEFINE T == {g[s] : s \in S}
<1>1. g \in [S -> T]
  OBVIOUS
<1>2. \A t \in T : \E s \in S : g[s] = t
  OBVIOUS
<1>3. g \in Surjection(S, T)
  BY <1>1, <1>2 DEF Surjection
<1> HIDE DEF T
<1>4. IsFiniteSet(T) /\ Cardinality(T) <= Cardinality(S)
  BY <1>3, FS_Surjection
<1>5. IsFiniteSet(T) /\ Cardinality(T) \in Nat /\ Cardinality(T) <= Cardinality(S)
  BY <1>4, FS_CardinalityType
<1> QED BY <1>5 DEF T

LEMMA NoMoreSpare ==
  ASSUME TypeInv, TypeInv', NEW x \in Spare',
         NoMore(x[1][1], x[1][2])
  PROVE  x \in Spare
<1> PICK e \in Events, h \in Hooks, n \in Nat : x = <<<<e, h>>, n>>
  BY DEF Spare
<1>1. n > 1 /\ n <= Chances(e, h)'
  BY DEF Spare
<1>2. Chances(e, h)' <= Chances(e, h)
  BY DEF NoMore
<1>3. n <= Chances(e, h)
  BY <1>1, <1>2, ChancesType, ChancesTypeNext
<1> QED BY <1>1, <1>3 DEF Spare

LEMMA OneMoreSpare ==
  ASSUME TypeInv, TypeInv', NEW e \in Events, NEW h \in Hooks, NEW x \in Spare', x[1] = <<e, h>>,
         OneMore(e, h)
  PROVE  x \in Spare \/ x = <<<<e, h>>, Chances(e, h) + 1>>
<1> PICK n \in Nat : x = <<<<e, h>>, n>>
  BY DEF Spare
<1>1. n > 1 /\ n <= Chances(e, h)'
  BY DEF Spare
<1>2. Chances(e, h)' <= Chances(e, h) + 1
  BY DEF OneMore
<1>3. n <= Chances(e, h) \/ n = Chances(e, h) + 1
  BY <1>1, <1>2, ChancesType, ChancesTypeNext
<1> QED BY <1>1, <1>3 DEF Spare

LEMMA SpareNext ==
  ASSUME SingleCycle
  PROVE  TypeInv /\ TypeInv' /\ SnapInv /\ DueInv /\ SpareInv /\ [Next]_vars => SpareInv'
<1> SUFFICES ASSUME TypeInv, TypeInv', SnapInv, DueInv, SpareInv, [Next]_vars PROVE SpareInv'
  OBVIOUS
<1>1. /\ faults \in Nat /\ lost \in Nat /\ IsFiniteSet(Hooks) /\ Cardinality(Hooks) \in Nat
      /\ faults * Cardinality(Hooks) \in Nat
  <2>1. faults \in Nat /\ lost \in Nat /\ IsFiniteSet(Hooks)
    BY WebhookDeliveryAssumption DEF TypeInv, TypeOK, WorldOK
  <2>2. Cardinality(Hooks) \in Nat
    BY <2>1, FS_CardinalityType
  <2> QED BY <2>1, <2>2
<1>2. /\ IsFiniteSet(Spare) /\ Cardinality(Spare) \in Nat
      /\ Cardinality(Spare) <= lost + faults * Cardinality(Hooks)
  BY FS_CardinalityType DEF SpareInv
<1>3. (faults + 1) * Cardinality(Hooks) = faults * Cardinality(Hooks) + Cardinality(Hooks)
  <2>1. \A m \in Nat, n \in Nat : (m + 1) * n = m * n + n
    OBVIOUS
  <2> QED BY <1>1, <2>1
<1>4. \A x \in Spare' : x[1][1] \in Events /\ x[1][2] \in Hooks /\ x[1] = <<x[1][1], x[1][2]>>
  BY DEF Spare
<1>5. ASSUME NEW T, IsFiniteSet(T), Cardinality(T) \in Nat, Spare' \subseteq Spare \cup T
      PROVE  IsFiniteSet(Spare') /\ Cardinality(Spare') \in Nat
             /\ Cardinality(Spare') <= Cardinality(Spare) + Cardinality(T)
  <2>1. /\ IsFiniteSet(Spare \cup T)
        /\ Cardinality(Spare \cup T) = Cardinality(Spare) + Cardinality(T) - Cardinality(Spare \cap T)
    BY <1>2, <1>5, FS_Union
  <2>2. Cardinality(Spare \cap T) \in Nat
    BY <1>2, FS_Subset, FS_CardinalityType
  <2>3. Cardinality(Spare \cup T) <= Cardinality(Spare) + Cardinality(T) /\ Cardinality(Spare \cup T) \in Nat
    BY <1>2, <1>5, <2>1, <2>2, FS_CardinalityType
  <2>4. /\ IsFiniteSet(Spare') /\ Cardinality(Spare') <= Cardinality(Spare \cup T)
        /\ Cardinality(Spare') \in Nat
    BY <1>5, <2>1, FS_Subset, FS_CardinalityType
  <2> QED BY <1>2, <1>5, <2>3, <2>4
<1>6. ASSUME Spare' \subseteq Spare, lost <= lost', faults <= faults', lost' \in Nat, faults' \in Nat
      PROVE  SpareInv'
  <2>1. /\ IsFiniteSet(Spare') /\ Cardinality(Spare') <= Cardinality(Spare) /\ Cardinality(Spare') \in Nat
    BY <1>2, <1>6, FS_Subset, FS_CardinalityType
  <2>2. faults * Cardinality(Hooks) <= faults' * Cardinality(Hooks)
    <3>1. \A m \in Nat, n \in Nat, c \in Nat : m <= n => m * c <= n * c
      OBVIOUS
    <3> QED BY <1>1, <1>6, <3>1
  <2>3. faults' * Cardinality(Hooks) \in Nat
    BY <1>1, <1>6
  <2> QED BY <1>1, <1>2, <1>6, <2>1, <2>2, <2>3 DEF SpareInv
<1>7. CASE UNCHANGED vars
  <2>1. UNCHANGED <<event, hook, log, pc, targets, at, ok, received, faults, lost>>
    BY <1>7 DEF vars, tables, local, world
  <2>2. ASSUME NEW e, NEW h PROVE Chances(e, h)' = Chances(e, h)
    <3>1. OpenRows(e, h)' = OpenRows(e, h)
      BY <2>1 DEF OpenRows, InHand, Done
    <3>2. InLog(e, h)' <=> InLog(e, h)
      BY <2>1 DEF InLog
    <3>3. Passed(e, h)' <=> Passed(e, h)
      BY <2>1 DEF Passed
    <3>4. Answered(e, h)' <=> Answered(e, h)
      BY <2>1 DEF Answered
    <3>5. FirstOpen(e, h)' = FirstOpen(e, h)
      BY <2>1, <3>2, <3>3, <3>4 DEF FirstOpen
    <3>6. Cardinality(OpenRows(e, h)') = Cardinality(OpenRows(e, h))
      BY <3>1
    <3> QED BY <2>1, <3>5, <3>6 DEF Chances
  <2>3. Spare' \subseteq Spare
    BY <2>2 DEF Spare
  <2> QED BY <1>1, <1>6, <2>1, <2>3
<1> SUFFICES ASSUME ChanceStep PROVE SpareInv'
  BY <1>7, EveryChanceStep
<1>8. CASE Steady
  <2>1. Spare' \subseteq Spare
    BY <1>4, <1>8, NoMoreSpare DEF Steady
  <2> QED BY <1>1, <1>6, <1>8, <2>1 DEF Steady
<1>9. CASE AnswerLost
  <2> PICK f \in Events, k \in Hooks :
        /\ OneMore(f, k)
        /\ \A e \in Events, h \in Hooks : ~(e = f /\ h = k) => NoMore(e, h)
    BY <1>9 DEF AnswerLost
  <2> DEFINE y == <<<<f, k>>, Chances(f, k) + 1>>
  <2>1. ASSUME NEW x \in Spare' PROVE x \in Spare \cup {y}
    <3>1. CASE x[1] = <<f, k>>
      BY <3>1, OneMoreSpare
    <3>2. CASE x[1] # <<f, k>>
      <4>1. NoMore(x[1][1], x[1][2])
        BY <1>4, <3>2
      <4> QED BY <4>1, NoMoreSpare
    <3> QED BY <3>1, <3>2
  <2> HIDE DEF y
  <2>2. IsFiniteSet({y}) /\ Cardinality({y}) = 1
    BY FS_Singleton
  <2>3. /\ IsFiniteSet(Spare') /\ Cardinality(Spare') \in Nat
        /\ Cardinality(Spare') <= Cardinality(Spare) + 1
    BY <1>5, <2>1, <2>2
  <2>4. lost' = lost + 1 /\ faults' = faults
    BY <1>9 DEF AnswerLost
  <2> QED BY <1>1, <1>2, <2>3, <2>4 DEF SpareInv
<1>10. CASE Failed
  <2>1. lost' = lost /\ faults' = faults + 1
    BY <1>10 DEF Failed
  <2>2. CASE \A e \in Events, h \in Hooks : NoMore(e, h)
    <3>1. Spare' \subseteq Spare
      BY <1>4, <2>2, NoMoreSpare
    <3> QED BY <1>1, <1>6, <2>1, <3>1
  <2>3. ASSUME NEW f \in Events, \A h \in Hooks : OneMore(f, h),
               \A e \in Events \ {f}, h \in Hooks : NoMore(e, h)
        PROVE  SpareInv'
    <3> DEFINE g == [h \in Hooks |-> <<<<f, h>>, Chances(f, h) + 1>>]
               T == {g[h] : h \in Hooks}
    <3>1. ASSUME NEW x \in Spare' PROVE x \in Spare \cup T
      <4>1. CASE x[1][1] = f
        <5>1. PICK h \in Hooks : x[1] = <<f, h>>
          BY <1>4, <4>1
        <5>2. x \in Spare \/ x = <<<<f, h>>, Chances(f, h) + 1>>
          BY <2>3, <5>1, OneMoreSpare
        <5> QED BY <5>2
      <4>2. CASE x[1][1] # f
        <5>1. NoMore(x[1][1], x[1][2])
          BY <1>4, <2>3, <4>2
        <5> QED BY <5>1, NoMoreSpare
      <4> QED BY <4>1, <4>2
    <3>2. g = [h \in Hooks |-> g[h]]
      OBVIOUS
    <3> HIDE DEF g
    <3>3. IsFiniteSet(T) /\ Cardinality(T) \in Nat /\ Cardinality(T) <= Cardinality(Hooks)
      BY <1>1, <3>2, ImageBound
    <3> HIDE DEF T
    <3>4. /\ IsFiniteSet(Spare') /\ Cardinality(Spare') \in Nat
          /\ Cardinality(Spare') <= Cardinality(Spare) + Cardinality(T)
      BY <1>5, <3>1, <3>3
    <3>5. Cardinality(Spare') <= lost + (faults * Cardinality(Hooks) + Cardinality(Hooks))
      BY <1>1, <1>2, <3>3, <3>4
    <3>6. faults' * Cardinality(Hooks) = faults * Cardinality(Hooks) + Cardinality(Hooks)
      BY <1>3, <2>1
    <3> QED BY <2>1, <3>4, <3>5, <3>6 DEF SpareInv
  <2> QED BY <1>10, <2>2, <2>3 DEF Failed
<1> QED BY <1>8, <1>9, <1>10 DEF ChanceStep

\* With one cycle at a time an endpoint gets an event more than once only for
\* a lost answer, or after a crash or failed write, which costs each webhook
\* at most one delivery.
THEOREM DuplicatesCostFaults == ASSUME SingleCycle PROVE Spec => []DuplicatesNeedFaults
<1>1. Init => SnapInv /\ DueInv
  BY DEF Init, SnapInv, RowsCurrent, EventsCurrent, DueInv
<1>2. Init => SpareInv
  <2> SUFFICES ASSUME Init PROVE SpareInv
    OBVIOUS
  <2>1. ASSUME NEW e \in Events, NEW h \in Hooks PROVE Chances(e, h) \in {0, 1}
    <3>1. OpenRows(e, h) = {}
      BY DEF Init, OpenRows
    <3>2. Cardinality(OpenRows(e, h)) = 0 /\ received[e][h] = 0
      BY <3>1, FS_EmptySet DEF Init
    <3> QED BY <3>2, FirstOpenType DEF Chances
  <2>2. ASSUME NEW x \in Spare PROVE FALSE
    <3> PICK e \in Events, h \in Hooks, n \in Nat : x = <<<<e, h>>, n>>
      BY DEF Spare
    <3>1. n > 1 /\ n <= Chances(e, h)
      BY DEF Spare
    <3> QED BY <2>1, <3>1
  <2>3. Spare = {}
    BY <2>2
  <2>4. IsFiniteSet(Spare) /\ Cardinality(Spare) = 0
    BY <2>3, FS_EmptySet
  <2>5. Cardinality(Hooks) \in Nat
    BY FS_CardinalityType, WebhookDeliveryAssumption
  <2>6. lost = 0 /\ faults = 0
    BY DEF Init
  <2> QED BY <2>4, <2>5, <2>6 DEF SpareInv
<1>3. TypeInv /\ SpareInv => DuplicatesNeedFaults
  <2> SUFFICES ASSUME TypeInv, SpareInv PROVE DuplicatesNeedFaults
    OBVIOUS
  <2>1. ASSUME NEW x \in ExtraPosts PROVE x \in Spare
    <3>1. PICK d \in Events \X Hooks : x \in {d} \X (2..received[d[1]][d[2]])
      BY DEF ExtraPosts
    <3> PICK e \in Events, h \in Hooks : d = <<e, h>>
      OBVIOUS
    <3>2. received[e][h] \in Nat
      BY DEF TypeInv, TypeOK, WorldOK
    <3> PICK n \in 2..received[e][h] : x = <<<<e, h>>, n>>
      BY <3>1
    <3>3. n \in Nat /\ n > 1 /\ n <= received[e][h]
      BY <3>2
    <3>4. n <= Chances(e, h)
      BY <3>2, <3>3, OpenRowsType, FirstOpenType DEF Chances
    <3> QED BY <3>3, <3>4 DEF Spare
  <2>2. /\ IsFiniteSet(Spare) /\ Cardinality(Spare) \in Nat
        /\ Cardinality(Spare) <= lost + faults * Cardinality(Hooks)
    BY FS_CardinalityType DEF SpareInv
  <2>3. Cardinality(ExtraPosts) <= Cardinality(Spare) /\ Cardinality(ExtraPosts) \in Nat
    <3>1. ExtraPosts \subseteq Spare
      BY <2>1
    <3> QED BY <2>2, <3>1, FS_Subset, FS_CardinalityType
  <2>4. lost \in Nat /\ faults \in Nat /\ Cardinality(Hooks) \in Nat
    BY FS_CardinalityType, WebhookDeliveryAssumption DEF TypeInv, TypeOK, WorldOK
  <2>5. lost + faults * Cardinality(Hooks) \in Nat
    BY <2>4
  <2> QED BY <2>2, <2>3, <2>5 DEF DuplicatesNeedFaults
<1> QED BY TypeInit, TypeNext, SnapNext, DueNext, SpareNext, <1>1, <1>2, <1>3, PTL DEF Spec
=============================================================================
