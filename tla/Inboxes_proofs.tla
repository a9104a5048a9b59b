--------------------------- MODULE Inboxes_proofs ---------------------------
(* What is true of an inbox and everybody who writes it for any set of      *)
(* inboxes, any limits and all programs and disturbances at once.           *)
EXTENDS Inboxes, TLAPS

USE InboxAssumption DEF Statuses, Absent, Judges, Kinds, Exists

\* TypeOK without the deletions on their way and the two histories of pauses and
\* late mails, which whole kinds of steps write.
Typed == TablesOK /\ EngineOK /\ DiagOK /\ OthersOK /\ HistoryOK

LEMMA AnyBoxIsOne == AnyBox \in Boxes
BY DEF AnyBox

LEMMA WriteTypes ==
  ASSUME TablesOK, NEW b \in Boxes, NEW row \in Row, Write(b, row)
  PROVE  box' \in [Boxes -> Row]
BY DEF TablesOK, Write

LEMMA LogTypes ==
  ASSUME TablesOK, NEW b \in Boxes, NEW row \in LogRow, Log(b, row)
  PROVE  log' \in [Boxes -> LogRow]
BY DEF TablesOK, Log

LEMMA FreshTypes == Fresh \in Row /\ Gone \in Row /\ Seasoned \in Row
<1>1. 0 \in 0..MaxPauses /\ 0 \in Nat /\ Critical \in 0..MaxScore /\ Good \in 0..MaxScore
  OBVIOUS
<1>2. Fresh \in Row
  BY <1>1 DEF Fresh, Row
<1> HIDE DEF Fresh
<1>3. Gone \in Row /\ Seasoned \in Row
  BY <1>1, <1>2 DEF Gone, Seasoned, Row
<1> QED BY <1>2, <1>3

LEMMA ClampTypes == \A n \in Int : Clamp(n) \in 0..MaxScore
BY DEF Clamp

\* Faults and disturbances are counted up to their bounds.
LEMMA EnvTypes ==
  ASSUME HistoryOK
  PROVE  /\ Fault => env' \in [day : 0..MaxDay, faults : 0..MaxFaults, events : 0..MaxEvents, cast : Casts]
         /\ \A e : Event(e) =>
              env' \in [day : 0..MaxDay, faults : 0..MaxFaults, events : 0..MaxEvents, cast : Casts]
BY DEF HistoryOK, Fault, Event

LEMMA BumpTypes ==
  ASSUME Typed, NEW b \in Boxes, NEW kind \in {"sent"} \cup Kinds, NEW seen \in 0..MaxScore,
         BumpReputation(b, kind, seen), log' = log
  PROVE  TablesOK' /\ HistoryOK'
<1>1. box[b] \in Row /\ audit[b].score \in 0..MaxScore /\ Delta[kind] \in Int
  BY DEF Typed, TablesOK, HistoryOK, Delta
<1>2. \A n \in 0..MaxScore : Rescored(b, kind, box[b], n) \in Row
  <2>1. \A n \in 0..MaxScore : Clamp(n + Delta[kind]) \in 0..MaxScore
    BY <1>1, ClampTypes
  <2> QED BY <1>1, <2>1 DEF Rescored, Row
<1>3. box' \in [Boxes -> Row]
  <2>1. box[b].score \in 0..MaxScore
    BY <1>1 DEF Row
  <2> QED BY <1>2, <2>1, WriteTypes DEF BumpReputation, Typed
<1>4. audit' \in [Boxes -> [warm : Nat, camp : Nat, lost : Nat, score : 0..MaxScore]]
  <2>1. Clamp(audit[b].score + Delta[kind]) \in 0..MaxScore
    BY <1>1, ClampTypes
  <2> QED BY <2>1 DEF BumpReputation, Typed, HistoryOK
<1>5. env' = env \/ Fault
  BY DEF BumpReputation
<1> QED BY <1>3, <1>4, <1>5, EnvTypes DEF Typed, TablesOK, HistoryOK

\* A run that has ended.
LEMMA IdleTypes == engine' = IdleEngine => EngineOK'
<1>1. 0 \in Nat /\ 0 \in 0..MaxScore
  OBVIOUS
<1>2. NoSnapshot \in [Boxes -> [daily : Nat, ready : BOOLEAN, ripe : BOOLEAN, score : 0..MaxScore]]
  BY <1>1 DEF NoSnapshot
<1> QED BY <1>2, AnyBoxIsOne DEF EngineOK, IdleEngine

\* What the cycle of one diagnostics loop is.
Cycle == [pc : {"idle", "drift", "driftlog", "resume", "smtplog", "promote"}, at : Boxes,
          todo : SUBSET Boxes, failing : SUBSET Boxes, pauses : [Boxes -> 0..MaxPauses]]

LEMMA IdleDiagTypes == IdleDiag \in Cycle
<1>1. 0 \in 0..MaxPauses
  OBVIOUS
<1> QED BY <1>1, AnyBoxIsOne DEF Cycle, IdleDiag

\* The cycle of one loop goes on, those of the others stay.
LEMMA GoesTypes ==
  ASSUME DiagOK, NEW c \in Loops, NEW cycle, Goes(c, cycle)
  PROVE  /\ cycle \in Cycle => DiagOK'
         /\ diag'[c] = cycle
         /\ \A d \in Loops : d # c => diag'[d] = diag[d]
BY DEF DiagOK, Goes, Cycle

\* The run goes on to the next inbox.
LEMMA EngineNextTypes ==
  ASSUME EngineOK, NEW b, EngineNext(b)
  PROVE  EngineOK'
<1>1. engine' = IdleEngine \/ engine' = [engine EXCEPT !.pc = "work", !.at = AnyBox, !.todo = @ \ {b}]
  BY DEF EngineNext
<1> QED BY <1>1, AnyBoxIsOne, IdleTypes DEF EngineOK

LEMMA EngineTypes == ASSUME Typed, EngineStep PROVE Typed'
<1> USE DEF Typed
<1>1. CASE EngineLoad
  <2>1. \A b \in Boxes : Snapshot(b) \in [daily : Nat, ready : BOOLEAN, ripe : BOOLEAN, score : 0..MaxScore]
    BY DEF Snapshot, TablesOK, Row
  <2>2. EngineOK'
    <3> DEFINE active == {b \in Boxes : Loadable(b)}
               rows == [b \in Boxes |-> IF b \in active THEN Snapshot(b) ELSE NoSnapshot[b]]
    <3>1. rows \in [Boxes -> [daily : Nat, ready : BOOLEAN, ripe : BOOLEAN, score : 0..MaxScore]]
      BY <2>1 DEF NoSnapshot
    <3>2. engine' = [pc |-> "heal", at |-> AnyBox, todo |-> active, rows |-> rows]
      BY <1>1 DEF EngineLoad, IdleEngine
    <3> HIDE DEF active, rows
    <3>3. active \subseteq Boxes
      BY DEF active
    <3> QED BY <3>1, <3>2, <3>3, AnyBoxIsOne DEF EngineOK
  <2> QED BY <1>1, <2>2 DEF EngineLoad, TablesOK, DiagOK, OthersOK, HistoryOK
<1>2. CASE Heal
  <2>1. TablesOK'
    BY <1>2 DEF Heal, TablesOK, Row
  <2>2. EngineOK'
    BY <1>2 DEF Heal, EngineOK
  <2>3. HistoryOK'
    BY <1>2 DEF Heal, HistoryOK
  <2> QED BY <1>2, <2>1, <2>2, <2>3 DEF Heal, DiagOK, OthersOK
<1>3. ASSUME NEW b \in Boxes, Aim(b) PROVE Typed'
  <2>1. engine.rows[b].ready \in BOOLEAN /\ engine.rows[b].ripe \in BOOLEAN
    BY DEF EngineOK
  <2>2. [box[b] EXCEPT !.reached = engine.rows[b].ripe /\ ~engine.rows[b].ready] \in Row
    BY <2>1 DEF TablesOK, Row
  <2>3. TablesOK'
    BY <1>3, <2>2, WriteTypes DEF Aim, TablesOK
  <2>4. EngineOK'
    BY <1>3, EngineNextTypes DEF Aim, EngineOK
  <2>5. HistoryOK'
    BY <1>3, EnvTypes DEF Aim, HistoryOK
  <2> QED BY <1>3, <2>3, <2>4, <2>5 DEF Aim, DiagOK, OthersOK
<1>4. CASE NoRecipient \/ NoText
  BY <1>4, EngineNextTypes, EnvTypes
  DEF NoRecipient, NoText, Passed, TablesOK, DiagOK, OthersOK, HistoryOK
<1>5. CASE WarmupMail
  <2>1. engine.at \in Boxes
    BY DEF EngineOK
  <2>2. [log[engine.at] EXCEPT !.sent = @ + 1, !.hour = @ + 1] \in LogRow
    <3>1. log[engine.at] \in LogRow
      BY <2>1 DEF TablesOK
    <3>2. \A n \in Nat : n + 1 \in Nat
      OBVIOUS
    <3> QED BY <3>1, <3>2 DEF LogRow
  <2>3. TablesOK'
    BY <1>5, <2>1, <2>2, LogTypes DEF WarmupMail, TablesOK
  <2>4. HistoryOK'
    BY <1>5, <2>1, EnvTypes DEF WarmupMail, HistoryOK
  <2> QED BY <1>5, <2>3, <2>4 DEF WarmupMail, EngineOK, DiagOK, OthersOK
<1>6. CASE SmtpError
  <2>1. engine.at \in Boxes
    BY DEF EngineOK
  <2>2. [log[engine.at] EXCEPT !.errors = @ + 1] \in LogRow
    <3>1. log[engine.at] \in LogRow
      BY <2>1 DEF TablesOK
    <3>2. \A n \in Nat : n + 1 \in Nat
      OBVIOUS
    <3> QED BY <3>1, <3>2 DEF LogRow
  <2>3. TablesOK'
    BY <1>6, <2>1, <2>2, LogTypes DEF SmtpError, TablesOK
  <2> QED BY <1>6, <2>3, EngineNextTypes, EnvTypes DEF SmtpError, DiagOK, OthersOK, HistoryOK
<1>7. CASE CountMail
  <2>1. engine.at \in Boxes /\ engine.rows[engine.at].daily \in Nat
    BY DEF EngineOK
  <2>2. /\ Counted(box[engine.at]) \in Row
        /\ [box[engine.at] EXCEPT !.daily = engine.rows[engine.at].daily + 1] \in Row
    BY <2>1 DEF TablesOK, Row, Counted
  <2>3. TablesOK'
    BY <1>7, <2>1, <2>2, WriteTypes DEF CountMail, TablesOK
  <2>4. HistoryOK'
    BY <1>7, <2>1, EnvTypes DEF CountMail, HistoryOK
  <2> QED BY <1>7, <2>3, <2>4 DEF CountMail, EngineOK, DiagOK, OthersOK
<1>8. CASE RewardMail
  <2>1. engine.at \in Boxes /\ engine.rows[engine.at].score \in 0..MaxScore
    BY DEF EngineOK
  <2>2. TablesOK' /\ HistoryOK'
    BY <1>8, <2>1, BumpTypes DEF RewardMail
  <2> QED BY <1>8, <2>2, EngineNextTypes DEF RewardMail, DiagOK, OthersOK
<1>9. CASE EngineKilled
  <2>1. engine.at \in Boxes
    BY DEF EngineOK
  <2>2. HistoryOK'
    BY <1>9, <2>1, EnvTypes DEF EngineKilled, HistoryOK
  <2>3. EngineOK'
    BY <1>9, IdleTypes DEF EngineKilled
  <2> QED BY <1>9, <2>2, <2>3 DEF EngineKilled, TablesOK, DiagOK, OthersOK
<1> QED BY <1>1, <1>2, <1>3, <1>4, <1>5, <1>6, <1>7, <1>8, <1>9 DEF EngineStep

LEMMA ResetTypes == ASSUME Typed, DailyReset \/ ResetCounts PROVE Typed'
<1> USE DEF Typed
<1>0. 0 \in Nat /\ \A b \in Boxes : box[b] \in Row
  BY DEF TablesOK
<1>1. TablesOK'
  <2>1. \A b \in Boxes : /\ [box[b] EXCEPT !.daily = 0] \in Row
                         /\ [box[b] EXCEPT !.daily = 0, !.stamped = TRUE] \in Row
    BY <1>0 DEF Row
  <2>2. CASE DailyReset
    BY <1>0, <2>1, <2>2 DEF DailyReset, TablesOK
  <2>3. CASE ResetCounts
    BY <1>0, <2>1, <2>3 DEF ResetCounts, TablesOK
  <2> QED BY <2>2, <2>3
<1>2. HistoryOK'
  <2>1. PICK hit : Erase(hit)
    BY DEF DailyReset, ResetCounts
  <2>2. \A b \in Boxes : audit'[b] \in [warm : Nat, camp : Nat, lost : Nat, score : 0..MaxScore]
    BY <2>1 DEF Erase, HistoryOK
  <2>3. audit' \in [Boxes -> [warm : Nat, camp : Nat, lost : Nat, score : 0..MaxScore]]
    BY <2>1, <2>2 DEF Erase
  <2>4. env' = env \/ Event("reset")
    BY DEF DailyReset, ResetCounts
  <2> QED BY <2>3, <2>4, EnvTypes DEF HistoryOK
<1> QED BY <1>1, <1>2 DEF DailyReset, ResetCounts, EngineOK, DiagOK, OthersOK

\* The two rows a pause leaves.
LEMMA PauseTypes ==
  ASSUME Typed, NEW b \in Boxes
  PROVE  /\ Paused(box[b]) \in Row /\ Resumed(box[b]) \in Row
         /\ \A n \in 0..MaxPauses :
              [box[b] EXCEPT !.status = "paused", !.pauses = n, !.reset = "future"] \in Row
         /\ \A h, a \in BOOLEAN : [log[b] EXCEPT !.auto = a, !.hist = h] \in LogRow
         /\ \A h \in BOOLEAN : [log[b] EXCEPT !.hist = h] \in LogRow
         /\ \A h \in BOOLEAN : [log[b] EXCEPT !.auto = h] \in LogRow
<1>1. box[b] \in Row /\ log[b] \in LogRow /\ 0 \in 0..MaxPauses
  BY DEF Typed, TablesOK
<1> QED BY <1>1 DEF Paused, Resumed, Row, LogRow

LEMMA LogPauseTypes ==
  ASSUME Typed, NEW b \in Boxes, LogPause(b), box' = box, audit' = audit
  PROVE  TablesOK' /\ HistoryOK'
<1>1. TablesOK'
  BY PauseTypes, LogTypes DEF LogPause, Typed, TablesOK
<1>2. env' = env \/ Fault
  BY DEF LogPause
<1> QED BY <1>1, <1>2, EnvTypes DEF Typed, HistoryOK

\* The promotion check of an inbox begins with its row.
LEMMA JudgeRowTypes ==
  ASSUME Typed, NEW w \in Judges, NEW b \in Boxes, JudgeRow(w, b)
  PROVE  judge' \in [Judges -> [pc : {"idle", "judge", "write"}, at : Boxes, fit : BOOLEAN]]
<1>1. Qualifies(box[b]) \in BOOLEAN
  BY DEF Qualifies, Typed, TablesOK, Row
<1> QED BY <1>1 DEF JudgeRow, Typed, OthersOK

LEMMA DiagTypes == ASSUME Typed, NEW c \in Loops, DiagStep(c) PROVE Typed'
<1> USE DEF Typed
<1>1. diag[c] \in Cycle /\ diag[c].at \in Boxes
  BY DEF DiagOK, Cycle
<1>2. ASSUME NEW pc \in {"drift", "resume", "promote"}, NEW todo \in SUBSET Boxes
      PROVE  [IdleDiag EXCEPT !.pc = pc, !.todo = todo] \in Cycle
  BY IdleDiagTypes DEF Cycle
<1>3. ASSUME NEW b \in Boxes
      PROVE  /\ [diag[c] EXCEPT !.todo = @ \ {b}] \in Cycle
             /\ [diag[c] EXCEPT !.failing = @ \ {b}] \in Cycle
             /\ [diag[c] EXCEPT !.pc = "driftlog", !.at = b, !.todo = @ \ {b}] \in Cycle
             /\ [[diag[c] EXCEPT !.failing = @ \ {b}] EXCEPT !.pc = "smtplog", !.at = b] \in Cycle
  BY <1>1 DEF Cycle
<1>4. CASE DriftLoad(c) \/ PromoteLoad(c) \/ CycleEnds(c)
  <2>1. DiagOK'
    <3>1. CASE DriftLoad(c)
      BY <1>2, <3>1, GoesTypes DEF DriftLoad
    <3>2. CASE PromoteLoad(c)
      BY <1>2, <3>2, GoesTypes DEF PromoteLoad
    <3>3. CASE CycleEnds(c)
      BY <3>3, IdleDiagTypes, GoesTypes DEF CycleEnds
    <3> QED BY <1>4, <3>1, <3>2, <3>3
  <2> QED BY <1>4, <2>1 DEF DriftLoad, PromoteLoad, CycleEnds, TablesOK, EngineOK, OthersOK, HistoryOK
<1>5. CASE SmtpLoad(c)
  <2>1. \A b \in Boxes : PausesSeen(box[b]) \in 0..MaxPauses
    BY DEF PausesSeen, TablesOK, Row
  <2> DEFINE failing == {b \in Boxes : /\ box[b].status \notin Absent \cup {"retired"}
                                       /\ log[b].errors >= ErrLimit}
             pauses == [b \in Boxes |-> IF b \in failing THEN PausesSeen(box[b]) ELSE 0]
             todo == {b \in Boxes : Resumable(b)}
  <2>2. pauses \in [Boxes -> 0..MaxPauses] /\ failing \subseteq Boxes /\ todo \subseteq Boxes
    <3>1. 0 \in 0..MaxPauses
      OBVIOUS
    <3> QED BY <2>1, <3>1
  <2>3. Goes(c, [IdleDiag EXCEPT !.pc = "resume", !.todo = todo, !.failing = failing, !.pauses = pauses])
    BY <1>5 DEF SmtpLoad
  <2> HIDE DEF pauses, failing, todo
  <2>4. [IdleDiag EXCEPT !.pc = "resume", !.todo = todo, !.failing = failing, !.pauses = pauses] \in Cycle
    BY <2>2, IdleDiagTypes DEF Cycle
  <2>5. DiagOK'
    BY <2>3, <2>4, GoesTypes
  <2> QED BY <1>5, <2>5 DEF SmtpLoad, TablesOK, EngineOK, OthersOK, HistoryOK
<1>6. CASE DriftLog(c)
  <2>1. TablesOK' /\ HistoryOK'
    BY <1>1, <1>6, LogPauseTypes DEF DriftLog
  <2>2. [diag[c] EXCEPT !.pc = "drift", !.at = AnyBox] \in Cycle
    BY <1>1, AnyBoxIsOne DEF Cycle
  <2>3. DiagOK'
    BY <1>6, <2>2, GoesTypes DEF DriftLog
  <2> QED BY <1>6, <2>1, <2>3 DEF DriftLog, EngineOK, OthersOK
<1>7. CASE SmtpLog(c)
  <2>1. TablesOK'
    BY <1>1, <1>7, PauseTypes, LogTypes DEF SmtpLog, TablesOK
  <2>2. HistoryOK'
    BY <1>7, EnvTypes DEF SmtpLog, HistoryOK
  <2>3. [diag[c] EXCEPT !.pc = "resume", !.at = AnyBox] \in Cycle
    BY <1>1, AnyBoxIsOne DEF Cycle
  <2>4. DiagOK'
    BY <1>7, <2>3, GoesTypes DEF SmtpLog
  <2> QED BY <1>7, <2>1, <2>2, <2>4 DEF SmtpLog, EngineOK, OthersOK
<1>8. ASSUME NEW b \in Boxes, DriftPause(c, b) PROVE Typed'
  <2>1. TablesOK'
    BY <1>8, PauseTypes, WriteTypes DEF DriftPause, TablesOK
  <2>2. DiagOK'
    BY <1>3, <1>8, GoesTypes DEF DriftPause
  <2>3. env' = env \/ Fault
    BY <1>8 DEF DriftPause
  <2> QED BY <1>8, <2>1, <2>2, <2>3, EnvTypes DEF DriftPause, EngineOK, OthersOK, HistoryOK
<1>9. ASSUME NEW b \in Boxes, AutoResume(c, b) PROVE Typed'
  <2>1. TablesOK'
    BY <1>9, PauseTypes, WriteTypes DEF AutoResume, TablesOK
  <2>2. DiagOK'
    BY <1>3, <1>9, GoesTypes DEF AutoResume
  <2> QED BY <1>9, <2>1, <2>2, EnvTypes DEF AutoResume, EngineOK, OthersOK, HistoryOK
<1>10. ASSUME NEW b \in Boxes, SmtpPause(c, b) PROVE Typed'
  <2>1. diag[c].pauses[b] \in 0..MaxPauses
    BY <1>1 DEF Cycle
  <2>2. TablesOK'
    <3>1. CASE box' = box
      BY <1>10, <3>1 DEF SmtpPause, TablesOK
    <3>2. CASE box' # box
      <4>1. diag[c].pauses[b] + 1 \in 0..MaxPauses
        BY <1>10, <2>1, <3>2 DEF SmtpPause
      <4> QED BY <1>10, <3>2, <4>1, PauseTypes, WriteTypes DEF SmtpPause, TablesOK
    <3> QED BY <3>1, <3>2
  <2>3. DiagOK'
    BY <1>3, <1>10, GoesTypes DEF SmtpPause
  <2>4. env' = env \/ Fault
    BY <1>10 DEF SmtpPause
  <2> QED BY <1>10, <2>2, <2>3, <2>4, EnvTypes DEF SmtpPause, EngineOK, OthersOK, HistoryOK
<1>11. ASSUME NEW b \in Boxes, CycleJudges(c, b) PROVE Typed'
  <2>1. OthersOK'
    BY <1>11, JudgeRowTypes DEF CycleJudges, OthersOK
  <2>2. DiagOK'
    BY <1>3, <1>11, GoesTypes DEF CycleJudges
  <2> QED BY <1>11, <2>1, <2>2 DEF CycleJudges, EngineOK, TablesOK, HistoryOK
<1> QED BY <1>4, <1>5, <1>6, <1>7, <1>8, <1>9, <1>10, <1>11 DEF DiagStep

LEMMA JudgeTypes == ASSUME Typed, NEW w \in Judges, JudgeStep(w) PROVE Typed'
<1> USE DEF Typed
<1>1. CASE Judge(w)
  <2>1. OthersOK'
    <3>1. IdleJudge \in [pc : {"idle", "judge", "write"}, at : Boxes, fit : BOOLEAN]
      BY AnyBoxIsOne DEF IdleJudge
    <3>2. judge' = [judge EXCEPT ![w].pc = "write"] \/ judge' = [judge EXCEPT ![w] = IdleJudge]
      BY <1>1 DEF Judge
    <3> QED BY <1>1, <3>1, <3>2 DEF Judge, OthersOK
  <2>2. env' = env \/ Fault
    BY <1>1 DEF Judge
  <2> QED BY <1>1, <2>1, <2>2, EnvTypes DEF Judge, TablesOK, EngineOK, DiagOK, HistoryOK
<1>2. CASE Promote(w)
  <2>1. judge[w].at \in Boxes
    BY DEF OthersOK
  <2>2. [box[judge[w].at] EXCEPT !.status = "ready"] \in Row
    BY <2>1 DEF TablesOK, Row
  <2>3. TablesOK'
    BY <1>2, <2>1, <2>2, WriteTypes DEF Promote, TablesOK
  <2>4. OthersOK'
    BY <1>2, AnyBoxIsOne DEF Promote, OthersOK, IdleJudge
  <2> QED BY <1>2, <2>3, <2>4, EnvTypes DEF Promote, EngineOK, DiagOK, HistoryOK
<1> QED BY <1>1, <1>2 DEF JudgeStep

LEMMA ScanTypes == ASSUME Typed, ScanStep PROVE Typed'
<1> USE DEF Typed
<1>1. CASE RatePause
  <2>1. rate.at \in Boxes
    BY DEF OthersOK
  <2>2. TablesOK'
    BY <1>1, <2>1, PauseTypes, WriteTypes DEF RatePause, TablesOK
  <2>3. OthersOK'
    BY <1>1, AnyBoxIsOne DEF RatePause, OthersOK, IdleAt
  <2> QED BY <1>1, <2>2, <2>3, EnvTypes DEF RatePause, EngineOK, DiagOK, HistoryOK
<1>2. CASE RateLog
  <2>1. rate.at \in Boxes
    BY DEF OthersOK
  <2>2. TablesOK' /\ HistoryOK'
    BY <1>2, <2>1, LogPauseTypes DEF RateLog
  <2>3. OthersOK'
    BY <1>2, AnyBoxIsOne DEF RateLog, OthersOK, IdleAt
  <2> QED BY <1>2, <2>2, <2>3 DEF RateLog, EngineOK, DiagOK
<1>3. CASE ScanBump
  <2>1. scan.at \in Boxes /\ scan.kind \in Kinds /\ scan.seen \in 0..MaxScore
    BY DEF OthersOK
  <2>2. TablesOK' /\ HistoryOK'
    BY <1>3, <2>1, BumpTypes DEF ScanBump
  <2>3. OthersOK'
    <3>1. 0 \in 0..MaxScore
      OBVIOUS
    <3> QED BY <1>3, <3>1, AnyBoxIsOne DEF ScanBump, OthersOK, IdleScan
  <2> QED BY <1>3, <2>2, <2>3 DEF ScanBump, EngineOK, DiagOK
<1>4. ASSUME NEW b \in Boxes, RateExceeded(b) PROVE Typed'
  BY <1>4, EnvTypes DEF RateExceeded, TablesOK, EngineOK, DiagOK, OthersOK, HistoryOK
<1>5. ASSUME NEW b \in Boxes, NetworkError(b) PROVE Typed'
  <2>1. TablesOK'
    <3>1. log[b] \in LogRow
      BY DEF TablesOK
    <3>2. [log[b] EXCEPT !.errors = @ + 1] \in LogRow
      BY <3>1 DEF LogRow
    <3> QED BY <1>5, <3>2 DEF NetworkError, TablesOK
  <2> QED BY <1>5, <2>1, EnvTypes DEF NetworkError, EngineOK, DiagOK, OthersOK, HistoryOK
<1>6. ASSUME NEW b \in Boxes, NEW kind \in Kinds, Scored(b, kind) PROVE Typed'
  <2>1. box[b].score \in 0..MaxScore
    BY DEF TablesOK, Row
  <2> QED BY <1>6, <2>1, EnvTypes DEF Scored, TablesOK, EngineOK, DiagOK, OthersOK, HistoryOK
<1> QED
  BY <1>1, <1>2, <1>3, <1>4, <1>5, <1>6 DEF ScanStep, BounceFound, RescueSpam, NetworkReads, ReplyBack

LEMMA SchedTypes == ASSUME Typed, SchedStep PROVE Typed'
<1> USE DEF Typed
<1>1. CASE CampaignMail
  <2>1. sched.at \in Boxes
    BY DEF OthersOK
  <2>2. TablesOK'
    <3>1. log[sched.at] \in LogRow
      BY <2>1 DEF TablesOK
    <3>2. [log[sched.at] EXCEPT !.csent = @ + 1, !.chour = @ + 1] \in LogRow
      <4>1. \A n \in Nat : n + 1 \in Nat
        OBVIOUS
      <4> QED BY <3>1, <4>1 DEF LogRow
    <3> QED BY <1>1, <2>1, <3>2, LogTypes DEF CampaignMail, TablesOK
  <2>3. HistoryOK'
    BY <1>1, <2>1, EnvTypes DEF CampaignMail, HistoryOK
  <2>4. OthersOK'
    BY <1>1, AnyBoxIsOne DEF CampaignMail, OthersOK, IdleAt
  <2> QED BY <1>1, <2>2, <2>3, <2>4 DEF CampaignMail, EngineOK, DiagOK
<1>2. ASSUME NEW b \in Boxes, SelectInbox(b) PROVE Typed'
  BY <1>2 DEF SelectInbox, TablesOK, EngineOK, DiagOK, OthersOK, HistoryOK
<1> QED BY <1>1, <1>2 DEF SchedStep

LEMMA OperatorTypes == ASSUME Typed, NEW b \in Boxes, ApiJudges(b) \/ Operator(b) PROVE Typed'
<1> USE DEF Typed
<1>1. CASE ApiJudges(b)
  <2>1. OthersOK'
    BY <1>1, JudgeRowTypes DEF ApiJudges, OthersOK
  <2> QED BY <1>1, <2>1, EnvTypes DEF ApiJudges, TablesOK, EngineOK, DiagOK, HistoryOK
<1>2. ASSUME NEW row \in Row, NEW e, Event(e), Operated(b, row), UNCHANGED audit PROVE Typed'
  BY <1>2, EnvTypes DEF Operated, TablesOK, EngineOK, DiagOK, OthersOK, HistoryOK
<1>3. CASE CreateInbox(b)
  BY <1>2, <1>3, FreshTypes DEF CreateInbox
<1>4. ASSUME NEW on \in BOOLEAN, PauseInbox(b, on) PROVE Typed'
  <2>1. [box[b] EXCEPT !.active = on, !.status = IF on THEN "warmup" ELSE "paused"] \in Row
    BY DEF TablesOK, Row
  <2> QED BY <1>2, <1>4, <2>1 DEF PauseInbox
<1>5. CASE PatchInbox(b)
  <2>1. \A st \in Statuses : [box[b] EXCEPT !.status = st] \in Row
    BY DEF TablesOK, Row
  <2>2. [box[b] EXCEPT !.active = ~@] \in Row
    BY DEF TablesOK, Row
  <2>3. [box[b] EXCEPT !.quota = Quota - @] \in Row
    <3>1. box[b] \in Row /\ Quota - box[b].quota \in {0, Quota}
      BY DEF TablesOK, Row
    <3> QED BY <3>1 DEF Row
  <2> QED BY <1>2, <1>5, <2>1, <2>2, <2>3 DEF PatchInbox
<1> QED BY <1>1, <1>3, <1>4, <1>5 DEF Operator

LEMMA RemovalTypes == ASSUME Typed, NEW b \in Boxes, DeleteLogs(b) \/ DeleteInbox(b) PROVE Typed'
<1> USE DEF Typed
<1>1. CASE DeleteLogs(b)
  <2>1. [log[b] EXCEPT !.sent = 0, !.hour = 0, !.errors = 0, !.auto = FALSE] \in LogRow
    <3>1. log[b] \in LogRow /\ 0 \in Nat
      BY DEF TablesOK
    <3> QED BY <3>1 DEF LogRow
  <2>2. log' = [log EXCEPT ![b] = [log[b] EXCEPT !.sent = 0, !.hour = 0, !.errors = 0, !.auto = FALSE]]
    BY <1>1 DEF DeleteLogs, TablesOK
  <2>3. TablesOK'
    BY <1>1, <2>1, <2>2 DEF DeleteLogs, TablesOK
  <2> QED BY <1>1, <2>3, EnvTypes DEF DeleteLogs, EngineOK, DiagOK, OthersOK, HistoryOK
<1>2. CASE DeleteInbox(b)
  <2>1. [Gone EXCEPT !.status = "deleted"] \in Row
    BY FreshTypes DEF Row
  <2>2. NoLog \in LogRow
    <3>1. 0 \in Nat
      OBVIOUS
    <3> QED BY <3>1 DEF NoLog, LogRow
  <2>3. TablesOK'
    BY <1>2, <2>1, <2>2 DEF DeleteInbox, TablesOK
  <2>4. HistoryOK'
    BY <1>2 DEF DeleteInbox, HistoryOK
  <2> QED BY <1>2, <2>3, <2>4 DEF DeleteInbox, EngineOK, DiagOK, OthersOK
<1> QED BY <1>1, <1>2

LEMMA TimeTypes == ASSUME Typed, Time PROVE Typed'
<1> USE DEF Typed
<1>0. 0 \in Nat /\ \A b \in Boxes : box[b] \in Row /\ log[b] \in LogRow
  BY DEF TablesOK
<1>1. CASE Midnight
  <2>1. \A b \in Boxes : /\ [box[b] EXCEPT !.stamped = FALSE] \in Row
                         /\ [log[b] EXCEPT !.sent = 0, !.csent = 0] \in LogRow
    <3>1. \A b \in Boxes : [box[b] EXCEPT !.stamped = FALSE] \in Row
      BY <1>0 DEF Row
    <3>2. \A b \in Boxes : [log[b] EXCEPT !.sent = 0, !.csent = 0] \in LogRow
      BY <1>0 DEF LogRow
    <3> QED BY <3>1, <3>2
  <2>2. TablesOK'
    BY <1>1, <2>1 DEF Midnight, TablesOK
  <2>3. audit' \in [Boxes -> [warm : Nat, camp : Nat, lost : Nat, score : 0..MaxScore]]
    <3>1. \A b \in Boxes : [audit[b] EXCEPT !.warm = 0, !.camp = 0, !.lost = 0]
                             \in [warm : Nat, camp : Nat, lost : Nat, score : 0..MaxScore]
      BY <1>0 DEF HistoryOK
    <3> QED BY <1>1, <3>1 DEF Midnight
  <2>4. env' \in [day : 0..MaxDay, faults : 0..MaxFaults, events : 0..MaxEvents, cast : Casts]
    <3>1. env.day + 1 \in 0..MaxDay
      <4>1. env.day \in 0..MaxDay /\ env.day < MaxDay /\ MaxDay \in Nat
        BY <1>1 DEF Midnight, HistoryOK
      <4> QED BY <4>1
    <3> QED BY <1>1, <3>1 DEF Midnight, HistoryOK
  <2> QED BY <1>1, <2>2, <2>3, <2>4 DEF Midnight, EngineOK, DiagOK, OthersOK, HistoryOK
<1>2. CASE HourPasses
  <2>1. \A b \in Boxes : [log[b] EXCEPT !.hour = 0, !.chour = 0, !.errors = 0] \in LogRow
    BY <1>0 DEF LogRow
  <2>2. TablesOK'
    BY <1>2, <2>1 DEF HourPasses, TablesOK
  <2> QED BY <1>2, <2>2 DEF HourPasses, EngineOK, DiagOK, OthersOK, HistoryOK
<1>3. ASSUME NEW b \in Boxes, PauseAges(b) PROVE Typed'
  <2>1. \A r \in {"past", "stale"} : [box[b] EXCEPT !.reset = r] \in Row
    BY <1>0 DEF Row
  <2>2. box' = [box EXCEPT ![b].reset = "past"] \/ box' = [box EXCEPT ![b].reset = "stale"]
    BY <1>3 DEF PauseAges
  <2>3. TablesOK'
    BY <1>3, <2>1, <2>2 DEF PauseAges, TablesOK
  <2> QED BY <1>3, <2>3 DEF PauseAges, EngineOK, DiagOK, OthersOK, HistoryOK
<1>4. ASSUME NEW b \in Boxes, WeekPasses(b) PROVE Typed'
  <2>1. [log[b] EXCEPT !.hist = FALSE, !.auto = FALSE] \in LogRow
    BY <1>0 DEF LogRow
  <2>2. log' = [log EXCEPT ![b] = [log[b] EXCEPT !.hist = FALSE, !.auto = FALSE]]
    BY <1>4 DEF WeekPasses, TablesOK
  <2>3. TablesOK'
    BY <1>4, <2>1, <2>2 DEF WeekPasses, TablesOK
  <2> QED BY <1>4, <2>3 DEF WeekPasses, EngineOK, DiagOK, OthersOK, HistoryOK
<1>5. ASSUME NEW b \in Boxes, Ripens(b) PROVE Typed'
  <2>1. [box[b] EXCEPT !.spam = FALSE, !.ripe = TRUE] \in Row
    BY <1>0 DEF Row
  <2>2. box' = [box EXCEPT ![b] = [box[b] EXCEPT !.spam = FALSE, !.ripe = TRUE]]
    BY <1>5 DEF Ripens, TablesOK
  <2>3. TablesOK'
    BY <1>5, <2>1, <2>2 DEF Ripens, TablesOK
  <2> QED BY <1>5, <2>3 DEF Ripens, EngineOK, DiagOK, OthersOK, HistoryOK
<1> QED BY <1>1, <1>2, <1>3, <1>4, <1>5 DEF Time

LEMMA TypedInit == Init => TypeOK
<1> SUFFICES ASSUME Init PROVE TypeOK
  OBVIOUS
<1>1. box \in [Boxes -> Row]
  BY FreshTypes DEF Init
<1>2. TablesOK
  <2>1. NoLog \in LogRow
    BY DEF NoLog, LogRow
  <2> QED BY <1>1, <2>1 DEF Init, TablesOK
<1>3. EngineOK
  <2>1. 0 \in Nat /\ 0 \in 0..MaxScore
    OBVIOUS
  <2>2. NoSnapshot \in [Boxes -> [daily : Nat, ready : BOOLEAN, ripe : BOOLEAN, score : 0..MaxScore]]
    BY <2>1 DEF NoSnapshot
  <2> QED BY <2>2, AnyBoxIsOne DEF Init, EngineOK, IdleEngine
<1>4. DiagOK
  BY IdleDiagTypes DEF Init, DiagOK, Cycle
<1>5. OthersOK
  <2>1. 0 \in 0..MaxScore
    OBVIOUS
  <2> QED BY <2>1, AnyBoxIsOne DEF Init, OthersOK, IdleJudge, IdleAt, IdleScan
<1>6. HistoryOK
  <2>1. \A b \in Boxes : box[b].score \in 0..MaxScore
    BY <1>1 DEF Row
  <2>2. 0 \in Nat /\ 0 \in 0..MaxDay /\ 0 \in 0..MaxFaults /\ 0 \in 0..MaxEvents
    OBVIOUS
  <2> QED BY <2>1, <2>2 DEF Init, HistoryOK
<1> QED BY <1>2, <1>3, <1>4, <1>5, <1>6 DEF Init, TypeOK

LEMMA TypedStep == ASSUME Typed, Step PROVE Typed'
BY EngineTypes, ResetTypes, DiagTypes, JudgeTypes, ScanTypes, SchedTypes, OperatorTypes, RemovalTypes, TimeTypes
DEF Step, OtherStep, RemovalStep

\* The two variables that few steps write.
LEMMA NotesTypes ==
  ASSUME removal \subseteq Boxes, renewed \subseteq Loops \X Boxes, Step
  PROVE  removal' \subseteq Boxes /\ renewed' \subseteq Loops \X Boxes
<1>1. CASE OtherStep /\ UNCHANGED <<removal, renewed>>
  BY <1>1
<1>2. ASSUME NEW c \in Loops, DiagStep(c), UNCHANGED removal
      PROVE  renewed' \subseteq Loops \X Boxes
  <2>1. CASE renewed' = renewed
    BY <2>1
  <2>2. ASSUME NEW b \in Boxes, AutoResume(c, b) PROVE renewed' \subseteq Loops \X Boxes
    BY <2>2 DEF AutoResume
  <2>3. ASSUME NEW b \in Boxes, SmtpPause(c, b), renewed' # renewed PROVE renewed' \subseteq Loops \X Boxes
    BY <2>3 DEF SmtpPause
  <2> QED BY <1>2, <2>1, <2>2, <2>3
      DEF DiagStep, DriftLoad, DriftPause, DriftLog, SmtpLoad, SmtpLog, PromoteLoad, CycleJudges, CycleEnds
<1>3. CASE RemovalStep /\ UNCHANGED renewed
  BY <1>3 DEF RemovalStep, DeleteLogs, DeleteInbox
<1> QED BY <1>1, <1>2, <1>3 DEF Step

LEMMA TypedNext == TypeOK /\ [Next]_vars => TypeOK'
<1>1. ASSUME TypeOK, UNCHANGED vars PROVE TypeOK'
  BY <1>1 DEF vars, TypeOK, TablesOK, EngineOK, DiagOK, OthersOK, HistoryOK
<1>2. ASSUME TypeOK, Next PROVE TypeOK'
  <2>1. Typed'
    BY <1>2, TypedStep DEF TypeOK, Typed, Next
  <2>2. late' \in [Boxes -> Nat]
    BY <1>2 DEF TypeOK, Next
  <2>3. removal' \subseteq Boxes /\ renewed' \subseteq Loops \X Boxes
    BY <1>2, NotesTypes DEF TypeOK, Next
  <2> QED BY <2>1, <2>2, <2>3 DEF TypeOK, Typed
<1> QED BY <1>1, <1>2

\* The rows, the runs of the programs and the histories keep their types: in
\* particular no score leaves its range and no inbox is paused once too often.
THEOREM TypeCorrect == Spec => []TypeOK
BY TypedInit, TypedNext, PTL DEF Spec

\* What a step leaves alone that has no business with the counter and the score.
Calm ==
  /\ engine' = engine
  /\ env'.faults >= env.faults
  /\ \A b \in Boxes :
       /\ box'[b].daily = box[b].daily /\ box'[b].score = box[b].score
       /\ Exists(b) => Exists(b)'
       /\ ~Exists(b) => box'[b].status = box[b].status /\ box'[b].active = box[b].active
       /\ audit'[b].warm = audit[b].warm
       /\ audit'[b].lost = audit[b].lost
       /\ audit'[b].score = audit[b].score

LEMMA FaultsGrow ==
  ASSUME HistoryOK
  PROVE  /\ Fault => env'.faults > env.faults
         /\ \A e : Event(e) => env'.faults = env.faults
         /\ env'.faults = env.faults \/ Fault => env'.faults >= env.faults
BY DEF HistoryOK, Fault, Event

\* A row written for its status, pauses or switch, by whatever program.
LEMMA CalmWrite ==
  ASSUME Typed, NEW b \in Boxes, NEW row,
         row.daily = box[b].daily, row.score = box[b].score, row.status \notin Absent,
         Write(b, row) \/ box' = box,
         engine' = engine, audit' = audit, env'.faults = env.faults \/ Fault
  PROVE  Calm
<1>1. \A c \in Boxes : box'[c] = box[c] \/ (Exists(c) /\ c = b /\ box'[c] = row)
  BY DEF Write, Typed, TablesOK
<1>2. env'.faults >= env.faults
  BY FaultsGrow DEF Typed
<1> QED BY <1>1, <1>2 DEF Calm

LEMMA CalmSame ==
  ASSUME Typed, box' = box, engine' = engine, audit' = audit, env'.faults = env.faults \/ Fault
  PROVE  Calm
BY FaultsGrow DEF Calm, Typed

LEMMA DiagIsCalm == ASSUME Typed, NEW d \in Loops, DiagStep(d) PROVE Calm
<1> USE DEF Typed
<1>1. ASSUME NEW b \in Boxes
      PROVE  /\ Paused(box[b]).daily = box[b].daily /\ Paused(box[b]).score = box[b].score
             /\ Paused(box[b]).status \notin Absent
             /\ Resumed(box[b]).daily = box[b].daily /\ Resumed(box[b]).score = box[b].score
             /\ Resumed(box[b]).status \notin Absent
  BY DEF TablesOK, Row, Paused, Resumed
<1>2. CASE DriftLoad(d) \/ DriftLog(d) \/ SmtpLoad(d) \/ SmtpLog(d) \/ PromoteLoad(d) \/ CycleEnds(d)
  BY <1>2, CalmSame DEF DriftLoad, DriftLog, LogPause, SmtpLoad, SmtpLog, PromoteLoad, CycleEnds
<1>3. ASSUME NEW b \in Boxes, DriftPause(d, b) \/ AutoResume(d, b) \/ CycleJudges(d, b) PROVE Calm
  <2>1. CASE DriftPause(d, b)
    BY <2>1, <1>1, CalmWrite DEF DriftPause
  <2>2. CASE AutoResume(d, b)
    BY <2>2, <1>1, CalmWrite DEF AutoResume
  <2>3. CASE CycleJudges(d, b)
    BY <2>3, CalmSame DEF CycleJudges
  <2> QED BY <1>3, <2>1, <2>2, <2>3
<1>4. ASSUME NEW b \in Boxes, SmtpPause(d, b) PROVE Calm
  <2> DEFINE row == [box[b] EXCEPT !.status = "paused", !.pauses = diag[d].pauses[b] + 1, !.reset = "future"]
  <2>1. row.daily = box[b].daily /\ row.score = box[b].score /\ row.status \notin Absent
    BY DEF TablesOK, Row
  <2>2. Write(b, row) \/ box' = box
    BY <1>4 DEF SmtpPause
  <2> HIDE DEF row
  <2> QED BY <1>4, <2>1, <2>2, CalmWrite DEF SmtpPause
<1> QED BY <1>2, <1>3, <1>4 DEF DiagStep

LEMMA OthersAreCalm ==
  ASSUME Typed, NEW b \in Boxes,
         \/ RatePause \/ RateLog \/ SchedStep \/ HourPasses
         \/ ApiJudges(b) \/ RateExceeded(b) \/ NetworkError(b) \/ SelectInbox(b)
         \/ BounceFound(b) \/ RescueSpam(b) \/ NetworkReads(b) \/ ReplyBack(b)
         \/ PauseAges(b) \/ WeekPasses(b) \/ Ripens(b) \/ PatchInbox(b) \/ DeleteLogs(b)
         \/ \E w \in Judges : JudgeStep(w)
         \/ \E on \in BOOLEAN : PauseInbox(b, on)
  PROVE  Calm
<1> USE DEF Typed
<1>1. \A c \in Boxes : box[c] \in Row
  BY DEF TablesOK
<1>2. \A c \in Boxes : /\ Paused(box[c]).daily = box[c].daily /\ Paused(box[c]).score = box[c].score
                       /\ Paused(box[c]).status \notin Absent
  BY <1>1 DEF Row, Paused
<1>3. CASE RatePause
  <2>1. rate.at \in Boxes
    BY DEF OthersOK
  <2> QED BY <1>2, <1>3, <2>1, CalmWrite DEF RatePause
<1>4. CASE RateLog \/ HourPasses \/ ApiJudges(b) \/ RateExceeded(b) \/ NetworkError(b) \/ WeekPasses(b)
           \/ BounceFound(b) \/ RescueSpam(b) \/ NetworkReads(b) \/ ReplyBack(b) \/ DeleteLogs(b)
  BY <1>4, CalmSame, FaultsGrow
  DEF DeleteLogs, RateLog, LogPause, HourPasses, ApiJudges, RateExceeded, NetworkError, WeekPasses,
      BounceFound, RescueSpam, NetworkReads, ReplyBack, Scored
<1>5. CASE SchedStep \/ SelectInbox(b)
  <2>1. CASE CampaignMail
    <3>1. \A c \in Boxes : /\ audit'[c].warm = audit[c].warm /\ audit'[c].lost = audit[c].lost
                           /\ audit'[c].score = audit[c].score
      BY <2>1 DEF CampaignMail, HistoryOK
    <3>2. env'.faults >= env.faults
      BY <2>1, FaultsGrow DEF CampaignMail
    <3> QED BY <2>1, <3>1, <3>2 DEF CampaignMail, Calm
  <2>2. ASSUME NEW c \in Boxes, SelectInbox(c) PROVE Calm
    BY <2>2, CalmSame DEF SelectInbox
  <2> QED BY <1>5, <2>1, <2>2 DEF SchedStep
<1>6. CASE PauseAges(b) \/ Ripens(b)
  <2>1. env'.faults >= env.faults
    BY <1>6, FaultsGrow DEF PauseAges, Ripens
  <2>2. CASE PauseAges(b)
    <3>1. \A c \in Boxes : /\ box'[c].daily = box[c].daily /\ box'[c].score = box[c].score
                           /\ box'[c].status = box[c].status /\ box'[c].active = box[c].active
      BY <1>1, <2>2 DEF PauseAges, TablesOK, Row
    <3> QED BY <2>1, <2>2, <3>1 DEF PauseAges, Calm
  <2>3. CASE Ripens(b)
    <3>1. \A c \in Boxes : /\ box'[c].daily = box[c].daily /\ box'[c].score = box[c].score
                           /\ box'[c].status = box[c].status /\ box'[c].active = box[c].active
      BY <1>1, <2>3 DEF Ripens, TablesOK, Row
    <3> QED BY <2>1, <2>3, <3>1 DEF Ripens, Calm
  <2> QED BY <1>6, <2>2, <2>3
<1>7. ASSUME NEW row, NEW e, Event(e), Exists(b), Operated(b, row), UNCHANGED audit,
             row.daily = box[b].daily, row.score = box[b].score, row.status \notin Absent
      PROVE  Calm
  BY <1>7, CalmWrite, FaultsGrow DEF Operated, Write
<1>8. ASSUME NEW on \in BOOLEAN, PauseInbox(b, on) PROVE Calm
  <2> DEFINE row == [box[b] EXCEPT !.active = on, !.status = IF on THEN "warmup" ELSE "paused"]
  <2>1. row.daily = box[b].daily /\ row.score = box[b].score /\ row.status \notin Absent
    BY <1>1 DEF Row
  <2> HIDE DEF row
  <2> QED BY <1>7, <1>8, <2>1 DEF PauseInbox, row
<1>9. CASE PatchInbox(b)
  <2>1. \A st \in Statuses : LET row == [box[b] EXCEPT !.status = st] IN
          row.daily = box[b].daily /\ row.score = box[b].score /\ row.status \notin Absent
    BY <1>1 DEF Row
  <2>2. Exists(b) => LET row == [box[b] EXCEPT !.active = ~@] IN
          row.daily = box[b].daily /\ row.score = box[b].score /\ row.status \notin Absent
    BY <1>1 DEF Row
  <2>3. Exists(b) => LET row == [box[b] EXCEPT !.quota = Quota - @] IN
          row.daily = box[b].daily /\ row.score = box[b].score /\ row.status \notin Absent
    BY <1>1 DEF Row
  <2> QED BY <1>7, <1>9, <2>1, <2>2, <2>3 DEF PatchInbox
<1>10. ASSUME NEW w \in Judges, JudgeStep(w) PROVE Calm
  <2>1. CASE Judge(w)
    BY <2>1, CalmSame DEF Judge
  <2>2. CASE Promote(w)
    <3> DEFINE c == judge[w].at
               row == [box[c] EXCEPT !.status = "ready"]
    <3>1. c \in Boxes
      BY DEF OthersOK
    <3>2. row.daily = box[c].daily /\ row.score = box[c].score /\ row.status \notin Absent
      BY <1>1, <3>1 DEF Row
    <3>3. Write(c, row) \/ box' = box
      BY <2>2 DEF Promote
    <3> HIDE DEF row, c
    <3> QED BY <2>2, <3>1, <3>2, <3>3, CalmWrite DEF Promote
  <2> QED BY <1>10, <2>1, <2>2 DEF JudgeStep
<1> QED BY <1>3, <1>4, <1>5, <1>6, <1>8, <1>9, <1>10

LEMMA StepKinds ==
  ASSUME Typed, Step
  PROVE  \/ Calm \/ EngineStep \/ DailyReset \/ ResetCounts \/ ScanBump \/ Midnight
         \/ \E b \in Boxes : CreateInbox(b) \/ DeleteInbox(b)
<1>1. CASE \E c \in Loops : DiagStep(c)
  BY <1>1, DiagIsCalm
<1>2. CASE ScanStep \/ SchedStep \/ Time \/ (\E w \in Judges : JudgeStep(w)) \/ RemovalStep
           \/ \E b \in Boxes : ApiJudges(b) \/ Operator(b)
  BY <1>2, OthersAreCalm DEF ScanStep, Time, Operator, RemovalStep
<1> QED BY <1>1, <1>2 DEF Step, OtherStep

---------------------------------------------------------------------------
Counting(b) == engine.pc = "count" /\ engine.at = b
InHand(b) == b \in engine.todo /\ ~(engine.pc = "bump" /\ engine.at = b)
Due(b) == IF Counting(b) THEN 1 ELSE 0

\* What the run is about to mail or to count belongs to its list, the rows it
\* read are a mail behind at most, and a row that is not there counts nothing.
AtIsListed == engine.pc \in {"mail", "count", "bump"} => engine.at \in engine.todo
ListedExisted == \A b \in engine.todo : box[b].status # "none"
CounterInv ==
  /\ AtIsListed /\ ListedExisted
  /\ \A b \in Boxes :
       /\ ~Exists(b) => ~box[b].active
       /\ box[b].status = "none" => audit[b].warm <= audit[b].lost
       /\ Exists(b) => audit[b].warm <= box[b].daily + audit[b].lost + Due(b)
       /\ InHand(b) => audit[b].warm <= engine.rows[b].daily + audit[b].lost + Due(b)

LEMMA CounterInit == Init => CounterInv
<1> SUFFICES ASSUME Init PROVE CounterInv
  OBVIOUS
<1>1. engine.pc = "idle" /\ engine.todo = {}
  BY DEF Init, IdleEngine
<1>2. \A b \in Boxes : /\ audit[b].warm = 0 /\ audit[b].lost = 0 /\ box[b].daily = 0
                       /\ box[b].status \in Absent => ~box[b].active
  <2>1. \A row \in {Gone, Seasoned} : row.daily = 0 /\ (row.status \in Absent => ~row.active)
    <3>1. /\ Gone.daily = 0 /\ Gone.status = "none" /\ ~Gone.active
          /\ Seasoned.daily = 0 /\ Seasoned.status = "warmup"
      BY DEF Fresh, Gone, Seasoned
    <3> QED BY <3>1
  <2>2. \A b \in Boxes : box[b] \in {Gone, Seasoned}
    BY DEF Init
  <2> QED BY <2>1, <2>2 DEF Init
<1> QED BY <1>1, <1>2 DEF CounterInv, AtIsListed, ListedExisted, InHand, Due, Counting

LEMMA CounterCalm == ASSUME Typed, CounterInv, Calm PROVE CounterInv'
BY DEF Typed, TablesOK, EngineOK, CounterInv, Calm, AtIsListed, ListedExisted, InHand, Due, Counting, Row

\* The run goes on, and everything the counter is compared with stays.
LEMMA CounterNext ==
  ASSUME Typed, CounterInv, NEW b, EngineNext(b), engine.pc \in {"work", "mail"},
         \A c \in Boxes : /\ box'[c].daily = box[c].daily
                          /\ box'[c].status = box[c].status /\ box'[c].active = box[c].active,
         audit' = audit
  PROVE  CounterInv'
<1>1. engine'.todo \subseteq engine.todo /\ engine'.pc \in {"idle", "work"} /\ ~(engine.pc \in {"count", "bump"})
  BY DEF EngineNext, IdleEngine, Typed, EngineOK
<1>2. \A c \in engine'.todo : engine'.rows[c] = engine.rows[c]
  BY DEF EngineNext, IdleEngine, Typed, EngineOK
<1> QED BY <1>1, <1>2
  DEF Typed, EngineOK, CounterInv, AtIsListed, ListedExisted, InHand, Due, Counting

LEMMA BumpLeaves ==
  ASSUME Typed, NEW b \in Boxes, NEW kind, NEW seen, BumpReputation(b, kind, seen)
  PROVE  \A c \in Boxes : /\ box'[c].daily = box[c].daily /\ box'[c].status = box[c].status
                          /\ box'[c].active = box[c].active
                          /\ audit'[c].warm = audit[c].warm /\ audit'[c].lost = audit[c].lost
<1>1. PICK n : Write(b, Rescored(b, kind, box[b], n))
  BY DEF BumpReputation
<1>2. LET row == Rescored(b, kind, box[b], n) IN
      row.daily = box[b].daily /\ row.status = box[b].status /\ row.active = box[b].active
  BY DEF Rescored, Typed, TablesOK, Row
<1>3. \A c \in Boxes : box'[c] = box[c] \/ (c = b /\ box'[c] = Rescored(b, kind, box[b], n))
  BY <1>1 DEF Write, Typed, TablesOK
<1>4. \A c \in Boxes : audit'[c].warm = audit[c].warm /\ audit'[c].lost = audit[c].lost
  BY DEF BumpReputation, Typed, HistoryOK
<1> QED BY <1>2, <1>3, <1>4

LEMMA CounterEngine == ASSUME Typed, CounterInv, EngineStep PROVE CounterInv'
<1> USE DEF Typed
<1>0. \A b \in Boxes : /\ box[b].daily \in Nat /\ audit[b].warm \in Nat /\ audit[b].lost \in Nat
                       /\ engine.rows[b].daily \in Nat
  BY DEF TablesOK, EngineOK, HistoryOK, Row
<1>1. CASE EngineLoad
  <2>1. /\ engine'.pc = "heal" /\ engine'.todo = {b \in Boxes : Loadable(b)}
        /\ \A b \in engine'.todo : engine'.rows[b].daily = box[b].daily
    BY <1>1 DEF EngineLoad, IdleEngine, NoSnapshot, Snapshot
  <2>2. engine.pc = "idle" /\ box' = box /\ audit' = audit
    BY <1>1 DEF EngineLoad
  <2>3. \A b \in engine'.todo : b \in Boxes /\ Exists(b)
    BY <2>1 DEF Loadable, CounterInv
  <2> QED BY <2>1, <2>2, <2>3 DEF CounterInv, AtIsListed, ListedExisted, InHand, Due, Counting
<1>2. CASE Heal
  <2> DEFINE stale == {b \in engine.todo : engine.rows[b].daily > 0 /\ log[b].sent = 0}
  <2>1. /\ engine'.pc = "work" /\ engine.pc = "heal" /\ engine'.todo = engine.todo
        /\ \A b \in Boxes : engine'.rows[b].daily = IF b \in stale THEN 0 ELSE engine.rows[b].daily
    BY <1>2 DEF Heal, EngineOK
  <2>2. \A b \in Boxes :
          /\ box'[b].daily = IF b \in stale /\ Exists(b) THEN 0 ELSE box[b].daily
          /\ box'[b].status = box[b].status /\ box'[b].active = box[b].active
          /\ audit'[b].warm = audit[b].warm
          /\ audit'[b].lost = IF b \in stale THEN audit[b].warm ELSE audit[b].lost
    BY <1>2 DEF Heal, TablesOK, HistoryOK, Row
  <2> HIDE DEF stale
  <2>3. AtIsListed' /\ ListedExisted'
    BY <2>1, <2>2 DEF CounterInv, AtIsListed, ListedExisted, EngineOK
  <2>4. \A b \in Boxes : Due(b) = 0 /\ Due(b)' = 0 /\ InHand(b)' = InHand(b)
    BY <2>1 DEF Due, Counting, InHand
  <2>5. ASSUME NEW b \in Boxes
        PROVE  /\ ~Exists(b)' => ~box'[b].active
               /\ box'[b].status = "none" => audit'[b].warm <= audit'[b].lost
               /\ Exists(b)' => audit'[b].warm <= box'[b].daily + audit'[b].lost
               /\ InHand(b) => audit'[b].warm <= engine'.rows[b].daily + audit'[b].lost
    BY <1>0, <2>1, <2>2, <2>4 DEF CounterInv
  <2>6. \A b \in Boxes : /\ box'[b].daily \in Nat /\ audit'[b].lost \in Nat
                         /\ engine'.rows[b].daily \in Nat
    BY <1>0, <2>1, <2>2
  <2> QED BY <2>3, <2>4, <2>5, <2>6 DEF CounterInv
<1>3. ASSUME NEW b \in Boxes, Aim(b) PROVE CounterInv'
  <2>1. \A c \in Boxes : /\ box'[c].daily = box[c].daily
                         /\ box'[c].status = box[c].status /\ box'[c].active = box[c].active
    BY <1>3 DEF Aim, Write, TablesOK, Row
  <2>2. CASE EngineNext(b)
    BY <1>3, <2>1, <2>2, CounterNext DEF Aim
  <2>3. CASE engine' = [engine EXCEPT !.pc = "mail", !.at = b]
    BY <1>3, <2>1, <2>3
    DEF Aim, EngineOK, CounterInv, AtIsListed, ListedExisted, InHand, Due, Counting
  <2> QED BY <1>3, <2>2, <2>3 DEF Aim
<1>4. CASE NoRecipient \/ NoText \/ SmtpError
  BY <1>4, CounterNext DEF NoRecipient, NoText, Passed, SmtpError
<1>5. CASE WarmupMail
  <2>1. /\ engine.pc = "mail" /\ engine' = [engine EXCEPT !.pc = "count"] /\ box' = box
        /\ audit' = [audit EXCEPT ![engine.at].warm = @ + 1]
    BY <1>5 DEF WarmupMail
  <2>2. \A c \in Boxes : /\ audit'[c].lost = audit[c].lost
                         /\ audit'[c].warm = audit[c].warm + (IF c = engine.at THEN 1 ELSE 0)
    BY <1>0, <2>1 DEF HistoryOK
  <2>3. engine'.pc = "count" /\ engine'.at = engine.at /\ engine'.todo = engine.todo
        /\ engine'.rows = engine.rows
    BY <2>1 DEF EngineOK
  <2>4. engine.at \in engine.todo
    BY <2>1 DEF CounterInv, AtIsListed
  <2> QED BY <1>0, <2>1, <2>2, <2>3, <2>4
      DEF CounterInv, AtIsListed, ListedExisted, InHand, Due, Counting
<1>6. CASE CountMail
  <2> DEFINE b == engine.at
  <2>1. engine.pc = "count" /\ b \in engine.todo /\ b \in Boxes /\ engine.todo \subseteq Boxes
    BY <1>6 DEF CountMail, CounterInv, AtIsListed, EngineOK
  <2>2. engine'.pc = "bump" /\ engine'.at = b /\ engine'.todo = engine.todo
        /\ engine'.rows = engine.rows
    BY <1>6 DEF CountMail, EngineOK
  <2>3. \A c \in Boxes : box'[c].status = box[c].status /\ box'[c].active = box[c].active
    BY <1>6, <2>1 DEF CountMail, Write, Counted, TablesOK, Row
  <2>4. \A c \in Boxes : c # b => box'[c].daily = box[c].daily /\ audit'[c] = audit[c]
    BY <1>6, <2>1 DEF CountMail, Write, TablesOK, HistoryOK
  <2>5. /\ audit'[b].warm = audit[b].warm
        /\ \/ audit'[b].lost = audit[b].lost /\ (Exists(b) => box'[b].daily = box[b].daily + 1)
           \/ audit'[b].lost = audit[b].lost /\ (Exists(b) => box'[b].daily = engine.rows[b].daily + 1)
           \/ audit'[b].lost = audit[b].lost + 1 /\ box'[b].daily = box[b].daily
    <3>1. CASE audit' = audit /\ Write(b, Counted(box[b]))
      BY <2>1, <3>1 DEF Write, Counted, TablesOK, Row
    <3>3. CASE audit' = audit /\ Write(b, [box[b] EXCEPT !.daily = engine.rows[b].daily + 1])
      BY <2>1, <3>3 DEF Write, TablesOK, Row
    <3>2. CASE audit' = [audit EXCEPT ![b].lost = @ + 1] /\ box' = box
      BY <2>1, <3>2 DEF HistoryOK
    <3> QED BY <1>6, <3>1, <3>2, <3>3 DEF CountMail
  <2>6. audit[b].warm <= engine.rows[b].daily + audit[b].lost + 1
    BY <2>1 DEF CounterInv, InHand, Due, Counting
  <2>7. Exists(b) => audit[b].warm <= box[b].daily + audit[b].lost + 1
    BY <2>1 DEF CounterInv, Due, Counting
  <2> HIDE DEF b
  <2>8. AtIsListed' /\ ListedExisted'
    BY <2>1, <2>2, <2>3 DEF CounterInv, AtIsListed, ListedExisted
  <2>9. \A c \in Boxes : Due(c)' = 0 /\ (InHand(c)' => c # b /\ InHand(c))
    BY <2>1, <2>2 DEF Due, Counting, InHand, b
  <2>10. \A c \in Boxes : c # b => Due(c) = 0
    BY <2>1 DEF Due, Counting, b
  <2>11. ASSUME NEW c \in Boxes
         PROVE  /\ ~Exists(c)' => ~box'[c].active
                /\ box'[c].status = "none" => audit'[c].warm <= audit'[c].lost
                /\ Exists(c)' => audit'[c].warm <= box'[c].daily + audit'[c].lost
                /\ InHand(c)' => audit'[c].warm <= engine'.rows[c].daily + audit'[c].lost
    <3>1. CASE c = b
      BY <1>0, <2>1, <2>3, <2>5, <2>6, <2>7, <2>9, <3>1 DEF CounterInv, ListedExisted
    <3>2. CASE c # b
      BY <1>0, <2>2, <2>3, <2>4, <2>9, <2>10, <3>2 DEF CounterInv
    <3> QED BY <3>1, <3>2
  <2>12. \A c \in Boxes : /\ box'[c].daily \in Nat /\ audit'[c].lost \in Nat
                          /\ engine'.rows[c].daily \in Nat
    BY <1>6, EngineTypes DEF EngineStep, TablesOK, HistoryOK, EngineOK, Row
  <2> QED BY <2>8, <2>9, <2>11, <2>12 DEF CounterInv
<1>7. CASE RewardMail
  <2> DEFINE b == engine.at
  <2>1. engine.pc = "bump" /\ b \in engine.todo /\ engine.todo \subseteq Boxes /\ EngineNext(b)
    BY <1>7 DEF RewardMail, CounterInv, AtIsListed, EngineOK
  <2>2. engine'.pc \in {"idle", "work"} /\ engine'.todo \subseteq engine.todo \ {b}
        /\ \A c \in engine'.todo : engine'.rows[c] = engine.rows[c]
    BY <2>1 DEF EngineNext, IdleEngine, EngineOK
  <2>3. \A c \in Boxes : /\ box'[c].daily = box[c].daily /\ box'[c].status = box[c].status
                         /\ box'[c].active = box[c].active
                         /\ audit'[c].warm = audit[c].warm /\ audit'[c].lost = audit[c].lost
    BY <1>7, <2>1, BumpLeaves DEF RewardMail
  <2>4. AtIsListed' /\ ListedExisted'
    BY <2>1, <2>2, <2>3 DEF CounterInv, AtIsListed, ListedExisted
  <2>5. \A c \in Boxes : Due(c) = 0 /\ Due(c)' = 0 /\ (InHand(c)' => InHand(c) /\ c \in engine'.todo)
    BY <2>1, <2>2 DEF Due, Counting, InHand
  <2> QED BY <1>0, <2>2, <2>3, <2>4, <2>5 DEF CounterInv
<1>8. CASE EngineKilled
  <2>1. engine'.pc = "idle" /\ engine'.todo = {} /\ box' = box
    BY <1>8 DEF EngineKilled, IdleEngine
  <2>2. \A c \in Boxes : /\ audit'[c].warm = audit[c].warm
                         /\ audit'[c].lost = audit[c].lost + Due(c)
    BY <1>0, <1>8 DEF EngineKilled, EngineOK, HistoryOK, Due, Counting
  <2>3. \A c \in Boxes : Due(c) \in Nat /\ Due(c)' = 0 /\ ~InHand(c)'
    BY <2>1 DEF Due, Counting, InHand
  <2> QED BY <1>0, <2>1, <2>2, <2>3 DEF CounterInv, AtIsListed, ListedExisted
<1> QED BY <1>1, <1>2, <1>3, <1>4, <1>5, <1>6, <1>7, <1>8 DEF EngineStep

LEMMA CounterStep == ASSUME Typed, CounterInv, Step PROVE CounterInv'
<1> USE DEF Typed
<1>0. \A b \in Boxes : /\ box[b].daily \in Nat /\ audit[b].warm \in Nat /\ audit[b].lost \in Nat
                       /\ engine.rows[b].daily \in Nat /\ Due(b) \in Nat
  BY DEF TablesOK, EngineOK, HistoryOK, Row, Due
<1>1. CASE Calm
  BY <1>1, CounterCalm
<1>2. CASE EngineStep
  BY <1>2, CounterEngine
<1>3. CASE DailyReset \/ ResetCounts
  <2>1. PICK hit : /\ Erase(hit) /\ \A b \in hit : b \in Boxes /\ Exists(b)
                   /\ \A b \in Boxes : /\ box'[b].daily = IF b \in hit THEN 0 ELSE box[b].daily
                                       /\ box'[b].status = box[b].status /\ box'[b].active = box[b].active
    <3>1. CASE DailyReset
      BY <3>1 DEF DailyReset, TablesOK, Row
    <3>2. CASE ResetCounts
      BY <3>2 DEF ResetCounts, TablesOK, Row
    <3> QED BY <1>3, <3>1, <3>2
  <2>2. \A b \in Boxes : /\ audit'[b].warm = audit[b].warm
                         /\ audit'[b].lost = IF b \in hit THEN audit[b].warm ELSE audit[b].lost
    BY <2>1 DEF Erase, HistoryOK
  <2>3. engine' = engine
    BY <1>3 DEF DailyReset, ResetCounts
  <2>4. \A b \in Boxes : Due(b)' = Due(b) /\ InHand(b)' = InHand(b)
    BY <2>3 DEF Due, Counting, InHand
  <2>5. AtIsListed' /\ ListedExisted'
    BY <2>1, <2>3 DEF CounterInv, AtIsListed, ListedExisted, EngineOK
  <2> QED BY <1>0, <2>1, <2>2, <2>3, <2>4, <2>5 DEF CounterInv
<1>4. CASE ScanBump
  <2>1. engine' = engine /\ scan.at \in Boxes
    BY <1>4 DEF ScanBump, OthersOK
  <2>2. \A c \in Boxes : /\ box'[c].daily = box[c].daily /\ box'[c].status = box[c].status
                         /\ box'[c].active = box[c].active
                         /\ audit'[c].warm = audit[c].warm /\ audit'[c].lost = audit[c].lost
    BY <1>4, <2>1, BumpLeaves DEF ScanBump
  <2> QED BY <2>1, <2>2 DEF CounterInv, AtIsListed, ListedExisted, EngineOK, InHand, Due, Counting
<1>5. CASE Midnight
  <2>1. engine' = engine
    BY <1>5 DEF Midnight
  <2>2. \A c \in Boxes : /\ box'[c].daily = box[c].daily /\ box'[c].status = box[c].status
                         /\ box'[c].active = box[c].active
                         /\ audit'[c].warm = 0 /\ audit'[c].lost = 0
    <3>1. \A c \in Boxes : box[c] \in Row /\ box'[c] = [box[c] EXCEPT !.stamped = FALSE]
      BY <1>5 DEF Midnight, TablesOK
    <3>2. \A c \in Boxes : audit'[c].warm = 0 /\ audit'[c].lost = 0
      BY <1>5 DEF Midnight, HistoryOK
    <3> QED BY <3>1, <3>2 DEF Row
  <2> QED BY <1>0, <2>1, <2>2 DEF CounterInv, AtIsListed, ListedExisted, EngineOK, InHand, Due, Counting
<1>6. ASSUME NEW b \in Boxes, CreateInbox(b) PROVE CounterInv'
  <2>1. engine' = engine /\ audit' = audit /\ box[b].status = "none" /\ b \notin engine.todo
    BY <1>6 DEF CreateInbox, Operated, CounterInv, ListedExisted
  <2>2. box'[b].status = "warmup" /\ box'[b].daily = 0 /\ \A c \in Boxes : c # b => box'[c] = box[c]
    BY <1>6 DEF CreateInbox, Operated, TablesOK, Fresh
  <2> QED BY <1>0, <2>1, <2>2 DEF CounterInv, AtIsListed, ListedExisted, EngineOK, InHand, Due, Counting
<1>7. ASSUME NEW b \in Boxes, DeleteInbox(b) PROVE CounterInv'
  <2>1. engine' = engine
    BY <1>7 DEF DeleteInbox
  <2>2. CASE box' = box /\ audit' = audit
    BY <2>1, <2>2 DEF CounterInv, AtIsListed, ListedExisted, InHand, Due, Counting
  <2>3. CASE box' = [box EXCEPT ![b] = [Gone EXCEPT !.status = "deleted"]]
             /\ audit' = [audit EXCEPT ![b].lost = audit[b].warm]
    <3>1. box'[b].status = "deleted" /\ ~box'[b].active
      BY <2>3, FreshTypes DEF TablesOK, Gone, Row
    <3>2. /\ audit'[b].warm = audit[b].warm /\ audit'[b].lost = audit[b].warm
          /\ \A c \in Boxes : c # b => box'[c] = box[c] /\ audit'[c] = audit[c]
      BY <2>3 DEF TablesOK, HistoryOK
    <3> QED BY <1>0, <2>1, <3>1, <3>2
        DEF CounterInv, AtIsListed, ListedExisted, EngineOK, InHand, Due, Counting
  <2> QED BY <1>7, <2>2, <2>3 DEF DeleteInbox
<1> QED BY <1>1, <1>2, <1>3, <1>4, <1>5, <1>6, <1>7, StepKinds

\* CounterKeepsUp, for any inboxes and all programs at once: neither the heal
\* nor a reset nor the blind write of a run loses a mail but those it accounts for.
THEOREM CounterCorrect == Spec => []CounterKeepsUp
<1>1. CounterInv => CounterKeepsUp
  BY DEF CounterInv, CounterKeepsUp, Due, Counting
<1>2. TypeOK /\ CounterInv /\ [Next]_vars => CounterInv'
  <2>1. TypeOK /\ CounterInv /\ UNCHANGED vars => CounterInv'
    BY DEF vars, CounterInv, AtIsListed, ListedExisted, InHand, Due, Counting
  <2> QED BY <2>1, CounterStep DEF Next, TypeOK, Typed
<1> QED BY <1>1, <1>2, CounterInit, TypeCorrect, PTL DEF Spec

---------------------------------------------------------------------------
\* As long as no call has failed the row's score is the exact one; a row that is
\* not there yet will begin with the score its history begins with.
ScoreInv ==
  \A b \in Boxes :
    /\ box[b].status # "deleted" /\ env.faults = 0 => box[b].score = audit[b].score
    /\ box[b].status = "none" => audit[b].score = Critical

LEMMA ScoreInit == Init => ScoreInv
<1> SUFFICES ASSUME Init PROVE ScoreInv
  OBVIOUS
<1>1. Gone.score = Critical /\ Seasoned.status = "warmup"
  BY DEF Fresh, Gone, Seasoned
<1>2. \A b \in Boxes : box[b] \in {Gone, Seasoned} /\ audit[b].score = box[b].score
  BY DEF Init
<1> QED BY <1>1, <1>2 DEF ScoreInv

\* With the SQL function at hand a bump is exact; without it a fault is counted.
LEMMA ScoreBump ==
  ASSUME Typed, ScoreInv, NEW b \in Boxes, NEW kind, NEW seen, BumpReputation(b, kind, seen)
  PROVE  ScoreInv'
<1> USE DEF Typed
<1>1. box[b] \in Row /\ env.faults \in Nat
  BY DEF TablesOK, HistoryOK
<1>2. \A c \in Boxes : c # b => box'[c] = box[c] /\ audit'[c] = audit[c]
  BY DEF BumpReputation, Write, TablesOK, HistoryOK
<1>3. box'[b].status = box[b].status
  BY BumpLeaves
<1>4. ~Exists(b) => box'[b] = box[b] /\ audit'[b] = audit[b]
  BY DEF BumpReputation, Write
<1>5. Exists(b) => audit'[b].score = Clamp(audit[b].score + Delta[kind])
  BY DEF BumpReputation, HistoryOK
<1>6. CASE Fault
  BY <1>1, <1>2, <1>3, <1>4, <1>6, FaultsGrow DEF ScoreInv
<1>7. CASE ~Fault
  <2>1. env' = env /\ Write(b, Rescored(b, kind, box[b], box[b].score))
    BY <1>7 DEF BumpReputation
  <2>2. Exists(b) => box'[b].score = Clamp(box[b].score + Delta[kind])
    BY <1>1, <2>1 DEF Write, TablesOK, Rescored, Row
  <2> QED BY <1>2, <1>3, <1>4, <1>5, <2>1, <2>2 DEF ScoreInv
<1> QED BY <1>6, <1>7

LEMMA ScoreStep == ASSUME Typed, ScoreInv, Step PROVE ScoreInv'
<1> USE DEF Typed
<1>0. env.faults \in Nat /\ \A b \in Boxes : box[b] \in Row
  BY DEF TablesOK, HistoryOK
<1>1. CASE Calm
  BY <1>0, <1>1 DEF Calm, ScoreInv
\* Every other step but a bump leaves scores, and does not make a row come back.
<1>2. ASSUME env'.faults >= env.faults,
             \A b \in Boxes : /\ box'[b].score = box[b].score /\ box'[b].status = box[b].status
                              /\ audit'[b].score = audit[b].score
      PROVE  ScoreInv'
  BY <1>0, <1>2 DEF ScoreInv
<1>3. CASE EngineStep
  <2>1. CASE RewardMail
    <3>1. engine.at \in Boxes
      BY DEF EngineOK
    <3> QED BY <2>1, <3>1, ScoreBump DEF RewardMail
  <2>2. CASE ~RewardMail
    <3>1. env'.faults >= env.faults
      BY <1>3, <2>2, FaultsGrow
      DEF EngineStep, EngineLoad, Heal, Aim, NoRecipient, NoText, Passed, WarmupMail, SmtpError,
          CountMail, EngineKilled
    <3>2. \A b \in Boxes : box'[b].score = box[b].score /\ box'[b].status = box[b].status
      <4>1. ASSUME NEW b \in Boxes, Aim(b) \/ box' = box
            PROVE  \A c \in Boxes : box'[c].score = box[c].score /\ box'[c].status = box[c].status
        BY <1>0, <4>1 DEF Aim, Write, TablesOK, Row
      <4>2. CASE Heal
        BY <1>0, <4>2 DEF Heal, Row
      <4>3. CASE CountMail
        <5>1. engine.at \in Boxes
          BY DEF EngineOK
        <5> QED BY <1>0, <4>3, <5>1 DEF CountMail, Write, Counted, TablesOK, Row
      <4> QED BY <1>3, <2>2, <4>1, <4>2, <4>3
          DEF EngineStep, EngineLoad, NoRecipient, NoText, Passed, WarmupMail, SmtpError, EngineKilled
    <3>3. \A b \in Boxes : audit'[b].score = audit[b].score
      <4>1. CASE Heal
        BY <4>1 DEF Heal, HistoryOK
      <4>2. CASE WarmupMail \/ CountMail \/ EngineKilled
        BY <4>2 DEF WarmupMail, CountMail, EngineKilled, HistoryOK
      <4> QED BY <1>3, <2>2, <4>1, <4>2
          DEF EngineStep, EngineLoad, Aim, NoRecipient, NoText, Passed, SmtpError
    <3> QED BY <1>2, <3>1, <3>2, <3>3
  <2> QED BY <2>1, <2>2
<1>4. CASE DailyReset \/ ResetCounts
  <2>1. env'.faults >= env.faults
    BY <1>4, FaultsGrow DEF DailyReset, ResetCounts
  <2>2. \A b \in Boxes : box'[b].score = box[b].score /\ box'[b].status = box[b].status
    <3>1. CASE DailyReset
      BY <1>0, <3>1 DEF DailyReset, Row
    <3>2. CASE ResetCounts
      BY <1>0, <3>2 DEF ResetCounts, Row
    <3> QED BY <1>4, <3>1, <3>2
  <2>3. \A b \in Boxes : audit'[b].score = audit[b].score
    <3>1. PICK hit : Erase(hit)
      BY <1>4 DEF DailyReset, ResetCounts
    <3> QED BY <3>1 DEF Erase, HistoryOK
  <2> QED BY <1>2, <2>1, <2>2, <2>3
<1>5. CASE ScanBump
  <2>1. scan.at \in Boxes
    BY DEF OthersOK
  <2> QED BY <1>5, <2>1, ScoreBump DEF ScanBump
<1>6. CASE Midnight
  <2>1. env'.faults >= env.faults
    <3>1. env' = [env EXCEPT !.day = @ + 1]
      BY <1>6 DEF Midnight
    <3> QED BY <1>0, <3>1 DEF HistoryOK
  <2>2. \A b \in Boxes : box'[b] = [box[b] EXCEPT !.stamped = FALSE]
    BY <1>6 DEF Midnight
  <2>3. \A b \in Boxes : audit'[b].score = audit[b].score
    BY <1>6 DEF Midnight, HistoryOK
  <2>4. \A b \in Boxes : box'[b].score = box[b].score /\ box'[b].status = box[b].status
    BY <1>0, <2>2 DEF Row
  <2> QED BY <1>2, <2>1, <2>3, <2>4
<1>7. ASSUME NEW b \in Boxes, CreateInbox(b) PROVE ScoreInv'
  <2>1. box[b].status = "none" /\ audit' = audit /\ env'.faults = env.faults
    BY <1>7, FaultsGrow DEF CreateInbox
  <2>2. box'[b] = Fresh /\ \A c \in Boxes : c # b => box'[c] = box[c]
    BY <1>7 DEF CreateInbox, Operated, TablesOK
  <2>3. Fresh.score = Critical /\ Fresh.status = "warmup"
    BY DEF Fresh
  <2> QED BY <2>1, <2>2, <2>3 DEF ScoreInv
<1>8. ASSUME NEW b \in Boxes, DeleteInbox(b) PROVE ScoreInv'
  <2>1. env' = env
    BY <1>8 DEF DeleteInbox
  <2>2. CASE box' = box /\ audit' = audit
    BY <2>1, <2>2 DEF ScoreInv
  <2>3. CASE box' = [box EXCEPT ![b] = [Gone EXCEPT !.status = "deleted"]]
             /\ audit' = [audit EXCEPT ![b].lost = audit[b].warm]
    <3>1. box'[b].status = "deleted"
      BY <2>3, FreshTypes DEF TablesOK, Row
    <3>2. \A c \in Boxes : c # b => box'[c] = box[c] /\ audit'[c].score = audit[c].score
      BY <2>3 DEF TablesOK, HistoryOK
    <3> QED BY <2>1, <3>1, <3>2 DEF ScoreInv
  <2> QED BY <1>8, <2>2, <2>3 DEF DeleteInbox
<1> QED BY <1>1, <1>3, <1>4, <1>5, <1>6, <1>7, <1>8, StepKinds

\* ScoreOffNeedsFailure, for any inboxes: whatever the order of the engine's and
\* the scanners' updates, a wrong score takes a failed call.
THEOREM ScoreCorrect == Spec => []ScoreOffNeedsFailure
<1>1. TypeOK /\ ScoreInv => ScoreOffNeedsFailure
  BY DEF ScoreInv, ScoreOffNeedsFailure, TypeOK, HistoryOK
<1>2. TypeOK /\ ScoreInv /\ [Next]_vars => ScoreInv'
  <2>1. TypeOK /\ ScoreInv /\ UNCHANGED vars => ScoreInv'
    BY DEF vars, ScoreInv
  <2> QED BY <2>1, ScoreStep DEF Next, TypeOK, Typed
<1> QED BY <1>1, <1>2, ScoreInit, TypeCorrect, PTL DEF Spec

---------------------------------------------------------------------------
(* Mails of an inbox that has been switched off.                            *)
EnginePending(b) == b \in engine.todo /\ ~(engine.pc \in {"count", "bump"} /\ engine.at = b)
SchedPending(b) == sched.pc = "send" /\ sched.at = b
\* The mails the two programs have already decided on.
Pending(b) == (IF EnginePending(b) THEN 1 ELSE 0) + (IF SchedPending(b) THEN 1 ELSE 0)
LateInv ==
  /\ AtIsListed
  /\ \A b \in Boxes : IF Off(b) THEN late[b] + Pending(b) <= 2 ELSE late[b] = 0

\* A mail takes one away from the mails decided on, and only for an inbox that
\* is not switched off does a program decide on another.
Spends(b) ==
  \/ ~Mailed(b) /\ Pending(b)' <= Pending(b)
  \/ Mailed(b) /\ Pending(b)' + 1 <= Pending(b)

LEMMA PendingTypes == \A b : Pending(b) \in {0, 1, 2} /\ Pending(b)' \in {0, 1, 2}
BY DEF Pending

LEMMA QuietSpends ==
  ASSUME Typed, Typed', NEW b \in Boxes,
         audit'[b].warm + audit'[b].camp <= audit[b].warm + audit[b].camp,
         EnginePending(b)' => EnginePending(b), SchedPending(b)' => SchedPending(b)
  PROVE  Spends(b)
<1>1. ~Mailed(b)
  <2>1. /\ audit[b].warm \in Nat /\ audit[b].camp \in Nat
        /\ audit'[b].warm \in Nat /\ audit'[b].camp \in Nat
    BY DEF Typed, HistoryOK
  <2> QED BY <2>1 DEF Mailed
<1>2. Pending(b)' <= Pending(b)
  BY DEF Pending
<1> QED BY <1>1, <1>2 DEF Spends

LEMMA EngineSpends ==
  ASSUME Typed, Typed', AtIsListed, EngineStep, NEW b \in Boxes
  PROVE  AtIsListed' /\ (Spends(b) \/ (EngineLoad /\ (Off(b)' => Spends(b))))
<1> USE DEF Typed
<1>0. /\ \A c \in Boxes : /\ audit[c].warm \in Nat /\ audit[c].camp \in Nat
                          /\ audit'[c].warm \in Nat /\ audit'[c].camp \in Nat
      /\ sched' = sched
  BY DEF HistoryOK, EngineStep, EngineLoad, Heal, Aim, NoRecipient, NoText, Passed, WarmupMail,
         SmtpError, CountMail, RewardMail, EngineKilled
<1>1. CASE EngineLoad
  <2>1. /\ engine'.pc = "heal" /\ engine'.todo = {c \in Boxes : Loadable(c)}
        /\ audit' = audit /\ box' = box
    BY <1>1 DEF EngineLoad, IdleEngine
  <2>2. Off(b)' => ~EnginePending(b)'
    BY <2>1 DEF Off, Loadable, EnginePending
  <2>3. Off(b)' => Spends(b)
    BY <1>0, <2>1, <2>2, QuietSpends DEF SchedPending
  <2>4. AtIsListed'
    BY <2>1 DEF AtIsListed
  <2> QED BY <1>1, <2>3, <2>4
\* The run goes on to the next inbox.
<1>2. ASSUME NEW c, EngineNext(c), engine.pc # "count",
             \A d \in Boxes : audit'[d].warm = audit[d].warm /\ audit'[d].camp = audit[d].camp,
             engine.pc = "bump" => engine.at = c
      PROVE  AtIsListed' /\ Spends(b)
  <2>1. /\ engine'.pc \in {"idle", "work"} /\ engine'.todo \subseteq engine.todo
        /\ c \notin engine'.todo
    BY <1>2 DEF EngineNext, IdleEngine, EngineOK
  <2> QED BY <1>0, <1>2, <2>1, QuietSpends DEF AtIsListed, EnginePending, SchedPending
<1>3. CASE Heal
  <2>1. /\ engine.pc = "heal" /\ engine'.pc = "work" /\ engine'.todo = engine.todo
    BY <1>3 DEF Heal, EngineOK
  <2>2. audit'[b].warm = audit[b].warm /\ audit'[b].camp = audit[b].camp
    BY <1>3 DEF Heal, HistoryOK
  <2> QED BY <1>0, <2>1, <2>2, QuietSpends DEF AtIsListed, EnginePending, SchedPending
<1>4. ASSUME NEW c \in Boxes, Aim(c) PROVE AtIsListed' /\ Spends(b)
  <2>1. CASE EngineNext(c)
    BY <1>2, <1>4, <2>1 DEF Aim
  <2>2. CASE engine' = [engine EXCEPT !.pc = "mail", !.at = c]
    <3>1. engine'.pc = "mail" /\ engine'.at = c /\ engine'.todo = engine.todo /\ engine.pc = "work"
      BY <1>4, <2>2 DEF EngineOK, Aim
    <3> QED BY <1>0, <1>4, <3>1, QuietSpends DEF Aim, AtIsListed, EnginePending, SchedPending
  <2> QED BY <1>4, <2>1, <2>2 DEF Aim
<1>5. CASE NoRecipient \/ NoText \/ SmtpError
  BY <1>2, <1>5 DEF NoRecipient, NoText, Passed, SmtpError
<1>6. CASE WarmupMail
  <2>1. /\ engine.pc = "mail" /\ engine'.pc = "count" /\ engine'.at = engine.at
        /\ engine'.todo = engine.todo /\ engine.at \in engine.todo
    BY <1>6 DEF WarmupMail, AtIsListed, EngineOK
  <2>2. CASE b = engine.at
    <3>1. audit'[b].warm = audit[b].warm + 1 /\ audit'[b].camp = audit[b].camp
      BY <1>6, <2>2 DEF WarmupMail, HistoryOK
    <3>2. EnginePending(b) /\ ~EnginePending(b)' /\ SchedPending(b)' = SchedPending(b)
      BY <1>0, <2>1, <2>2 DEF EnginePending, SchedPending
    <3> QED BY <1>0, <2>1, <3>1, <3>2 DEF Spends, Mailed, Pending, AtIsListed
  <2>3. CASE b # engine.at
    <3>1. audit'[b] = audit[b]
      BY <1>6, <2>3 DEF WarmupMail, HistoryOK
    <3>2. EnginePending(b)' = EnginePending(b) /\ SchedPending(b)' = SchedPending(b)
      BY <1>0, <2>1, <2>3 DEF EnginePending, SchedPending
    <3> QED BY <1>0, <2>1, <3>1, <3>2, QuietSpends DEF AtIsListed
  <2> QED BY <2>2, <2>3
<1>7. CASE CountMail
  <2>1. /\ engine.pc = "count" /\ engine'.pc = "bump" /\ engine'.at = engine.at
        /\ engine'.todo = engine.todo
    BY <1>7 DEF CountMail, EngineOK
  <2>2. audit'[b].warm = audit[b].warm /\ audit'[b].camp = audit[b].camp
    BY <1>7 DEF CountMail, HistoryOK
  <2> QED BY <1>0, <2>1, <2>2, QuietSpends DEF AtIsListed, EnginePending, SchedPending
<1>8. CASE RewardMail
  <2>1. \A d \in Boxes : audit'[d].warm = audit[d].warm /\ audit'[d].camp = audit[d].camp
    BY <1>8 DEF RewardMail, BumpReputation, HistoryOK
  <2> QED BY <1>2, <1>8, <2>1 DEF RewardMail
<1>9. CASE EngineKilled
  <2>1. engine'.pc = "idle" /\ engine'.todo = {}
    BY <1>9 DEF EngineKilled, IdleEngine
  <2>2. audit'[b].warm = audit[b].warm /\ audit'[b].camp = audit[b].camp
    BY <1>9 DEF EngineKilled, HistoryOK
  <2> QED BY <1>0, <2>1, <2>2, QuietSpends DEF AtIsListed, EnginePending, SchedPending
<1> QED BY <1>1, <1>3, <1>4, <1>5, <1>6, <1>7, <1>8, <1>9 DEF EngineStep

LEMMA StepSpends ==
  ASSUME Typed, Typed', AtIsListed, Step, NEW b \in Boxes
  PROVE  AtIsListed' /\ (Spends(b) \/ (box' = box /\ (Off(b)' => Spends(b))))
<1> USE DEF Typed
<1>1. CASE EngineStep
  BY <1>1, EngineSpends DEF EngineLoad
<1>2. CASE SchedStep
  <2>0. engine' = engine
    BY <1>2 DEF SchedStep, CampaignMail, SelectInbox
  <2>1. CASE CampaignMail
    <3>1. sched.pc = "send" /\ sched'.pc = "idle" /\ sched.at \in Boxes
      BY <2>1 DEF CampaignMail, IdleAt, OthersOK
    <3>2. EnginePending(b)' = EnginePending(b) /\ ~SchedPending(b)'
      BY <2>0, <3>1 DEF EnginePending, SchedPending
    <3>3. CASE b = sched.at
      <4>1. audit'[b].camp = audit[b].camp + 1 /\ audit'[b].warm = audit[b].warm
        BY <2>1, <3>3 DEF CampaignMail, HistoryOK
      <4>2. SchedPending(b) /\ audit[b].camp \in Nat /\ audit[b].warm \in Nat
        BY <3>1, <3>3 DEF SchedPending, HistoryOK
      <4> QED BY <2>0, <3>2, <4>1, <4>2 DEF Spends, Mailed, Pending, AtIsListed
    <3>4. CASE b # sched.at
      <4>1. audit'[b] = audit[b] /\ audit[b].camp \in Nat /\ audit[b].warm \in Nat
        BY <2>1, <3>4 DEF CampaignMail, HistoryOK
      <4> QED BY <2>0, <3>2, <4>1, QuietSpends DEF AtIsListed
    <3> QED BY <3>3, <3>4
  <2>2. ASSUME NEW c \in Boxes, SelectInbox(c)
        PROVE  AtIsListed' /\ (Spends(b) \/ (box' = box /\ (Off(b)' => Spends(b))))
    <3>1. box' = box /\ audit' = audit /\ sched' = [pc |-> "send", at |-> c] /\ sched.pc = "idle"
      BY <2>2 DEF SelectInbox
    <3>2. ~Off(c)
      BY <2>2 DEF SelectInbox, Available, Eligible, Off
    <3>3. Off(b)' => b # c
      BY <3>1, <3>2 DEF Off
    <3>4. b # c => ~SchedPending(b)'
      BY <3>1 DEF SchedPending
    <3>5. EnginePending(b)' = EnginePending(b) /\ audit[b].camp \in Nat /\ audit[b].warm \in Nat
      BY <2>0 DEF EnginePending, HistoryOK
    <3> QED BY <2>0, <3>1, <3>3, <3>4, <3>5, QuietSpends DEF AtIsListed
  <2> QED BY <1>2, <2>1, <2>2 DEF SchedStep
<1>3. ASSUME engine' = engine, sched' = sched,
             \A c \in Boxes : audit'[c].warm + audit'[c].camp <= audit[c].warm + audit[c].camp
      PROVE  AtIsListed' /\ Spends(b)
  BY <1>3, QuietSpends DEF AtIsListed, EnginePending, SchedPending
<1>4. \A c \in Boxes : audit[c].warm \in Nat /\ audit[c].camp \in Nat
  BY DEF HistoryOK
<1>5. ASSUME NEW c \in Loops, DiagStep(c) PROVE AtIsListed' /\ Spends(b)
  <2>1. engine' = engine /\ sched' = sched /\ audit' = audit
    BY <1>5
    DEF DiagStep, DriftLoad, DriftPause, DriftLog, SmtpLoad, AutoResume, SmtpPause, SmtpLog,
        PromoteLoad, CycleJudges, CycleEnds
  <2> QED BY <1>3, <1>4, <2>1
<1>6. CASE ScanStep
  <2>1. engine' = engine /\ sched' = sched
    BY <1>6 DEF ScanStep, RatePause, RateLog, ScanBump, RateExceeded, NetworkError, BounceFound,
                RescueSpam, NetworkReads, ReplyBack, Scored
  <2>2. \A c \in Boxes : audit'[c].warm = audit[c].warm /\ audit'[c].camp = audit[c].camp
    BY <1>6 DEF ScanStep, RatePause, RateLog, ScanBump, RateExceeded, NetworkError, BounceFound,
                RescueSpam, NetworkReads, ReplyBack, Scored, BumpReputation, HistoryOK
  <2> QED BY <1>3, <1>4, <2>1, <2>2
<1>7. CASE DailyReset \/ ResetCounts \/ Midnight
  <2>1. engine' = engine /\ sched' = sched
    BY <1>7 DEF DailyReset, ResetCounts, Midnight
  <2>2. \A c \in Boxes : \/ audit'[c].warm = audit[c].warm /\ audit'[c].camp = audit[c].camp
                         \/ audit'[c].warm = 0 /\ audit'[c].camp = 0
    <3>1. CASE Midnight
      <4>1. \A c \in Boxes : audit'[c].warm = 0 /\ audit'[c].camp = 0
        BY <3>1 DEF Midnight, HistoryOK
      <4> QED BY <4>1
    <3>2. CASE DailyReset \/ ResetCounts
      <4>1. PICK hit : Erase(hit)
        BY <3>2 DEF DailyReset, ResetCounts
      <4>2. \A c \in Boxes : audit'[c].warm = audit[c].warm /\ audit'[c].camp = audit[c].camp
        BY <4>1 DEF Erase, HistoryOK
      <4> QED BY <4>2
    <3> QED BY <1>7, <3>1, <3>2
  <2> QED BY <1>3, <1>4, <2>1, <2>2
<1>8. CASE (\E w \in Judges : JudgeStep(w)) \/ HourPasses \/ \E c \in Boxes : ApiJudges(c) \/ PauseAges(c)
           \/ WeekPasses(c) \/ Ripens(c)
  <2>1. engine' = engine /\ sched' = sched /\ audit' = audit
    BY <1>8 DEF JudgeStep, Judge, Promote, HourPasses, ApiJudges, PauseAges, WeekPasses, Ripens
  <2> QED BY <1>3, <1>4, <2>1
<1>9. ASSUME NEW c \in Boxes, Operator(c) \/ DeleteLogs(c) PROVE AtIsListed' /\ Spends(b)
  <2>1. engine' = engine /\ sched' = sched /\ audit' = audit
    BY <1>9 DEF Operator, CreateInbox, PauseInbox, PatchInbox, DeleteLogs, Operated
  <2> QED BY <1>3, <1>4, <2>1
<1>10. ASSUME NEW c \in Boxes, DeleteInbox(c) PROVE AtIsListed' /\ Spends(b)
  <2>1. engine' = engine /\ sched' = sched
    BY <1>10 DEF DeleteInbox
  <2>2. \A d \in Boxes : audit'[d].warm = audit[d].warm /\ audit'[d].camp = audit[d].camp
    BY <1>10 DEF DeleteInbox, HistoryOK
  <2> QED BY <1>3, <1>4, <2>1, <2>2
<1> QED BY <1>1, <1>2, <1>5, <1>6, <1>7, <1>8, <1>9, <1>10 DEF Step, OtherStep, RemovalStep, Time

LEMMA LateNext == TypeOK /\ LateInv /\ [Next]_vars => LateInv'
<1>1. TypeOK /\ LateInv /\ UNCHANGED vars => LateInv'
  BY DEF vars, LateInv, AtIsListed, Off, Pending, EnginePending, SchedPending
<1>2. ASSUME TypeOK, LateInv, Next PROVE LateInv'
  <2>1. Typed /\ Typed' /\ AtIsListed /\ Step
    BY <1>2, TypedStep DEF TypeOK, Typed, Next, LateInv
  <2>2. ASSUME NEW b \in Boxes
        PROVE  IF Off(b)' THEN late'[b] + Pending(b)' <= 2 ELSE late'[b] = 0
    <3>1. late[b] \in Nat /\ late[b] + Pending(b) <= 2
      BY <1>2, PendingTypes DEF LateInv, TypeOK
    <3>2. late'[b] = IF ~Off(b)' THEN 0 ELSE IF Mailed(b) THEN late[b] + 1 ELSE late[b]
      BY <1>2 DEF Next
    <3>3. Off(b)' => Spends(b)
      BY <2>1, StepSpends
    <3> QED BY <3>1, <3>2, <3>3, PendingTypes DEF Spends
  <2>3. AtIsListed'
    BY <2>1, StepSpends
  <2> QED BY <2>2, <2>3 DEF LateInv
<1> QED BY <1>1, <1>2

\* AtMostTwoLateMails, for any inboxes: an inbox that is switched off still sends
\* what the warmup run and the scheduler had each decided on, and no more.
THEOREM LateMailsCorrect == Spec => []AtMostTwoLateMails
<1>1. Init => LateInv
  <2> SUFFICES ASSUME Init PROVE LateInv
    OBVIOUS
  <2>1. engine.pc = "idle" /\ engine.todo = {} /\ sched.pc = "idle" /\ \A b \in Boxes : late[b] = 0
    BY DEF Init, IdleEngine, IdleAt
  <2> QED BY <2>1 DEF LateInv, AtIsListed, Pending, EnginePending, SchedPending
<1>2. TypeOK /\ LateInv => AtMostTwoLateMails
  BY PendingTypes DEF LateInv, AtMostTwoLateMails, TypeOK
<1> QED BY <1>1, <1>2, LateNext, TypeCorrect, PTL DEF Spec

---------------------------------------------------------------------------
\* A row that a cycle is about to resume has not been paused anew, but by another
\* loop, which the history then knows: the pauses of a cycle follow its resumes.
RenewInv ==
  \A c \in Loops :
    /\ diag[c].pc = "smtplog" => diag[c].todo = {}
    /\ diag[c].pc = "resume" => \A b \in diag[c].todo : box[b].reset # "future" \/ <<c, b>> \in renewed

\* No pause begins, and no inbox is switched on; the operator may do the latter.
Untouched ==
  \A b \in Boxes : /\ box'[b].reset = "future" => box[b].reset = "future"
                   /\ box'[b].active => box[b].active
ByOperator ==
  /\ \A b \in Boxes : box'[b].reset = "future" => box[b].reset = "future"
  /\ env'.events > env.events

LEMMA BumpLeavesPause ==
  ASSUME Typed, NEW b \in Boxes, NEW kind, NEW seen, BumpReputation(b, kind, seen)
  PROVE  Untouched
<1>1. PICK n : Write(b, Rescored(b, kind, box[b], n))
  BY DEF BumpReputation
<1>2. /\ Rescored(b, kind, box[b], n).reset = box[b].reset
      /\ Rescored(b, kind, box[b], n).active = box[b].active
  BY DEF Rescored, Typed, TablesOK, Row
<1> QED BY <1>1, <1>2 DEF Write, Typed, TablesOK, Untouched

\* Of the programs only the diagnostics begin a pause that ends by itself, and
\* only the operator switches an inbox on.
LEMMA NoNewPause ==
  ASSUME Typed, OtherStep \/ RemovalStep
  PROVE  diag' = diag /\ (Untouched \/ ByOperator)
<1> USE DEF Typed
<1>0. \A b \in Boxes : box[b] \in Row
  BY DEF TablesOK
<1>1. ASSUME NEW c \in Boxes, NEW row, Write(c, row),
             row.reset = box[c].reset, row.active => box[c].active
      PROVE  Untouched
  BY <1>1 DEF Write, TablesOK, Untouched
<1>9. box' = box => Untouched
  BY DEF Untouched
<1>2. CASE EngineStep
  <2>1. diag' = diag
    BY <1>2 DEF EngineStep, EngineLoad, Heal, Aim, NoRecipient, NoText, Passed, WarmupMail,
                SmtpError, CountMail, RewardMail, EngineKilled
  <2>2. engine.at \in Boxes
    BY DEF EngineOK
  <2>3. CASE Heal
    <3>1. \A b \in Boxes : box'[b] = box[b] \/ box'[b] = [box[b] EXCEPT !.daily = 0]
      BY <2>3 DEF Heal
    <3>2. ASSUME NEW b \in Boxes
          PROVE  box'[b].reset = box[b].reset /\ box'[b].active = box[b].active
      <4>1. box[b] \in Row /\ (box'[b] = box[b] \/ box'[b] = [box[b] EXCEPT !.daily = 0])
        BY <1>0, <3>1
      <4> QED BY <4>1 DEF Row
    <3>3. Untouched
      BY <3>2 DEF Untouched
    <3> QED BY <2>1, <3>3
  <2>4. ASSUME NEW b \in Boxes, Aim(b) PROVE Untouched
    <3> DEFINE row == [box[b] EXCEPT !.reached = engine.rows[b].ripe /\ ~engine.rows[b].ready]
    <3>1. Write(b, row) /\ row.reset = box[b].reset /\ row.active = box[b].active
      BY <1>0, <2>4 DEF Aim, Row
    <3> HIDE DEF row
    <3> QED BY <1>1, <3>1
  <2>5. CASE CountMail
    <3> DEFINE b == engine.at
               row == [box[b] EXCEPT !.daily = engine.rows[b].daily + 1]
    <3>1. /\ Counted(box[b]).reset = box[b].reset /\ row.reset = box[b].reset
          /\ Counted(box[b]).active = box[b].active /\ row.active = box[b].active
      BY <1>0, <2>2 DEF Counted, Row
    <3>2. Write(b, Counted(box[b])) \/ Write(b, row) \/ box' = box
      BY <2>5 DEF CountMail
    <3>4. b \in Boxes
      BY <2>2
    <3> HIDE DEF b, row
    <3> QED BY <1>1, <1>9, <2>1, <3>1, <3>2, <3>4
  <2>6. CASE RewardMail
    BY <2>1, <2>2, <2>6, BumpLeavesPause DEF RewardMail
  <2> QED BY <1>2, <1>9, <2>1, <2>3, <2>4, <2>5, <2>6
      DEF EngineStep, EngineLoad, NoRecipient, NoText, Passed, WarmupMail, SmtpError, EngineKilled
<1>3. CASE DailyReset \/ ResetCounts \/ Midnight
  <2>1. diag' = diag /\ \A b \in Boxes : \/ box'[b] = box[b]
                                         \/ box'[b] = [box[b] EXCEPT !.daily = 0]
                                         \/ box'[b] = [box[b] EXCEPT !.daily = 0, !.stamped = TRUE]
                                         \/ box'[b] = [box[b] EXCEPT !.stamped = FALSE]
    <3>1. CASE DailyReset
      BY <3>1 DEF DailyReset
    <3>2. CASE ResetCounts
      BY <3>2 DEF ResetCounts
    <3>3. CASE Midnight
      BY <3>3 DEF Midnight
    <3> QED BY <1>3, <3>1, <3>2, <3>3
  <2>2. ASSUME NEW b \in Boxes
        PROVE  box'[b].reset = box[b].reset /\ box'[b].active = box[b].active
    <3>1. box[b] \in Row
      BY <1>0
    <3> QED BY <2>1, <3>1 DEF Row
  <2> QED BY <2>1, <2>2 DEF Untouched
<1>4. CASE ScanStep
  <2>1. CASE RatePause
    <3>1. rate.at \in Boxes /\ Paused(box[rate.at]).reset = box[rate.at].reset
          /\ ~Paused(box[rate.at]).active
      BY <1>0 DEF OthersOK, Paused, Row
    <3> QED BY <1>1, <1>9, <2>1, <3>1 DEF RatePause
  <2>2. CASE ScanBump
    <3>1. scan.at \in Boxes
      BY DEF OthersOK
    <3> QED BY <2>2, <3>1, BumpLeavesPause DEF ScanBump
  <2> QED BY <1>4, <1>9, <2>1, <2>2
      DEF ScanStep, RateLog, RateExceeded, NetworkError, BounceFound, RescueSpam, NetworkReads,
          ReplyBack, Scored
<1>5. CASE SchedStep \/ HourPasses \/ \E b \in Boxes : ApiJudges(b) \/ WeekPasses(b)
  BY <1>5, <1>9 DEF SchedStep, CampaignMail, SelectInbox, HourPasses, ApiJudges, WeekPasses
<1>6. ASSUME NEW b \in Boxes, PauseAges(b) \/ Ripens(b) PROVE diag' = diag /\ Untouched
  <2>1. CASE PauseAges(b)
    <3>1. diag' = diag /\ \A c \in Boxes : c # b => box'[c] = box[c]
      BY <2>1 DEF PauseAges, TablesOK
    <3>2. box'[b].reset # "future" /\ box'[b].active = box[b].active
      BY <1>0, <2>1 DEF PauseAges, TablesOK, Row
    <3> QED BY <3>1, <3>2 DEF Untouched
  <2>2. CASE Ripens(b)
    BY <1>0, <2>2 DEF Ripens, TablesOK, Row, Untouched
  <2> QED BY <1>6, <2>1, <2>2
<1>7. ASSUME NEW w \in Judges, JudgeStep(w) PROVE diag' = diag /\ Untouched
  <2>1. CASE Promote(w)
    <3> DEFINE c == judge[w].at
               row == [box[c] EXCEPT !.status = "ready"]
    <3>1. c \in Boxes /\ row.reset = box[c].reset /\ row.active = box[c].active
      BY <1>0 DEF OthersOK, Row
    <3>2. Write(c, row) \/ box' = box
      BY <2>1 DEF Promote
    <3> HIDE DEF c, row
    <3> QED BY <1>1, <1>9, <2>1, <3>1, <3>2 DEF Promote
  <2> QED BY <1>7, <1>9, <2>1 DEF JudgeStep, Judge
<1>8. ASSUME NEW b \in Boxes, Operator(b) \/ DeleteLogs(b) PROVE diag' = diag /\ ByOperator
  <2>1. diag' = diag /\ \A c \in Boxes : c # b => box'[c] = box[c]
    BY <1>8 DEF Operator, CreateInbox, PauseInbox, PatchInbox, DeleteLogs, Operated, TablesOK
  <2>2. box'[b].reset = box[b].reset \/ box'[b].reset = "none"
    <3>1. CASE CreateInbox(b)
      <4>1. Fresh.reset = "none"
        BY DEF Fresh
      <4> QED BY <3>1, <4>1 DEF CreateInbox, Operated, TablesOK
    <3>2. ASSUME NEW on \in BOOLEAN, PauseInbox(b, on) PROVE box'[b].reset = box[b].reset
      BY <1>0, <3>2 DEF PauseInbox, Operated, TablesOK, Row
    <3>3. CASE PatchInbox(b)
      BY <1>0, <3>3 DEF PatchInbox, Operated, TablesOK, Row
    <3>4. CASE DeleteLogs(b)
      BY <3>4 DEF DeleteLogs
    <3> QED BY <1>8, <3>1, <3>2, <3>3, <3>4 DEF Operator
  <2>3. env'.events > env.events
    <3>1. \E e : Event(e)
      BY <1>8 DEF Operator, CreateInbox, PauseInbox, PatchInbox, DeleteLogs
    <3> QED BY <3>1 DEF Event, HistoryOK
  <2> QED BY <2>1, <2>2, <2>3 DEF ByOperator
<1>10. ASSUME NEW b \in Boxes, DeleteInbox(b) PROVE diag' = diag /\ Untouched
  <2> DEFINE row == [Gone EXCEPT !.status = "deleted"]
  <2>1. row.reset = "none" /\ row.active = FALSE
    BY DEF Fresh, Gone
  <2>2. diag' = diag /\ (box' = box \/ box' = [box EXCEPT ![b] = row])
    BY <1>10 DEF DeleteInbox
  <2> HIDE DEF row
  <2>3. ASSUME box' = [box EXCEPT ![b] = row], NEW c \in Boxes
        PROVE  box'[c].reset = "future" => box[c].reset = "future"
    BY <2>1, <2>3 DEF TablesOK
  <2>4. ASSUME box' = [box EXCEPT ![b] = row], NEW c \in Boxes, box'[c].active
        PROVE  box[c].active
    BY <2>1, <2>4 DEF TablesOK
  <2> QED BY <1>9, <2>2, <2>3, <2>4 DEF Untouched
<1> QED BY <1>2, <1>3, <1>4, <1>5, <1>6, <1>7, <1>8, <1>10 DEF OtherStep, RemovalStep, Time

\* What a step of one loop has to keep for the rows it and the others are about
\* to resume.
LEMMA RenewGoes ==
  ASSUME Typed, RenewInv, NEW d \in Loops, NEW cycle, Goes(d, cycle),
         \A c \in Loops, b \in Boxes :
           c # d => /\ <<c, b>> \in renewed => <<c, b>> \in renewed'
                    /\ ToResume(c, b) /\ box'[b].reset = "future"
                         => box[b].reset = "future" \/ <<c, b>> \in renewed',
         cycle.pc = "smtplog" => cycle.todo = {},
         cycle.pc = "resume" =>
           \A b \in cycle.todo : box'[b].reset # "future" \/ <<d, b>> \in renewed'
  PROVE  RenewInv'
<1>1. DiagOK
  BY DEF Typed
<1>2. ASSUME NEW c \in Loops
      PROVE  /\ diag'[c].pc = "smtplog" => diag'[c].todo = {}
             /\ diag'[c].pc = "resume" =>
                  \A b \in diag'[c].todo : box'[b].reset # "future" \/ <<c, b>> \in renewed'
  <2>1. CASE c = d
    BY <1>1, <2>1, GoesTypes
  <2>2. CASE c # d
    <3>1. diag'[c] = diag[c]
      BY <1>1, <2>2, GoesTypes
    <3>2. diag[c].todo \subseteq Boxes
      BY <1>1 DEF DiagOK
    <3> QED BY <2>2, <3>1, <3>2 DEF RenewInv, ToResume
  <2> QED BY <2>1, <2>2
<1> QED BY <1>2 DEF RenewInv

LEMMA RenewDiag ==
  ASSUME Typed, RenewInv, NEW d \in Loops, DiagStep(d)
  PROVE  RenewInv' /\ \A c \in Loops, b \in Boxes : Lifts(c, b) => <<c, b>> \in renewed
<1> USE DEF Typed
<1>0. \A b \in Boxes : box[b] \in Row
  BY DEF TablesOK
<1>9. diag[d] \in Cycle
  BY DEF DiagOK, Cycle
\* A step that leaves the rows and the history alone.
<1>1. ASSUME NEW cycle, Goes(d, cycle), box' = box, renewed' = renewed,
             cycle.pc = "smtplog" => cycle.todo = {},
             cycle.pc = "resume" =>
               \A b \in cycle.todo : box[b].reset # "future" \/ <<d, b>> \in renewed
      PROVE  RenewInv' /\ \A c \in Loops, b \in Boxes : ~Lifts(c, b)
  BY <1>1, RenewGoes DEF Lifts
<1>2. CASE DriftLoad(d) \/ PromoteLoad(d) \/ CycleEnds(d)
  <2>1. CASE DriftLoad(d)
    <3> DEFINE todo == {b \in Boxes : box[b].score < Critical /\ box[b].status \notin Absent \cup {"paused", "retired"}}
    <3>1. Goes(d, [IdleDiag EXCEPT !.pc = "drift", !.todo = todo])
      BY <2>1 DEF DriftLoad
    <3>2. [IdleDiag EXCEPT !.pc = "drift", !.todo = todo].pc = "drift"
      BY DEF IdleDiag
    <3> HIDE DEF todo
    <3> QED BY <1>1, <2>1, <3>1, <3>2 DEF DriftLoad
  <2>2. CASE PromoteLoad(d)
    <3> DEFINE todo == {b \in Boxes : box[b].status = "warmup"}
    <3>1. Goes(d, [IdleDiag EXCEPT !.pc = "promote", !.todo = todo])
      BY <2>2 DEF PromoteLoad
    <3>2. [IdleDiag EXCEPT !.pc = "promote", !.todo = todo].pc = "promote"
      BY DEF IdleDiag
    <3> HIDE DEF todo
    <3> QED BY <1>1, <2>2, <3>1, <3>2 DEF PromoteLoad
  <2>3. CASE CycleEnds(d)
    <3>1. IdleDiag.pc = "idle"
      BY DEF IdleDiag
    <3> QED BY <1>1, <2>3, <3>1 DEF CycleEnds
  <2> QED BY <1>2, <2>1, <2>2, <2>3
<1>3. CASE SmtpLoad(d)
  <2>1. PICK failing, pauses :
          Goes(d, [IdleDiag EXCEPT !.pc = "resume", !.todo = {b \in Boxes : Resumable(b)},
                     !.failing = failing, !.pauses = pauses])
    BY <1>3 DEF SmtpLoad
  <2> DEFINE cycle == [IdleDiag EXCEPT !.pc = "resume", !.todo = {b \in Boxes : Resumable(b)},
                         !.failing = failing, !.pauses = pauses]
  <2>2. cycle.pc = "resume" /\ \A b \in cycle.todo : Resumable(b)
    BY DEF IdleDiag
  <2>3. Goes(d, cycle)
    BY <2>1
  <2> HIDE DEF cycle
  <2>4. \A b \in cycle.todo : box[b].reset # "future"
    BY <2>2 DEF Resumable
  <2> QED BY <1>1, <1>3, <2>2, <2>3, <2>4 DEF SmtpLoad
<1>4. CASE DriftLog(d)
  <2>1. [diag[d] EXCEPT !.pc = "drift", !.at = AnyBox].pc = "drift"
    BY <1>9 DEF Cycle
  <2> QED BY <1>1, <1>4, <2>1 DEF DriftLog
<1>5. CASE SmtpLog(d)
  <2> DEFINE cycle == [diag[d] EXCEPT !.pc = "resume", !.at = AnyBox]
  <2>1. cycle.pc = "resume" /\ cycle.todo = diag[d].todo /\ diag[d].todo = {}
    BY <1>5, <1>9 DEF Cycle, SmtpLog, RenewInv
  <2>2. Goes(d, cycle)
    BY <1>5 DEF SmtpLog
  <2> HIDE DEF cycle
  <2> QED BY <1>1, <1>5, <2>1, <2>2 DEF SmtpLog
<1>6. ASSUME NEW b \in Boxes, CycleJudges(d, b)
      PROVE  RenewInv' /\ \A c \in Loops, e \in Boxes : ~Lifts(c, e)
  <2>1. [diag[d] EXCEPT !.todo = @ \ {b}].pc = "promote"
    BY <1>6, <1>9 DEF Cycle, CycleJudges
  <2> QED BY <1>1, <1>6, <2>1 DEF CycleJudges
<1>7. ASSUME NEW b \in Boxes, DriftPause(d, b)
      PROVE  RenewInv' /\ \A c \in Loops, e \in Boxes : ~Lifts(c, e)
  <2>1. Paused(box[b]).status = "paused" /\ Paused(box[b]).reset = box[b].reset
    BY <1>0 DEF Paused, Row
  <2>2. \A e \in Boxes : /\ box[e].status = "paused" => box'[e].status = "paused"
                         /\ box'[e].reset = box[e].reset
    BY <1>7, <2>1 DEF DriftPause, Write, TablesOK
  <2>3. PICK cycle : Goes(d, cycle) /\ cycle.pc \in {"drift", "driftlog"}
    <3>1. /\ [diag[d] EXCEPT !.todo = @ \ {b}].pc = diag[d].pc
          /\ [diag[d] EXCEPT !.pc = "driftlog", !.at = b, !.todo = @ \ {b}].pc = "driftlog"
      BY <1>9 DEF Cycle
    <3> QED BY <1>7, <3>1 DEF DriftPause
  <2>4. renewed' = renewed
    BY <1>7 DEF DriftPause
  <2>5. RenewInv'
    BY <2>2, <2>3, <2>4, RenewGoes
  <2> QED BY <2>2, <2>5 DEF Lifts
<1>8. ASSUME NEW b \in Boxes, AutoResume(d, b)
      PROVE  RenewInv' /\ \A c \in Loops, e \in Boxes : Lifts(c, e) => <<c, e>> \in renewed
  <2> DEFINE cycle == [diag[d] EXCEPT !.todo = @ \ {b}]
  <2>1. cycle.pc = "resume" /\ cycle.todo = diag[d].todo \ {b} /\ b \in diag[d].todo /\ diag[d].pc = "resume"
    BY <1>8, <1>9 DEF AutoResume, Cycle
  <2>2. Goes(d, cycle) /\ renewed' = renewed \ {<<d, b>>}
    BY <1>8 DEF AutoResume
  <2> HIDE DEF cycle
  <2>3. Resumed(box[b]).reset = "none"
    BY <1>0 DEF Resumed, Row
  <2>4. \A e \in Boxes : /\ e # b => box'[e] = box[e]
                         /\ box'[e].reset = "future" => box[e].reset = "future"
    BY <1>8, <2>3 DEF AutoResume, Write, TablesOK
  <2>5. diag[d].todo \subseteq Boxes
    BY <1>9 DEF Cycle
  <2>6. \A e \in cycle.todo : box'[e].reset # "future" \/ <<d, e>> \in renewed'
    BY <2>1, <2>2, <2>4, <2>5 DEF RenewInv
  <2>7. RenewInv'
    BY <2>1, <2>2, <2>4, <2>6, RenewGoes
  <2>8. ASSUME NEW c \in Loops, NEW e \in Boxes, Lifts(c, e) PROVE <<c, e>> \in renewed
    <3>1. c = d
      BY <2>2, <2>8, GoesTypes DEF Lifts
    <3>2. e = b
      BY <2>4, <2>8 DEF Lifts
    <3> QED BY <2>1, <2>8, <3>1, <3>2 DEF Lifts, RenewInv
  <2> QED BY <2>7, <2>8
<1>10. ASSUME NEW b \in Boxes, SmtpPause(d, b)
       PROVE  RenewInv' /\ \A c \in Loops, e \in Boxes : ~Lifts(c, e)
  <2> DEFINE row == [box[b] EXCEPT !.status = "paused", !.pauses = diag[d].pauses[b] + 1, !.reset = "future"]
  <2>1. row.status = "paused"
    BY <1>0 DEF Row
  <2>2. \/ Write(b, row) /\ renewed' = renewed \cup {<<e, b>> : e \in {c \in Loops : ToResume(c, b)}}
        \/ box' = box /\ renewed' = renewed
    BY <1>10 DEF SmtpPause
  <2> HIDE DEF row
  <2>3. \A e \in Boxes : /\ e # b => box'[e] = box[e]
                         /\ box[e].status = "paused" => box'[e].status = "paused"
    BY <2>1, <2>2 DEF Write, TablesOK
  <2>4. PICK cycle : Goes(d, cycle) /\ cycle.todo = {}
    <3>1. diag[d].todo = {}
      BY <1>10 DEF SmtpPause
    <3>2. /\ [diag[d] EXCEPT !.failing = @ \ {b}].todo = diag[d].todo
          /\ [[diag[d] EXCEPT !.failing = @ \ {b}] EXCEPT !.pc = "smtplog", !.at = b].todo = diag[d].todo
      BY <1>9 DEF Cycle
    <3> QED BY <1>10, <3>1, <3>2 DEF SmtpPause
  <2>5. \A c \in Loops, e \in Boxes :
          /\ <<c, e>> \in renewed => <<c, e>> \in renewed'
          /\ ToResume(c, e) /\ box'[e].reset = "future" => box[e].reset = "future" \/ <<c, e>> \in renewed'
    BY <2>2, <2>3
  <2>6. RenewInv'
    BY <2>4, <2>5, RenewGoes
  <2> QED BY <2>3, <2>6 DEF Lifts
<1> QED BY <1>2, <1>3, <1>4, <1>5, <1>6, <1>7, <1>8, <1>10, <1>1 DEF DiagStep, Lifts, DriftLoad, PromoteLoad,
        CycleEnds, SmtpLoad, DriftLog, SmtpLog

\* SmtpPauseLasts, for any inboxes and any loops: a row that is resumed was read
\* with its two hours over, no other program renews a pause, and a loop renews
\* none that it has still to resume itself.
THEOREM PauseLastsCorrect == Spec => SmtpPauseLasts
<1> DEFINE Kept == \A c \in Loops, b \in Boxes : Lifts(c, b) => <<c, b>> \in renewed
<1>1. Init => RenewInv
  BY DEF Init, IdleDiag, RenewInv
<1>2. ASSUME TypeOK, RenewInv, [Next]_vars PROVE RenewInv' /\ [Kept]_vars
  <2>1. CASE UNCHANGED vars
    BY <1>2, <2>1 DEF vars, RenewInv
  <2>2. ASSUME Next, NEW c \in Loops, DiagStep(c) PROVE RenewInv' /\ Kept
    BY <1>2, <2>2, RenewDiag DEF TypeOK, Typed
  <2>3. CASE Next /\ (OtherStep \/ RemovalStep) /\ UNCHANGED renewed
    <3>1. diag' = diag /\ \A b \in Boxes : box'[b].reset = "future" => box[b].reset = "future"
      BY <1>2, <2>3, NoNewPause DEF Untouched, ByOperator, TypeOK, Typed
    <3>2. \A c \in Loops : diag[c].todo \subseteq Boxes
      BY <1>2 DEF TypeOK, DiagOK
    <3> QED BY <1>2, <2>3, <3>1, <3>2 DEF RenewInv, Lifts
  <2> QED BY <1>2, <2>1, <2>2, <2>3 DEF Next, Step
<1>3. TypeOK /\ RenewInv /\ [Next]_vars => RenewInv' /\ [Kept]_vars
  BY <1>2
<1> QED BY <1>1, <1>3, TypeCorrect, PTL DEF Spec, SmtpPauseLasts

LEMMA DiagSwitches ==
  ASSUME Typed, NEW d \in Loops, DiagStep(d), NEW b \in Boxes, box'[b].active
  PROVE  box[b].active
<1> USE DEF Typed
<1>0. \A c \in Boxes : box[c] \in Row
  BY DEF TablesOK
<1>1. ASSUME NEW c \in Boxes, NEW row, Write(c, row), row.active => box[c].active
      PROVE  box[b].active
  BY <1>1 DEF Write, TablesOK
<1>2. ASSUME NEW c \in Boxes, DriftPause(d, c) PROVE box[b].active
  <2>1. Paused(box[c]).active = FALSE
    BY <1>0 DEF Paused, Row
  <2> QED BY <1>1, <1>2, <2>1 DEF DriftPause
<1>3. ASSUME NEW c \in Boxes, AutoResume(d, c) PROVE box[b].active
  <2>1. Resumed(box[c]).active = box[c].active
    BY <1>0 DEF Resumed, Row
  <2> QED BY <1>1, <1>3, <2>1 DEF AutoResume
<1>4. ASSUME NEW c \in Boxes, SmtpPause(d, c) PROVE box[b].active
  <2> DEFINE row == [box[c] EXCEPT !.status = "paused", !.pauses = diag[d].pauses[c] + 1, !.reset = "future"]
  <2>1. row.active = box[c].active
    BY <1>0 DEF Row
  <2>2. Write(c, row) \/ box' = box
    BY <1>4 DEF SmtpPause
  <2> HIDE DEF row
  <2> QED BY <1>1, <2>1, <2>2
<1> QED BY <1>2, <1>3, <1>4
    DEF DiagStep, DriftLoad, DriftLog, SmtpLoad, SmtpLog, PromoteLoad, CycleEnds, CycleJudges

\* SwitchedOffStaysOff, for any inboxes: resumes and promotions leave the switch
\* alone, so only the operator turns an inbox on again.
THEOREM SwitchCorrect == Spec => SwitchedOffStaysOff
<1> DEFINE Kept == \A b \in Boxes : Exists(b) /\ ~box[b].active /\ box'[b].active =>
                     env'.events > env.events
<1>1. ASSUME TypeOK, [Next]_vars PROVE [Kept]_vars
  <2>1. ASSUME NEW c \in Loops, DiagStep(c) PROVE Kept
    BY <1>1, <2>1, DiagSwitches DEF TypeOK, Typed
  <2>2. CASE OtherStep \/ RemovalStep
    BY <1>1, <2>2, NoNewPause DEF TypeOK, Typed, Untouched, ByOperator
  <2> QED BY <1>1, <2>1, <2>2 DEF Next, Step
<1>2. TypeOK /\ [Next]_vars => [Kept]_vars
  BY <1>1
<1> QED BY <1>2, TypeCorrect, PTL DEF Spec, SwitchedOffStaysOff
=============================================================================
