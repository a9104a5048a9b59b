--------------------------- MODULE JobLock_proofs ---------------------------
(***************************************************************************)
(* What is true of the job lock for any number of processes, runs, ticks   *)
(* and outages, and of the scheduler's renewals for any number of          *)
(* campaigns and leads.  The results about coverage need one run per       *)
(* process (OneRunPerProcess): with two, one run's release drops the       *)
(* other's lease.                                                          *)
(***************************************************************************)
EXTENDS SchedulerHeartbeat, TLAPS

OneRunPerProcess == \A r, s \in Runs : Host[r] = Host[s] => r = s

-----------------------------------------------------------------------------
LEMMA OlderType ==
  ASSUME NEW t \in 0..(TTL + 1)
  PROVE  Older(t) \in 0..(TTL + 1)
BY JobLockAssumption DEF Older

LEMMA OlderMonotone ==
  ASSUME NEW t \in 0..(TTL + 1), NEW u \in 0..(TTL + 1), t <= u, Older(u) <= TTL
  PROVE  Older(t) <= Older(u) /\ u <= TTL
BY JobLockAssumption DEF Older

\* Every write to the row is one of these three.
LEMMA LeaseType ==
  ASSUME TypeOK, NEW p \in Procs,
         TakeLease(p) \/ DropLease(p) \/ UNCHANGED lease
  PROVE  holder' \in Procs \cup {NoOwner} /\ spent' \in 0..(TTL + 1)
BY JobLockAssumption DEF TypeOK, TakeLease, DropLease, lease

LEMMA TypeInit == Init => TypeOK
BY JobLockAssumption DEF Init, TypeOK

LEMMA TypeStep == TypeOK /\ [Next]_vars => TypeOK'
<1> SUFFICES ASSUME TypeOK, [Next]_vars PROVE TypeOK'
  OBVIOUS
<1> USE JobLockAssumption
<1>1. ASSUME NEW p \in Procs, Boot(p) PROVE TypeOK'
  BY <1>1 DEF Boot, TypeOK, lease
<1>2. ASSUME NEW p \in Procs, Crash(p) PROVE TypeOK'
  <2>1. alive' \in [Procs -> BOOLEAN]
    BY <1>2 DEF Crash, TypeOK
  <2>2. pc' \in [Runs -> {"idle", "working"}]
    BY <1>2 DEF Crash, TypeOK
  <2>3. granted' \in [Runs -> BOOLEAN]
    BY <1>2 DEF Crash, TypeOK
  <2>4. age' \in [Runs -> 0..(TTL + 1)]
    BY <1>2 DEF Crash, TypeOK
  <2>5. holder' = holder /\ spent' = spent
    BY <1>2 DEF Crash, lease
  <2> QED BY <2>1, <2>2, <2>3, <2>4, <2>5 DEF TypeOK
<1>3. ASSUME NEW r \in Runs, Start(r) PROVE TypeOK'
  <2>1. holder' \in Procs \cup {NoOwner} /\ spent' \in 0..(TTL + 1)
    BY <1>3, LeaseType DEF Start
  <2> QED BY <1>3, <2>1 DEF Start, TypeOK
<1>4. ASSUME NEW r \in Runs, StartBlind(r) PROVE TypeOK'
  <2>1. holder' \in Procs \cup {NoOwner} /\ spent' \in 0..(TTL + 1)
    BY <1>4, LeaseType DEF StartBlind
  <2> QED BY <1>4, <2>1 DEF StartBlind, TypeOK
<1>5. ASSUME NEW r \in Runs, Heartbeat(r) PROVE TypeOK'
  <2>1. holder' \in Procs \cup {NoOwner} /\ spent' \in 0..(TTL + 1)
    BY <1>5, LeaseType DEF Heartbeat
  <2>2. Obtainable(Host[r]) \in BOOLEAN
    BY DEF Obtainable
  <2> QED BY <1>5, <2>1, <2>2 DEF Heartbeat, TypeOK
<1>6. ASSUME NEW r \in Runs, HeartbeatBlind(r) PROVE TypeOK'
  <2>1. holder' \in Procs \cup {NoOwner} /\ spent' \in 0..(TTL + 1)
    BY <1>6, LeaseType DEF HeartbeatBlind
  <2> QED BY <1>6, <2>1 DEF HeartbeatBlind, TypeOK
<1>7. ASSUME NEW r \in Runs, Finish(r) PROVE TypeOK'
  <2>1. holder' \in Procs \cup {NoOwner} /\ spent' \in 0..(TTL + 1)
    BY <1>7, LeaseType DEF Finish
  <2> QED BY <1>7, <2>1 DEF Finish, TypeOK
<1>8. CASE Tick
  <2>1. spent' \in 0..(TTL + 1)
    BY <1>8, OlderType DEF Tick, TypeOK
  <2>2. age' \in [Runs -> 0..(TTL + 1)]
    BY <1>8, OlderType DEF Tick, TypeOK
  <2> QED BY <1>8, <2>1, <2>2 DEF Tick, TypeOK
<1>9. CASE UNCHANGED vars
  BY <1>9 DEF vars, TypeOK
<1> QED BY <1>1, <1>2, <1>3, <1>4, <1>5, <1>6, <1>7, <1>8, <1>9 DEF Next

\* The variables keep their types; in particular neither clock passes TTL + 1.
THEOREM TypeCorrect == Spec => []TypeOK
BY TypeInit, TypeStep, PTL DEF Spec

-----------------------------------------------------------------------------
(* The lease backs every covered run.  The invariant is inductive with the *)
(* types: a covered run's row cannot be stolen, because spent <= age <= TTL*)
(* says it has not expired, and it cannot be released by another process.  *)

LEMMA CoverInit == Init => LeaseBacksCoveredRun
BY DEF Init, LeaseBacksCoveredRun, Covered, Working

\* A row that backs a covered run survives a lease call of any process, and
\* comes out of it no older.
LEMMA TakeKeepsCover ==
  ASSUME TypeOK, LeaseBacksCoveredRun,
         NEW r \in Runs, Covered(r),
         NEW p \in Procs, TakeLease(p) \/ UNCHANGED lease
  PROVE  holder' = Host[r] /\ spent' <= age[r]
<1>1. holder = Host[r] /\ spent <= age[r] /\ age[r] <= TTL
  BY DEF LeaseBacksCoveredRun, Covered
<1>2. holder # NoOwner /\ ~(spent > TTL)
  BY <1>1, JobLockAssumption DEF TypeOK
<1> QED
  BY <1>1, <1>2, JobLockAssumption DEF TakeLease, Obtainable, lease, TypeOK

LEMMA CoverStep ==
  ASSUME OneRunPerProcess, TypeOK, LeaseBacksCoveredRun, [Next]_vars
  PROVE  LeaseBacksCoveredRun'
<1> SUFFICES ASSUME NEW r \in Runs, Covered(r)'
             PROVE  holder' = Host[r] /\ spent' <= age'[r]
  BY DEF LeaseBacksCoveredRun
<1> USE JobLockAssumption
<1>0. pc'[r] = "working" /\ granted'[r] /\ age'[r] <= TTL
  BY DEF Covered, Working
\* A run that the step leaves alone was covered before it.
<1>00. ASSUME pc'[r] = pc[r], granted'[r] = granted[r], age'[r] = age[r]
       PROVE  Covered(r)
  BY <1>0, <1>00 DEF Covered, Working
<1>1. ASSUME NEW p \in Procs, Boot(p) PROVE holder' = Host[r] /\ spent' <= age'[r]
  BY <1>1, <1>00 DEF Boot, lease, LeaseBacksCoveredRun
<1>2. ASSUME NEW p \in Procs, Crash(p) PROVE holder' = Host[r] /\ spent' <= age'[r]
  <2>1. Host[r] # p
    BY <1>0, <1>2 DEF Crash
  <2>2. pc'[r] = pc[r] /\ granted'[r] = granted[r] /\ age'[r] = age[r]
    BY <1>2, <2>1 DEF Crash
  <2> QED BY <1>2, <1>00, <2>2 DEF Crash, lease, LeaseBacksCoveredRun
<1>3. ASSUME NEW q \in Runs, Start(q) PROVE holder' = Host[r] /\ spent' <= age'[r]
  <2>1. CASE r = q
    BY <1>3, <2>1 DEF Start, TakeLease, TypeOK
  <2>2. CASE r # q
    <3>1. Covered(r) /\ age'[r] = age[r]
      BY <1>3, <1>00, <2>2 DEF Start, TypeOK
    <3> QED BY <1>3, <3>1, TakeKeepsCover DEF Start
  <2> QED BY <2>1, <2>2
<1>4. ASSUME NEW q \in Runs, StartBlind(q) PROVE holder' = Host[r] /\ spent' <= age'[r]
  <2>1. r # q
    BY <1>0, <1>4 DEF StartBlind, TypeOK
  <2>2. Covered(r) /\ age'[r] = age[r]
    BY <1>4, <1>00, <2>1 DEF StartBlind, TypeOK
  <2> QED BY <1>4, <2>2, TakeKeepsCover DEF StartBlind
<1>5. ASSUME NEW q \in Runs, Heartbeat(q) PROVE holder' = Host[r] /\ spent' <= age'[r]
  <2>1. CASE r = q
    <3>1. Obtainable(Host[q]) /\ age'[r] = 0
      BY <1>0, <1>5, <2>1 DEF Heartbeat, TypeOK
    <3> QED BY <1>5, <2>1, <3>1 DEF Heartbeat, TakeLease
  <2>2. CASE r # q
    <3>1. Covered(r) /\ age'[r] = age[r]
      BY <1>5, <1>00, <2>2 DEF Heartbeat, TypeOK
    <3> QED BY <1>5, <3>1, TakeKeepsCover DEF Heartbeat
  <2> QED BY <2>1, <2>2
<1>6. ASSUME NEW q \in Runs, HeartbeatBlind(q) PROVE holder' = Host[r] /\ spent' <= age'[r]
  <2>1. Covered(r) /\ age'[r] = age[r]
    BY <1>6, <1>00 DEF HeartbeatBlind
  <2> QED BY <1>6, <2>1, TakeKeepsCover DEF HeartbeatBlind
<1>7. ASSUME NEW q \in Runs, Finish(q) PROVE holder' = Host[r] /\ spent' <= age'[r]
  <2>1. r # q
    BY <1>0, <1>7 DEF Finish, TypeOK
  <2>2. Covered(r) /\ age'[r] = age[r]
    BY <1>7, <1>00, <2>1 DEF Finish, TypeOK
  <2>3. holder = Host[r] /\ spent <= age[r] /\ Host[r] # Host[q]
    BY <2>1, <2>2 DEF LeaseBacksCoveredRun, OneRunPerProcess
  <2> QED BY <1>7, <2>2, <2>3 DEF Finish, DropLease, lease
<1>8. CASE Tick
  <2>1. pc[r] = "working" /\ granted[r] /\ age'[r] = Older(age[r])
    BY <1>0, <1>8 DEF Tick
  <2>2. age[r] \in 0..(TTL + 1) /\ spent \in 0..(TTL + 1)
    BY DEF TypeOK
  <2>3. age[r] <= TTL
    BY <1>0, <2>1, <2>2 DEF Older
  <2>4. holder = Host[r] /\ spent <= age[r]
    BY <2>1, <2>3 DEF Covered, Working, LeaseBacksCoveredRun
  <2>5. holder' = Host[r] /\ spent' = Older(spent)
    BY <1>8, <2>4 DEF Tick
  <2> QED BY <1>0, <2>1, <2>2, <2>4, <2>5, OlderMonotone
<1>9. CASE UNCHANGED vars
  BY <1>9, <1>00 DEF vars, LeaseBacksCoveredRun
<1> QED BY <1>1, <1>2, <1>3, <1>4, <1>5, <1>6, <1>7, <1>8, <1>9 DEF Next

\* Whatever the other processes do (steal, fail open, release, die) and
\* however calls fail, a run's last yes is backed by the row for TTL.
THEOREM LeaseIsSound == ASSUME OneRunPerProcess PROVE Spec => []LeaseBacksCoveredRun
BY TypeInit, TypeStep, CoverInit, CoverStep, PTL DEF Spec

LEMMA CoverExcludes ==
  ASSUME OneRunPerProcess, LeaseBacksCoveredRun PROVE CoveredRunsExclude
BY DEF OneRunPerProcess, LeaseBacksCoveredRun, CoveredRunsExclude

\* Two different runs never both hold a yes younger than TTL.
THEOREM LeaseExcludes == ASSUME OneRunPerProcess PROVE Spec => []CoveredRunsExclude
BY LeaseIsSound, CoverExcludes, PTL

-----------------------------------------------------------------------------
(* A live lease is kept.                                                   *)

LEMMA KeptStep ==
  ASSUME TypeOK, [Next]_vars, NEW p \in Procs, holder = p, spent <= TTL, holder' # p
  PROVE  \E r \in Runs : Host[r] = p /\ pc[r] = "working" /\ pc'[r] = "idle"
<1> USE JobLockAssumption
<1>1. holder # NoOwner /\ ~(spent > TTL)
  BY DEF TypeOK
\* No process takes the row, the owner included.
<1>2. ASSUME NEW q \in Procs, TakeLease(q) \/ UNCHANGED lease PROVE FALSE
  BY <1>1, <1>2 DEF TakeLease, Obtainable, lease
<1>3. PICK r \in Runs : Finish(r)
  <2>1. ~UNCHANGED holder
    OBVIOUS
  <2>2. \A r \in Runs : ~Start(r) /\ ~StartBlind(r) /\ ~Heartbeat(r) /\ ~HeartbeatBlind(r)
    BY <1>2 DEF Start, StartBlind, Heartbeat, HeartbeatBlind
  <2>3. ~Tick /\ \A q \in Procs : ~Boot(q) /\ ~Crash(q)
    BY <2>1 DEF Tick, Boot, Crash, lease
  <2> QED BY <2>1, <2>2, <2>3 DEF Next, vars
<1>4. Host[r] = p
  BY <1>3 DEF Finish, DropLease, lease
<1>5. pc[r] = "working" /\ pc'[r] = "idle"
  BY <1>3 DEF Finish, TypeOK
<1> QED BY <1>4, <1>5

\* A live lease leaves its process only when a run of that process ends.
THEOREM LeaseIsKept == Spec => LiveLeaseIsKept
<1>1. TypeOK /\ [Next]_vars
        => [\A p \in Procs : holder = p /\ spent <= TTL /\ holder' # p
              => \E r \in Runs : Host[r] = p /\ pc[r] = "working" /\ pc'[r] = "idle"]_vars
  BY KeptStep
<1> QED BY <1>1, TypeCorrect, PTL DEF Spec, LiveLeaseIsKept

-----------------------------------------------------------------------------
(* Every step of the lock is a step of SingleRunner or leaves its          *)
(* variables alone: nobody is told yes beside a covered run.               *)

Leased == {r \in Working : Covered(r)}

CoverInv == TypeOK /\ LeaseBacksCoveredRun

LEMMA CoverInvAlways == ASSUME OneRunPerProcess PROVE Spec => []CoverInv
BY TypeCorrect, LeaseIsSound, PTL DEF CoverInv

\* A process that would be told yes hosts every covered run.
LEMMA ObtainableMeansOwn ==
  ASSUME CoverInv, NEW p \in Procs, Obtainable(p), NEW r \in Leased
  PROVE  Host[r] = p
<1>1. r \in Runs /\ Covered(r) /\ holder = Host[r] /\ spent <= age[r] /\ age[r] <= TTL
  BY DEF Leased, Working, CoverInv, LeaseBacksCoveredRun, Covered
<1>2. holder # NoOwner /\ ~(spent > TTL)
  BY <1>1, JobLockAssumption DEF CoverInv, TypeOK
<1> QED BY <1>1, <1>2 DEF Obtainable

\* A covered run is told yes when it renews.
LEMMA CoveredObtains ==
  ASSUME CoverInv, NEW r \in Leased PROVE Obtainable(Host[r])
BY DEF Leased, Working, CoverInv, LeaseBacksCoveredRun, Obtainable

LEMMA PromiseInit == Init => Promise!Init
BY DEF Init, Promise!Init, Working

LEMMA PromiseStep ==
  ASSUME OneRunPerProcess, CoverInv, [Next]_vars
  PROVE  [Promise!Next]_(Promise!vars)
<1> USE JobLockAssumption DEF Promise!Next, Promise!vars
<1>0. Leased \subseteq Working /\ Working \subseteq Runs
  BY DEF Leased, Working
<1>1. SUFFICES ASSUME TRUE
      PROVE  \/ Working' = Working /\ Leased' = Leased
             \/ \E r \in Runs :
                  \/ r \notin Working /\ Leased = {} /\ Working' = Working \cup {r} /\ Leased' = {r}
                  \/ r \notin Working /\ Working' = Working \cup {r} /\ Leased' = Leased
                  \/ r \in Leased /\ Leased' = Leased \ {r} /\ Working' = Working
                  \/ r \in Working /\ Leased = {} /\ Leased' = {r} /\ Working' = Working
                  \/ r \in Working /\ Working' = Working \ {r} /\ Leased' = Leased \ {r}
  BY <1>1 DEF Promise!Enter, Promise!EnterBlind, Promise!Lapse, Promise!Regain, Promise!Leave, Leased
<1>2. \A r, s \in Leased : r = s
  BY CoverExcludes DEF CoverInv, CoveredRunsExclude, Leased, Working
<1>3. ASSUME NEW p \in Procs, Boot(p) PROVE Working' = Working /\ Leased' = Leased
  BY <1>3 DEF Boot, Working, Leased, Covered
<1>4. ASSUME NEW p \in Procs, Crash(p)
      PROVE  \/ Working' = Working /\ Leased' = Leased
             \/ \E r \in Working : Working' = Working \ {r} /\ Leased' = Leased \ {r}
  <2>1. Working' = {r \in Working : Host[r] # p}
    BY <1>4 DEF Crash, Working
  <2>2. \A r \in Working : Host[r] # p => (Covered(r)' <=> Covered(r))
    BY <1>4, <2>1 DEF Crash, Covered, Working
  <2>3. Leased' = {r \in Leased : Host[r] # p}
    BY <2>1, <2>2 DEF Leased
  <2>4. CASE \E r \in Working : Host[r] = p
    <3>1. PICK r \in Working : Host[r] = p
      BY <2>4
    <3>2. \A s \in Working : Host[s] = p => s = r
      BY <3>1, <1>0 DEF OneRunPerProcess
    <3>3. Working' = Working \ {r}
      BY <2>1, <3>1, <3>2
    <3>4. Leased' = Leased \ {r}
      BY <2>3, <3>1, <3>2, <1>0
    <3> QED BY <3>3, <3>4
  <2>5. CASE ~ \E r \in Working : Host[r] = p
    BY <2>1, <2>3, <2>5, <1>0
  <2> QED BY <2>4, <2>5
<1>5. ASSUME NEW q \in Runs, Start(q)
      PROVE  q \notin Working /\ Leased = {} /\ Working' = Working \cup {q} /\ Leased' = {q}
  <2>1. q \notin Working
    BY <1>5 DEF Start, Working
  <2>2. Leased = {}
    <3> SUFFICES ASSUME NEW s \in Leased PROVE FALSE
      OBVIOUS
    <3>1. Host[s] = Host[q]
      BY <1>5, ObtainableMeansOwn DEF Start
    <3> QED BY <3>1, <2>1, <1>0 DEF OneRunPerProcess
  <2>3. Working' = Working \cup {q}
    BY <1>5 DEF Start, Working, CoverInv, TypeOK
  <2>4. Covered(q)'
    BY <1>5, <2>3 DEF Start, Covered, CoverInv, TypeOK
  <2>5. \A s \in Working : s # q /\ (Covered(s)' <=> Covered(s))
    BY <1>5, <2>1, <2>3, <1>0 DEF Start, Covered, CoverInv, TypeOK
  <2>6. Leased' = {q}
    BY <2>2, <2>3, <2>4, <2>5 DEF Leased
  <2> QED BY <2>1, <2>2, <2>3, <2>6
<1>6. ASSUME NEW q \in Runs, StartBlind(q)
      PROVE  q \notin Working /\ Working' = Working \cup {q} /\ Leased' = Leased
  <2>1. q \notin Working
    BY <1>6 DEF StartBlind, Working
  <2>2. Working' = Working \cup {q}
    BY <1>6 DEF StartBlind, Working, CoverInv, TypeOK
  <2>3. ~Covered(q)'
    BY <1>6 DEF StartBlind, Covered, CoverInv, TypeOK
  <2>4. \A s \in Working : s # q /\ (Covered(s)' <=> Covered(s))
    BY <1>6, <2>1, <2>2, <1>0 DEF StartBlind, Covered, CoverInv, TypeOK
  <2> QED BY <2>1, <2>2, <2>3, <2>4 DEF Leased
<1>7. ASSUME NEW q \in Runs, Heartbeat(q)
      PROVE  \/ Working' = Working /\ Leased' = Leased
             \/ q \in Working /\ Leased = {} /\ Leased' = {q} /\ Working' = Working
  <2>1. q \in Working /\ Working' = Working
    BY <1>7 DEF Heartbeat, Working
  <2>2. \A s \in Working : s # q => (Covered(s)' <=> Covered(s))
    BY <1>7, <2>1, <1>0 DEF Heartbeat, Covered, CoverInv, TypeOK
  <2>3. CASE Obtainable(Host[q])
    <3>1. Covered(q)'
      BY <1>7, <2>1, <2>3 DEF Heartbeat, Covered, CoverInv, TypeOK
    <3>2. \A s \in Leased : s = q
      BY <2>1, <2>3, <1>0, ObtainableMeansOwn DEF OneRunPerProcess
    <3>3. Leased' = {q}
      BY <2>1, <2>2, <3>1, <3>2 DEF Leased
    <3>4. Leased = {} \/ Leased = {q}
      BY <3>2
    <3> QED BY <2>1, <3>3, <3>4
  <2>4. CASE ~Obtainable(Host[q])
    <3>1. ~Covered(q)
      BY <2>1, <2>4, CoveredObtains DEF Leased
    <3>2. ~Covered(q)'
      BY <1>7, <2>1, <2>4 DEF Heartbeat, Covered, CoverInv, TypeOK
    <3> QED BY <2>1, <2>2, <3>1, <3>2 DEF Leased
  <2> QED BY <2>3, <2>4
<1>8. ASSUME NEW q \in Runs, HeartbeatBlind(q)
      PROVE  Working' = Working /\ Leased' = Leased
  BY <1>8 DEF HeartbeatBlind, Working, Leased, Covered
<1>9. ASSUME NEW q \in Runs, Finish(q)
      PROVE  q \in Working /\ Working' = Working \ {q} /\ Leased' = Leased \ {q}
  <2>1. q \in Working /\ Working' = Working \ {q}
    BY <1>9 DEF Finish, Working, CoverInv, TypeOK
  <2>2. \A s \in Working : s # q => (Covered(s)' <=> Covered(s))
    BY <1>9, <2>1, <1>0 DEF Finish, Covered, CoverInv, TypeOK
  <2> QED BY <2>1, <2>2 DEF Leased
<1>10. ASSUME Tick
       PROVE  \/ Working' = Working /\ Leased' = Leased
              \/ \E r \in Leased : Leased' = Leased \ {r} /\ Working' = Working
  <2>1. Working' = Working
    BY <1>10 DEF Tick, Working
  <2>2. \A s \in Working : Covered(s)' => Covered(s)
    <3> SUFFICES ASSUME NEW s \in Working, Covered(s)' PROVE Covered(s)
      OBVIOUS
    <3>1. age'[s] = Older(age[s]) /\ granted'[s] = granted[s] /\ age[s] \in 0..(TTL + 1)
      BY <1>10, <1>0 DEF Tick, Working, CoverInv, TypeOK
    <3> QED BY <3>1 DEF Covered, Older
  <2>3. Leased' \subseteq Leased
    BY <2>1, <2>2 DEF Leased
  <2> QED BY <2>1, <2>3, <1>2
<1>11. ASSUME UNCHANGED vars PROVE Working' = Working /\ Leased' = Leased
  BY <1>11 DEF vars, Working, Leased, Covered
<1> QED
  BY <1>0, <1>3, <1>4, <1>5, <1>6, <1>7, <1>8, <1>9, <1>10, <1>11 DEF Next

\* job_lock.py:9 "guarantees only ONE run of a given job executes at a time",
\* as far as it goes: with one run per process, however long a run takes
\* and whichever calls fail, no run is let in with a yes beside one that was
\* told yes no longer than TTL ago.
THEOREM LockIsSingleRunner ==
  ASSUME OneRunPerProcess PROVE Spec => ImplementsSingleRunner
<1>1. CoverInv /\ [Next]_vars => [Promise!Next]_(Promise!vars)
  BY PromiseStep
<1> QED BY <1>1, CoverInvAlways, PromiseInit, PTL
        DEF Spec, ImplementsSingleRunner, Promise!Spec

-----------------------------------------------------------------------------
(* The scheduler under the lock.  A run that was never late is covered:    *)
(* since its last lease call it has mailed `since' leads, each within its  *)
(* share, and RenewEvery shares fit into the lease.                        *)

LateRun(r) == slow[r] \/ behind[r]

HbTypeOK ==
  /\ camp \in [Runs -> Nat]
  /\ idx \in [Runs -> Nat]
  /\ renewed \in [Runs -> BOOLEAN]
  /\ asleep \in [Runs -> Nat]
  /\ since \in [Runs -> Nat]
  /\ slow \in [Runs -> BOOLEAN]
  /\ behind \in [Runs -> BOOLEAN]

InTime ==
  \A r \in Working :
    ~LateRun(r) => /\ granted[r]
                   /\ since[r] <= RenewEvery
                   /\ age[r] + asleep[r] <= Share * since[r]

IdleIsAwake == \A r \in Runs : pc[r] = "idle" => asleep[r] = 0

LEMMA HbStepsOfLock == [HbNext]_hbVars => [Next]_vars
BY DEF HbNext, hbVars, Next, vars, Launch, Kill, Enter, Renew, ProcessLead, NextCampaign,
       Leave, Sleep

LEMMA HbTypeInit == HbInit => HbTypeOK
BY DEF HbInit, LoopInit, HbTypeOK

LEMMA HbTypeStep == HbTypeOK /\ [HbNext]_hbVars => HbTypeOK'
<1> SUFFICES ASSUME HbTypeOK, [HbNext]_hbVars PROVE HbTypeOK'
  OBVIOUS
<1> USE SchedulerHeartbeatAssumption DEF HbTypeOK, history
<1>1. ASSUME NEW p \in Procs, Launch(p) PROVE HbTypeOK'
  BY <1>1 DEF Launch, loopVars
<1>2. ASSUME NEW p \in Procs, Kill(p) PROVE HbTypeOK'
  BY <1>2 DEF Kill
<1>3. ASSUME NEW r \in Runs, Enter(r) PROVE HbTypeOK'
  BY <1>3 DEF Enter
<1>4. ASSUME NEW r \in Runs, Renew(r) PROVE HbTypeOK'
  BY <1>4 DEF Renew
<1>5. ASSUME NEW r \in Runs, ProcessLead(r) PROVE HbTypeOK'
  <2>1. idx' \in [Runs -> Nat] /\ since' \in [Runs -> Nat]
    BY <1>5 DEF ProcessLead
  <2>2. PICK d \in 0..MaxLead : /\ asleep' = [asleep EXCEPT ![r] = d]
                                /\ slow' = [slow EXCEPT ![r] = @ \/ d > Share]
    BY <1>5 DEF ProcessLead
  <2>3. behind' \in [Runs -> BOOLEAN] /\ slow' \in [Runs -> BOOLEAN]
    BY <1>5, <2>2, Zenon DEF ProcessLead
  <2>4. asleep' \in [Runs -> Nat] /\ renewed' \in [Runs -> BOOLEAN] /\ camp' = camp
    BY <1>5, <2>2 DEF ProcessLead
  <2> QED BY <2>1, <2>3, <2>4
<1>6. ASSUME NEW r \in Runs, NextCampaign(r) PROVE HbTypeOK'
  BY <1>6 DEF NextCampaign
<1>7. ASSUME NEW r \in Runs, Leave(r) PROVE HbTypeOK'
  BY <1>7 DEF Leave, loopVars
<1>8. ASSUME Sleep PROVE HbTypeOK'
  <2>1. asleep' \in [Runs -> Nat]
    BY <1>8 DEF Sleep
  <2> QED BY <1>8, <2>1 DEF Sleep
<1>9. ASSUME UNCHANGED hbVars PROVE HbTypeOK'
  BY <1>9 DEF hbVars, loopVars
<1> QED BY <1>1, <1>2, <1>3, <1>4, <1>5, <1>6, <1>7, <1>8, <1>9 DEF HbNext

LEMMA OneMoreShare ==
  ASSUME NEW n \in Nat, NEW k \in Nat PROVE k * (n + 1) = k * n + k /\ k * n \in Nat
BY SMT

LEMMA FewShares ==
  ASSUME NEW n \in Nat, n <= RenewEvery PROVE Share * n <= TTL
<1>1. Share * n <= RenewEvery * Share
  BY SchedulerHeartbeatAssumption, SMT
<1>2. Share * n \in Nat /\ RenewEvery * Share \in Nat /\ RenewEvery * Share <= TTL
  BY SchedulerHeartbeatAssumption
<1> QED BY <1>1, <1>2, JobLockAssumption

LEMMA InTimeCovers ==
  ASSUME TypeOK, HbTypeOK, InTime, NEW r \in Working, ~LateRun(r)
  PROVE  r \in Leased /\ age[r] <= TTL /\ granted[r]
<1>1. r \in Runs /\ granted[r] /\ since[r] <= RenewEvery
      /\ age[r] + asleep[r] <= Share * since[r]
  BY DEF InTime, Working
<1>2. since[r] \in Nat /\ asleep[r] \in Nat /\ age[r] \in 0..(TTL + 1)
  BY <1>1 DEF TypeOK, HbTypeOK
<1>3. Share * since[r] <= TTL /\ Share * since[r] \in Nat
  BY <1>1, <1>2, FewShares, OneMoreShare, SchedulerHeartbeatAssumption
<1>4. age[r] <= TTL
  BY <1>1, <1>2, <1>3, JobLockAssumption
<1> QED BY <1>1, <1>4 DEF Covered, Leased

HbInv == CoverInv /\ HbTypeOK /\ IdleIsAwake /\ InTime

LEMMA AwakeStep ==
  ASSUME TypeOK, HbTypeOK, IdleIsAwake, [HbNext]_hbVars PROVE IdleIsAwake'
<1> SUFFICES ASSUME NEW r \in Runs, pc'[r] = "idle" PROVE asleep'[r] = 0
  BY DEF IdleIsAwake
<1> USE DEF IdleIsAwake, HbTypeOK, TypeOK
<1>1. ASSUME NEW p \in Procs, Launch(p) PROVE asleep'[r] = 0
  BY <1>1 DEF Launch, Boot, loopVars
<1>2. ASSUME NEW p \in Procs, Kill(p) PROVE asleep'[r] = 0
  BY <1>2 DEF Kill, Crash
<1>3. ASSUME NEW q \in Runs, Enter(q) PROVE asleep'[r] = 0
  BY <1>3 DEF Enter, Start
<1>4. ASSUME NEW q \in Runs, Renew(q) PROVE asleep'[r] = 0
  BY <1>4 DEF Renew, Heartbeat
<1>5. ASSUME NEW q \in Runs, ProcessLead(q) PROVE asleep'[r] = 0
  <2>1. r # q
    BY <1>5 DEF ProcessLead, Ready, vars
  <2> QED BY <1>5, <2>1 DEF ProcessLead, vars
<1>6. ASSUME NEW q \in Runs, NextCampaign(q) PROVE asleep'[r] = 0
  BY <1>6 DEF NextCampaign, vars
<1>7. ASSUME NEW q \in Runs, Leave(q) PROVE asleep'[r] = 0
  BY <1>7 DEF Leave, Finish, Ready, loopVars
<1>8. ASSUME Sleep PROVE asleep'[r] = 0
  BY <1>8 DEF Sleep, Tick
<1>9. ASSUME UNCHANGED hbVars PROVE asleep'[r] = 0
  BY <1>9 DEF hbVars, vars, loopVars
<1> QED BY <1>1, <1>2, <1>3, <1>4, <1>5, <1>6, <1>7, <1>8, <1>9 DEF HbNext

LEMMA InTimeStep ==
  ASSUME OneRunPerProcess, HbInv, [HbNext]_hbVars PROVE InTime'
<1> SUFFICES ASSUME NEW r \in Runs, pc'[r] = "working", ~LateRun(r)'
             PROVE  /\ granted'[r]
                    /\ since'[r] <= RenewEvery
                    /\ age'[r] + asleep'[r] <= Share * since'[r]
  BY DEF InTime, Working
<1> DEFINE Goal == /\ granted'[r]
                   /\ since'[r] <= RenewEvery
                   /\ age'[r] + asleep'[r] <= Share * since'[r]
<1> USE JobLockAssumption, SchedulerHeartbeatAssumption
<1>t. TypeOK /\ HbTypeOK
  BY DEF HbInv, CoverInv
\* A run that the step leaves alone was in time before it.
<1>0. ASSUME pc'[r] = pc[r], granted'[r] = granted[r], age'[r] = age[r], asleep'[r] = asleep[r],
             since'[r] = since[r], slow'[r] = slow[r], behind'[r] = behind[r]
      PROVE  Goal
  BY <1>0 DEF HbInv, InTime, Working, LateRun
<1>1. ASSUME NEW p \in Procs, Launch(p) PROVE Goal
  BY <1>1, <1>0 DEF Launch, Boot, loopVars, history
<1>2. ASSUME NEW p \in Procs, Kill(p) PROVE Goal
  <2>1. Host[r] # p
    BY <1>2 DEF Kill, Crash
  <2> QED BY <1>2, <1>0, <2>1, <1>t DEF Kill, Crash, history, HbTypeOK, TypeOK
<1>3. ASSUME NEW q \in Runs, Enter(q) PROVE Goal
  <2>1. CASE r = q
    <3>1. asleep'[r] = 0
      BY <1>3, <2>1 DEF Enter, Start, HbInv, IdleIsAwake
    <3>2. granted'[r] /\ age'[r] = 0 /\ since'[r] = 0
      BY <1>3, <2>1, <1>t DEF Enter, Start, TypeOK, HbTypeOK
    <3> QED BY <3>1, <3>2
  <2>2. CASE r # q
    BY <1>3, <1>0, <2>2, <1>t DEF Enter, Start, TypeOK, HbTypeOK
  <2> QED BY <2>1, <2>2
<1>4. ASSUME NEW q \in Runs, Renew(q) PROVE Goal
  <2>1. CASE r = q
    <3>1. r \in Working /\ ~LateRun(r)
      BY <1>4, <2>1 DEF Renew, Ready, Working, LateRun
    <3>2. Obtainable(Host[q])
      BY <3>1, <2>1, <1>t, InTimeCovers, CoveredObtains DEF HbInv
    <3>3. granted'[r] /\ age'[r] = 0 /\ since'[r] = 0 /\ asleep'[r] = 0
      BY <1>4, <2>1, <3>2, <1>t DEF Renew, Ready, Heartbeat, TypeOK, HbTypeOK
    <3> QED BY <3>3
  <2>2. CASE r # q
    BY <1>4, <1>0, <2>2, <1>t DEF Renew, Heartbeat, TypeOK, HbTypeOK
  <2> QED BY <2>1, <2>2
<1>5. ASSUME NEW q \in Runs, ProcessLead(q) PROVE Goal
  <2>1. CASE r = q
    <3>1. PICK d \in 0..MaxLead : /\ asleep' = [asleep EXCEPT ![r] = d]
                                  /\ slow' = [slow EXCEPT ![r] = @ \/ d > Share]
      BY <1>5, <2>1 DEF ProcessLead
    <3>2. slow'[r] = (slow[r] \/ d > Share)
          /\ behind'[r] = (behind[r] \/ since[r] + 1 > RenewEvery)
      BY <1>5, <2>1, <3>1, <1>t, Zenon DEF ProcessLead, HbTypeOK
    <3>3. ~slow[r] /\ ~behind[r] /\ ~(d > Share) /\ ~(since[r] + 1 > RenewEvery)
      BY <3>2 DEF LateRun
    <3>4. r \in Working /\ asleep[r] = 0 /\ granted'[r] = granted[r] /\ age'[r] = age[r]
      BY <1>5, <2>1 DEF ProcessLead, Ready, Working, vars
    <3>5. granted[r] /\ age[r] + asleep[r] <= Share * since[r]
      BY <3>3, <3>4 DEF HbInv, InTime, LateRun
    <3>6. asleep'[r] = d /\ since'[r] = since[r] + 1
      BY <1>5, <2>1, <3>1, <1>t DEF ProcessLead, HbTypeOK
    <3>7. since[r] \in Nat /\ age[r] \in Nat
      BY <1>t DEF HbTypeOK, TypeOK
    <3>8. Share * (since[r] + 1) = Share * since[r] + Share /\ Share * since[r] \in Nat
      BY <3>7, OneMoreShare
    <3> DEFINE product == Share * since[r]
    <3>9. age[r] + 0 <= product /\ Share * since'[r] = product + Share /\ product \in Nat
      BY <3>4, <3>5, <3>6, <3>8
    <3> HIDE DEF product
    <3> QED BY <3>3, <3>4, <3>5, <3>6, <3>7, <3>9
  <2>2. CASE r # q
    <3>1. PICK d \in 0..MaxLead : /\ asleep' = [asleep EXCEPT ![q] = d]
                                  /\ slow' = [slow EXCEPT ![q] = @ \/ d > Share]
      BY <1>5 DEF ProcessLead
    <3> QED BY <1>5, <1>0, <2>2, <3>1, <1>t DEF ProcessLead, HbTypeOK, vars
  <2> QED BY <2>1, <2>2
<1>6. ASSUME NEW q \in Runs, NextCampaign(q) PROVE Goal
  BY <1>6, <1>0 DEF NextCampaign, vars, history
<1>7. ASSUME NEW q \in Runs, Leave(q) PROVE Goal
  <2>1. r # q
    BY <1>7, <1>t DEF Leave, Finish, TypeOK
  <2> QED BY <1>7, <1>0, <2>1, <1>t DEF Leave, Finish, TypeOK, loopVars, history
<1>8. ASSUME Sleep PROVE Goal
  <2>1. r \in Working /\ asleep[r] > 0 /\ asleep'[r] = asleep[r] - 1 /\ since'[r] = since[r]
        /\ granted'[r] = granted[r] /\ age'[r] = Older(age[r]) /\ LateRun(r) = LateRun(r)'
    BY <1>8 DEF Sleep, Tick, Working, LateRun, history
  <2>2. ~LateRun(r)
    BY <2>1
  <2>3. granted[r] /\ since[r] <= RenewEvery /\ age[r] + asleep[r] <= Share * since[r]
    BY <2>1, <2>2 DEF HbInv, InTime
  <2>4. age[r] <= TTL
    BY <2>1, <2>2, <1>t, InTimeCovers DEF HbInv
  <2>5. age[r] \in Nat /\ asleep[r] \in Nat /\ since[r] \in Nat
    BY <1>t DEF HbTypeOK, TypeOK
  <2>6. age'[r] + asleep'[r] = age[r] + asleep[r]
    BY <2>1, <2>4, <2>5 DEF Older
  <2> QED BY <2>1, <2>3, <2>6
<1>9. ASSUME UNCHANGED hbVars PROVE Goal
  BY <1>9, <1>0 DEF hbVars, vars, loopVars, history
<1> QED BY <1>1, <1>2, <1>3, <1>4, <1>5, <1>6, <1>7, <1>8, <1>9 DEF HbNext

LEMMA HbInvAlways == ASSUME OneRunPerProcess PROVE HbSpec => []HbInv
<1>1. HbInit => HbInv
  BY TypeInit, CoverInit, HbTypeInit
     DEF HbInit, HbInv, CoverInv, Init, LoopInit, IdleIsAwake, InTime, Working
<1>2. HbInv /\ [HbNext]_hbVars => HbInv'
  <2> SUFFICES ASSUME HbInv, [HbNext]_hbVars PROVE HbInv'
    OBVIOUS
  <2>1. [Next]_vars
    BY HbStepsOfLock
  <2>2. CoverInv'
    BY <2>1, TypeStep, CoverStep DEF HbInv, CoverInv
  <2> QED BY <2>2, HbTypeStep, AwakeStep, InTimeStep DEF HbInv, CoverInv
<1> QED BY <1>1, <1>2, PTL DEF HbSpec

\* The renewals and the lease fit: for any number of campaigns, leads and
\* processes, two runs at once need a run that let a lead take more than
\* TTL / RenewEvery or more than RenewEvery leads go by without a lease call.
THEOREM LateRunNeeded == ASSUME OneRunPerProcess PROVE HbSpec => []OverlapNeedsLateRun
<1>1. HbInv => OverlapNeedsLateRun
  <2> SUFFICES ASSUME HbInv, NEW r \in Working, NEW s \in Working, ~LateRun(r), ~LateRun(s)
               PROVE  r = s
    BY DEF OverlapNeedsLateRun, LateRun
  <2>1. r \in Leased /\ s \in Leased
    BY InTimeCovers DEF HbInv, CoverInv
  <2> QED BY <2>1, CoverExcludes DEF HbInv, CoverInv, CoveredRunsExclude, Leased, Working
<1> QED BY <1>1, HbInvAlways, PTL

-----------------------------------------------------------------------------
(* Within one campaign the index is a multiple of RenewEvery plus the leads*)
(* since the last lease call, so no stretch is longer than RenewEvery.     *)

InStretch(r) ==
  /\ ~behind[r]
  /\ camp[r] < Campaigns =>
       /\ since[r] <= RenewEvery
       /\ renewed[r] => since[r] = 0
       /\ \E j \in Nat : idx[r] = RenewEvery * j + since[r]

Stretches == \A r \in Working : InStretch(r)

LEMMA MultipleOf ==
  ASSUME NEW n \in Nat, NEW k \in Nat \ {0}, n % k = 0 PROVE \E j \in Nat : n = k * j
<1>1. n = k * (n \div k) + (n % k)
  BY SMT
<1>2. n \div k \in Nat
  BY SMT
<1> QED BY <1>1, <1>2

LEMMA MultipleIsDue ==
  ASSUME NEW j \in Nat, NEW i \in Nat, i = RenewEvery * j + RenewEvery
  PROVE  RenewalDue(i)
<1>1. i = RenewEvery * (j + 1)
  BY SchedulerHeartbeatAssumption, OneMoreShare
<1>2. (RenewEvery * (j + 1)) % RenewEvery = 0
  BY SchedulerHeartbeatAssumption, SMT
<1>3. RenewEvery * j \in Nat
  BY SchedulerHeartbeatAssumption, OneMoreShare
<1> QED BY <1>1, <1>2, <1>3, SchedulerHeartbeatAssumption DEF RenewalDue

LEMMA StretchStep ==
  ASSUME Campaigns <= 1, TypeOK, HbTypeOK, Stretches, [HbNext]_hbVars PROVE Stretches'
<1> SUFFICES ASSUME NEW r \in Runs, pc'[r] = "working" PROVE InStretch(r)'
  BY DEF Stretches, Working
<1> USE SchedulerHeartbeatAssumption
<1>0. ASSUME pc'[r] = pc[r], camp'[r] = camp[r], idx'[r] = idx[r], renewed'[r] = renewed[r],
             since'[r] = since[r], behind'[r] = behind[r]
      PROVE  InStretch(r)'
  BY <1>0 DEF Stretches, Working, InStretch
<1>1. ASSUME NEW p \in Procs, Launch(p) PROVE InStretch(r)'
  BY <1>1, <1>0 DEF Launch, Boot, loopVars, history
<1>2. ASSUME NEW p \in Procs, Kill(p) PROVE InStretch(r)'
  <2>1. Host[r] # p
    BY <1>2 DEF Kill, Crash
  <2> QED BY <1>2, <1>0, <2>1 DEF Kill, Crash, history, TypeOK
<1>3. ASSUME NEW q \in Runs, Enter(q) PROVE InStretch(r)'
  <2>1. CASE r = q
    <3>1. ~behind'[r] /\ since'[r] = 0 /\ idx'[r] = 0
      BY <1>3, <2>1 DEF Enter, HbTypeOK
    <3>2. 0 = RenewEvery * 0 + 0
      OBVIOUS
    <3> QED BY <3>1, <3>2 DEF InStretch
  <2>2. CASE r # q
    BY <1>3, <1>0, <2>2 DEF Enter, Start, TypeOK, HbTypeOK
  <2> QED BY <2>1, <2>2
<1>4. ASSUME NEW q \in Runs, Renew(q) PROVE InStretch(r)'
  <2>1. CASE r = q
    <3>1. since'[r] = 0 /\ behind'[r] = behind[r] /\ idx'[r] = idx[r] /\ idx[r] \in Nat
          /\ idx[r] % RenewEvery = 0 /\ r \in Working
      BY <1>4, <2>1 DEF Renew, Ready, Working, RenewalDue, HbTypeOK
    <3>2. PICK j \in Nat : idx[r] = RenewEvery * j
      BY <3>1, MultipleOf
    <3>3. idx'[r] = RenewEvery * j + since'[r]
      BY <3>1, <3>2, OneMoreShare
    <3> QED BY <3>1, <3>3 DEF InStretch, Stretches
  <2>2. CASE r # q
    BY <1>4, <1>0, <2>2 DEF Renew, Heartbeat, TypeOK, HbTypeOK
  <2> QED BY <2>1, <2>2
<1>5. ASSUME NEW q \in Runs, ProcessLead(q) PROVE InStretch(r)'
  <2>1. CASE r = q
    <3>1. r \in Working /\ camp[r] < Campaigns /\ (RenewalDue(idx[r]) => renewed[r])
          /\ idx'[r] = idx[r] + 1 /\ since'[r] = since[r] + 1 /\ renewed'[r] = FALSE
      BY <1>5, <2>1 DEF ProcessLead, Ready, Working, HbTypeOK
    <3>2. ~behind[r] /\ since[r] <= RenewEvery /\ (renewed[r] => since[r] = 0)
      BY <3>1 DEF Stretches, InStretch
    <3>3. PICK j \in Nat : idx[r] = RenewEvery * j + since[r]
      BY <3>1 DEF Stretches, InStretch
    <3>4. since[r] \in Nat /\ idx[r] \in Nat
      BY DEF HbTypeOK
    <3>5. since[r] # RenewEvery
      BY <3>1, <3>2, <3>3, <3>4, MultipleIsDue
    <3>6. since[r] + 1 <= RenewEvery
      BY <3>2, <3>4, <3>5
    <3>7. behind'[r] = (behind[r] \/ since[r] + 1 > RenewEvery)
      BY <1>5, <2>1, Zenon DEF ProcessLead, HbTypeOK
    <3>8. ~behind'[r]
      <4>1. ~(since[r] + 1 > RenewEvery)
        BY <3>4, <3>6
      <4> QED BY <3>2, <3>7, <4>1, Zenon
    <3>9. idx'[r] = RenewEvery * j + since'[r]
      BY <3>1, <3>3, <3>4, OneMoreShare
    <3> QED BY <3>1, <3>6, <3>8, <3>9 DEF InStretch
  <2>2. CASE r # q
    BY <1>5, <1>0, <2>2 DEF ProcessLead, HbTypeOK, vars
  <2> QED BY <2>1, <2>2
<1>6. ASSUME NEW q \in Runs, NextCampaign(q) PROVE InStretch(r)'
  <2>1. CASE r = q
    <3>1. r \in Working /\ camp'[r] = camp[r] + 1 /\ camp[r] \in Nat /\ behind'[r] = behind[r]
      BY <1>6, <2>1 DEF NextCampaign, Ready, Working, HbTypeOK, history
    <3>2. ~(camp'[r] < Campaigns)
      BY <3>1
    <3> QED BY <3>1, <3>2 DEF InStretch, Stretches
  <2>2. CASE r # q
    BY <1>6, <1>0, <2>2 DEF NextCampaign, vars, history, HbTypeOK
  <2> QED BY <2>1, <2>2
<1>7. ASSUME NEW q \in Runs, Leave(q) PROVE InStretch(r)'
  <2>1. r # q
    BY <1>7 DEF Leave, Finish, TypeOK
  <2> QED BY <1>7, <1>0, <2>1 DEF Leave, Finish, TypeOK, loopVars, history
<1>8. ASSUME Sleep PROVE InStretch(r)'
  BY <1>8, <1>0 DEF Sleep, Tick, history
<1>9. ASSUME UNCHANGED hbVars PROVE InStretch(r)'
  BY <1>9, <1>0 DEF hbVars, vars, loopVars, history
<1> QED BY <1>1, <1>2, <1>3, <1>4, <1>5, <1>6, <1>7, <1>8, <1>9 DEF HbNext

LEMMA StretchesAlways ==
  ASSUME OneRunPerProcess, Campaigns <= 1 PROVE HbSpec => [](HbInv /\ Stretches)
<1>1. HbInit => Stretches
  BY DEF HbInit, Init, Stretches, Working
<1>2. HbInv /\ Stretches /\ [HbNext]_hbVars => Stretches'
  BY StretchStep DEF HbInv, CoverInv
<1> QED BY <1>1, <1>2, HbInvAlways, PTL DEF HbSpec

\* One campaign, however many leads: only a lead that took more than
\* TTL / RenewEvery makes two runs of one.
THEOREM SlowLeadNeeded == ASSUME OneRunPerProcess PROVE HbSpec => []OverlapNeedsSlowLead
<1>1. CASE ~(Campaigns <= 1)
  <2>1. OverlapNeedsSlowLead
    BY <1>1 DEF OverlapNeedsSlowLead
  <2> QED BY <2>1, PTL
<1>2. CASE Campaigns <= 1
  <2>1. OverlapNeedsLateRun /\ Stretches => OverlapNeedsSlowLead
    BY DEF OverlapNeedsLateRun, OverlapNeedsSlowLead, Stretches, InStretch
  <2> QED BY <1>2, <2>1, LateRunNeeded, StretchesAlways, PTL
<1> QED BY <1>1, <1>2
=============================================================================
