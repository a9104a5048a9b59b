--------------------------- MODULE Budget_proofs ----------------------------
(* What a day of Claude calls costs. Those who may still use Claude and     *)
(* those who owe their row are counted, by client: N.                       *)
EXTENDS ClientLife, FiniteSetTheorems, TLAPS

Of(s) == {c \in Callers : Scope(c) = s}
In(pc, s) == {c \in Callers : Scope(c) = s /\ call[c].pc = pc}
N(pc, s) == Cardinality(In(pc, s))

Calls == [pc : {"idle", "plain", "check", "scan", "use", "log"}, job : Jobs]
One(pc, x, c, s) == IF pc = x /\ Scope(c) = s THEN 1 ELSE 0

\* The same, of any state of the calls.
InOf(f, pc, s) == {c \in Callers : Scope(c) = s /\ f[c].pc = pc}

LEMMA CallersFinite ==
  /\ IsFiniteSet(Callers)
  /\ \A s : IsFiniteSet(Of(s)) /\ Cardinality(Of(s)) \in Nat
  /\ \A f, pc, s : IsFiniteSet(InOf(f, pc, s)) /\ Cardinality(InOf(f, pc, s)) \in Nat
<1>1. IsFiniteSet(Callers)
  <2>1. IsFiniteSet(Writers \cup Scanners)
    BY BudgetAssumption, FS_Union
  <2> QED BY BudgetAssumption, <2>1, FS_Union DEF Callers
<1>2. ASSUME NEW s PROVE IsFiniteSet(Of(s)) /\ Cardinality(Of(s)) \in Nat
  <2>1. Of(s) \subseteq Callers
    BY DEF Of
  <2> QED BY <1>1, <2>1, FS_Subset, FS_CardinalityType
<1>3. ASSUME NEW f, NEW pc, NEW s
      PROVE  IsFiniteSet(InOf(f, pc, s)) /\ Cardinality(InOf(f, pc, s)) \in Nat
  <2>1. InOf(f, pc, s) \subseteq Callers
    BY DEF InOf
  <2> QED BY <1>1, <2>1, FS_Subset, FS_CardinalityType
<1> QED BY <1>1, <1>2, <1>3

\* Those that use and those that log are different callers.
LEMMA PartsOfScope ==
  ASSUME NEW f, NEW s
  PROVE  Cardinality(InOf(f, "use", s)) + Cardinality(InOf(f, "log", s)) <= Cardinality(Of(s))
<1> DEFINE U == InOf(f, "use", s)
           L == InOf(f, "log", s)
<1>1. U \cup L \subseteq Of(s) /\ U \cap L = {}
  BY DEF InOf, Of
<1>2. IsFiniteSet(U) /\ IsFiniteSet(L) /\ IsFiniteSet(Of(s))
      /\ Cardinality(U) \in Nat /\ Cardinality(L) \in Nat
  BY CallersFinite
<1> HIDE DEF U, L
<1>3. Cardinality(U \cap L) = 0
  BY <1>1, FS_EmptySet
<1>4. Cardinality(U \cup L) = Cardinality(U) + Cardinality(L) - Cardinality(U \cap L)
  BY <1>2, FS_Union
<1>5. Cardinality(U \cup L) <= Cardinality(Of(s))
  BY <1>1, <1>2, FS_Subset
<1>6. Cardinality(U) + Cardinality(L) <= Cardinality(Of(s))
  BY <1>2, <1>3, <1>4, <1>5
<1> QED BY <1>6 DEF U, L

\* In the state and in the next one.
LEMMA Counted ==
  ASSUME NEW s, NEW x
  PROVE  /\ IsFiniteSet(In(x, s)) /\ N(x, s) \in Nat /\ N(x, s)' \in Nat
         /\ N("use", s) + N("log", s) <= Cardinality(Of(s))
         /\ N("use", s)' + N("log", s)' <= Cardinality(Of(s))
<1>1. \A pc : In(pc, s) = InOf(call, pc, s) /\ In(pc, s)' = InOf(call', pc, s)
  BY DEF In, InOf
<1>2. \A pc : N(pc, s) = Cardinality(InOf(call, pc, s)) /\ N(pc, s)' = Cardinality(InOf(call', pc, s))
  BY <1>1 DEF N
<1> QED BY <1>1, <1>2, CallersFinite, PartsOfScope

\* A call that moves on is counted where it came to.
LEMMA CallMoves ==
  ASSUME call \in [Callers -> Calls], NEW c \in Callers, NEW r \in Calls,
         call' = [call EXCEPT ![c] = r], NEW x, NEW s
  PROVE  N(x, s)' + One(call[c].pc, x, c, s) = N(x, s) + One(r.pc, x, c, s)
<1>1. /\ call'[c] = r
      /\ \A v \in Callers : v # c => call'[v] = call[v]
  OBVIOUS
<1>2. CASE Scope(c) # s
  <2>1. In(x, s)' = In(x, s)
    BY <1>1, <1>2 DEF In
  <2> QED BY <1>2, <2>1 DEF N, One
<1>3. CASE Scope(c) = s /\ call[c].pc = x /\ r.pc = x
  <2>1. In(x, s)' = In(x, s)
    BY <1>1, <1>3 DEF In
  <2> QED BY <1>3, <2>1 DEF N, One
<1>4. CASE Scope(c) = s /\ call[c].pc # x /\ r.pc # x
  <2>1. In(x, s)' = In(x, s)
    BY <1>1, <1>4 DEF In
  <2> QED BY <1>4, <2>1 DEF N, One
<1>5. CASE Scope(c) = s /\ call[c].pc = x /\ r.pc # x
  <2>1. In(x, s)' = In(x, s) \ {c} /\ c \in In(x, s)
    BY <1>1, <1>5 DEF In
  <2>2. Cardinality(In(x, s) \ {c}) = Cardinality(In(x, s)) - 1
    BY <2>1, Counted, FS_RemoveElement
  <2>3. N(x, s) \in Nat
    BY Counted
  <2> QED BY <1>5, <2>1, <2>2, <2>3 DEF N, One
<1>6. CASE Scope(c) = s /\ call[c].pc # x /\ r.pc = x
  <2>1. In(x, s)' = In(x, s) \cup {c} /\ c \notin In(x, s)
    BY <1>1, <1>6 DEF In
  <2>2. Cardinality(In(x, s) \cup {c}) = Cardinality(In(x, s)) + 1
    BY <2>1, Counted, FS_AddElement
  <2>3. N(x, s) \in Nat
    BY Counted
  <2> QED BY <1>6, <2>1, <2>2, <2>3 DEF N, One
<1> QED BY <1>2, <1>3, <1>4, <1>5, <1>6

-----------------------------------------------------------------------------
(* The day's bill and its rows.                                             *)

Room(s) == Limit - 1 + Cardinality(Of(s))

\* On the host's day, unless it is loose: what is used and may still be used
\* stays within the budget, and what is used is in the rows or will be.
Afforded(day, s) ==
  /\ bill[day][s] + N("use", s) <= Room(s)
  /\ bill[day][s] <= rows[day][s] + N("log", s)

SpendInv ==
  /\ \A d \in CallDays, s \in Scopes : d > clock.host => bill[d][s] = 0
  /\ \A d \in CallDays \ loose, s \in Scopes : d < clock.host => bill[d][s] <= Room(s)
  /\ clock.host \notin loose => \A s \in Scopes : Afforded(clock.host, s)

LEMMA RoomIsNat == ASSUME NEW s PROVE Room(s) \in Nat /\ Cardinality(Of(s)) \in Nat
BY CallersFinite, BudgetAssumption DEF Room

LEMMA SpendImplies == ASSUME BudgetOK, SpendInv PROVE SpendBounded
<1> SUFFICES ASSUME NEW d \in CallDays \ loose, NEW s \in Scopes
             PROVE  bill[d][s] <= Room(s)
  BY DEF SpendBounded, Room, Of
<1>0. d \in Int /\ clock.host \in Int /\ bill[d][s] \in Nat /\ N("use", s) \in Nat /\ Room(s) \in Nat
  <2>1. d \in Int /\ clock.host \in Int
    BY BudgetAssumption DEF BudgetOK, CallDays
  <2>2. bill[d][s] \in Nat
    BY DEF BudgetOK
  <2> QED BY <2>1, <2>2, Counted, RoomIsNat
<1>1. CASE d < clock.host
  BY <1>1 DEF SpendInv
<1>2. CASE d > clock.host
  BY <1>0, <1>2 DEF SpendInv
<1>3. CASE d = clock.host
  BY <1>0, <1>3 DEF SpendInv, Afforded
<1> QED BY <1>0, <1>1, <1>2, <1>3

\* A step within a day.
LEMMA SameDay ==
  ASSUME BudgetOK, SpendInv, clock' = clock, loose \subseteq loose',
         \A d \in CallDays, s \in Scopes : d # clock.host => bill'[d][s] = bill[d][s],
         clock.host \notin loose' => \A s \in Scopes : Afforded(clock.host, s)'
  PROVE  SpendInv'
<1>1. clock.host \in CallDays
  BY DEF BudgetOK
<1>2. \A s : Room(s)' = Room(s)
  BY DEF Room, Of
<1>3. (\A d \in CallDays, s \in Scopes : d > clock.host => bill[d][s] = 0)'
  <2>1. \A d \in CallDays : d > clock.host => d # clock.host
    BY <1>1 DEF CallDays
  <2> QED BY <2>1 DEF SpendInv
<1>4. (\A d \in CallDays \ loose, s \in Scopes : d < clock.host => bill[d][s] <= Room(s))'
  <2>1. \A d \in CallDays : d < clock.host => d # clock.host
    BY <1>1 DEF CallDays
  <2> QED BY <1>2, <2>1 DEF SpendInv
<1>5. (clock.host \notin loose => \A s \in Scopes : Afforded(clock.host, s))'
  OBVIOUS
<1> QED BY <1>3, <1>4, <1>5 DEF SpendInv

-----------------------------------------------------------------------------
(* The steps of a tracked call.                                             *)

CallGoes(c, pc, job) == call' = [call EXCEPT ![c] = [pc |-> pc, job |-> job]]

LEMMA AtIs ==
  ASSUME BudgetOK, NEW c \in Callers, NEW pc
  PROVE  At(c, pc) => CallGoes(c, pc, call[c].job)
<1>1. call[c] \in Calls
  BY DEF BudgetOK, Calls
<1>2. [call[c] EXCEPT !.pc = pc] = [pc |-> pc, job |-> call[c].job]
  BY <1>1 DEF Calls
<1> QED BY <1>2 DEF At, CallGoes

\* A call moves on, within a day: the types and the counts.
LEMMA CallStep ==
  ASSUME BudgetOK, NEW c \in Callers, NEW pc \in {"idle", "plain", "check", "scan", "use", "log"},
         NEW job \in Jobs, CallGoes(c, pc, job)
  PROVE  /\ call' \in [Callers -> Calls]
         /\ \A s : /\ N("use", s)' + One(call[c].pc, "use", c, s) = N("use", s) + One(pc, "use", c, s)
                  /\ N("log", s)' + One(call[c].pc, "log", c, s) = N("log", s) + One(pc, "log", c, s)
                  /\ N("use", s)' + N("log", s)' <= Cardinality(Of(s))
                  /\ N("use", s) \in Nat /\ N("log", s) \in Nat
                  /\ N("use", s)' \in Nat /\ N("log", s)' \in Nat
<1> DEFINE r == [pc |-> pc, job |-> job]
<1>1. r \in Calls /\ r.pc = pc /\ call' = [call EXCEPT ![c] = r]
  BY DEF CallGoes, Calls
<1>2. call \in [Callers -> Calls]
  BY DEF BudgetOK, Calls
<1> HIDE DEF r
<1>3. call' \in [Callers -> Calls]
  BY <1>1, <1>2
<1>4. ASSUME NEW s
      PROVE  /\ N("use", s)' + One(call[c].pc, "use", c, s) = N("use", s) + One(pc, "use", c, s)
             /\ N("log", s)' + One(call[c].pc, "log", c, s) = N("log", s) + One(pc, "log", c, s)
  BY <1>1, <1>2, CallMoves
<1>5. \A s : /\ N("use", s)' + N("log", s)' <= Cardinality(Of(s))
             /\ N("use", s) \in Nat /\ N("log", s) \in Nat
             /\ N("use", s)' \in Nat /\ N("log", s)' \in Nat
  BY Counted
<1> QED BY <1>3, <1>4, <1>5

\* Nothing is used, and nothing that was used is forgotten.
LEMMA IdleStep ==
  ASSUME BudgetOK, SpendInv, NEW c \in Callers, NEW pc \in {"idle", "plain", "check", "scan"},
         NEW job \in Jobs, CallGoes(c, pc, job), call[c].pc # "log" \/ clock.host \in loose',
         UNCHANGED <<clock, rows, ask, kept, bill>>, loose \subseteq loose', loose' \subseteq CallDays
  PROVE  BudgetOK' /\ SpendInv'
<1>1. BudgetOK'
  <2>1. call' \in [Callers -> Calls]
    BY CallStep
  <2> QED BY <2>1 DEF BudgetOK, Calls
<1>2. ASSUME clock.host \notin loose', NEW s \in Scopes PROVE Afforded(clock.host, s)'
  <2>1. Afforded(clock.host, s) /\ clock' = clock /\ bill' = bill /\ rows' = rows
    BY <1>2 DEF SpendInv
  <2>2. /\ N("use", s)' <= N("use", s) /\ N("log", s)' = N("log", s)
        /\ N("use", s)' \in Nat /\ N("use", s) \in Nat
    BY <1>2, CallStep DEF One
  <2>3. bill[clock.host][s] \in Nat /\ Room(s) \in Nat /\ Room(s)' = Room(s)
    BY RoomIsNat DEF BudgetOK, Room, Of
  <2> QED BY <2>1, <2>2, <2>3 DEF Afforded
<1> QED BY <1>1, <1>2, SameDay

\* A call is let through: of those before it, less than the budget is in the rows.
LEMMA GoStep ==
  ASSUME BudgetOK, SpendInv, NEW c \in Callers, NEW job \in Jobs, CallGoes(c, "use", job),
         call[c].pc \notin {"use", "log"},
         clock.host \notin loose' => rows[clock.host][Scope(c)] < Limit,
         UNCHANGED <<clock, rows, ask, kept, bill>>, loose \subseteq loose', loose' \subseteq CallDays
  PROVE  BudgetOK' /\ SpendInv'
<1>1. BudgetOK'
  <2>1. call' \in [Callers -> Calls]
    BY CallStep
  <2> QED BY <2>1 DEF BudgetOK, Calls
<1>2. ASSUME clock.host \notin loose', NEW s \in Scopes PROVE Afforded(clock.host, s)'
  <2>1. Afforded(clock.host, s) /\ clock' = clock /\ bill' = bill /\ rows' = rows
    BY <1>2 DEF SpendInv
  <2>2. /\ N("log", s)' = N("log", s)
        /\ N("use", s)' = N("use", s) + (IF Scope(c) = s THEN 1 ELSE 0)
        /\ N("use", s)' + N("log", s)' <= Cardinality(Of(s))
        /\ N("use", s)' \in Nat /\ N("use", s) \in Nat /\ N("log", s) \in Nat
    BY CallStep DEF One
  <2>3. /\ bill[clock.host][s] \in Nat /\ rows[clock.host][s] \in Nat
        /\ Room(s) \in Nat /\ Room(s)' = Room(s) /\ Cardinality(Of(s)) \in Nat
        /\ Room(s) = Limit - 1 + Cardinality(Of(s)) /\ Limit \in Nat
    <3>1. clock.host \in CallDays
      BY DEF BudgetOK
    <3>2. bill[clock.host][s] \in Nat /\ rows[clock.host][s] \in Nat
      BY <3>1 DEF BudgetOK
    <3> QED BY <3>2, RoomIsNat, BudgetAssumption DEF Room, Of
  <2>4. CASE Scope(c) = s
    BY <1>2, <2>1, <2>2, <2>3, <2>4 DEF Afforded
  <2>5. CASE Scope(c) # s
    BY <2>1, <2>2, <2>3, <2>5 DEF Afforded
  <2> QED BY <2>4, <2>5
<1> QED BY <1>1, <1>2, SameDay

LEMMA BillGoesUp ==
  ASSUME BudgetOK, NEW scope \in Scopes \cup {"direct"}, Billed(scope)
  PROVE  /\ bill' \in [CallDays -> [Scopes \cup {"direct"} -> Nat]]
         /\ \A d \in CallDays, s \in Scopes :
              bill'[d][s] = bill[d][s] + (IF d = clock.host /\ s = scope THEN 1 ELSE 0)
<1> DEFINE h == clock.host
<1>1. h \in CallDays /\ bill \in [CallDays -> [Scopes \cup {"direct"} -> Nat]]
  BY DEF BudgetOK
<1>2. bill' = [bill EXCEPT ![h][scope] = bill[h][scope] + 1]
  BY DEF Billed
<1> HIDE DEF h
<1>3. bill[h] \in [Scopes \cup {"direct"} -> Nat] /\ bill[h][scope] + 1 \in Nat
  <2>1. bill[h] \in [Scopes \cup {"direct"} -> Nat]
    BY <1>1
  <2>2. bill[h][scope] \in Nat
    BY <2>1
  <2> QED BY <2>1, <2>2
<1>4. bill' \in [CallDays -> [Scopes \cup {"direct"} -> Nat]]
  BY <1>1, <1>2, <1>3
<1>5. ASSUME NEW d \in CallDays, NEW s \in Scopes
      PROVE  bill'[d][s] = bill[d][s] + (IF d = h /\ s = scope THEN 1 ELSE 0)
  <2>1. bill[d][s] \in Nat
    BY <1>1
  <2> QED BY <1>1, <1>2, <1>3, <2>1
<1> QED BY <1>4, <1>5 DEF h

LEMMA RowIsAdded ==
  ASSUME BudgetOK, NEW scope \in Scopes, rows' = WithRow(scope)
  PROVE  /\ rows' \in [CallDays -> [Scopes -> Nat]]
         /\ \A s \in Scopes :
              rows'[clock.host][s] = rows[clock.host][s] + (IF s = scope THEN 1 ELSE 0)
<1> DEFINE h == clock.host
<1>1. h \in CallDays /\ rows \in [CallDays -> [Scopes -> Nat]]
  BY DEF BudgetOK
<1>2. rows' = [rows EXCEPT ![h][scope] = rows[h][scope] + 1]
  BY DEF WithRow
<1> HIDE DEF h
<1>3. rows[h] \in [Scopes -> Nat] /\ rows[h][scope] + 1 \in Nat
  <2>1. rows[h] \in [Scopes -> Nat]
    BY <1>1
  <2>2. rows[h][scope] \in Nat
    BY <2>1
  <2> QED BY <2>1, <2>2
<1>4. rows' \in [CallDays -> [Scopes -> Nat]]
  BY <1>1, <1>2, <1>3
<1>5. ASSUME NEW s \in Scopes
      PROVE  rows'[h][s] = rows[h][s] + (IF s = scope THEN 1 ELSE 0)
  <2>1. rows[h][s] \in Nat
    BY <1>1
  <2> QED BY <1>1, <1>2, <1>3, <2>1
<1> QED BY <1>4, <1>5 DEF h

\* What was let through is used, and will have its row.
LEMMA UseStep ==
  ASSUME BudgetOK, SpendInv, NEW c \in Callers, NEW job \in Jobs, CallGoes(c, "log", job),
         call[c].pc = "use", Billed(Scope(c)), UNCHANGED <<clock, rows, ask, kept, loose>>
  PROVE  BudgetOK' /\ SpendInv'
<1>0. Scope(c) \in Scopes
  BY DEF Scope, Scopes
<1>1. BudgetOK'
  <2>1. call' \in [Callers -> Calls]
    BY CallStep
  <2> QED BY <1>0, <2>1, BillGoesUp DEF BudgetOK, Calls
<1>2. ASSUME clock.host \notin loose', NEW s \in Scopes PROVE Afforded(clock.host, s)'
  <2> DEFINE one == IF Scope(c) = s THEN 1 ELSE 0
  <2>1. Afforded(clock.host, s) /\ clock' = clock /\ rows' = rows /\ clock.host \in CallDays
    BY <1>2 DEF SpendInv, BudgetOK
  <2>2. N("log", s)' = N("log", s) + one /\ N("use", s)' + one = N("use", s)
    BY CallStep DEF One
  <2>3. bill'[clock.host][s] = bill[clock.host][s] + one
    BY <1>0, <2>1, BillGoesUp
  <2>4. /\ bill[clock.host][s] \in Nat /\ rows[clock.host][s] \in Nat
        /\ Room(s) \in Nat /\ Room(s)' = Room(s) /\ one \in Nat
    BY <2>1, RoomIsNat DEF BudgetOK, Room, Of
  <2>5. N("use", s)' \in Nat /\ N("use", s) \in Nat /\ N("log", s) \in Nat
    BY Counted
  <2> HIDE DEF one
  <2> QED BY <2>1, <2>2, <2>3, <2>4, <2>5 DEF Afforded
<1>3. \A d \in CallDays, s \in Scopes : d # clock.host => bill'[d][s] = bill[d][s]
  <2>1. ASSUME NEW d \in CallDays, NEW s \in Scopes, d # clock.host PROVE bill'[d][s] = bill[d][s]
    <3>1. bill[d][s] \in Nat
      BY DEF BudgetOK
    <3>2. bill'[d][s] = bill[d][s] + 0
      BY <1>0, <2>1, BillGoesUp
    <3> QED BY <3>1, <3>2
  <2> QED BY <2>1
<1> QED BY <1>1, <1>2, <1>3, SameDay

\* A row is written.
LEMMA LogStep ==
  ASSUME BudgetOK, SpendInv, NEW c \in Callers, NEW pc \in {"idle", "plain"}, NEW job \in Jobs,
         CallGoes(c, pc, job), call[c].pc = "log", rows' = WithRow(Scope(c)),
         UNCHANGED <<clock, bill, ask, kept, loose>>
  PROVE  BudgetOK' /\ SpendInv'
<1>0. Scope(c) \in Scopes
  BY DEF Scope, Scopes
<1>1. BudgetOK'
  <2>1. call' \in [Callers -> Calls]
    BY CallStep
  <2> QED BY <1>0, <2>1, RowIsAdded DEF BudgetOK, Calls
<1>2. ASSUME clock.host \notin loose', NEW s \in Scopes PROVE Afforded(clock.host, s)'
  <2> DEFINE one == IF Scope(c) = s THEN 1 ELSE 0
  <2>1. Afforded(clock.host, s) /\ clock' = clock /\ bill' = bill /\ clock.host \in CallDays
    BY <1>2 DEF SpendInv, BudgetOK
  <2>2. N("log", s)' + one = N("log", s) /\ N("use", s)' = N("use", s)
    BY CallStep, Counted DEF One
  <2>3. rows'[clock.host][s] = rows[clock.host][s] + one
    BY <1>0, <2>1, RowIsAdded
  <2>4. /\ bill[clock.host][s] \in Nat /\ rows[clock.host][s] \in Nat
        /\ Room(s) \in Nat /\ Room(s)' = Room(s) /\ one \in Nat
    BY <2>1, RoomIsNat DEF BudgetOK, Room, Of
  <2>5. N("use", s) \in Nat /\ N("log", s) \in Nat /\ N("log", s)' \in Nat
    BY Counted
  <2> HIDE DEF one
  <2> QED BY <2>1, <2>2, <2>3, <2>4, <2>5 DEF Afforded
<1> QED BY <1>1, <1>2, SameDay

\* Requests that ask directly are on no bill but their own.
LEMMA AskStep ==
  ASSUME BudgetOK, SpendInv, ask' \in [Requests -> Nat], \A q \in Requests : ask'[q] <= Len(Handler[q]),
         kept' \subseteq Requests,
         UNCHANGED <<clock, rows, call, loose>>, Billed("direct") \/ UNCHANGED bill
  PROVE  BudgetOK' /\ SpendInv'
<1>0. /\ bill' \in [CallDays -> [Scopes \cup {"direct"} -> Nat]]
      /\ \A d \in CallDays, s \in Scopes : bill'[d][s] = bill[d][s]
  <2>1. CASE Billed("direct")
    <3>1. \A s \in Scopes : s # "direct"
      BY DEF Scopes
    <3>2. \A d \in CallDays, s \in Scopes : bill[d][s] \in Nat
      BY DEF BudgetOK
    <3>3. \A d \in CallDays, s \in Scopes : bill'[d][s] = bill[d][s] + 0
      BY <2>1, <3>1, BillGoesUp
    <3>4. ASSUME NEW d \in CallDays, NEW s \in Scopes PROVE bill'[d][s] = bill[d][s]
      <4>1. bill[d][s] \in Nat /\ bill'[d][s] = bill[d][s] + 0
        BY <3>2, <3>3
      <4> QED BY <4>1
    <3> QED BY <2>1, <3>4, BillGoesUp
  <2>2. CASE UNCHANGED bill
    BY <2>2 DEF BudgetOK
  <2> QED BY <2>1, <2>2
<1>1. BudgetOK'
  BY <1>0 DEF BudgetOK
<1>2. ASSUME clock.host \notin loose', NEW s \in Scopes PROVE Afforded(clock.host, s)'
  <2>1. Afforded(clock.host, s) /\ clock.host \in CallDays
    BY <1>2 DEF SpendInv, BudgetOK
  <2>2. N("use", s)' = N("use", s) /\ N("log", s)' = N("log", s) /\ Room(s)' = Room(s)
    BY DEF N, In, Room, Of
  <2> QED BY <1>0, <2>1, <2>2 DEF Afforded
<1> QED BY <1>0, <1>1, <1>2, SameDay

-----------------------------------------------------------------------------
(* The actions.                                                             *)

LEMMA NoAnswer ==
  ASSUME BudgetOK, NEW c \in Callers, WithoutAnswer(c)
  PROVE  \E pc \in {"idle", "plain"} : CallGoes(c, pc, call[c].job)
<1>1. call[c].job = "signals" => CallGoes(c, "plain", call[c].job)
  BY AtIs DEF WithoutAnswer
<1>2. call[c].job # "signals" => CallGoes(c, "idle", call[c].job)
  BY AtIs DEF WithoutAnswer
<1> QED BY <1>1, <1>2

LEMMA JobOf == ASSUME BudgetOK, NEW c \in Callers PROVE call[c].job \in Jobs
BY DEF BudgetOK

LEMMA BeginStep ==
  ASSUME BudgetOK, SpendInv, NEW c \in Callers,
         WriteMail(c) \/ Classify(c) \/ AnswerMail(c) \/ PlainClassify(c)
  PROVE  BudgetOK' /\ SpendInv'
<1>1. /\ \E pc \in {"idle", "check"}, job \in Jobs : CallGoes(c, pc, job)
      /\ call[c].pc # "log"
      /\ UNCHANGED <<clock, rows, ask, kept, bill, loose>>
  <2>1. ASSUME NEW job \in Jobs, Begin(c, job, "check")
        PROVE  CallGoes(c, "check", job) /\ call[c].pc # "log"
               /\ UNCHANGED <<clock, rows, ask, kept, bill, loose>>
    BY <2>1 DEF Begin, CallGoes
  <2>2. {"mail", "signals", "answer", "plain"} \subseteq Jobs
    BY DEF Jobs
  <2>3. CASE PlainClassify(c)
    <3>1. CallGoes(c, "idle", call[c].job) \/ CallGoes(c, "check", "plain")
      BY <2>3, AtIs DEF PlainClassify, CallGoes
    <3> QED BY <2>2, <2>3, <3>1, JobOf DEF PlainClassify
  <2> QED BY <2>1, <2>2, <2>3 DEF WriteMail, Classify, AnswerMail
<1>2. loose' \subseteq CallDays /\ loose \subseteq loose'
  BY <1>1 DEF BudgetOK
<1> QED BY <1>1, <1>2, IdleStep

LEMMA VerdictStep ==
  ASSUME BudgetOK, SpendInv, NEW c \in Callers, NEW spent, Verdict(c, spent),
         clock.host \notin loose' => spent = Spent(clock.host, Scope(c)),
         call[c].pc \in {"check", "scan"},
         UNCHANGED <<clock, rows, ask, kept, bill>>, loose \subseteq loose', loose' \subseteq CallDays
  PROVE  BudgetOK' /\ SpendInv'
<1>1. CASE spent < Limit /\ At(c, "use")
  <2>1. CallGoes(c, "use", call[c].job) /\ call[c].job \in Jobs
    BY <1>1, AtIs, JobOf
  <2>2. clock.host \notin loose' => rows[clock.host][Scope(c)] < Limit
    <3>1. /\ rows[clock.host]["client"] \in Nat /\ rows[clock.host]["shared"] \in Nat
          /\ Limit \in Nat
      BY BudgetAssumption DEF BudgetOK, Scopes
    <3>2. Scope(c) = "client" \/ Scope(c) = "shared"
      BY DEF Scope
    <3> QED BY <1>1, <3>1, <3>2 DEF Spent
  <2> QED BY <2>1, <2>2, GoStep
<1>2. CASE WithoutAnswer(c)
  BY <1>2, NoAnswer, JobOf, IdleStep
<1> QED BY <1>1, <1>2 DEF Verdict

LEMMA CheckStep ==
  ASSUME BudgetOK, SpendInv, NEW c \in Callers, CheckBudget(c)
  PROVE  BudgetOK' /\ SpendInv'
<1>0. clock.host \in CallDays /\ loose \subseteq CallDays
  BY DEF BudgetOK
<1>1. CASE /\ Verdict(c, Spent(clock.base, Scope(c)))
           /\ loose' = IF clock.base = clock.host THEN loose ELSE loose \cup {clock.host}
  <2>1. clock.host \notin loose' => Spent(clock.base, Scope(c)) = Spent(clock.host, Scope(c))
    BY <1>1
  <2>2. loose \subseteq loose' /\ loose' \subseteq CallDays
    BY <1>0, <1>1
  <2> QED BY <1>1, <2>1, <2>2, VerdictStep DEF CheckBudget
<1>2. CASE At(c, "scan") /\ UNCHANGED loose
  BY <1>0, <1>2, AtIs, JobOf, IdleStep DEF CheckBudget
<1> QED BY <1>1, <1>2 DEF CheckBudget

LEMMA ScanStep ==
  ASSUME BudgetOK, SpendInv, NEW c \in Callers, ScanRows(c)
  PROVE  BudgetOK' /\ SpendInv'
<1>0. clock.host \in CallDays /\ loose \subseteq CallDays
  BY DEF BudgetOK
<1>1. CASE Verdict(c, Spent(clock.host, Scope(c))) /\ UNCHANGED loose
  BY <1>0, <1>1, VerdictStep DEF ScanRows
<1>2. CASE At(c, "use") /\ loose' = loose \cup {clock.host}
  <2>1. CallGoes(c, "use", call[c].job) /\ call[c].job \in Jobs
    BY <1>2, AtIs, JobOf
  <2> QED BY <1>0, <1>2, <2>1, GoStep DEF ScanRows
<1> QED BY <1>1, <1>2 DEF ScanRows

LEMMA ClaudeStep ==
  ASSUME BudgetOK, SpendInv, NEW c \in Callers, UseClaude(c)
  PROVE  BudgetOK' /\ SpendInv'
<1>1. CASE Billed(Scope(c)) /\ At(c, "log")
  BY <1>1, AtIs, JobOf, UseStep DEF UseClaude
<1>2. CASE WithoutAnswer(c) /\ UNCHANGED bill
  <2>1. PICK pc \in {"idle", "plain"} : CallGoes(c, pc, call[c].job)
    BY <1>2, NoAnswer
  <2>2. loose' = loose /\ loose \subseteq CallDays /\ call[c].pc # "log"
    BY DEF UseClaude, BudgetOK
  <2> QED BY <1>2, <2>1, <2>2, JobOf, IdleStep DEF UseClaude
<1> QED BY <1>1, <1>2 DEF UseClaude

LEMMA RowStep ==
  ASSUME BudgetOK, SpendInv, NEW c \in Callers, LogCost(c)
  PROVE  BudgetOK' /\ SpendInv'
<1>1. PICK pc \in {"idle", "plain"} : CallGoes(c, pc, call[c].job)
  BY NoAnswer, AtIs DEF LogCost
<1>2. CASE rows' = WithRow(Scope(c)) /\ UNCHANGED loose
  BY <1>1, <1>2, JobOf, LogStep DEF LogCost
<1>3. CASE loose' = loose \cup {clock.host} /\ UNCHANGED rows
  <2>1. loose \subseteq loose' /\ loose' \subseteq CallDays /\ clock.host \in loose'
    BY <1>3 DEF BudgetOK
  <2> QED BY <1>1, <1>3, <2>1, JobOf, IdleStep DEF LogCost
<1> QED BY <1>2, <1>3 DEF LogCost

LEMMA KillStep ==
  ASSUME BudgetOK, SpendInv, NEW c \in Callers, CallKilled(c)
  PROVE  BudgetOK' /\ SpendInv'
<1>1. CallGoes(c, "idle", call[c].job) /\ call[c].job \in Jobs
  BY AtIs, JobOf DEF CallKilled
<1>2. /\ loose \subseteq loose' /\ loose' \subseteq CallDays
      /\ call[c].pc # "log" \/ clock.host \in loose'
  BY DEF CallKilled, BudgetOK
<1> QED BY <1>1, <1>2, IdleStep DEF CallKilled

LEMMA HandlerStages == ASSUME NEW q \in Requests PROVE Len(Handler[q]) \in Nat /\ 1 <= Len(Handler[q])
<1>1. q \in {"intent", "score", "briefing", "subject", "suggest", "sequence", "opener"}
  BY DEF Requests, Handler
<1>2. Len(IntentStages) = 3 /\ Len(ScoreStages) = 2 /\ Len(BriefingStages) = 3
  BY DEF IntentStages, ScoreStages, AnalysisStages, BriefingStages, GatherStages, FocusStages
<1>3. Len(SubjectStages) = 1 /\ Len(SuggestStages) = 1 /\ Len(SequenceStages) = 1 /\ Len(OpenerStages) = 1
  BY DEF SubjectStages, SuggestStages, SequenceStages, OpenerStages
<1>4. \E stages \in {IntentStages, ScoreStages, BriefingStages, SubjectStages, SuggestStages,
                      SequenceStages, OpenerStages} : Handler[q] = stages
  BY <1>1 DEF Handler
<1>5. Len(Handler[q]) \in {1, 2, 3}
  BY <1>2, <1>3, <1>4
<1> QED BY <1>5

LEMMA DirectStep ==
  ASSUME BudgetOK, SpendInv, NEW q \in Requests, AskDirectly(q) \/ HandleStage(q)
  PROVE  BudgetOK' /\ SpendInv'
<1>0. /\ ask \in [Requests -> Nat] /\ \A p \in Requests : ask[p] <= Len(Handler[p])
      /\ ask[q] \in Nat /\ kept \subseteq Requests
  BY DEF BudgetOK
<1>1. Len(Handler[q]) \in Nat /\ 1 <= Len(Handler[q])
  BY HandlerStages
<1>2. NextStage(q) \in Nat /\ NextStage(q) <= Len(Handler[q])
  <2>1. ask[q] <= Len(Handler[q])
    BY <1>0
  <2> QED BY <1>0, <1>1, <2>1 DEF NextStage
<1>3. \E to \in {0, 1, NextStage(q)} : ask' = [ask EXCEPT ![q] = to]
  BY DEF AskDirectly, HandleStage
<1>4. PICK to \in {0, 1, NextStage(q)} : ask' = [ask EXCEPT ![q] = to]
  BY <1>3
<1>5. to \in Nat /\ to <= Len(Handler[q])
  BY <1>1, <1>2
<1>6. ask' \in [Requests -> Nat] /\ \A p \in Requests : ask'[p] <= Len(Handler[p])
  BY <1>0, <1>4, <1>5
<1>7. /\ UNCHANGED <<clock, rows, call, loose>>
      /\ Billed("direct") \/ UNCHANGED bill
  BY DEF AskDirectly, HandleStage
<1>8. kept' \subseteq Requests
  BY <1>0 DEF AskDirectly, HandleStage
<1> QED BY <1>6, <1>7, <1>8, AskStep

\* A new day on the host starts with no bill, whatever was let through before it.
LEMMA MidnightStep ==
  ASSUME BudgetOK, SpendInv, NEW where \in DOMAIN clock, Midnight(where)
  PROVE  BudgetOK' /\ SpendInv'
<1>0. /\ clock \in [{"host", "base"} -> CallDays] /\ where \in {"host", "base"}
      /\ clock[where] < Days /\ clock[where] \in Int /\ clock[where] >= 0 /\ Days \in Nat
      /\ clock' = [clock EXCEPT ![where] = clock[where] + 1]
      /\ UNCHANGED <<rows, call, ask, kept, bill, loose>>
  BY BudgetAssumption DEF BudgetOK, Midnight, CallDays
<1>1. clock' \in [{"host", "base"} -> CallDays]
  BY <1>0 DEF CallDays
<1>2. BudgetOK'
  BY <1>0, <1>1 DEF BudgetOK
<1>3. \A s : Room(s)' = Room(s) /\ N("use", s)' = N("use", s) /\ N("log", s)' = N("log", s)
  BY <1>0 DEF Room, Of, N, In
<1>4. CASE where = "base"
  <2>1. clock'.host = clock.host
    BY <1>0, <1>4
  <2>2. \A s \in Scopes : Afforded(clock.host, s)' <=> Afforded(clock.host, s)
    BY <1>0, <1>3, <2>1 DEF Afforded
  <2> QED BY <1>0, <1>2, <1>3, <2>1, <2>2 DEF SpendInv
<1>5. CASE where = "host"
  <2> DEFINE h == clock.host
  <2>1. clock'.host = h + 1 /\ h \in Int /\ h \in CallDays /\ h + 1 \in CallDays
    BY <1>0, <1>1, <1>5 DEF CallDays
  <2> HIDE DEF h
  <2>2. \A d \in CallDays : d \in Int
    BY DEF CallDays
  <2>3. (\A d \in CallDays, s \in Scopes : d > clock.host => bill[d][s] = 0)'
    <3>1. ASSUME NEW d \in CallDays, NEW s \in Scopes, d > h + 1 PROVE bill[d][s] = 0
      BY <2>1, <2>2, <3>1 DEF SpendInv, h
    <3> QED BY <1>0, <2>1, <3>1
  <2>4. (\A d \in CallDays \ loose, s \in Scopes : d < clock.host => bill[d][s] <= Room(s))'
    <3>1. ASSUME NEW d \in CallDays \ loose, NEW s \in Scopes, d < h + 1 PROVE bill[d][s] <= Room(s)
      <4>1. CASE d < h
        BY <4>1 DEF SpendInv, h
      <4>2. CASE d = h
        <5>1. bill[d][s] + N("use", s) <= Room(s)
          BY <4>2 DEF SpendInv, Afforded, h
        <5>2. bill[d][s] \in Nat /\ N("use", s) \in Nat /\ Room(s) \in Nat
          BY Counted, RoomIsNat DEF BudgetOK
        <5> QED BY <5>1, <5>2
      <4>3. d \in Int
        BY <2>2
      <4>4. d < h \/ d = h
        BY <2>1, <3>1, <4>3
      <4> QED BY <4>1, <4>2, <4>4
    <3>2. clock.host' = h + 1 /\ bill' = bill /\ loose' = loose
      BY <1>0, <2>1
    <3>3. \A s : Room(s)' = Room(s)
      BY <1>3
    <3> QED BY <3>1, <3>2, <3>3
  <2>5. ASSUME NEW s \in Scopes PROVE Afforded(clock.host, s)'
    <3>1. bill[h + 1][s] = 0
      BY <2>1 DEF SpendInv, h
    <3>2. rows[h + 1][s] \in Nat
      BY <2>1 DEF BudgetOK
    <3>3. /\ N("use", s) \in Nat /\ N("log", s) \in Nat /\ Cardinality(Of(s)) \in Nat
          /\ N("use", s) + N("log", s) <= Cardinality(Of(s))
          /\ Room(s) = Limit - 1 + Cardinality(Of(s)) /\ Limit \in Nat \ {0}
      BY Counted, RoomIsNat, BudgetAssumption DEF Room
    <3>4. bill[h + 1][s] + N("use", s) <= Room(s) /\ bill[h + 1][s] <= rows[h + 1][s] + N("log", s)
      BY <3>1, <3>2, <3>3
    <3> QED BY <1>0, <1>3, <2>1, <3>4 DEF Afforded
  <2> QED BY <1>2, <2>3, <2>4, <2>5 DEF SpendInv
<1> QED BY <1>0, <1>4, <1>5

\* Every step of the component keeps the bill covered.
LEMMA BudgetStepKeeps ==
  ASSUME BudgetOK, SpendInv, BudgetStep
  PROVE  BudgetOK' /\ SpendInv'
<1>1. ASSUME NEW c \in Callers, TrackedStep(c) PROVE BudgetOK' /\ SpendInv'
  BY <1>1, BeginStep, CheckStep, ScanStep, ClaudeStep, RowStep, KillStep DEF TrackedStep
<1> QED BY <1>1, DirectStep, MidnightStep DEF BudgetStep

\* Steps of other components leave it alone.
LEMMA BudgetRests ==
  ASSUME BudgetOK, SpendInv, UNCHANGED budgetVars
  PROVE  BudgetOK' /\ SpendInv'
<1>1. \A s : Room(s)' = Room(s) /\ N("use", s)' = N("use", s) /\ N("log", s)' = N("log", s)
  BY DEF Room, Of, N, In, budgetVars
<1> QED BY <1>1 DEF BudgetOK, SpendInv, Afforded, budgetVars

LEMMA BudgetStarts == ASSUME BudgetInit PROVE BudgetOK /\ SpendInv
<1>0. 0 \in CallDays
  BY BudgetAssumption DEF CallDays
<1>1. BudgetOK
  <2>1. clock \in [{"host", "base"} -> CallDays] /\ clock.host = 0
    BY <1>0 DEF BudgetInit
  <2>2. rows \in [CallDays -> [Scopes -> Nat]]
    BY DEF BudgetInit
  <2>3. call \in [Callers -> Calls]
    BY DEF BudgetInit, Idle, Calls, Jobs
  <2>4. ask \in [Requests -> Nat] /\ \A q \in Requests : ask[q] <= Len(Handler[q])
    <3>1. ASSUME NEW q \in Requests PROVE 0 <= Len(Handler[q])
      BY HandlerStages
    <3> QED BY <3>1 DEF BudgetInit
  <2>5. bill \in [CallDays -> [Scopes \cup {"direct"} -> Nat]]
    BY DEF BudgetInit
  <2> QED BY <2>1, <2>2, <2>3, <2>4, <2>5 DEF BudgetInit, BudgetOK, Calls
<1>2. /\ \A d \in CallDays, s \in Scopes : bill[d][s] = 0 /\ rows[d][s] = 0
      /\ clock.host = 0
  BY DEF BudgetInit
<1>3. \A d \in CallDays : ~(d < 0)
  BY DEF CallDays
<1>4. ASSUME NEW s \in Scopes PROVE Afforded(clock.host, s)
  <2>1. \A c \in Callers : call[c].pc = "idle"
    BY DEF BudgetInit, Idle
  <2>2. In("use", s) = {}
    BY <2>1 DEF In
  <2>3. N("use", s) = 0 /\ N("log", s) \in Nat /\ Room(s) \in Nat
    BY <2>2, FS_EmptySet, Counted, RoomIsNat DEF N
  <2>4. bill[0][s] = 0 /\ rows[0][s] = 0
    BY <1>0, <1>2
  <2> QED BY <1>2, <2>3, <2>4 DEF Afforded
<1> QED BY <1>1, <1>2, <1>3, <1>4 DEF SpendInv

-----------------------------------------------------------------------------

LEMMA BudgetInvInit == Init => BudgetOK /\ SpendInv
BY BudgetStarts DEF Init

LEMMA BudgetInvStep == BudgetOK /\ SpendInv /\ [Next]_vars => (BudgetOK /\ SpendInv)'
<1> SUFFICES ASSUME BudgetOK, SpendInv, [Next]_vars PROVE BudgetOK' /\ SpendInv'
  OBVIOUS
<1>1. BudgetStep \/ UNCHANGED budgetVars
  BY DEF Next, NotBudget, vars
<1> QED BY <1>1, BudgetStepKeeps, BudgetRests

\* What a day's tracked calls may cost (cost_tracker.py): on every day on which
\* no check and no row went wrong, at most one call of each caller in flight
\* beyond the budget, for any budget, number of callers, days and casts.
THEOREM SpendingIsBounded == Spec => []SpendBounded
<1>1. BudgetOK /\ SpendInv => SpendBounded
  BY SpendImplies
<1> QED BY <1>1, BudgetInvInit, BudgetInvStep, PTL DEF Spec
=============================================================================
