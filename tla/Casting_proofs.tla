--------------------------- MODULE Casting_proofs ---------------------------
(* What a step does to the casting variable, for any casts: disturbances    *)
(* are used up, failing calls are counted, and the cast stays the cast.     *)
EXTENDS Casting, TLAPS

\* Failing calls are counted, never uncounted, so that a behaviour of which no
\* call has failed yet had none before; what is left of a cast stays within it.
EnvOK == DOMAIN env = {"faults", "left"} /\ env.faults \in Nat /\ CastOK
\* A cast never changes.
SameCast == DOMAIN env'.left = DOMAIN env.left
EnvKept == EnvOK' /\ SameCast /\ env'.faults = env.faults
EnvMoves == EnvOK' /\ SameCast /\ env'.faults >= env.faults

LEMMA EnvMovesHow ==
  ASSUME EnvOK
  PROVE  /\ \A e : e # "fault" /\ Event(e) => EnvKept
         /\ Fault => EnvOK' /\ SameCast /\ env'.faults = env.faults + 1
         /\ env' = env => EnvKept
         /\ EnvKept \/ Fault => EnvMoves
<1>0. PICK c \in Casts : /\ env.left \in [DOMAIN c -> Nat]
                        /\ env.left["fault"] + env.faults = c["fault"]
  BY DEF EnvOK, CastOK
<1>a. "fault" \in DOMAIN c /\ env.left["fault"] \in Nat /\ DOMAIN env.left = DOMAIN c
  BY <1>0, CastingAssumption
<1>1. ASSUME NEW e, e # "fault", Event(e) PROVE EnvKept
  <2>1. DOMAIN env' = {"faults", "left"} /\ env'.faults = env.faults
        /\ env'.left = [env.left EXCEPT ![e] = @ - 1] /\ e \in DOMAIN env.left /\ env.left[e] > 0
    BY <1>1 DEF EnvOK, Event, Plays
  <2>2. env'.left \in [DOMAIN c -> Nat] /\ env'.left["fault"] = env.left["fault"]
    BY <1>0, <1>a, <1>1, <2>1
  <2>3. CastOK'
    BY <1>0, <2>1, <2>2 DEF CastOK, EnvOK
  <2> QED BY <2>1, <2>2, <2>3, <1>a DEF EnvOK, EnvKept, SameCast
<1>2. ASSUME Fault PROVE EnvOK' /\ SameCast /\ env'.faults = env.faults + 1
  <2>1. DOMAIN env' = {"faults", "left"} /\ env'.faults = env.faults + 1
        /\ env'.left = [env.left EXCEPT !["fault"] = @ - 1] /\ env.left["fault"] > 0
    BY <1>2 DEF EnvOK, Fault
  <2>2. env'.left \in [DOMAIN c -> Nat] /\ env'.left["fault"] = env.left["fault"] - 1
    BY <1>0, <1>a, <2>1
  <2>3. CastOK'
    BY <1>0, <1>a, <2>1, <2>2 DEF CastOK, EnvOK
  <2> QED BY <2>1, <2>2, <2>3, <1>a DEF EnvOK, SameCast
<1>3. env' = env => EnvKept
  BY DEF EnvOK, EnvKept, SameCast, CastOK
<1>4. EnvKept \/ Fault => EnvMoves
  BY <1>2 DEF EnvMoves, EnvKept, EnvOK
<1> QED BY <1>1, <1>2, <1>3, <1>4

LEMMA EnvInit == ASSUME CastInit PROVE EnvOK /\ env.faults = 0
<1>1. PICK c \in Casts : env.left = c
  BY DEF CastInit
<1>2. env.faults = 0 /\ DOMAIN env = {"faults", "left"}
  BY DEF CastInit
<1> QED BY <1>1, <1>2, CastingAssumption DEF EnvOK, CastOK
=============================================================================
