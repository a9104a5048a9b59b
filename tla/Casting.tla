------------------------------ MODULE Casting ------------------------------
(* What meets in a behaviour. A cast names the programs that run and the    *)
(* disturbances that come, each with the number of times it may at most;    *)
(* a program it does not name stays away. The initial states choose one.    *)
EXTENDS Integers, FiniteSets

CONSTANT Casts   \* "fault" of a cast counts failing database calls and kills

ASSUME CastingAssumption ==
  \A c \in Casts : c \in [DOMAIN c -> Nat] /\ "fault" \in DOMAIN c

VARIABLE env

CastInit == env \in [faults : {0}, left : Casts]

Plays(e) == e \in DOMAIN env.left
Event(e) == Plays(e) /\ env.left[e] > 0 /\ env' = [env EXCEPT !.left[e] = @ - 1]
Fault == env.left["fault"] > 0 /\ env' = [env EXCEPT !.left["fault"] = @ - 1, !.faults = @ + 1]

CastOK ==
  /\ env.faults \in Nat
  /\ \E c \in Casts : env.left \in [DOMAIN c -> Nat] /\ env.left["fault"] + env.faults = c["fault"]
=============================================================================
