-------------------------- MODULE SequenceDelivery --------------------------
(***************************************************************************)
(* What a campaign promises each of its leads: the steps of the sequence   *)
(* reach the mailbox in order, each at most once.  Steps may be skipped    *)
(* and a sequence may stop anywhere.                                       *)
(***************************************************************************)
EXTENDS Naturals

CONSTANTS Leads, NSteps

VARIABLE mailed           \* mailed[l][k]: how often step k was mailed to l

Steps == 1..NSteps

Init == mailed = [l \in Leads |-> [k \in Steps |-> 0]]

\* Step k goes out when neither k nor a later step has.
Deliver(l, k) ==
  /\ \A j \in Steps : j >= k => mailed[l][j] = 0
  /\ mailed' = [mailed EXCEPT ![l][k] = 1]

Next == \E l \in Leads, k \in Steps : Deliver(l, k)

Spec == Init /\ [][Next]_mailed
=============================================================================
