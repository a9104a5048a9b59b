--------------------------- MODULE MCCampaignSend ---------------------------
(* Instances of CampaignSend for TLC: one or two runs, one or two leads, a *)
(* sequence of two, three or four steps.                                   *)
EXTENDS CampaignSend, TLC

CONSTANTS r1, r2, anna, bob, acme, globex

TwoCompanies == (anna :> acme) @@ (bob :> globex)
NoSkip == [k \in 1..NSteps |-> 0]
\* Of four steps the second jumps to the third when its condition fails, the
\* third past the end, and the fourth ends the sequence.
Jumps == [k \in 1..NSteps |-> CASE k = 2 -> 3 [] k = 3 -> 5 [] OTHER -> 0]
=============================================================================
