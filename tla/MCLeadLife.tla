----------------------------- MODULE MCLeadLife -----------------------------
(* Instances of LeadLife for TLC. A cast is what meets in one behaviour.    *)
EXTENDS LeadLife

MCPoints == [e \in {"opened", "clicked", "replied", "interested"} |-> IF e = "clicked" THEN 2 ELSE 1]

Meetings == {
  [score |-> 0, opened |-> 1, clicked |-> 1, fault |-> 1],
  [score |-> 0, scan |-> 0, reply |-> 1, fault |-> 0],
  [send |-> 0, nurture |-> 0, move |-> 1, opened |-> 1, fault |-> 1],
  [send |-> 0, nurture |-> 0, scan |-> 0, reply |-> 1, rule |-> 1, fault |-> 1],
  [scan |-> 0, reply |-> 2, unread |-> 1, fault |-> 1],
  [scan |-> 0, reply |-> 1, junk |-> 1, gmail |-> 1, unread |-> 1, fault |-> 0],
  [scan |-> 0, reply |-> 1, purge |-> 1, unread |-> 1, fault |-> 0],
  [scan |-> 0, reply |-> 1, route |-> 1, rule |-> 1, fault |-> 1],
  [send |-> 0, scan |-> 0, reply |-> 1, link |-> 1, fault |-> 0],
  [send |-> 0, bounce |-> 0, dsn |-> 1, suppress |-> 1, fault |-> 2],
  [send |-> 0, bounce |-> 0, dsn |-> 1, purge |-> 1, fault |-> 0],
  [send |-> 0, link |-> 1, purge |-> 1, add |-> 1, lift |-> 1, fault |-> 1],
  [enrich |-> 2, fault |-> 2],
  [enrich |-> 2, purge |-> 1, fault |-> 1] }

\* A reply in the spam folder, and nothing else.
OneJunk == {[scan |-> 0, junk |-> 1, fault |-> 0]}

\* One soft bounce, and nothing else.
OneDsn == {[bounce |-> 0, dsn |-> 1, fault |-> 0]}
=============================================================================
