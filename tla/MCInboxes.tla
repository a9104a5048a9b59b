---------------------------- MODULE MCInboxes ----------------------------
(* Instances of Inboxes for TLC. A cast is what meets in one behaviour; all *)
(* programs and disturbances at once are far beyond TLC.                   *)
EXTENDS Inboxes

Hourly == {"loop1", "loop2"}

Meetings == {
  {"engine", "reset", "midnight", "hour", "norecipient", "notext"},
  {"engine", "received", "rescued", "bounce", "complaint"},
  {"engine", "smtp", "loop1"},
  {"loop1", "neterror", "hour", "pause", "resume", "weeks"},
  {"loop1", "check", "rate", "pause", "resume", "patch", "weeks"},
  {"loop1", "loop2", "neterror", "hour"},
  {"loop1", "loop2", "check", "patch"},
  {"engine", "campaign", "pause", "resume", "delete", "create", "hour"},
  {"engine", "campaign", "patch", "rate"},
  {"loop1", "bounce", "campaign", "patch"} }
=============================================================================
