SPECIFICATION FairSpec
CONSTANTS
  Boxes = {b1}
  Loops <- Hourly
  FullTarget = 2
  MaintTarget = 1
  MaxHourly = 2
  Quota = 1
  ErrLimit = 1
  MaxPauses = 2
  Critical = 1
  Good = 2
  MaxScore = 2
  Casts <- Meetings
  MaxEvents = 3
  MaxFaults = 1
  MaxDay = 1
INVARIANTS TypeOK CounterKeepsUp ScoreOffNeedsFailure AtMostTwoLateMails
PROPERTIES SmtpPauseLasts SwitchedOffStaysOff SmtpPauseEnds
CHECK_DEADLOCK FALSE
