SPECIFICATION FairSpec
CONSTANTS
  Msgs = {m1, m2}
  NoId = {m2}
  Dsns = {d1}
  NSteps = 2
  MaxScore = 3
  Casts <- OneJunk
  Points <- MCPoints
  Decay = 1
  MaxAge = 2
  Decayers = {cron, api}
  WarmAfter = 1
  HotAfter = 2
  Nurses = {cron, api}
  Strikes = 3
  Handlers = {cron}
  MaxAttempts = 2
  Workers = {cron, api}
  Scheduled = {cron}
PROPERTY InboxReplyIsStored
CHECK_DEADLOCK FALSE
