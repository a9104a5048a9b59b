SPECIFICATION Spec
CONSTANTS
  r1 = r1
  r2 = r2
  anna = anna
  bob = bob
  acme = acme
  globex = globex
  Runs = {r1}
  Leads = {anna, bob}
  NSteps = 2
  Conditional = {}
  SkipTo <- NoSkip
  Company <- TwoCompanies
  DailyLimit = 1
  Threshold = 3
  Overlap = FALSE
  Events = {"optout", "bounce"}
  MaxFaults = 1
  MaxHangs = 0
  MaxRefusals = 1
INVARIANTS DuplicatesNeedFaults DailyLimitHeld
PROPERTIES ClosedStaysClosed
