SPECIFICATION FairSpec
CONSTANTS
  r1 = r1
  r2 = r2
  anna = anna
  bob = bob
  acme = acme
  globex = globex
  Runs = {r1, r2}
  Leads = {anna}
  NSteps = 2
  Conditional = {}
  SkipTo <- NoSkip
  Company <- TwoCompanies
  DailyLimit = 2
  Threshold = 3
  Overlap = TRUE
  Events = {}
  MaxFaults = 1
  MaxHangs = 1
  MaxRefusals = 0
INVARIANTS ClaimExclusive NoStepLost
PROPERTIES StrandedIsReleased
