SPECIFICATION HbFairSpec
CONSTANTS
  launchd = launchd
  api = api
  none = none
  l1 = l1
  a1 = a1
  NoOwner = none
  Procs = {launchd, api}
  Runs = {l1, a1}
  Host <- OneRunEach
  TTL = 10
  Outages = FALSE
  Campaigns = 1
  DueLeads = 7
  RenewEvery = 5
  Share = 2
  MaxLead = 11
INVARIANT OverlapNeedsSlowLead
PROPERTY JobKeepsRunning
