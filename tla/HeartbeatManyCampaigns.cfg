SPECIFICATION HbSpec
CONSTANTS
  launchd = launchd
  api = api
  none = none
  l1 = l1
  a1 = a1
  NoOwner = none
  Procs = {launchd, api}
  Runs = {l1, a1}
  Host <- OneRunEach
  TTL = 5
  Outages = FALSE
  Campaigns = 2
  DueLeads = 5
  RenewEvery = 5
  Share = 1
  MaxLead = 1
INVARIANT OneRunPerJob
