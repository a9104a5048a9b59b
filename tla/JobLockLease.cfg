SPECIFICATION Spec
CONSTANTS
  launchd = launchd
  cron = cron
  api = api
  none = none
  l1 = l1
  c1 = c1
  a1 = a1
  NoOwner = none
  Procs = {launchd, cron, api}
  Runs = {l1, c1, a1}
  Host <- OneRunEach
  TTL = 2
  Outages = TRUE
INVARIANT LeaseBacksCoveredRun
PROPERTIES LiveLeaseIsKept ImplementsSingleRunner
