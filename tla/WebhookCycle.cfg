SPECIFICATION FairSpec
CONSTANTS
  worker = worker
  api = api
  replied = replied
  crm = crm
  chat = chat
  Workers = {worker}
  Events = {replied}
  Hooks = {crm, chat}
  MaxAttempts = 2
  MaxFaults = 1
  MaxLost = 1
  MaxSwitches = 1
INVARIANTS NothingForgotten AttemptsBounded DuplicatesNeedFaults
PROPERTIES EventsAreDispatched RetriesEnd
