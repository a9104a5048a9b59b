SPECIFICATION Spec
CONSTANTS
  r1 = r1
  r2 = r2
  anna = anna
  bob = bob
  acme = acme
  globex = globex
  Runs = {r1}
  Leads = {anna}
  NSteps = 4
  Conditional = {2, 3, 4}
  SkipTo <- Jumps
  Company <- TwoCompanies
  DailyLimit = 2
  Threshold = 3
  Overlap = FALSE
  Events = {"optout", "lift", "bounce", "stop", "postpone", "pause"}
  MaxFaults = 0
  MaxHangs = 1
  MaxRefusals = 1
PROPERTIES ImplementsSequenceDelivery
