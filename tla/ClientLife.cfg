SPECIFICATION FairSpec
CONSTANTS
  Limit = 1
  Days = 1
  Writers = {w1}
  Scanners = {s1}
  Networkers = {n1}
  Monitors = {timer, api}
  Steady = {timer}
  Zones <- TwoZones
  GuideSteps = 1
  MaxCases = 3
  Attempts = 3
  TestAttempts = 2
  LastDay = 1
  Lookback = 1
  Back = 2
  Casts <- Meetings
INVARIANTS SpendBounded DeletedIsGone OptOutOutlivesClient OpenCaseIsMarked
           CopiesExplained CountedDayIsExact
PROPERTIES RetentionSettles DriftSettles
CHECK_DEADLOCK FALSE
