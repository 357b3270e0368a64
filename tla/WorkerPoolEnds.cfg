SPECIFICATION FairSpec
CONSTANTS
  c1 = c1
  c2 = c2
  None = None
  Contacts = {c1, c2}
  Found <- FirstStart
  Dials = {d1, d2}
  Concurrency = 1
  RetryMax = 1
  Blocked = {c2}
  Outcomes = {"busy"}
  CtxAware = TRUE
  Window <- MiddleOfDay
  Day = 3
  ReportEvery = 2
  MaxFaults = 1
INVARIANTS
  AttemptBudget
  BlockedNotCalled
  AtMostOneLate
PROPERTIES
  StopEnds
  CampaignEnds
