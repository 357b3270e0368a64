SPECIFICATION Spec
CONSTANTS
  c1 = c1
  c2 = c2
  None = None
  Contacts = {c1, c2}
  Found <- FirstStart
  Dials = {d1, d2}
  Concurrency = 2
  RetryMax = 1
  Blocked = {}
  Outcomes = {"answered", "no-answer"}
  CtxAware = TRUE
  Window <- NoWindow
  Day = 1
  ReportEvery = 2
  MaxFaults = 0
PROPERTIES
  StoppedIsFinal
