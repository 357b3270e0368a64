SPECIFICATION Spec
CONSTANTS
  c1 = c1
  c2 = c2
  Contacts = {c1, c2}
  Batches <- OneBatch
  Uploaded = {c1}
  Pools = {p1, p2}
  Dials = {g1, g2}
  Requests = {r1, r2}
  Concurrency = 1
  RetryMax = 1
  Outcomes = {"no-answer"}
  HasHours = FALSE
  MaxRequests = 2
  MaxCrashes = 1
  MaxFaults = 1
  None = None
INVARIANTS
  TypeOK
  OnePool
  OnePlace
  CallsBounded
  LossBounded
PROPERTIES
  NotRedialed
SYMMETRY Perms
CHECK_DEADLOCK FALSE
