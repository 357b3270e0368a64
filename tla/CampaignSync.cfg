SPECIFICATION Spec
CONSTANTS
  Contacts = {c1, c2}
  Ids = {i1, i2}
  Requests = {r1}
  RetryMax = 1
  Concurrency = 2
  Headers = {"phone", "tel"}
  Cells = {"e164", "fictional", "formatted"}
  MaxLost = 1
  None = None
INVARIANTS
  TypeOK
  RowCounts
  NotCompletedEarly
SYMMETRY Perms
