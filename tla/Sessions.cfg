SPECIFICATION FairSpec
CONSTANTS
  None = None
  t1 = t1
  Tabs = {t1}
  Requests = {r1, r2}
  TabOf <- OneTab
  Tokens = {k1, k2, k3}
  MaxExpiries = 1
INVARIANTS
  TypeOK
  QueueServed
  SessionSurvives
  NoRefusal
PROPERTIES
  RequestsSettle
