SPECIFICATION Spec
CONSTANTS
  Msgs = {m1, m2, m3}
  Sids = {k1, k2, k3}
  Senders = {s1, s2}
  Hooks = {h1, h2}
  Runs = {j1, j2}
  Quota = 1
  Receipts = {"queued", "sent"}
  MaxFaults = 1
  None = None
INVARIANTS
  TypeOK
  SentOnce
  QuotaOvershoot
  Recorded
PROPERTY DeletedNotSent
SYMMETRY Perms
CHECK_DEADLOCK FALSE
