SPECIFICATION Spec
CONSTANTS
  None = None
  Users = {u1, u2}
  Digits = {n1, n2}
  Sids = {s1, s2, s3}
  Requests = {r1, r2}
  MaxNumbers = 1
  MaxFaults = 2
INVARIANTS
  TypeOK
  InventoryAgrees
  RoutedToOwner
SYMMETRY Perms
CHECK_DEADLOCK FALSE
