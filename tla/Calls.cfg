SPECIFICATION Spec
CONSTANTS
  Calls = {c1}
  Providers <- AllProviders
  MaxAgain = 1
  MaxFaults = 1
  None = None
INVARIANTS
  TypeOK
  Settled
  OnceEach
CHECK_DEADLOCK FALSE
