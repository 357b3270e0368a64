SPECIFICATION Spec
CONSTANTS
  None = None
  Undefined = Undefined
  Pending = Pending
  Calls = {a1, a2}
  Devices = {d1, d2}
  Handlers = {h1, h2}
  Ring = 1
INVARIANTS
  AcceptConnects
CHECK_DEADLOCK FALSE
