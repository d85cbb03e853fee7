SPECIFICATION Spec
CONSTANTS
  NHandlers = 2
  NSockets = 2
  EphemeralStart = 1
  LastPort = 2
  Remotes = {r1}
  MaxCalls = 4
  MaxSyns = 1
  Null = Null
INVARIANT FreePortHasNoListener
CHECK_DEADLOCK FALSE
