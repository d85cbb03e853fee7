SPECIFICATION FairSpec
CONSTANTS
  NHandlers = 2
  NSockets = 2
  EphemeralStart = 1
  LastPort = 2
  Remotes = {r1}
  MaxCalls = 4
  MaxSyns = 1
  Null = Null
INVARIANTS
  Inv
  LookupExact
  ConnectionsApart
PROPERTIES
  ExitFrees
  ServerStops
CHECK_DEADLOCK FALSE
