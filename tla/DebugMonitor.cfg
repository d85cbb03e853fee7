SPECIFICATION FairSpec
CONSTANTS
  Threads = {t1, t2, t3}
  NSockets = 2
  Monitors = {m1, m2}
  MaxCalls = 6
  Null = Null
INVARIANTS
  Inv
  BreakpointIsSafe
  NoDanglingMonitor
PROPERTIES
  BreakpointReturns
  DyingIsDestroyed
CHECK_DEADLOCK FALSE
