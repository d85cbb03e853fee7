SPECIFICATION Spec
CONSTANTS
  Client = client
  Server = server
  ISS <- MCISS
  Data <- MCData30
  BufSize = 2
  MSS = 2
  MaxExpiries = 1
  MaxFaults = 0
  SpinCap = 3
INVARIANTS
  Inv
  AckedIsDelivered
  WindowIsBacked
  OutstandingIsQueued
  ClosedAfterFin
  FinIsLast
  EofState
CHECK_DEADLOCK FALSE
