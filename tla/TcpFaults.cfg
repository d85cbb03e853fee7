SPECIFICATION Spec
CONSTANTS
  Client = client
  Server = server
  ISS <- MCISS
  Data <- MCData20
  BufSize = 2
  MSS = 1
  MaxExpiries = 0
  MaxFaults = 2
  SpinCap = 3
INVARIANTS
  HandshakeAgreed
PROPERTIES
  StreamService
  Onward
CHECK_DEADLOCK FALSE
