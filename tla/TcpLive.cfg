SPECIFICATION FairSpec
CONSTANTS
  Client = client
  Server = server
  ISS <- MCISS
  Data <- MCData21
  BufSize = 3
  MSS = 2
  MaxExpiries = 0
  MaxFaults = 0
  SpinCap = 3
PROPERTIES
  Terminates
CHECK_DEADLOCK FALSE
