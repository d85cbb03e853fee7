SPECIFICATION FairSpec
CONSTANTS
  MaxPackets = 2
  MaxCalls = 0
PROPERTIES
  EstablishedIsSeen
CHECK_DEADLOCK FALSE
