SPECIFICATION FairSpec
CONSTANTS
  MaxPackets = 2
  MaxCalls = 2
INVARIANTS
  TypeOK
  NoLostPacket
  ClosedIsCleanedUp
PROPERTIES
  PacketsTaken
  ClosedFreed
CHECK_DEADLOCK FALSE
