SPECIFICATION ChannelSpec
CONSTANTS
  NThreads = 3
  NFds = 2
  Nicks = {n1, n2}
  MaxMessages = 4
  Names = {a, b}
  NChannels = 5
  MaxCommands = 3
  Null = Null
SYMMETRY MCSymmetry
INVARIANTS
  Inv
  SharedOnlyByRace
  ChannelInv
  NameOnce
  MemberOnce
CHECK_DEADLOCK FALSE
