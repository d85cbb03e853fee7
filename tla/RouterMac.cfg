SPECIFICATION FairSpec
CONSTANTS
  h1 = h1
  h2 = h2
  h3 = h3
  Self = Self
  Hosts <- MCHosts
  Routes <- MCRoutes
  Packets = {p1, p2}
  Answerable = {p1, p2}
  CacheSize = 2
  Timeout = 1
  MaxSent = 2
  MaxRequests = 2
  MaxReplies = 2
CHECK_DEADLOCK FALSE
INVARIANT
  CacheTruthful
