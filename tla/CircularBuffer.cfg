SPECIFICATION FairSpec
CONSTANTS
  Writer = {w1, w2}
  Reader = {r1}
  MaxSize = 3
  MaxLen = 4
  MaxBytes = 6
INVARIANTS
  Inv
  ReadersRemembered
PROPERTIES
  BoundedFifo
  WritersReturn
  ReadersReturn
