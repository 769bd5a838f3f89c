CONSTANTS
  Start <- MCStart
  Size = 16
  BufBytes = 4
  Offsets <- MCOffsets
  Sizes <- MCSizes
  MaxImages = 2
SPECIFICATION Spec
INVARIANTS TypeOK NothingMixed WrittenMeansThere
PROPERTIES OtherSectorsKept ProtectedRefused InsideBuffer BurnEnds
CHECK_DEADLOCK FALSE
