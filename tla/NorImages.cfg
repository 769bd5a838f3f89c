CONSTANTS
  Start <- MCStart
  Size = 16
  BufBytes = 4
  Offsets <- MCOffsets
  Sizes <- MCSizes
  MaxImages = 2
SPECIFICATION Spec
PROPERTIES EveryImageWritten
CHECK_DEADLOCK FALSE
