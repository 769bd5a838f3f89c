CONSTANTS
  NBlocks = 3
  AddrBlocks = 6
  PPB = 2
  MaxImage = 4
SPECIFICATION Spec
INVARIANTS ImageComplete
CHECK_DEADLOCK FALSE
