CONSTANTS
  NBlocks = 3
  AddrBlocks = 6
  PPB = 2
  MaxImage = 4
SPECIFICATION Spec
INVARIANTS TypeOK ImageAligned BelowTargetUntouched PlacedStays
PROPERTIES OnlyBlankProgrammed Terminates BurnSpec
CHECK_DEADLOCK FALSE
