CONSTANTS
  CFG_MAX_FLASH_SECT = 512
  CfiChips <- MCCfiChips
  Contents = {0, 65535}
  Sockets <- MCSockets
  MaxScans = 2
  eccmode = "NONE"
SPECIFICATION Spec
INVARIANTS Recognised Described NandDescribed
CHECK_DEADLOCK FALSE
