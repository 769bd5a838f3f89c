SPECIFICATION Spec
CONSTANTS
  RADIX = 2
  Board <- CsBoard
  Units <- CsUnits
  Settings <- CsSettings
  Sessions <- MCSessions
  Follows <- MCFollows
  Geometries <- MCGeometries
  Pages <- MCPages
  MaxCalls <- MCMaxCalls
  MaxSessions = 1
INVARIANT AtRest
CHECK_DEADLOCK FALSE
