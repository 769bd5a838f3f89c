SPECIFICATION Spec
CONSTANTS
  RADIX = 2
  Board <- MCBoard
  Units <- MCUnits
  Settings <- MCSettings
  Sessions <- MCSessions
  Follows <- MCFollows
  Geometries <- MCGeometries
  Pages <- MCPages
  MaxCalls <- MCMaxCalls
  MaxSessions = 2
INVARIANTS OneDriver AtRest
PROPERTIES StorageSpec OpsReturn
CHECK_DEADLOCK FALSE
