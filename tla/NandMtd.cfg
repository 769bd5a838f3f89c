CONSTANTS
  NPages = 4
  PPB = 2
  COLS = 2
  d1 = d1
  Data <- MCData
  SparePages = {0, 3, 4}
  Erased = Erased
  Mixed = Mixed
SPECIFICATION Spec
INVARIANTS TypeOK CacheCoherent ReadFaithful SelectedOnlyInCalls
PROPERTIES ConfinedToRequest EraseReport WriteReport
CHECK_DEADLOCK FALSE
