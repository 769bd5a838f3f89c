CONSTANTS
  Capacity = 64
  DrBytes = 12
  MaxScans = 8
  MaxRuns = 1
  MaxFaults = 4
SPECIFICATION Spec
INVARIANTS RoomForEveryByte
CHECK_DEADLOCK FALSE
