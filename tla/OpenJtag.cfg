CONSTANTS
  Capacity = 64
  DrBytes = 12
  MaxScans = 8
  MaxRuns = 2
  MaxFaults = 2
SPECIFICATION Spec
INVARIANTS TypeOK NeverLost BufferBounded PreloadedFirst
PROPERTIES ScansInOrder ReadsAnswerScanBefore NorDoneMeansDriven ReadsReturn
CHECK_DEADLOCK FALSE
