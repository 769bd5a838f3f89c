CONSTANTS
  Lengths <- MCLengths
  MaxRun = 2
  Cells <- MCCells
SPECIFICATION Spec
INVARIANTS MovesArrive FrameLatched CellsRead ReplyCounted
