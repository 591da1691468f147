SPECIFICATION LaborSpec
CONSTANTS
  Proc = {p1, p2}
  LastDay = 2
  LaborRow = {row}
  MaxEdits = 2
  Lookback = 1
  ChunkDays = 1
  MaxOccurred = 1
INVARIANTS
  RowsAreKnown
PROPERTIES
  LaborArrives
