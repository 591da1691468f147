SPECIFICATION Spec
CONSTANTS
  Proc = {p1, p2}
  Platform = {google}
  Google = google
  LastDay = 2
  FirstDays = 1
  ChunkDays = 1
  Presets = {0, 1, 2}
  Rec = {r1, r2}
  MaxEvents = 1
INVARIANTS
  PastIsFull
  ChangeIsRecorded
  CalledOnce
PROPERTY
  MetricsArrive
