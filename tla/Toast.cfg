SPECIFICATION MCFairSpec
ACTION_CONSTRAINTS
  InOrder
  FewAtOnce
CONSTANTS
  Order = {o1}
  Job = {1,2}
  Msg = {1,2,3}
  Req = {r1}
  Disp = {d1}
  NoJob = NoJob
  WorkerSlots = 2
  From = 0
  Today = 1
  MaxNow = 3
  Window = 1
  Chunk = 1
  Day = 1
  Imported = {TRUE,FALSE}
  Ops = {"dispatch","connect","manual","disconnect","age"}
  Faults = {"api","crash","db","broker","order"}
  MaxFaults = 1
INVARIANTS
  CursorCovers
PROPERTIES
  ChangesArrive
  ImportEnds
