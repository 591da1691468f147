SPECIFICATION MCSpec
CONSTANTS
  d1 = d1
  d2 = d2
  d3 = d3
  Doc = {d1}
  Exp = {1}
  Task = {1,2}
  Req = {1,2}
  SameBytes <- MCNone
  SameInvoice <- MCNone
  NonExpense <- MCNone
  Ops = {"upload"}
  WorkerSlots = 2
  MaxWorkerLoss = 0
  Faults = {}
  NoDoc = NoDoc
  NoExp = NoExp
INVARIANTS
  PendingHasMessage
