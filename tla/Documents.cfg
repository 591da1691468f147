SPECIFICATION MCFairSpec
ACTION_CONSTRAINTS
  InOrder
  OneThing
CONSTANTS
  d1 = d1
  d2 = d2
  d3 = d3
  Doc = {d1, d2, d3}
  Exp = {1,2}
  Task = {1,2}
  Req = {1,2}
  SameBytes <- MCSamePair
  SameInvoice <- MCSamePair
  NonExpense <- MCOne
  Ops = {"upload","manual","reprocess","delete","delete_all","edit"}
  WorkerSlots = 2
  MaxWorkerLoss = 1
  Faults = {"broker","api","ocr"}
  NoDoc = NoDoc
  NoExp = NoExp
INVARIANTS
  OneExpensePerDocument
  ExtractedIsBooked
  ProcessingHasDelivery
  InvoiceCountedOnce
PROPERTIES
  OverriddenRowKept
  BookedIsCategorized
