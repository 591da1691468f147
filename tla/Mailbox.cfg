SPECIFICATION MCSpec
CONSTANTS
  Job = {j1, j2}
  Worker = {w1, w2}
  Message = {1, 2}
  File = {"invoice", "bill", "cv"}
  Attached <- MCAttached
  Ignored = {"cv"}
  Finds = {{1}, {1, 2}}
  ScanLimit = 2
  MaxEvents = 1
INVARIANTS
  CursorCovers
  RowHasDocuments
  FileBookedOnce
PROPERTIES
  MailArrives
