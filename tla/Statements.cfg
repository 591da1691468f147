SPECIFICATION MCSpec
CONSTANTS
  a = a
  b = b
  Doc = {a,b}
  Run = {r1,r2}
  Req = {q1}
  Csv = {a}
  Line = {"car","shop","trsf","rent"}
  Charge <- MCCharge
  LinesOf <- MCLinesOf
  NoExpense = {"car","trsf","rent"}
  Rent = {"rent"}
  Vehicle = {"car"}
  Unknown = {"shop"}
  Inflow = {"uber","loan"}
  Day <- MCDay
  InflowsOf <- MCInflowsOf
  Platform = {"uber"}
  MaxGap = 1
  Ops = {"reprocess","delete","override","sales"}
  Faults = {"ocr","deposits","broker","db","worker"}
  MaxEvents = 3
SYMMETRY Symmetry
INVARIANTS
  LineBookedOnce
  ExtractedIsComplete
  DepositCountedOnce
  DepositStays
PROPERTIES
  OverrideStays
