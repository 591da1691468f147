SPECIFICATION MCSpec
CONSTANTS
  Exp = {"line","twin","card","bill","food","pay"}
  NoExp = "none"
  Itemized = {"jan"}
  Franchise = {"line","twin","bill"}
  Atomic = {"bill"}
  Outlier = {"twin"}
  MinSamples = 2
  DayOf <- MCDayOf
  SaleDay = {"mon"}
  Run = {r1}
  Kind <- MCKind
  DocOf <- MCDocOf
  Vendor <- MCVendor
  Amount <- MCAmount
  Uncategorized = {"line"}
  Taxed = {"bill"}
  PushTotal = 4
  Ops = {"book","delete","resolve"}
  Faults = {"api","error","db","worker"}
  MaxEvents = 3
INVARIANTS
  FlagsWereTrue
  NothingMissed
  RaisedIsStored
  RunningIsExecuted
PROPERTIES
  RunEnds
