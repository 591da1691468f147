SPECIFICATION MCSpec
CONSTANTS
  Row <- MCRow
  Doc <- MCDoc
  Month = {1, 2}
  Calc = {c1}
  DocOf <- MCDocOf
  Form <- MCForm
  Words <- MCWords
  Listed <- MCListed
  PreAuth = {"weekpaid"}
  Category <- MCCategory
  Amount <- MCAmount
  Tax <- MCTax
  MonthOf <- MCMonthOf
  StaffCash = {"cash"}
  InterestPaid = {"loan"}
  PushTotal <- MCPushTotal
  Rent = 4
  Revenue <- MCRevenue
  AccountOf <- MCAccountOf
  Charges <- MCCharges
  Happens = {"books", "switch", "error", "worker"}
  MaxEvents = 2
INVARIANTS
  CountedOnce
  
  BreakdownTies
  SnapshotOnce
PROPERTIES
  OneSource
