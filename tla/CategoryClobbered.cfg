SPECIFICATION MCSpec
CONSTANTS
  a = a
  b = b
  Exp = {a}
  Msg = {1}
  Req = {1}
  Category <- MCCategory
  NonPnl <- MCNonPnl
  Misc = "Misc"
  NoCat = NoCat
  NoExp = NoExp
  Keyword <- MCNone
  Answers <- MCListed
  Ops = {"book","override"}
  Faults = {}
  MaxFaults = 0
INVARIANTS
  OverrideStands
