SPECIFICATION MCFairSpec
ACTION_CONSTRAINTS
  InOrder
  OneExpense
  FewAtOnce
CONSTANTS
  a = a
  b = b
  Exp = {a,b}
  Msg = {1,2}
  Req = {1,2}
  Category <- MCCategory
  NonPnl <- MCNonPnl
  Misc = "Misc"
  NoCat = NoCat
  NoExp = NoExp
  Keyword <- MCKeyword
  Answers <- MCListed
  Ops = {"book","bank","override","recategorize","remove"}
  Faults = {"ai","worker","request","statement"}
  MaxFaults = 1
INVARIANTS
  SuggestionApplied
PROPERTIES
  LaterRunsKeepOverride
  MessageCategorizes
