SPECIFICATION ReviewsSpec
CONSTANTS
  Handler = {p1, p2}
  Location = {l1, l2}
  FirstLocation = l1
  Home = l2
  Config = {c1, c2}
  FirstConfig = c1
  Review = {r1}
  MaxOccurred = 1
INVARIANTS
  RowsFollowConfig
  PinStays
PROPERTY
  ReviewsArrive
