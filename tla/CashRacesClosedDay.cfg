SPECIFICATION RacesSpec
CONSTANTS
  w1 = w1
  w2 = w2
  s1 = s1
  s2 = s2
  h1 = h1
  h2 = h2
  x1 = x1
  f1 = f1
  g1 = g1
  g2 = g2
  NoShift = NoShift
  Worker = {w1, w2}
  Seller = {s1, s2}
  Register = {g1}
  Shift = {}
  Sale = {x1}
  Refund = {f1}
  Date = {1, 2}
  Price = {1}
  Amount = {1}
  ShiftRequired = FALSE
  StartingCash = {0}
  MaxClosings = 1
  MaxDrawer = 1
  MaxRequests = 4
SYMMETRY Symmetry
INVARIANT ClosedDayMatchesSnapshot
CHECK_DEADLOCK FALSE
