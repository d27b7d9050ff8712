SPECIFICATION Spec
CONSTANTS
  s1 = s1
  s2 = s2
  h1 = h1
  h2 = h2
  x1 = x1
  x2 = x2
  f1 = f1
  f2 = f2
  g1 = g1
  NoShift = NoShift
  Seller = {s1, s2}
  Register = {g1}
  Shift = {h1, h2}
  Sale = {x1}
  Refund = {f1}
  Date = {1, 2}
  Price = {1}
  Amount = {1}
  ShiftRequired = TRUE
  StartingCash = {0}
  MaxClosings = 2
  MaxDrawer = 1
SYMMETRY Symmetry
INVARIANTS
  OneOpenShift
  DayClosedAfterItsShifts
PROPERTY BookKept
CHECK_DEADLOCK FALSE
