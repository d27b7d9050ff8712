SPECIFICATION Spec
CONSTANTS
  milk = milk
  r1 = r1
  n1 = n1
  i1 = i1
  i2 = i2
  c1 = c1
  Product = {milk}
  Location <- TwoLocations
  Receipt = {r1}
  Note = {n1}
  Item = {i1, i2}
  CounterRow = {c1}
  NoteOf <- TwoRowsOneNote
  ProductOf <- OneProduct
  Quantity = {1, 2}
  MaxReceived = 3
INVARIANT SaleKeepsItsIssue
CHECK_DEADLOCK FALSE
