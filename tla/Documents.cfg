SPECIFICATION Spec
CONSTANTS
  r1 = r1
  r2 = r2
  Requests <- MCRequests
  Types <- MCTypes
  Targets <- MCTargets
  Forms <- MCForms
  MaxId = 3
  MaxEvents = 5
SYMMETRY Symmetry
CHECK_DEADLOCK FALSE
INVARIANT TypeOK SaleNumbersSequential SoldOnce PrintedNumberStands HistoryStands OneCopy
