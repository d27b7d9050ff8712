SPECIFICATION Spec
CONSTANTS
  r1 = r1
  r2 = r2
  Requests <- MCRequests
  Baskets <- MCBaskets
  Amounts <- MCAmounts
  Horizon = 3
  MaxEvents = 4
CHECK_DEADLOCK FALSE
INVARIANT TypeOK PassedDateAlerts LineRefundsAddUp RestockedAtCost StatusFollowsRefunds
PROPERTY InvoiceIsFollowedUp
