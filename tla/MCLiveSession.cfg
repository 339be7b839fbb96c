SPECIFICATION SessionSpec
CONSTANTS
  Ids = {1, 2}
  MaxRecords = 3
  AppendMayFail = FALSE
  MaxLog = 4
  MaxEntries = 2
  MaxAttempts = 2
  AmendInPlace = FALSE
  AmendConfirmed = TRUE
  MaxOrders = 2
  MaxWire = 1
INVARIANT
  SubmittedOrderIsPlaced
