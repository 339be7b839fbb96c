SPECIFICATION FairSpec
CONSTANTS
  Ids <- MCIds
  MaxRecords = 2
  AppendMayFail = TRUE
  MaxLog = 2
  MaxEntries = 1
  MaxAttempts = 2
  AmendInPlace = FALSE
  AmendConfirmed = TRUE
  MaxOrders = 2
  MaxWire = 1
INVARIANTS
  AckedSubmitIsReal
  AckedCancelIsDead
  MapIsBacked
PROPERTIES
  CallReturns
