SPECIFICATION Spec
CONSTANTS
  Ids <- MCIds
  MaxRecords = 3
  AppendMayFail = FALSE
  MaxLog = 4
  MaxEntries = 1
  MaxAttempts = 2
  AmendInPlace = TRUE
  AmendConfirmed = FALSE
  MaxOrders = 1
  MaxWire = 1
INVARIANTS
  TypeOK
  WriteAhead
  JournalDurable
  CancelReplaceExclusive
  MapIsBacked
PROPERTY
  ImplementsContract
