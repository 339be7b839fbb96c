SPECIFICATION FairSpec
CONSTANTS
  NumVenues = 2
  Canonical = {1}
  SnapshotBudget = 1
  DriftBudget = 1
  GapBudget = 1
  Traders = {2}
  Window = 2
  Remembered = 3
  MaxTrades = 4
INVARIANTS FeesCountedOnce BoundedPatience
PROPERTY NoVenueStarves
