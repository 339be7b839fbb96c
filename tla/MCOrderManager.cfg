SPECIFICATION FairSpec
CONSTANTS
  Venues = {"A", "B"}
  MaxVenues = 1
  MaxSlots = 2
  QueueCap = 2
  Quantities = {2}
  InitialPosition = 7
  MaxId = 2
INVARIANTS PositionConserved PendingTracksOpenOrders SlotsTrackOrders
PROPERTY SlotsAreFreed
