SPECIFICATION FairSpec
CONSTANTS
  Venues = {"A", "B"}
  Primary = "A"
  Notionals = {1}
  Cap <- MCCap
  MaxPerSec = 1
  MaxPerMin = 4
  Second = 2
  Minute = 6
  HeartbeatTimeout = 1
  MaxChildren = 2
  MaxNow = 4
  MaxSent = 4
  MaxCounted = 5
INVARIANTS SentWithinCaps KillCancelsLast RatePerSpan
PROPERTIES NoOrderAfterKill KillStopsEngine
CHECK_DEADLOCK FALSE
