SPECIFICATION Spec
CONSTANTS
  Threads = {"A", "B"}
  Capacity = 2
  MaxRetries = 2
  MaxTicks = 3
  MaxSignals = 2
  MaxRestarts = 1
INVARIANTS NoTornSignal AnnouncedIsWritten
