SPECIFICATION QueueSpec
CONSTANTS
  N = 4
  Items = {a, b, c}
INVARIANTS QueueTypeOK NoTornItem
PROPERTY ImplementsQueue
