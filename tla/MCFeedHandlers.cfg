SPECIFICATION FairSpec
CONSTANTS
  Levels = {1, 2, 3, 4}
  Opening = {1, 3, 4}
  Touched <- MCTouched
  Removals = {}
  SubscribedDepth = 3
  ChecksumDepth = 2
  BufCap = 1
  Kinds = {"BINANCE", "KRAKEN", "OKX", "COINBASE", "MARK"}
  MaxSockets = 3
  MaxFaults = 1
  MaxStarts = 2
INVARIANTS BookIsGenuine SequenceMatchesBook ChecksumBookIsTraded BestLevelsAreReal
PROPERTY Resyncs
CHECK_DEADLOCK FALSE
