SPECIFICATION Spec
CONSTANTS
  Prices <- MCPrices
  Sizes = {0, 1}
  MaxLevels = 4
  MinLevels = 2
  RecenterStreak = 2
  Opening <- MCOpening
  MaxSeq = 5
INVARIANTS LevelsAreCurrent TouchIsReal
