SPECIFICATION Spec
CONSTANTS
  Venues = {A, B}
  MaxPosition = 1
  Thresholds = {0, 2}
  Persistence = 2
  Depths = {1, 2}
  MaxExposure = 3
  A = A
  B = B
INVARIANT OvershootIsWhatWasWorking
PROPERTY ShockOnlyReduces
