SPECIFICATION Spec
CONSTANTS
  UpdateInterval = 2
  ForceInterval = 4
  MaxAge = 5
  Bias = 1
  CalibGain = 1
  BaseGain = 1000
  Gains = {1, 1000}
  MaxBrightness = 1
  MaxWhite = 14
  Readings = {0, 2, 3, 6, 11}
  NumWiseLight = 1
INVARIANTS TypeOK FreshWhenLit NothingBeforeCapture Throttled 
