SPECIFICATION Spec
CONSTANTS
  w1 = w1
  Writes <- MCWrites
  Delays = 1
  MaxMoves = 2
  MaxBreaks = 1
INVARIANT ScreenCatchesUp
CHECK_DEADLOCK FALSE
