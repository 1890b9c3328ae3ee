SPECIFICATION FairSpec
CONSTANTS
  w1 = w1
  Writes <- MCWrites
  Delays = 1
  MaxMoves = 2
  MaxBreaks = 1
INVARIANT TypeOK
INVARIANT BurstIsServed
INVARIANT ChangeIsUnderWay
PROPERTY ReadsMoveForward
PROPERTY ChangesReachTheClient
PROPERTY RefreshEnds

CHECK_DEADLOCK FALSE
