SPECIFICATION Spec
CONSTANTS
  p1 = p1
  p2 = p2
  Projects <- MCTwo
  Rows = 2
  Name <- MCNames
  MaxRuns = 2
  Posts = 1
INVARIANT ParkedIsReachable

