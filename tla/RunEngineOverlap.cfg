SPECIFICATION Spec
CONSTANTS
  Plans <- MCOneCase
  MaxUnits = 1
  MaxRuns = 3
  MaxInputs = 1
INVARIANT OneWriter

CHECK_DEADLOCK FALSE
