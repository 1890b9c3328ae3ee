SPECIFICATION Spec
CONSTANTS
  Steps = 3
  Gated = {2}
  Loops <- MCLoops
INVARIANT GateAsksHuman

CHECK_DEADLOCK FALSE
