SPECIFICATION Spec
CONSTANTS
  home = home
  sample = sample
  Projects <- MCProjects
  Launched = home
  Demo = sample
  Slow = {"mcp"}
  Tasks = 2
  Presses = 4
INVARIANT TypeOK
INVARIANT LastProjectStays
 
CHECK_DEADLOCK FALSE
