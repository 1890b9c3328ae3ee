SPECIFICATION FairSpec
CONSTANTS
  Steps = 3
  Gated = {2}
  Loops <- MCLoops
INVARIANT TypeOK
INVARIANT RowsAreOnDisk
INVARIANT FormIsForTheStepOnScreen
INVARIANT SummaryIsTheVerdicts
INVARIANT NobodySkipsTheHuman
PROPERTY OneCaseAtATime
PROPERTY DecidedStaysDecided
PROPERTY ImplementsSessionLife
PROPERTY WorkerComesBack

CHECK_DEADLOCK FALSE
