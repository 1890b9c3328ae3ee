SPECIFICATION FairPatientSpec
CONSTANTS
  Plans <- MCPlans
  MaxUnits = 2
  MaxRuns = 2
  MaxInputs = 3
INVARIANT TypeOK
INVARIANT SettledMeansActedOn
INVARIANT VerdictAnswersItsStep
INVARIANT CountsAreTheSessions
INVARIANT TerminalTellsTheTruth
INVARIANT NothingRestsUnannounced
INVARIANT NoInputIsStranded
INVARIANT ViewsAreOfThePast
PROPERTY ImplementsPlanRun
PROPERTY SessionsFollowLife
PROPERTY WalkGoesForward
PROPERTY InputsAcknowledged
PROPERTY CancelEndsPlan

CHECK_DEADLOCK FALSE
