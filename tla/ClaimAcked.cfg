SPECIFICATION Spec
CONSTANTS
  grpc = grpc
  rest = rest
  tuned = tuned
  Order <- MCShortOrder
  Cohorts <- MCCohorts
  AnchorYields <- MCSomeYield
  SweepMode = "publish"
  TornWrites = TRUE
  BlockTicks = {60}
  ProbeTicks = {2}
  AnchorTicks = {5}
  Params = {"run"}
  MaxStarts = 3
  StartGuard = 1
  Epsilon = 50
  Cadence = 4000
CHECK_DEADLOCK FALSE
INVARIANT AckedSurvives
