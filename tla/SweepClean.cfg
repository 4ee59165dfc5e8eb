SPECIFICATION Spec
CONSTANTS
  grpc = grpc
  rest = rest
  tuned = tuned
  Order <- MCOrder
  Cohorts <- MCCohorts
  AnchorYields <- MCSomeYield
  SweepMode = "publish"
  TornWrites = FALSE
  BlockTicks = {60, 130}
  ProbeTicks = {2}
  AnchorTicks = {5}
  Params = {"run", "other"}
  MaxStarts = 4
  StartGuard = 1
  Epsilon = 50
  Cadence = 200
CHECK_DEADLOCK FALSE
INVARIANT SeedsPreserved
INVARIANT DisciplineKept
INVARIANT EndIsAnchored
PROPERTY ImplementsLedger
