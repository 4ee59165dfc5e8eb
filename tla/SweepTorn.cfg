SPECIFICATION Spec
CONSTANTS
  grpc = grpc
  rest = rest
  tuned = tuned
  Order <- MCOrder
  Cohorts <- MCCohorts
  AnchorYields <- MCMayFail
  SweepMode = "publish"
  TornWrites = TRUE
  BlockTicks = {60}
  ProbeTicks = {2}
  AnchorTicks = {5}
  Params = {"run", "other"}
  MaxStarts = 4
  StartGuard = 1
  Epsilon = 50
  Cadence = 200
CHECK_DEADLOCK FALSE
INVARIANT MeasuredOnce
INVARIANT CompleteOnDone
INVARIANT NoMixedParams
INVARIANT LossBounded
