SPECIFICATION Spec
CONSTANTS
  Calls <- MCCalls
  Routes <- MCRoutes
  MaxOutputs = 1
CHECK_DEADLOCK FALSE
INVARIANT UnaryInv
INVARIANT FailureHasCause
PROPERTY ImplementsCall
PROPERTY CallEnds
