SPECIFICATION Spec
CONSTANTS
  NumBlocks = 3
  TransientReasons <- MCTransient
  PermanentReasons <- MCPermanent
  Outcomes <- MCOutcomes
CHECK_DEADLOCK FALSE
INVARIANT RetryInv
INVARIANT DispatchesBounded
INVARIANT RetriesInWindow
