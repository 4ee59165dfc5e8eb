SPECIFICATION Spec
CONSTANTS
  Launches = 2
  Blocks = 1
INVARIANT NoStaleCompletion
CHECK_DEADLOCK FALSE
