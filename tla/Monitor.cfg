SPECIFICATION Spec
CONSTANTS
  Launches = 3
  Blocks = 1
CHECK_DEADLOCK FALSE
INVARIANT MonitorInv
INVARIANT CompletionIsFresh
PROPERTY MonitorReturns
