SPECIFICATION Spec
CONSTANTS
  Programs <- AllPrograms
  Restarts = 1
  Orphans = {TRUE, FALSE}
INVARIANT ServeInv
INVARIANT MeasuresOwn
INVARIANT NoEarlyStop
INVARIANT NothingLeft
PROPERTY ServeEnds
CHECK_DEADLOCK FALSE
