SPECIFICATION Spec
CONSTANTS
  Kinds <- AllKinds
  Restarts = 1
  MaxFailures = 1
  StrayAlive = FALSE
  SameToken = TRUE
INVARIANT HandshakeInv
INVARIANT OwnEndpoints
INVARIANT NoStaleStop
INVARIANT CleanExit
PROPERTY HandshakeEnds
CHECK_DEADLOCK FALSE
