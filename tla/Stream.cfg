SPECIFICATION Spec
CONSTANTS
  Endpoints <- MCEndpoints
  Window = 2
  MaxText = 4
CHECK_DEADLOCK FALSE
INVARIANT StreamInv
INVARIANT OneTerminator
PROPERTY RequestEnds
PROPERTY ImplementsStream
