SPECIFICATION Spec
CONSTANTS
  Schedule <- MCSchedule
  N = 2
  Budget = 1
  DeathThreshold = 2
  MaxGen = 3
  MaxInterrupts = 1
CHECK_DEADLOCK FALSE
INVARIANT RecoveryInv
INVARIANT OneDispatcherRecovers
INVARIANT BlockFromOneDriver
INVARIANT StreakEarned
PROPERTY LostStaysLost
PROPERTY ImplementsLease
PROPERTY SweepEnds
