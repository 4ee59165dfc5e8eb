SPECIFICATION Spec
CONSTANTS
  Schedule <- MCSchedule
  N = 2
  Budget = 2
  DeathThreshold = 2
  MaxGen = 3
  MaxInterrupts = 0
CHECK_DEADLOCK FALSE
INVARIANT RecoveredSweepSurvives
