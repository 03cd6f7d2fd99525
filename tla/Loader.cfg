CONSTANTS
  MAX_PID = 4
  QUANTUM = 0
  Queues = {q1, q2}
  TIMES = {0, 1, 2}
SPECIFICATION FairSpec
INVARIANTS TypeOK OnePlacePerTask OwnerRuns OnlyPidsRunOut
PROPERTIES ImplementsTaskStates SleepersWake IdleGivesWay
CHECK_DEADLOCK FALSE
