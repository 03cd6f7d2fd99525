CONSTANTS
  MAX_PID = 3
  QUANTUM = 1
  Queues = {hdd, pipe}
  Disk = hdd
  TIMES = {1}
SPECIFICATION ExitSpec
INVARIANT OnTheCircleToLeave
CHECK_DEADLOCK FALSE
