CONSTANTS
  MAX_PID = 4
  MAX_FD = 2
  SERIAL_PORTS = 1
  MAX_PROC_CPUID_DEVS = 1
  SERIAL_BUFFER_LENGTH = 2
  STREAM_LENGTH = 2
  SIZES = {0, 1}
  REOPEN = FALSE
SPECIFICATION FairSpec
INVARIANTS RefcountsCount NothingOutlivesItsTask NobodySleepsOverData
PROPERTY SerialReadsEnd
CHECK_DEADLOCK FALSE
