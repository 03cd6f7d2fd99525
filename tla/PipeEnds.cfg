CONSTANTS
  Tasks = {t1, t2, t3}
  Frames = {f1}
  Bytes = {a}
  MAX_ENDPOINTS = 2
  BUFFER_SIZE = 1
  SIZES = {1, 2}
  REUSE = FALSE
SPECIFICATION SettlingSpec
INVARIANTS NobodyWaitsForNothing BufferLivesWithPipe
PROPERTY CallsEndWithThePipe
CHECK_DEADLOCK FALSE
