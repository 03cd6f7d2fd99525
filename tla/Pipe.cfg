CONSTANTS
  Tasks = {t1, t2}
  Frames = {f1}
  Bytes = {a, b}
  MAX_ENDPOINTS = 2
  BUFFER_SIZE = 2
  SIZES = {1, 3}
  REUSE = FALSE
SPECIFICATION Spec
PROPERTY ImplementsChannels
CHECK_DEADLOCK FALSE
