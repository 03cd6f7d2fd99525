CONSTANTS
  PAGE_SIZE = 8
  BITS = 2
  HIMEM_BEGIN = 8
  MM_KERNEL_LIMIT = 136
  PDES = 5
  PTES = 2
  MAX_PID = 3
  HEAP = 2
  MMAPS <- Maps
SPECIFICATION Spec
INVARIANT FramesAccounted
PROPERTY ImplementsFlatTables
CHECK_DEADLOCK FALSE
