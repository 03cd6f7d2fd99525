SPECIFICATION FairSpec
CONSTANTS
  Tasks = {t1, t2}
  init = t1
  Image <- LongImage
  Paths <- SomePaths
  SECTOR = 2
  BLOCK = 2
  PAGE = 4
  DIRECT = 2
  MAX_EXT2_FILES = 2
  MAX_OPEN = 1
  SIZES = {8}
  POSITIONS = {9}
  CARELESS = FALSE
INVARIANTS ReadsReturnTheFile WaitersHaveTheirCommand PositionInFile
CHECK_DEADLOCK FALSE
PROPERTY CallsEnd
