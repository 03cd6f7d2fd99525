CONSTANTS
  MAX_PID = 4
  FRAMES = 5
  HEAP = 1
  Values = {a, b}
  Careless = {}
SPECIFICATION Spec
INVARIANTS TypeOK MappedFramesAreUsed WritersAlone
PROPERTY ImplementsAddressSpaces
SYMMETRY ValueSymmetry
CHECK_DEADLOCK FALSE
