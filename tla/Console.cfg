CONSTANTS
  Tasks = {t1, t2}
  init = t1
  MAX_CONSOLES = 3
  WORLDS <- Both
SPECIFICATION Spec
INVARIANTS ReadsAreFresh ModifiersFollowKeys RingIntact
PROPERTY ImplementsTerminals
CHECK_DEADLOCK FALSE
