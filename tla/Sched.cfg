CONSTANTS
  MAX_PID = 5
  QUANTUM = 1
SPECIFICATION SettlingSpec
INVARIANTS TypeOK RingIntact SlotForEveryTask
PROPERTIES ImplementsRunQueue EveryTaskGetsTurns
