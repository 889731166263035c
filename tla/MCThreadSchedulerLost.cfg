SPECIFICATION Spec
CONSTANTS
  NumUnits = 3
  MaxThreads = 2
  SpuriousWakeups = FALSE
PROPERTY AllUnitsJoined
CHECK_DEADLOCK FALSE
