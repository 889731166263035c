SPECIFICATION Spec
CONSTANTS
  NumUnits = 4
  MaxThreads = 2
  SpuriousWakeups = FALSE
INVARIANT AtMostMaxThreads
CHECK_DEADLOCK FALSE
