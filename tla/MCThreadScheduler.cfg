SPECIFICATION Spec
CONSTANTS
  NumUnits = 4
  MaxThreads = 3
  SpuriousWakeups = FALSE
INVARIANTS TypeOK AtMostMaxThreads CountIsExact
PROPERTIES IsWorkPool RunsEachUnitOnce HangsOnlyAsleep
CHECK_DEADLOCK FALSE
