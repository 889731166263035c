SPECIFICATION Spec
CONSTANTS
  XBucketSize = 3
  YBucketSize = 2
  ShiftX = 1
  ShiftY = 1
  Sessions <- MCCroppedSessions
INVARIANT SlotIsFree
CHECK_DEADLOCK FALSE
