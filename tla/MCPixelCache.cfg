SPECIFICATION Spec
CONSTANTS
  XBucketSize = 3
  YBucketSize = 2
  ShiftX = 1
  ShiftY = 1
  Sessions <- MCSessions
INVARIANTS TypeOK FilterInputsReady ImageIsPrivate WholeImageSampled SlotIsFree
PROPERTIES SampledByOneBucket
CHECK_DEADLOCK FALSE
