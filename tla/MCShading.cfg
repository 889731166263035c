SPECIFICATION ShadingSpec
CONSTANTS
  Points = {p1, p2, p3}
  Lights = 2
  Height <- MCHeight
  UintLimit = 4
  Sources <- MCSources
  Programs <- MCPrograms
INVARIANTS TypeOK Lockstep MasksNest WithinStack
PROPERTY EachPointAlone
CHECK_DEADLOCK FALSE
