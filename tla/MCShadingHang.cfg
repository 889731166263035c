SPECIFICATION ShadingSpec
CONSTANTS
  Points = {p1, p2}
  Lights = 2
  Height <- MCHeight
  UintLimit = 4
  Sources <- HangSources
  Programs <- HangPrograms
PROPERTY FallsOut
CHECK_DEADLOCK FALSE
