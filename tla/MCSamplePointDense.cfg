SPECIFICATION MCSpec
CONSTANTS
  Depth = {1, 2, 3}
  Far = 4
  Id = {1, 2, 3, 4}
  FewHits = 4
  MaxHits = 4
  MaxNodes = 0
  MaxOperations = 2
INVARIANT NearestTwoStored
