SPECIFICATION MCSpec
CONSTANTS
  Depth = {1, 2, 3}
  Far = 4
  Id = {1, 2, 3, 4, 5, 6}
  FewHits = 4
  MaxHits = 6
  MaxNodes = 5
  MaxOperations = 2
INVARIANTS TypeOK NoVisibleHitLost OccludingHitIsNearest DepthIsRight SeenIsSetOperation
