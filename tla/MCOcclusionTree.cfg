SPECIFICATION Spec
CONSTANTS
  Depth = {1, 2}
  Far = 3
  m1 = m1
  m2 = m2
  m3 = m3
  Id <- MCId
  Sample <- MCSample
  Regions <- MCRegions
  Rects <- MCRects
  Extents <- MCExtents
  Shapes <- MCShapes
SYMMETRY MCSymmetry
INVARIANTS HiddenIsCulled LeafInItsPlace NoSubpixelSkipped
PROPERTY IsSamplePoint
