CONSTANTS
  XRes = 3
  YRes = 3
  ShadowRes = 2
  BucketSize = 2
  Crops <- MCCrops
  CropUnit = 3
  AutoLights = {1, 2}
  Drivers = {"file", "scanlines", "shadow"}
  Scanline = {"scanlines"}
  FileDriver = "file"
  ShadowDriver = "shadow"
  Faults <- MCFaults
  MaxRefused = 1
  MaxSettings = 3
  MaxSurfaces = 2
  MaxWorldEnds = 2
SPECIFICATION Spec
INVARIANTS ScopesAgree EverySurfaceOnce ShadowsFirst DriversCalledInOrder EveryPixelInPlace
PROPERTIES FitsBuffer WorldEndReleases
CHECK_DEADLOCK FALSE
