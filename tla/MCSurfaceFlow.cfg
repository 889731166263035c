SPECIFICATION Spec
CONSTANTS
  f1 = f1
  f2 = f2
  Region <- MCRegion
  Frag <- MCFrag
  MPRect <- MCMPRect
  Bounds <- MCBounds
  Degenerate = {f2}
  MaxEyeSplits = 2
INVARIANTS TypeOK NothingMissed NothingLeftBehind OneOwner HiddenStaysHidden
PROPERTIES Terminates DeliversInOrder
CHECK_DEADLOCK FALSE
