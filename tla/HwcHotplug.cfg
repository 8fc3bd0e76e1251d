SPECIFICATION FairSpec
CONSTANTS
  Idle = TRUE
  Rotations = {TRUE, FALSE}
  Tiler2dFb = FALSE
  AllocResults = {TRUE}
  EarlyChanges = FALSE
  MaxOverlays = 3
  MaxKept = 1
  PipeCap = 6
  MaxFrames = 2
  MaxChanges = 2
INVARIANTS
  TypeOK
  SwitchFollowed
  BuffersThere
PROPERTIES
  BuffersFreed
  StillScreenSettles
CHECK_DEADLOCK FALSE
