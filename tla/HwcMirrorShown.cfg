SPECIFICATION FairSpec
CONSTANTS
  Lists <- MirrorLists
  CloneConfigs <- MirrorOrNot
  PrimaryTransform = 0
  BltPolicy = "all"
  FlagsRgbOrder = TRUE
  FlagsNv12Only = FALSE
  FbIsBGR = FALSE
  HdmiIsTv = FALSE
  Tiler1dSlot = 4
  SetFaults = {}
PROPERTIES
  MirrorShown
