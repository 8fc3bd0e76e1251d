SPECIFICATION Spec
CONSTANTS
  Lists <- VideoLists
  CloneConfigs <- TurnedConfigs
  PrimaryTransform = 0
  BltPolicy = "disabled"
  FlagsRgbOrder = TRUE
  FlagsNv12Only = FALSE
  FbIsBGR = FALSE
  HdmiIsTv = FALSE
  Tiler1dSlot = 4
  SetFaults = {}
INVARIANTS
  NoLayerLost
