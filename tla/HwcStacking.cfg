SPECIFICATION Spec
CONSTANTS
  Lists <- MixedLists
  CloneConfigs <- NoClone
  PrimaryTransform = 0
  BltPolicy = "default"
  FlagsRgbOrder = TRUE
  FlagsNv12Only = FALSE
  FbIsBGR = FALSE
  HdmiIsTv = FALSE
  Tiler1dSlot = 3
  SetFaults = {"post2", "off"}
INVARIANTS
  StackingOrder
  ZOrdersDense
  NoLayerLost
  GfxNeverScaled
