SPECIFICATION Spec
CONSTANTS
  Lists <- CountLists
  CloneConfigs <- CloneTurned
  PrimaryTransform = 0
  BltPolicy = "disabled"
  FlagsRgbOrder = TRUE
  FlagsNv12Only = FALSE
  FbIsBGR = FALSE
  HdmiIsTv = FALSE
  Tiler1dSlot = 4
  SetFaults = {"swap"}
INVARIANTS
  TypeOK
  IndicesDistinct
  CountsCover
  OverlaysFit
  ExternalRotatesNV12
PROPERTIES
  PipeHandover
