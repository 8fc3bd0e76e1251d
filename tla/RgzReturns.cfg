SPECIFICATION Spec
CONSTANTS
  Width = 3
  Height = 2
  Ids <- MCIds
  Attr <- MCAttr
  Inputs <- MCInputs
  Updates <- MCUpdates
  Modes = {"paint", "region"}
  LayersReturn = TRUE
  MaxLayers = 6
  MaxBlits = 16
INVARIANT
  FrameShown
