SPECIFICATION Spec
CONSTANTS
  Width = 3
  Height = 2
  Ids <- MCIds
  Attr <- MCAttr
  Inputs <- MCInputs
  Updates <- MCUpdates
  Modes = {"paint", "region"}
  LayersReturn = FALSE
  MaxLayers = 6
  MaxBlits = 16
INVARIANTS
  FrameShown
  StaleIsDirty
  RegionsTile
  SortsRight
  BlitsInBounds
  BuffersMatch
PROPERTIES
  StillCostsNothing
