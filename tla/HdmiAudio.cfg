SPECIFICATION Spec
CONSTANTS
  BlockSize = 16
  MaxBlocks = 4
  Streams = {"stereo", "multi"}
  Tvs <- MCTvs
  Maps <- MCMaps
  MaxMaps = 2
INVARIANTS
  ChannelsRight
  PcmHeld
  OfferRight
