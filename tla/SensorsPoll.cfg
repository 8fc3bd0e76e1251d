SPECIFICATION FairSpec
CONSTANTS
  Event <- InputEvents
  Garbage = garbage
  numEvents = 5
  Counts = {1, 5}
  PipeCap = 1
  MaxSamples = 4
  MaxActivations = 2
INVARIANTS
  TypeOK
  DeliveredInOrder
PROPERTIES
  QueueSpec
  WaitsEmptyHanded
  AllDelivered
CHECK_DEADLOCK FALSE
