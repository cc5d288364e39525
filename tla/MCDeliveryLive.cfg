CONSTANTS
  BatchSize = 2
  MinBlocks = 0
  ChainHeight = 5
  FromBlock = 2
SPECIFICATION MCSpec
INVARIANTS
  DeliveryTypeOK
  DeliveredExactly
  NothingSkipped
PROPERTIES
  ImplementsFeed
  EverythingDelivered
  BacklogDrains
