CONSTANTS
  BatchSize = 2
  ChainHeight = 5
  Window = 2
  MaxFaults = 1
SPECIFICATION FairSpec
INVARIANTS
  TypeOK
  WindowContiguous
  DeliveredInOrder
  MemoryBounded
  NeverAheadOfChain
PROPERTIES
  IsSink
  DeliversToHead
