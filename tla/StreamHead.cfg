CONSTANTS
  BatchSize = 2
  ChainHeight = 3
  Window = 2
  MaxFaults = 0
SPECIFICATION FairSpec
PROPERTY HeadReachesChain
