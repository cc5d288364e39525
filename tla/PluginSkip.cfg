CONSTANTS
  BatchSize = 2
  MinBlocks = 2
  MaxHeight = 3
  InstallHeights = {0}
SPECIFICATION MCSpec
PROPERTY IndexerAheadAfterCrash
