CONSTANTS
  BatchSize = 2
  MinBlocks = 2
  MaxHeight = 6
  InstallHeights = {0, 1}
SPECIFICATION Spec
INVARIANT NoBlockLost
