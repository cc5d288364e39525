CONSTANTS
  BatchSize = 2
  MinBlocks = 2
  MaxHeight = 6
  InstallHeights = {1}
SPECIFICATION MCSpec
PROPERTY BacklogDrains
