CONSTANTS
  BatchSize = 2
  MinBlocks = 2
  MaxHeight = 7
  InstallHeights = {0, 1, 2}
SPECIFICATION MCSpec
INVARIANTS
  TypeOK
  NoGapDetected
  CommitCarriesIndex
  IndexerInStep
  RoundBehindTip
  BatchesWellFormed
PROPERTY AlignedBacklogDrains
