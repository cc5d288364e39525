CONSTANTS
  BatchSize = 2
  MinBlocks = 1
  ChainHeight = 6
SPECIFICATION Spec
INVARIANTS
  TypeOK
  NothingForgotten
  ResumeIsExact
  BlocksContiguous
  FirstBlockAligned
  TipStaysIndividual
  MetaIsCovered
PROPERTY ImplementsLog
