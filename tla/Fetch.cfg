CONSTANTS
  MaxTx = 3
  BatchSize = 2
  DebugBatchSize = 2
  MaxRetries = 1
  Precompiles = {1}
  Bodies = {"own", "null", "bad", "error", "precompile"}
SPECIFICATION FairSpec
INVARIANTS
  TypeOK
  AnswersKeepTheirTx
  NilHasCause
PROPERTY FetchEnds
\* A fetch that has handed its block over has ended.
CHECK_DEADLOCK FALSE
