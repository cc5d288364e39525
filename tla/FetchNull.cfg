CONSTANTS
  MaxTx = 2
  BatchSize = 2
  DebugBatchSize = 2
  MaxRetries = 1
  Precompiles = {}
  Bodies = {"own", "null", "error"}
SPECIFICATION Spec
INVARIANT ReceiptsAreTheNodes
CHECK_DEADLOCK FALSE
