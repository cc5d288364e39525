------------------------------ MODULE Batches ------------------------------
(***************************************************************************)
(* The arithmetic of batches (evm-ingestion/storage/batch.go): blocks are  *)
(* grouped into ranges of BatchSize, counted from block 1.                 *)
(***************************************************************************)
EXTENDS Integers

CONSTANT BatchSize      \* consts.StorageBatchSize: 100 in production

ASSUME BatchSizeAssumption == BatchSize \in Nat \ {0}

BatchStart(n) == IF n = 0 THEN 1 ELSE ((n - 1) \div BatchSize) * BatchSize + 1

BatchEnd(s) == s + BatchSize - 1

============================================================================
