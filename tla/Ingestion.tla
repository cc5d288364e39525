----------------------------- MODULE Ingestion -----------------------------
(***************************************************************************)
(* The ingestion loop of the standalone sink (evm-ingestion/main.go,       *)
(* runIngestion) and the height the API server announces                   *)
(* (api/server.go, UpdateLatestBlock).  Upstream is any source of block    *)
(* numbers: the loop itself must keep the store free of gaps.              *)
(***************************************************************************)
EXTENDS Storage

CONSTANT ChainHeight    \* how far the upstream chain ever grows

ASSUME ChainHeightAssumption == ChainHeight \in Nat

VARIABLES
  ipc,            \* where runIngestion is
  currentBlock,   \* runIngestion: the next block expected
  latestBlock,    \* Server.latestBlock
  saved           \* history: the highest block the store ever held

ingestionVars == <<ipc, currentBlock, latestBlock, saved>>

IngestionTypeOK ==
  /\ ipc \in {"resume", "fallback", "stream", "saved", "wait"}
  /\ currentBlock \in Nat
  /\ latestBlock \in Nat
  /\ saved \in Nat

IngestionInit ==
  /\ ipc = "resume"
  /\ currentBlock = 1
  /\ latestBlock = 0
  /\ saved = 0

Advance(n) == IF n > saved THEN n ELSE saved

\* Mutants: resume a batch early; let the batches go before the blocks.
ResumeBatchEarly ==
  /\ ipc = "resume"
  /\ currentBlock' = (IF blocks # {} THEN LatestBlock - BatchSize ELSE 1)
  /\ ipc' = "stream"
  /\ UNCHANGED <<latestBlock, saved, storeVars>>
ResumeBatchesFirst ==
  /\ ipc = "resume"
  /\ currentBlock' = (IF DOMAIN batches # {} THEN LatestBatch
                      ELSE IF blocks # {} THEN LatestBlock ELSE meta) + 1
  /\ ipc' = "stream"
  /\ UNCHANGED <<latestBlock, saved, storeVars>>

\* Individual blocks come first ...
ResumeFromBlocks ==
  /\ ipc = "resume"
  /\ \/ /\ blocks # {}
        /\ currentBlock' = LatestBlock + 1
        /\ ipc' = "stream"
     \/ /\ blocks = {}
        /\ ipc' = "fallback"
        /\ UNCHANGED currentBlock
  /\ UNCHANGED <<latestBlock, saved, storeVars>>

\* ... then batches, then the meta key (absent: start from block 1).
ResumeFallback ==
  /\ ipc = "fallback"
  /\ currentBlock' = (IF DOMAIN batches # {} THEN LatestBatch ELSE meta) + 1
  /\ ipc' = "stream"
  /\ UNCHANGED <<latestBlock, saved, storeVars>>

\* Mutant: the ordering check is missing.
SaveUnordered(num) ==
  /\ ipc = "stream"
  /\ blocks' = WithBlock(num)
  /\ saved' = Advance(num)
  /\ ipc' = "saved"
  /\ UNCHANGED <<currentBlock, latestBlock, batches, meta>>

\* A block arrives; num is the number parsed from it.
SaveReceived(num) ==
  /\ ipc = "stream"
  /\ num = currentBlock
  /\ blocks' = WithBlock(num)
  /\ saved' = Advance(num)
  /\ ipc' = "saved"
  /\ UNCHANGED <<currentBlock, latestBlock, batches, meta>>

\* A number that does not parse (0 here) or is not the expected one.
RejectReceived(num) ==
  /\ ipc = "stream"
  /\ num # currentBlock
  /\ ipc' = "wait"
  /\ UNCHANGED <<currentBlock, latestBlock, saved, storeVars>>

\* SaveBlock returns an error; the write may have been applied.
SaveFails ==
  /\ ipc = "stream"
  /\ \/ UNCHANGED <<blocks, saved>>
     \/ /\ currentBlock <= ChainHeight
        /\ blocks' = WithBlock(currentBlock)
        /\ saved' = Advance(currentBlock)
  /\ ipc' = "wait"
  /\ UNCHANGED <<currentBlock, latestBlock, batches, meta>>

\* Mutants: the height is announced after currentBlock++; currentBlock++ is
\* missing.
AnnounceAfterIncrement ==
  /\ ipc = "saved"
  /\ latestBlock' = currentBlock + 1
  /\ currentBlock' = currentBlock + 1
  /\ ipc' = "stream"
  /\ UNCHANGED <<saved, storeVars>>
AnnounceOnly ==
  /\ ipc = "saved"
  /\ latestBlock' = currentBlock
  /\ ipc' = "stream"
  /\ UNCHANGED <<currentBlock, saved, storeVars>>

\* UpdateLatestBlock never moves the announced height back.
UpdateLatestBlock ==
  /\ ipc = "saved"
  /\ latestBlock' = IF currentBlock <= latestBlock THEN latestBlock ELSE currentBlock
  /\ currentBlock' = currentBlock + 1
  /\ ipc' = "stream"
  /\ UNCHANGED <<saved, storeVars>>

\* StreamBlocks returned and its goroutine closed the channel.
StreamEnds ==
  /\ ipc = "stream"
  /\ ipc' = "wait"
  /\ UNCHANGED <<currentBlock, latestBlock, saved, storeVars>>

Retry ==
  /\ ipc = "wait"
  /\ ipc' = "resume"
  /\ UNCHANGED <<currentBlock, latestBlock, saved, storeVars>>

IngestionStep ==
  \/ ResumeFromBlocks \/ ResumeFallback
  \/ \E num \in 1 .. ChainHeight : SaveReceived(num)
  \/ UpdateLatestBlock \/ Retry

IngestionFault ==
  \/ \E num \in 0 .. ChainHeight : RejectReceived(num)
  \/ SaveFails
  \/ StreamEnds

============================================================================
