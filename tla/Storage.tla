------------------------------ MODULE Storage ------------------------------
(***************************************************************************)
(* The key space of a sink: individual blocks, compressed batches and the  *)
(* meta key (evm-ingestion/storage/interface.go and its two                *)
(* implementations).  A block's data is represented by its number, so a    *)
(* batch is the sequence of the numbers of the blocks compressed into it.  *)
(* Every operation is one synced write or one read of the database.        *)
(***************************************************************************)
EXTENDS Batches, Sequences, FiniteSets

VARIABLES
  blocks,     \* keys block:<n>: the blocks stored one by one
  batches,    \* keys batch:<start>-<end>, to the blocks compressed under it
  meta        \* key meta: the last block compacted, 0 when the key is absent

storeVars == <<blocks, batches, meta>>

StoreTypeOK ==
  /\ blocks \subseteq Nat
  /\ DOMAIN batches \subseteq Nat \X Nat
  /\ batches \in [DOMAIN batches -> Seq(Nat)]
  /\ meta \in Nat

StoreInit ==
  /\ blocks = {}
  /\ batches = [k \in {} |-> <<>>]
  /\ meta = 0

(***************************************************************************)
(* Reads.                                                                  *)
(***************************************************************************)
FirstBlock == CHOOSE n \in blocks : \A m \in blocks : n <= m

LatestBlock == CHOOSE n \in blocks : \A m \in blocks : m <= n

\* The end of the last batch key: keys are zero-padded, so the last one has
\* the greatest start.
LatestBatch ==
  (CHOOSE k \in DOMAIN batches : \A j \in DOMAIN batches : j[1] <= k[1])[2]

\* GetBatchCompressed derives the end of the key from the start it is given.
BatchKey(start) == <<start, BatchEnd(start)>>

\* What a reader gets for block n: the block itself, or its place in the
\* batch that BatchStart says holds it.
InBatch(n) ==
  LET start == BatchStart(n)
  IN  /\ BatchKey(start) \in DOMAIN batches
      /\ n - start + 1 \in DOMAIN batches[BatchKey(start)]
      /\ batches[BatchKey(start)][n - start + 1] = n

Readable(n) == n \in blocks \/ InBatch(n)

(***************************************************************************)
(* Writes, as the new value of the part of the store they change.          *)
(***************************************************************************)
WithBlock(n) == blocks \cup {n}

\* Mutants: DeleteRange's exclusive end taken for inclusive, one way and the
\* other.
DeletesOneMore(start, end) == blocks \ (start .. end + 1)
DeletesOneLess(start, end) == blocks \ (start .. end - 1)

WithoutBlocks(start, end) == blocks \ (start .. end)

WithBatch(start, end, data) ==
  [k \in DOMAIN batches \cup {<<start, end>>} |->
     IF k = <<start, end>> THEN data ELSE batches[k]]

============================================================================
