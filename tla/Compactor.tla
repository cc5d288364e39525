----------------------------- MODULE Compactor -----------------------------
(***************************************************************************)
(* The background compactor (evm-ingestion/storage/compactor.go): on every *)
(* tick it moves the oldest individual blocks, BatchSize at a time, into a *)
(* batch.  Each call it makes on the store is a step of its own, so that   *)
(* writers, readers and crashes fall between any two of them.              *)
(***************************************************************************)
EXTENDS Storage

CONSTANT MinBlocks      \* consts.StorageMinBlocksBeforeCompaction

ASSUME MinBlocksAssumption == MinBlocks \in Nat

VARIABLES
  cpc,        \* where the compactor's goroutine is
  cFirst,     \* compactOneBatch: firstBlock
  buf         \* compactOneBatch: the blocks read so far

compactorVars == <<cpc, cFirst, buf>>

CompactorTypeOK ==
  /\ cpc \in {"idle", "first", "check", "read", "save", "meta", "delete"}
  /\ cFirst \in Nat
  /\ buf \in Seq(Nat)

CompactorInit ==
  /\ cpc = "idle"
  /\ cFirst = 0
  /\ buf = <<>>

cStart == BatchStart(cFirst)
cEnd   == BatchEnd(cStart)

\* The locals of a round are dead once it is over.
EndRound(next) ==
  /\ cpc' = next
  /\ cFirst' = 0
  /\ buf' = <<>>

\* run: the ticker fires and compactAll starts its loop.
Tick ==
  /\ cpc = "idle"
  /\ cpc' = "first"
  /\ UNCHANGED <<cFirst, buf, storeVars>>

FindFirst ==
  /\ cpc = "first"
  /\ \/ /\ blocks # {}
        /\ cpc' = "check"
        /\ cFirst' = FirstBlock
        /\ buf' = <<>>
     \/ /\ blocks = {}
        /\ EndRound("idle")
  /\ UNCHANGED storeVars

\* Mutant: the blocks to keep are forgotten.
BacklogToTheTip(latest) ==
  latest - cFirst + 1 >= BatchSize /\ latest >= cEnd

\* Enough blocks are buffered, and the batch does not come close to the tip.
Backlog(latest) ==
  /\ latest - cFirst + 1 >= MinBlocks + BatchSize
  /\ latest >= cEnd + MinBlocks

\* hasLatest, latest: what the store's LatestBlock returns.
CheckBacklog(hasLatest, latest) ==
  /\ cpc = "check"
  /\ \/ /\ hasLatest
        /\ Backlog(latest)
        /\ cpc' = "read"
        /\ UNCHANGED <<cFirst, buf>>
     \/ /\ hasLatest => ~Backlog(latest)
        /\ EndRound("idle")
  /\ UNCHANGED storeVars

\* Mutant: a missing block is compacted as an empty one.
ReadBlockOrNothing ==
  /\ cpc = "read"
  /\ LET n == cStart + Len(buf)
     IN  buf' = Append(buf, IF n \in blocks THEN n ELSE 0)
  /\ cpc' = IF Len(buf) + 1 = BatchSize THEN "save" ELSE "read"
  /\ UNCHANGED <<cFirst, storeVars>>

ReadBlock ==
  /\ cpc = "read"
  /\ LET n == cStart + Len(buf)
     IN  \/ /\ n \in blocks
            /\ buf' = Append(buf, n)
            /\ cpc' = IF Len(buf) + 1 = BatchSize THEN "save" ELSE "read"
            /\ UNCHANGED cFirst
         \/ /\ n \notin blocks          \* missing block
            /\ EndRound("idle")
  /\ UNCHANGED storeVars

SaveBatch ==
  /\ cpc = "save"
  /\ batches' = WithBatch(cStart, cEnd, buf)
  /\ cpc' = "meta"
  /\ UNCHANGED <<cFirst, buf, blocks, meta>>

\* Mutant: the meta key records the latest block, not the end of the batch.
SaveMetaLatest ==
  /\ cpc = "meta"
  /\ meta' = LatestBlock
  /\ cpc' = "delete"
  /\ UNCHANGED <<cFirst, buf, blocks, batches>>

SaveMeta ==
  /\ cpc = "meta"
  /\ meta' = cEnd
  /\ cpc' = "delete"
  /\ UNCHANGED <<cFirst, buf, blocks, batches>>

DeleteBlocks ==
  /\ cpc = "delete"
  /\ blocks' = WithoutBlocks(cStart, cEnd)
  /\ EndRound("first")
  /\ UNCHANGED <<batches, meta>>

(***************************************************************************)
(* Failures.  A read, the compression, SaveBatch or SaveMeta that fails    *)
(* ends the round; a failed delete is only logged, and the loop goes on.   *)
(* A write that returns an error may have reached the store or not.        *)
(***************************************************************************)
RoundFails ==
  /\ cpc \in {"first", "check", "read", "save", "meta"}
  /\ batches' \in {batches}
                    \cup (IF cpc = "save" THEN {WithBatch(cStart, cEnd, buf)} ELSE {})
  /\ meta' \in {meta} \cup (IF cpc = "meta" THEN {cEnd} ELSE {})
  /\ EndRound("idle")
  /\ UNCHANGED blocks

DeleteFails ==
  /\ cpc = "delete"
  /\ blocks' \in {blocks, WithoutBlocks(cStart, cEnd)}
  /\ EndRound("first")
  /\ UNCHANGED <<batches, meta>>

CompactorStep(hasLatest, latest) ==
  \/ Tick \/ FindFirst \/ CheckBacklog(hasLatest, latest) \/ ReadBlock
  \/ SaveBatch \/ SaveMeta \/ DeleteBlocks

CompactorFault == RoundFails \/ DeleteFails

============================================================================
