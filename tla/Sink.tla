-------------------------------- MODULE Sink --------------------------------
(***************************************************************************)
(* The standalone sink (evm-ingestion/main.go): the ingestion loop and the *)
(* compactor run concurrently over one Pebble database, and the process    *)
(* may crash and restart at any point.                                     *)
(***************************************************************************)
EXTENDS Compactor, Ingestion

vars == <<storeVars, compactorVars, ingestionVars>>

TypeOK == StoreTypeOK /\ CompactorTypeOK /\ IngestionTypeOK

Init == StoreInit /\ CompactorInit /\ IngestionInit

\* The process dies; the database keeps every synced write.
Crash ==
  /\ cpc' = "idle"
  /\ cFirst' = 0
  /\ buf' = <<>>
  /\ ipc' = "resume"
  /\ currentBlock' = 1
  /\ latestBlock' = 0
  /\ UNCHANGED <<storeVars, saved>>

Compact == CompactorStep(blocks # {}, LatestBlock) /\ UNCHANGED ingestionVars

Ingest == IngestionStep /\ UNCHANGED compactorVars

Failure ==
  \/ CompactorFault /\ UNCHANGED ingestionVars
  \/ IngestionFault /\ UNCHANGED compactorVars

Fault == Failure \/ Crash

Next == Compact \/ Ingest \/ Fault

Spec == Init /\ [][Next]_vars

(***************************************************************************)
(* Safety.                                                                 *)
(***************************************************************************)

\* Every block the store ever held can still be read, from its own key or
\* from the batch BatchStart derives for it, and it is that block: SaveBatch,
\* SaveMeta and DeleteBlockRange of compactOneBatch may be cut at any point.
NothingForgotten == \A n \in 1 .. saved : Readable(n)

\* Whenever runIngestion streams, it expects exactly the block after the last
\* one stored, whichever of blocks, batches and meta it resumed from: it
\* never leaves a gap and never fetches a stored block again.
ResumeIsExact ==
  ipc \in {"stream", "saved"} =>
    currentBlock = IF ipc = "stream" THEN saved + 1 ELSE saved

\* FirstBlock and LatestBlock stand for all the blocks between them: the
\* compactor counts latestBlock - firstBlock + 1 blocks and resume takes
\* LatestBlock for the last one stored.
BlocksContiguous ==
  /\ blocks \subseteq 1 .. saved
  /\ \A n \in blocks : n .. saved \subseteq blocks

\* The individual blocks start on a batch boundary, so a round never meets
\* a missing block.
FirstBlockAligned == \A n \in blocks : BatchStart(n) \in blocks

\* The last MinBlocks blocks stay individual: no reader at the tip is sent a
\* batch, and LatestBlock never disappears under the ingestion loop.
TipStaysIndividual ==
  \A n \in 1 .. saved : n + MinBlocks > saved => n \in blocks

\* The meta key, the last resort of resume, is never ahead of the batches.
MetaIsCovered == \A n \in 1 .. meta : InBatch(n)

(***************************************************************************)
(* What the sink promises its readers (BlockLog), under the mapping of the *)
(* log to the blocks that the keys of the store can answer for.            *)
(***************************************************************************)
Known == blocks \cup UNION {k[1] .. k[2] : k \in DOMAIN batches}

Served == {n \in Known : Readable(n)}

Promise == INSTANCE BlockLog WITH log <- Served, announced <- latestBlock

\* The concurrent sink, with its failures and crashes, implements the log: a
\* step of the compactor is invisible to a reader, a step of ingestion adds
\* exactly the next block, and no height is announced before its block can
\* be read.
ImplementsLog == Promise!Spec

(***************************************************************************)
(* The inductive invariant from which the safety properties follow.        *)
(***************************************************************************)
HasBatch(n) == BatchKey(BatchStart(n)) \in DOMAIN batches

\* A batch is stored under an aligned key, holds exactly the blocks of its
\* range, and only blocks that were saved.
BatchesSound ==
  \A k \in DOMAIN batches :
    /\ k[1] # 0 /\ BatchStart(k[1]) = k[1] /\ k = BatchKey(k[1])
    /\ k[2] <= saved
    /\ Len(batches[k]) = BatchSize
    /\ \A i \in 1 .. BatchSize : batches[k][i] = k[1] + i - 1

Covered == \A n \in 1 .. saved : n \in blocks \/ HasBatch(n)

BatchesPrefix == \A k \in DOMAIN batches : \A n \in 1 .. k[2] : HasBatch(n)

MetaSound == meta # 0 => \E k \in DOMAIN batches : k[2] = meta

StoreInv ==
  /\ BatchesSound /\ Covered /\ BatchesPrefix /\ MetaSound
  /\ BlocksContiguous /\ FirstBlockAligned /\ TipStaysIndividual

\* What the locals of a compaction round know about the store.
RoundInv ==
  /\ cpc \in {"check", "read", "save", "meta", "delete"} =>
       cFirst \in blocks /\ \A m \in blocks : cFirst <= m
  /\ cpc \in {"read", "save", "meta", "delete"} => cEnd + MinBlocks <= saved
  /\ cpc = "check" => buf = <<>>
  /\ cpc = "read" => Len(buf) < BatchSize
  /\ cpc = "save" => Len(buf) = BatchSize
  /\ cpc \in {"read", "save"} => \A i \in 1 .. Len(buf) : buf[i] = cStart + i - 1
  /\ cpc \in {"meta", "delete"} => BatchKey(cStart) \in DOMAIN batches

IngestionInv ==
  /\ ResumeIsExact
  /\ ipc = "fallback" => blocks = {}
  /\ latestBlock <= saved

IndInv == TypeOK /\ StoreInv /\ RoundInv /\ IngestionInv

=============================================================================
