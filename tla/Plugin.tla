------------------------------- MODULE Plugin -------------------------------
(***************************************************************************)
(* The subnet-evm plugin (indexing-subnet-evm): the indexer writes into    *)
(* the versiondb of the virtual machine it wraps, so that its blocks are   *)
(* committed in the same database write as the block the chain accepts.    *)
(* The compactor runs over the same versiondb in a goroutine of its own.   *)
(*                                                                         *)
(* The variables of Storage are what reads through the versiondb return    *)
(* (its memory over the database); disk is what has been committed.  The   *)
(* wrapped Accept and the versiondb are external: the inner Accept commits *)
(* when it succeeds, and a deferred Abort clears the memory whether it     *)
(* succeeds or not (notes/01_speedup_proposal.md).                         *)
(***************************************************************************)
EXTENDS Compactor

CONSTANTS
  MaxHeight,        \* the last block consensus decides on
  InstallHeights    \* the chain heights at which the plugin may be installed

ASSUME HeightsAssumption ==
  MaxHeight \in Nat /\ InstallHeights \subseteq 0 .. MaxHeight

\* With fewer blocks kept back the compactor may delete the last accepted one.
ASSUME BufferAssumption == MinBlocks >= 2

VARIABLES
  disk,           \* the committed store and the last accepted block
  base,           \* history: the chain height when the plugin was installed
  cacheLatest,    \* VersionDBStorage.latestBlock
  serverLatest,   \* Server.latestBlock
  lastIndexed,    \* IndexingVM.lastIndexedHeight
  lastAccepted,   \* IndexingVM.lastAcceptedHeight
  apc,            \* where Accept is (consensus accepts one block at a time)
  height,         \* Accept: the height of the block
  skipped,        \* Accept: the height counts as already indexed
  status          \* "fatal" when Initialize refuses to start

acceptVars == <<cacheLatest, serverLatest, lastIndexed, lastAccepted, apc, height, skipped>>
vars == <<storeVars, compactorVars, acceptVars, disk, base, status>>

TypeOK ==
  /\ StoreTypeOK /\ CompactorTypeOK
  /\ disk.blocks \subseteq Nat /\ disk.meta \in Nat /\ disk.accepted \in Nat
  /\ base \in InstallHeights
  /\ {cacheLatest, serverLatest, lastIndexed, lastAccepted, height} \subseteq Nat
  /\ apc \in {"idle", "index", "announce", "inner", "committed", "update"}
  /\ skipped \in BOOLEAN
  /\ status \in {"up", "fatal"}

Init ==
  /\ StoreInit /\ CompactorInit
  /\ base \in InstallHeights
  /\ disk = [blocks |-> {}, batches |-> batches, meta |-> 0, accepted |-> base]
  /\ cacheLatest = 0 /\ serverLatest = 0 /\ lastIndexed = 0
  /\ lastAccepted = base
  /\ apc = "idle" /\ height = 0 /\ skipped = FALSE
  /\ status = "up"

Greater(a, b) == IF a > b THEN a ELSE b

(***************************************************************************)
(* versiondb: a commit writes everything in its memory at once, an abort   *)
(* drops everything in it, whoever wrote it.                               *)
(***************************************************************************)
DropMemory ==
  /\ blocks' = disk.blocks
  /\ batches' = disk.batches
  /\ meta' = disk.meta

(***************************************************************************)
(* Accept (block.go) and indexBlock (indexer.go).                          *)
(***************************************************************************)

\* Consensus accepts the next block, or the chain accepts its last one again.
BeginAccept(h) ==
  /\ status = "up" /\ apc = "idle"
  /\ h \in {disk.accepted, disk.accepted + 1} /\ h >= 1
  /\ height' = h
  /\ skipped' = (h <= lastIndexed)
  /\ apc' = IF h <= lastIndexed THEN "inner" ELSE "index"
  /\ UNCHANGED <<cacheLatest, serverLatest, lastIndexed, lastAccepted, storeVars, disk>>

\* No block, no receipts, no trace, or the Put failed: nothing was written.
IndexFails ==
  /\ apc = "index"
  /\ apc' = "idle"
  /\ UNCHANGED <<cacheLatest, serverLatest, lastIndexed, lastAccepted, height, skipped,
                 storeVars, disk>>

PutBlock ==
  /\ apc = "index"
  /\ blocks' = WithBlock(height)
  /\ apc' = "announce"
  /\ UNCHANGED <<cacheLatest, serverLatest, lastIndexed, lastAccepted, height, skipped,
                 batches, meta, disk>>

\* Mutant: indexBlock moves lastIndexedHeight itself, before the commit (the
\* bug of notes/02_speedup_task.md, "lastIndexedHeight Updated Too Early").
IndexedTooEarly ==
  /\ apc = "announce"
  /\ cacheLatest' = Greater(height, cacheLatest)
  /\ serverLatest' = Greater(height, serverLatest)
  /\ lastIndexed' = height
  /\ apc' = "inner"
  /\ UNCHANGED <<lastAccepted, height, skipped, storeVars, disk>>

\* The rest of SaveBlock moves the cache, then indexBlock tells the server.
UpdateCaches ==
  /\ apc = "announce"
  /\ cacheLatest' = Greater(height, cacheLatest)
  /\ serverLatest' = Greater(height, serverLatest)
  /\ apc' = "inner"
  /\ UNCHANGED <<lastIndexed, lastAccepted, height, skipped, storeVars, disk>>

\* The wrapped Accept fails: its deferred Abort runs and the error is returned.
InnerFails ==
  /\ apc = "inner"
  /\ DropMemory
  /\ apc' = "idle"
  /\ UNCHANGED <<cacheLatest, serverLatest, lastIndexed, lastAccepted, height, skipped, disk>>

Commit ==
  /\ apc = "inner"
  /\ disk' = [blocks |-> blocks, batches |-> batches, meta |-> meta, accepted |-> height]
  /\ apc' = "committed"
  /\ UNCHANGED <<cacheLatest, serverLatest, lastIndexed, lastAccepted, height, skipped, storeVars>>

\* Mutant: the heights are not moved after a commit.
AbortAndReturn ==
  /\ apc = "committed"
  /\ DropMemory
  /\ apc' = "idle"
  /\ UNCHANGED <<cacheLatest, serverLatest, lastIndexed, lastAccepted, height, skipped, disk>>

\* The deferred Abort of a wrapped Accept that committed.
DeferredAbort ==
  /\ apc = "committed"
  /\ DropMemory
  /\ apc' = IF skipped THEN "idle" ELSE "update"
  /\ UNCHANGED <<cacheLatest, serverLatest, lastIndexed, lastAccepted, height, skipped, disk>>

\* Only then do the heights move.
UpdateHeights ==
  /\ apc = "update"
  /\ lastIndexed' = height
  /\ lastAccepted' = height
  /\ apc' = "idle"
  /\ UNCHANGED <<cacheLatest, serverLatest, height, skipped, storeVars, disk>>

AcceptStep ==
  /\ \/ \E h \in 1 .. MaxHeight : BeginAccept(h)
     \/ IndexFails \/ PutBlock \/ UpdateCaches \/ InnerFails \/ Commit
     \/ DeferredAbort \/ UpdateHeights
  /\ UNCHANGED <<compactorVars, base, status>>

(***************************************************************************)
(* The compactor over the versiondb.  LatestBlock answers from the cache,  *)
(* and only 0 means that there is none.  A round is cut short by a read of *)
(* a committed block, which goes to the database, or by the compression; a *)
(* write goes into memory and takes effect or fails without one.           *)
(***************************************************************************)
CompactStep ==
  /\ status = "up"
  /\ \/ CompactorStep(cacheLatest > 0, cacheLatest)
     \/ UNCHANGED <<batches, meta>> /\ RoundFails
  /\ UNCHANGED <<acceptVars, disk, base, status>>

(***************************************************************************)
(* The process stops, at any point, and Initialize runs again (vm.go): it  *)
(* scans the blocks for the cache, restores lastIndexed from the meta key  *)
(* and the latest block, and refuses to start when the chain is ahead.     *)
(***************************************************************************)
\* Mutants: an empty scan counts from -1; only the meta key is restored (the bug
\* of notes/00_project_intro.md on meta).
HighestOrNone(S) == IF S = {} THEN -1 ELSE CHOOSE n \in S : \A m \in S : m <= n
RestoredMeta == disk.meta

Highest(S) == IF S = {} THEN 0 ELSE CHOOSE n \in S : \A m \in S : m <= n

RestoredIndexed == Greater(disk.meta, Highest(disk.blocks))

GapDetected == RestoredIndexed > 0 /\ disk.accepted > RestoredIndexed

Restart ==
  /\ DropMemory
  /\ EndRound("idle")
  /\ apc' = "idle" /\ height' = 0 /\ skipped' = FALSE
  /\ cacheLatest' = Highest(disk.blocks)
  /\ lastAccepted' = disk.accepted
  /\ lastIndexed' = RestoredIndexed
  /\ serverLatest' = IF GapDetected THEN 0 ELSE RestoredIndexed
  /\ status' = IF GapDetected THEN "fatal" ELSE "up"
  /\ UNCHANGED <<disk, base>>

Next == AcceptStep \/ CompactStep \/ Restart

Spec == Init /\ [][Next]_vars

(***************************************************************************)
(* Safety.                                                                 *)
(***************************************************************************)

\* vm.go: "this should NEVER happen - indexer data commits atomically with
\* chain metadata".  Whatever fails or crashes, Initialize finds no gap.
NoGapDetected == status # "fatal"

\* The chain never commits a block above the one the plugin was installed at
\* without the indexer's data for it in the same write.
CommitCarriesIndex ==
  disk.accepted > base => disk.accepted \in disk.blocks

\* Between two Accepts the indexer and the chain are at the same height, once
\* a block has been indexed: a failed or interrupted Accept leaves neither
\* ahead, so that its retry indexes the block again (block.go, where the inner
\* Accept returns an error; its header comment says otherwise of a crash, see
\* IndexerAheadAfterCrash).
IndexerInStep ==
  apc = "idle" /\ lastIndexed > 0 => lastIndexed = disk.accepted

\* block.go, on Accept: "If crash after index but before accept: indexer ahead
\* (safe, will skip on re-accept)".  A process that stops with a block indexed and
\* not accepted comes back with a lastIndexed at which Accept skips the block.
IndexerAheadAfterCrash ==
  [][apc = "inner" /\ Restart => height <= lastIndexed']_vars

\* The compactor takes LatestBlock from a cache that an abort does not undo, and
\* yet the batch it works on was committed and stays within one block of the
\* distance MinBlocks sets from the tip.
RoundBehindTip ==
  cpc \in {"read", "save", "meta", "delete"} =>
    cEnd + MinBlocks <= disk.accepted + 1

\* A batch holds the blocks of its key, in order, whichever of them were in the
\* memory of the versiondb when they were read.
BatchesWellFormed ==
  \A k \in DOMAIN batches :
    batches[k] = [i \in 1 .. BatchSize |-> k[1] + i - 1]

\* Accepted and committed blocks can be read after a restart
\* (notes/02_speedup_task.md on the compactor: "data eventually persists").
NoBlockLost ==
  \A n \in base + 1 .. disk.accepted :
    \/ n \in disk.blocks
    \/ BatchKey(BatchStart(n)) \in DOMAIN disk.batches

(***************************************************************************)
(* The inductive invariant behind the safety properties.                   *)
(***************************************************************************)
WellFormed(data) ==
  /\ DOMAIN data \subseteq Nat \X Nat
  /\ data \in [DOMAIN data -> Seq(Nat)]
  /\ \A k \in DOMAIN data : data[k] = [i \in 1 .. BatchSize |-> k[1] + i - 1]

\* What a restart finds: nothing above the last accepted block, and that block
\* itself as soon as anything was indexed.
DiskInv ==
  /\ WellFormed(disk.batches)
  /\ disk.blocks \subseteq 1 .. disk.accepted
  /\ disk.meta <= disk.accepted
  /\ (disk.blocks # {} \/ disk.meta > 0 \/ disk.accepted > base) =>
       disk.accepted \in disk.blocks

\* What is in memory over it: at most the block being accepted, and never a
\* delete of the last accepted one.
MemoryInv ==
  /\ WellFormed(batches)
  /\ blocks \subseteq 1 .. disk.accepted + 1
  /\ meta <= disk.accepted
  /\ cacheLatest <= disk.accepted + 1
  /\ disk.accepted \in disk.blocks => disk.accepted \in blocks
  /\ disk.accepted + 1 \in blocks =>
       apc \in {"announce", "inner"} /\ height = disk.accepted + 1

AcceptInv ==
  /\ apc \notin {"committed", "update"} /\ lastIndexed > 0 =>
       lastIndexed = disk.accepted /\ disk.accepted \in disk.blocks
  /\ apc \in {"index", "announce", "inner"} =>
       /\ height \in {disk.accepted, disk.accepted + 1} /\ height >= 1
       /\ skipped <=> height <= lastIndexed
  /\ apc \in {"index", "announce"} => ~skipped
  /\ apc \in {"announce", "inner"} => height \in blocks
  /\ apc \in {"committed", "update"} =>
       height = disk.accepted /\ disk.accepted \in disk.blocks
  /\ apc = "committed" /\ skipped => lastIndexed = height

RoundInv ==
  /\ RoundBehindTip
  /\ cpc = "check" => buf = <<>>
  /\ cpc = "read" => Len(buf) < BatchSize
  /\ cpc = "save" => Len(buf) = BatchSize
  /\ cpc \in {"read", "save"} => \A i \in 1 .. Len(buf) : buf[i] = cStart + i - 1

PluginInv ==
  TypeOK /\ DiskInv /\ MemoryInv /\ AcceptInv /\ RoundInv /\ NoGapDetected

=============================================================================
