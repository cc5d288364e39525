---------------------------- MODULE PluginProofs ----------------------------
(***************************************************************************)
(* The safety of the plugin, for every batch size, every chain and every   *)
(* height of installation, and for every buffer of at least two blocks:    *)
(* with fewer the compactor may delete the last accepted block.            *)
(***************************************************************************)
EXTENDS Plugin, StoreProofs

USE BatchSizeAssumption, MinBlocksAssumption, HeightsAssumption, BufferAssumption

(***************************************************************************)
(* Types.                                                                  *)
(***************************************************************************)
LEMMA GreaterType ==
  ASSUME NEW a \in Nat, NEW b \in Nat
  PROVE  Greater(a, b) \in Nat /\ Greater(a, b) >= a /\ Greater(a, b) >= b
         /\ Greater(a, b) \in {a, b}
  BY DEF Greater

LEMMA RoundTypes ==
  ASSUME CompactorTypeOK
  PROVE  cStart \in Nat /\ cEnd \in Nat /\ cEnd = cStart + BatchSize - 1
<1>1. BatchStart(cFirst) \in Nat
  BY BatchHoldsBlock DEF CompactorTypeOK, BatchStart
<1> QED
  BY <1>1 DEF cStart, cEnd, BatchEnd

\* Everything above the last accepted block and the block itself outlive any
\* round that is behind the tip.
LEMMA RoundSparesTip ==
  ASSUME TypeOK, RoundBehindTip, cpc \in {"meta", "delete", "save", "read"}
  PROVE  cEnd \in Nat /\ cEnd < disk.accepted
<1>1. cEnd \in Nat /\ disk.accepted \in Nat
  BY RoundTypes DEF TypeOK
<1> QED
  BY <1>1 DEF RoundBehindTip

\* What a restart restores: the last accepted block once anything is indexed,
\* and 0 before.
LEMMA Restored ==
  ASSUME TypeOK, DiskInv
  PROVE  /\ Highest(disk.blocks) \in Nat /\ Highest(disk.blocks) <= disk.accepted
         /\ RestoredIndexed \in Nat
         /\ RestoredIndexed > 0 =>
              RestoredIndexed = disk.accepted /\ disk.accepted \in disk.blocks
         /\ ~GapDetected
<1> USE DEF TypeOK, DiskInv
<1>1. CASE disk.accepted \in disk.blocks
  <2>1. \A m \in disk.blocks : m <= disk.accepted
    BY <1>1
  <2>2. Highest(disk.blocks) \in disk.blocks
        /\ \A m \in disk.blocks : m <= Highest(disk.blocks)
    BY <1>1, <2>1 DEF Highest
  <2>3. Highest(disk.blocks) = disk.accepted
    BY <1>1, <2>1, <2>2
  <2>4. RestoredIndexed = disk.accepted
    BY <2>3 DEF RestoredIndexed, Greater
  <2> QED
    BY <1>1, <2>3, <2>4 DEF GapDetected
<1>2. CASE disk.accepted \notin disk.blocks
  <2>1. disk.blocks = {} /\ disk.meta = 0
    BY <1>2
  <2>2. Highest(disk.blocks) = 0
    BY <2>1 DEF Highest
  <2>3. RestoredIndexed = 0
    BY <2>1, <2>2 DEF RestoredIndexed, Greater
  <2> QED
    BY <2>2, <2>3 DEF GapDetected
<1> QED
  BY <1>1, <1>2

(***************************************************************************)
(* The initial states.                                                     *)
(***************************************************************************)
LEMMA InitInv == Init => PluginInv
<1> SUFFICES ASSUME Init PROVE PluginInv
  OBVIOUS
<1> USE DEF Init, StoreInit, CompactorInit
<1>1. base \in Nat /\ DOMAIN batches = {}
  BY DEF Init, StoreInit
<1>2. WellFormed(batches)
  BY <1>1 DEF WellFormed
<1>3. TypeOK
  <2>1. StoreTypeOK
    BY <1>1, <1>2 DEF StoreTypeOK, WellFormed
  <2>2. CompactorTypeOK
    BY DEF CompactorTypeOK
  <2>3. disk.blocks \subseteq Nat /\ disk.meta \in Nat /\ disk.accepted \in Nat
    BY <1>1
  <2>4. {cacheLatest, serverLatest, lastIndexed, lastAccepted, height} \subseteq Nat
    BY <1>1
  <2> QED
    BY <2>1, <2>2, <2>3, <2>4 DEF TypeOK
<1>4. DiskInv /\ MemoryInv
  <2>1. disk.batches = batches /\ disk.blocks = {} /\ disk.meta = 0 /\ disk.accepted = base
    OBVIOUS
  <2> QED
    BY <1>1, <1>2, <2>1 DEF DiskInv, MemoryInv
<1>5. AcceptInv /\ RoundInv /\ NoGapDetected
  BY DEF AcceptInv, RoundInv, RoundBehindTip, NoGapDetected
<1> QED
  BY <1>3, <1>4, <1>5 DEF PluginInv

(***************************************************************************)
(* Accept.                                                                 *)
(***************************************************************************)

\* Accept never touches the compactor's locals, and the chain never goes back.
LEMMA AcceptKeepsRound ==
  ASSUME TypeOK, RoundInv, UNCHANGED compactorVars,
         disk'.accepted \in Nat, disk'.accepted >= disk.accepted
  PROVE  RoundInv'
<1>1. cEnd \in Nat /\ cEnd' = cEnd /\ cStart' = cStart
  BY RoundTypes DEF TypeOK, compactorVars, cEnd, cStart
<1>2. RoundBehindTip'
  BY <1>1 DEF RoundInv, RoundBehindTip, TypeOK, compactorVars
<1> QED
  BY <1>1, <1>2 DEF RoundInv, compactorVars

\* Begin, fail to index, write the block, move the caches, move the heights:
\* nothing is committed and nothing is dropped.
LEMMA MemoryStepsKeep ==
  ASSUME PluginInv, UNCHANGED <<compactorVars, base, status>>,
         \/ \E h \in 1 .. MaxHeight : BeginAccept(h)
         \/ IndexFails \/ PutBlock \/ UpdateCaches \/ UpdateHeights
  PROVE  PluginInv'
<1> USE DEF PluginInv
<1>1. TypeOK' /\ DiskInv' /\ MemoryInv' /\ AcceptInv'
  <2>1. CASE \E h \in 1 .. MaxHeight : BeginAccept(h)
    <3>1. PICK h \in 1 .. MaxHeight : BeginAccept(h)
      BY <2>1
    <3>2. TypeOK'
      BY <3>1 DEF TypeOK, StoreTypeOK, CompactorTypeOK, BeginAccept, storeVars, compactorVars
    <3>3. DiskInv'
      BY <3>1 DEF DiskInv, BeginAccept, WellFormed
    <3>4. MemoryInv'
      BY <3>1 DEF MemoryInv, BeginAccept, WellFormed, storeVars
    <3>5. AcceptInv'
      <4>1. lastIndexed > 0 => lastIndexed = disk.accepted /\ disk.accepted \in disk.blocks
        BY <3>1 DEF AcceptInv, BeginAccept
      <4>2. h <= lastIndexed => h = disk.accepted /\ h \in blocks
        BY <3>1, <4>1 DEF BeginAccept, MemoryInv, TypeOK
      <4> QED
        BY <3>1, <4>1, <4>2 DEF AcceptInv, BeginAccept, storeVars
    <3> QED
      BY <3>2, <3>3, <3>4, <3>5
  <2>2. CASE IndexFails
    <3>1. TypeOK' /\ DiskInv'
      BY <2>2 DEF TypeOK, StoreTypeOK, CompactorTypeOK, DiskInv, WellFormed, IndexFails,
                  storeVars, compactorVars
    <3>2. MemoryInv' /\ AcceptInv'
      BY <2>2 DEF MemoryInv, AcceptInv, WellFormed, IndexFails, storeVars
    <3> QED
      BY <3>1, <3>2
  <2>3. CASE PutBlock
    <3>1. height \in {disk.accepted, disk.accepted + 1} /\ height >= 1
      BY <2>3 DEF AcceptInv, PutBlock
    <3>2. TypeOK' /\ DiskInv'
      BY <2>3 DEF TypeOK, StoreTypeOK, CompactorTypeOK, DiskInv, WellFormed, PutBlock,
                  WithBlock, compactorVars
    <3>3. MemoryInv'
      BY <2>3, <3>1 DEF MemoryInv, WellFormed, PutBlock, WithBlock, TypeOK
    <3>4. AcceptInv'
      BY <2>3, <3>1 DEF AcceptInv, PutBlock, WithBlock
    <3> QED
      BY <3>2, <3>3, <3>4
  <2>4. CASE UpdateCaches
    <3>1. /\ Greater(height, cacheLatest) \in {height, cacheLatest}
          /\ Greater(height, cacheLatest) \in Nat /\ Greater(height, serverLatest) \in Nat
      BY GreaterType DEF TypeOK
    <3>2. TypeOK' /\ DiskInv'
      BY <2>4, <3>1 DEF TypeOK, StoreTypeOK, CompactorTypeOK, DiskInv, WellFormed,
                        UpdateCaches, storeVars, compactorVars
    <3>3. MemoryInv'
      BY <2>4, <3>1 DEF MemoryInv, AcceptInv, WellFormed, UpdateCaches, storeVars, TypeOK
    <3>4. AcceptInv'
      BY <2>4 DEF AcceptInv, UpdateCaches, storeVars
    <3> QED
      BY <3>2, <3>3, <3>4
  <2>5. CASE UpdateHeights
    <3>1. TypeOK' /\ DiskInv'
      BY <2>5 DEF TypeOK, StoreTypeOK, CompactorTypeOK, DiskInv, WellFormed, UpdateHeights,
                  storeVars, compactorVars
    <3>2. MemoryInv' /\ AcceptInv'
      BY <2>5 DEF MemoryInv, AcceptInv, WellFormed, UpdateHeights, storeVars
    <3> QED
      BY <3>1, <3>2
  <2> QED
    BY <2>1, <2>2, <2>3, <2>4, <2>5
<1>2. disk' = disk
  BY DEF BeginAccept, IndexFails, PutBlock, UpdateCaches, UpdateHeights
<1>3. RoundInv'
  BY <1>2, AcceptKeepsRound DEF TypeOK
<1> QED
  BY <1>1, <1>3 DEF NoGapDetected

\* An abort goes back to what is committed, which is sound by itself.
LEMMA AbortKeeps ==
  ASSUME PluginInv, UNCHANGED <<compactorVars, base, status>>, InnerFails \/ DeferredAbort
  PROVE  PluginInv'
<1> USE DEF PluginInv
<1>1. DropMemory /\ disk' = disk
  BY DEF InnerFails, DeferredAbort
<1>2. TypeOK' /\ DiskInv'
  <2>1. StoreTypeOK'
    BY <1>1 DEF DropMemory, DiskInv, WellFormed, TypeOK, StoreTypeOK
  <2>2. DiskInv'
    BY <1>1 DEF DiskInv, WellFormed
  <2> QED
    BY <1>1, <2>1, <2>2 DEF TypeOK, CompactorTypeOK, InnerFails, DeferredAbort, compactorVars
<1>3. MemoryInv'
  BY <1>1 DEF DropMemory, DiskInv, MemoryInv, WellFormed, TypeOK, InnerFails, DeferredAbort
<1>4. AcceptInv'
  BY <1>1 DEF AcceptInv, InnerFails, DeferredAbort, TypeOK
<1>5. RoundInv'
  BY <1>1, AcceptKeepsRound DEF TypeOK
<1> QED
  BY <1>2, <1>3, <1>4, <1>5 DEF NoGapDetected

\* A commit carries the block that is accepted: indexBlock put it in the memory,
\* or it was committed before, and no round deletes it.
LEMMA CommitKeeps ==
  ASSUME PluginInv, UNCHANGED <<compactorVars, base, status>>, Commit
  PROVE  PluginInv'
<1> USE DEF PluginInv
<1>1. /\ height \in {disk.accepted, disk.accepted + 1} /\ height >= 1
      /\ height \in blocks
  BY DEF AcceptInv, Commit
<1>2. /\ disk' = [blocks |-> blocks, batches |-> batches, meta |-> meta, accepted |-> height]
      /\ UNCHANGED storeVars
  BY DEF Commit
<1>3. blocks \subseteq 1 .. height
  BY <1>1, <1>2 DEF MemoryInv, TypeOK
<1>4. TypeOK'
  BY <1>2 DEF TypeOK, StoreTypeOK, CompactorTypeOK, Commit, storeVars, compactorVars
<1>a. disk'.blocks = blocks /\ disk'.batches = batches /\ disk'.meta = meta
      /\ disk'.accepted = height
  BY <1>2
<1>b. WellFormed(disk'.batches) /\ WellFormed(batches)'
  BY <1>2, <1>a DEF MemoryInv, WellFormed, storeVars
<1>c. meta <= height /\ cacheLatest <= height + 1 /\ height \in Nat /\ disk.accepted \in Nat
  BY <1>1, GreaterType DEF MemoryInv, TypeOK, StoreTypeOK
<1>5. DiskInv'
  BY <1>1, <1>3, <1>a, <1>b, <1>c DEF DiskInv, WellFormed
<1>6. MemoryInv'
  <2>1. UNCHANGED <<blocks, meta, cacheLatest, height>>
    BY DEF Commit, storeVars
  <2>2. disk'.accepted + 1 \notin blocks'
    BY <2>1, <1>3, <1>a, <1>c
  <2>3. blocks' \subseteq 1 .. disk'.accepted + 1
    BY <2>1, <1>3, <1>a, <1>c
  <2> QED
    BY <1>1, <1>a, <1>b, <1>c, <2>1, <2>2, <2>3 DEF MemoryInv
<1>7. AcceptInv'
  BY <1>1, <1>2 DEF AcceptInv, Commit, TypeOK
<1>8. RoundInv'
  BY <1>1, <1>2, AcceptKeepsRound DEF TypeOK
<1> QED
  BY <1>4, <1>5, <1>6, <1>7, <1>8 DEF NoGapDetected

(***************************************************************************)
(* The compactor.                                                          *)
(***************************************************************************)

\* A step of the compactor that leaves the store alone only has to keep what
\* it knows of its own locals.
LEMMA RoundStepKeeps ==
  ASSUME PluginInv, UNCHANGED <<storeVars, acceptVars, disk, base, status>>,
         CompactorTypeOK', RoundInv'
  PROVE  PluginInv'
<1> USE DEF PluginInv
<1>1. TypeOK'
  BY DEF TypeOK, StoreTypeOK, storeVars, acceptVars
<1>2. DiskInv' /\ MemoryInv' /\ AcceptInv' /\ NoGapDetected'
  BY DEF DiskInv, MemoryInv, AcceptInv, NoGapDetected, WellFormed, storeVars, acceptVars
<1> QED
  BY <1>1, <1>2

\* A round that is over knows nothing.
LEMMA EndRoundInv ==
  ASSUME EndRound("idle") \/ EndRound("first")
  PROVE  CompactorTypeOK' /\ RoundInv'
<1>1. cpc' \in {"idle", "first"} /\ cFirst' = 0 /\ buf' = <<>>
  BY DEF EndRound
<1>2. buf' \in Seq(Nat)
  BY <1>1
<1>3. RoundBehindTip'
  BY <1>1 DEF RoundBehindTip
<1>4. cpc' \notin {"check", "read", "save"}
  BY <1>1
<1> QED
  BY <1>1, <1>2, <1>3, <1>4 DEF CompactorTypeOK, RoundInv

\* Looking for work and reading blocks.
LEMMA ReadsKeep ==
  ASSUME PluginInv, UNCHANGED <<acceptVars, disk, base, status>>,
         \/ Tick \/ FindFirst \/ CheckBacklog(cacheLatest > 0, cacheLatest) \/ ReadBlock
         \/ UNCHANGED <<batches, meta>> /\ RoundFails
  PROVE  PluginInv'
<1> USE DEF PluginInv
<1>1. UNCHANGED storeVars
  BY DEF Tick, FindFirst, CheckBacklog, ReadBlock, RoundFails, storeVars
<1>2. CompactorTypeOK' /\ RoundInv'
  <2>1. CASE Tick
    BY <2>1 DEF Tick, TypeOK, CompactorTypeOK, RoundInv, RoundBehindTip
  <2>2. CASE FindFirst
    <3>1. CASE EndRound("idle")
      BY <3>1, EndRoundInv
    <3>2. CASE blocks # {} /\ cpc' = "check" /\ cFirst' = FirstBlock /\ buf' = <<>>
      <4>1. FirstBlock \in blocks
        BY <3>2, FirstBlockIsLeast DEF TypeOK
      <4> QED
        BY <3>2, <4>1 DEF TypeOK, StoreTypeOK, CompactorTypeOK, RoundInv, RoundBehindTip
    <3> QED
      BY <2>2, <3>1, <3>2 DEF FindFirst
  <2>3. CASE CheckBacklog(cacheLatest > 0, cacheLatest)
    <3>1. CASE EndRound("idle")
      BY <3>1, EndRoundInv
    <3>2. CASE Backlog(cacheLatest) /\ cpc = "check" /\ cpc' = "read" /\ UNCHANGED <<cFirst, buf>>
      <4>1. cEnd \in Nat /\ cEnd' = cEnd /\ cStart' = cStart
        BY <3>2, RoundTypes DEF TypeOK, cEnd, cStart
      <4>2. RoundBehindTip'
        BY <3>2, <4>1 DEF RoundBehindTip, Backlog, MemoryInv, TypeOK
      <4>3. buf' = <<>>
        BY <3>2 DEF RoundInv
      <4> QED
        BY <3>2, <4>2, <4>3 DEF RoundInv, TypeOK, CompactorTypeOK
    <3> QED
      BY <2>3, <3>1, <3>2 DEF CheckBacklog
  <2>4. CASE ReadBlock
    <3>1. CASE EndRound("idle")
      BY <3>1, EndRoundInv
    <3>2. CASE /\ cpc = "read" /\ buf' = Append(buf, cStart + Len(buf)) /\ cFirst' = cFirst
               /\ cpc' = IF Len(buf) + 1 = BatchSize THEN "save" ELSE "read"
      <4>1. cStart \in Nat /\ cEnd \in Nat /\ cEnd' = cEnd /\ cStart' = cStart
        BY <3>2, RoundTypes DEF TypeOK, cEnd, cStart
      <4>2. RoundBehindTip'
        BY <3>2, <4>1 DEF RoundBehindTip, RoundInv
      <4>3. buf \in Seq(Nat) /\ Len(buf) < BatchSize
            /\ \A i \in 1 .. Len(buf) : buf[i] = cStart + i - 1
        BY <3>2 DEF TypeOK, CompactorTypeOK, RoundInv
      <4>4. /\ buf' \in Seq(Nat) /\ Len(buf') = Len(buf) + 1
            /\ \A i \in 1 .. Len(buf') : buf'[i] = cStart + i - 1
        BY <3>2, <4>1, <4>3
      <4>5. CompactorTypeOK'
        BY <3>2, <4>4 DEF TypeOK, CompactorTypeOK
      <4> QED
        BY <3>2, <4>1, <4>2, <4>3, <4>4, <4>5 DEF RoundInv
    <3> QED
      BY <2>4, <3>1, <3>2 DEF ReadBlock
  <2>5. CASE RoundFails
    BY <2>5, EndRoundInv DEF RoundFails
  <2> QED
    BY <2>1, <2>2, <2>3, <2>4, <2>5
<1> QED
  BY <1>1, <1>2, RoundStepKeeps

\* The three writes of a round go to the memory, behind the tip.
LEMMA WritesKeep ==
  ASSUME PluginInv, UNCHANGED <<acceptVars, disk, base, status>>,
         SaveBatch \/ SaveMeta \/ DeleteBlocks
  PROVE  PluginInv'
<1> USE DEF PluginInv
<1>1. cStart \in Nat /\ cEnd \in Nat /\ cEnd < disk.accepted
  BY RoundTypes, RoundSparesTip DEF TypeOK, RoundInv, SaveBatch, SaveMeta, DeleteBlocks
<1>2. DiskInv' /\ AcceptInv' /\ NoGapDetected'
  <2>1. DiskInv' /\ NoGapDetected'
    BY DEF DiskInv, NoGapDetected, WellFormed
  <2>2. apc \in {"announce", "inner"} => height \in blocks'
    BY <1>1 DEF AcceptInv, SaveBatch, SaveMeta, DeleteBlocks, WithoutBlocks, TypeOK
  <2> QED
    BY <2>1, <2>2 DEF AcceptInv, acceptVars
<1>3. CASE SaveBatch
  <2>1. buf \in Seq(Nat) /\ buf = [i \in 1 .. BatchSize |-> cStart + i - 1]
    <3>1. /\ buf \in Seq(Nat) /\ Len(buf) = BatchSize
          /\ \A i \in 1 .. Len(buf) : buf[i] = cStart + i - 1
      BY <1>3 DEF SaveBatch, TypeOK, CompactorTypeOK, RoundInv
    <3>2. buf \in [1 .. BatchSize -> Nat]
      BY <3>1
    <3>3. \A i \in 1 .. BatchSize : buf[i] = cStart + i - 1
      BY <3>1
    <3> HIDE DEF cStart
    <3> QED
      BY <3>1, <3>2, <3>3
  <2>2. WellFormed(batches')
    <3> DEFINE k == <<cStart, cEnd>>
    <3>1. batches' = [j \in DOMAIN batches \cup {k} |-> IF j = k THEN buf ELSE batches[j]]
      BY <1>3 DEF SaveBatch, WithBatch
    <3>2. k \in Nat \X Nat /\ k[1] = cStart
      BY <1>1
    <3>3. WellFormed(batches)
      BY DEF MemoryInv
    <3> HIDE DEF k
    <3> QED
      BY <2>1, <3>1, <3>2, <3>3 DEF WellFormed
  <2>3. MemoryInv'
    BY <1>3, <2>2 DEF MemoryInv, SaveBatch, acceptVars
  <2>4. TypeOK'
    BY <1>3, <2>2 DEF WellFormed, TypeOK, StoreTypeOK, CompactorTypeOK, SaveBatch, acceptVars
  <2>5. RoundInv'
    BY <1>3 DEF RoundInv, RoundBehindTip, SaveBatch, cEnd, cStart
  <2> QED
    BY <1>2, <2>3, <2>4, <2>5
<1>4. CASE SaveMeta
  <2>1. TypeOK'
    BY <1>1, <1>4 DEF TypeOK, StoreTypeOK, CompactorTypeOK, SaveMeta, acceptVars
  <2>2. MemoryInv'
    BY <1>1, <1>4 DEF MemoryInv, WellFormed, SaveMeta, acceptVars, TypeOK
  <2>3. RoundInv'
    BY <1>4 DEF RoundInv, RoundBehindTip, SaveMeta, cEnd, cStart
  <2> QED
    BY <1>2, <2>1, <2>2, <2>3
<1>5. CASE DeleteBlocks
  <2>1. CompactorTypeOK' /\ RoundInv'
    BY <1>5, EndRoundInv DEF DeleteBlocks
  <2>2. TypeOK'
    BY <1>5, <2>1 DEF TypeOK, StoreTypeOK, DeleteBlocks, WithoutBlocks, acceptVars
  <2>3. MemoryInv'
    BY <1>1, <1>5 DEF MemoryInv, WellFormed, DeleteBlocks, WithoutBlocks, acceptVars, TypeOK
  <2> QED
    BY <1>2, <2>1, <2>2, <2>3
<1> QED
  BY <1>3, <1>4, <1>5

(***************************************************************************)
(* Restart.                                                                *)
(***************************************************************************)
LEMMA RestartKeeps ==
  ASSUME PluginInv, Restart
  PROVE  PluginInv'
<1> USE DEF PluginInv
<1>1. /\ Highest(disk.blocks) \in Nat /\ Highest(disk.blocks) <= disk.accepted
      /\ RestoredIndexed \in Nat
      /\ RestoredIndexed > 0 =>
           RestoredIndexed = disk.accepted /\ disk.accepted \in disk.blocks
      /\ ~GapDetected
  BY Restored
<1>2. /\ DropMemory /\ disk' = disk /\ base' = base
      /\ cacheLatest' = Highest(disk.blocks) /\ lastIndexed' = RestoredIndexed
      /\ serverLatest' = RestoredIndexed /\ lastAccepted' = disk.accepted
      /\ status' = "up" /\ apc' = "idle" /\ height' = 0 /\ skipped' = FALSE
  BY <1>1 DEF Restart
<1>3. CompactorTypeOK' /\ RoundInv'
  BY EndRoundInv DEF Restart
<1>4. TypeOK'
  <2>1. StoreTypeOK'
    BY <1>2 DEF DropMemory, DiskInv, WellFormed, TypeOK, StoreTypeOK
  <2>2. {cacheLatest', serverLatest', lastIndexed', lastAccepted', height'} \subseteq Nat
    BY <1>1, <1>2 DEF TypeOK
  <2>3. disk'.blocks \subseteq Nat /\ disk'.meta \in Nat /\ disk'.accepted \in Nat
        /\ base' \in InstallHeights
    BY <1>2 DEF TypeOK
  <2>4. apc' = "idle" /\ skipped' \in BOOLEAN /\ status' = "up"
    BY <1>2
  <2> QED
    BY <1>3, <2>1, <2>2, <2>3, <2>4 DEF TypeOK
<1>5. DiskInv'
  BY <1>2 DEF DiskInv, WellFormed
<1>6. MemoryInv'
  <2>1. /\ blocks' = disk.blocks /\ batches' = disk.batches /\ meta' = disk.meta
        /\ disk'.accepted = disk.accepted /\ disk'.blocks = disk.blocks
    BY <1>2 DEF DropMemory
  <2>2. WellFormed(batches)'
    BY <2>1 DEF DiskInv, WellFormed
  <2>3. blocks' \subseteq 1 .. disk'.accepted /\ disk'.accepted \in Nat
    BY <2>1 DEF DiskInv, TypeOK
  <2>4. meta' <= disk'.accepted /\ cacheLatest' <= disk'.accepted + 1
    BY <1>1, <1>2, <2>1 DEF DiskInv, TypeOK
  <2>5. blocks' \subseteq 1 .. disk'.accepted + 1 /\ disk'.accepted + 1 \notin blocks'
    BY <2>3
  <2> QED
    BY <2>1, <2>2, <2>4, <2>5 DEF MemoryInv
<1>7. AcceptInv' /\ NoGapDetected'
  BY <1>1, <1>2 DEF AcceptInv, NoGapDetected
<1> QED
  BY <1>3, <1>4, <1>5, <1>6, <1>7

\* The inductive invariant of the committed store, the memory over it, an Accept
\* and a round.
THEOREM PluginInvariant == Spec => []PluginInv
<1>1. PluginInv /\ [Next]_vars => PluginInv'
  <2> SUFFICES ASSUME PluginInv, [Next]_vars PROVE PluginInv'
    OBVIOUS
  <2>1. CASE AcceptStep
    BY <2>1, MemoryStepsKeep, AbortKeeps, CommitKeeps DEF AcceptStep
  <2>2. CASE CompactStep
    BY <2>2, ReadsKeep, WritesKeep DEF CompactStep, CompactorStep
  <2>3. CASE Restart
    BY <2>3, RestartKeeps
  <2>4. CASE UNCHANGED vars
    <3>1. UNCHANGED <<storeVars, acceptVars, disk, base, status, compactorVars>>
      BY <2>4 DEF vars
    <3>2. CompactorTypeOK' /\ RoundInv'
      BY <3>1 DEF PluginInv, TypeOK, CompactorTypeOK, RoundInv, RoundBehindTip, cEnd, cStart,
                  compactorVars
    <3> QED
      BY <3>1, <3>2, RoundStepKeeps
  <2> QED
    BY <2>1, <2>2, <2>3, <2>4 DEF Next
<1> QED
  BY InitInv, <1>1, PTL DEF Spec

\* Initialize never finds the chain ahead of the indexer: the FATAL check of
\* vm.go is, as its comment says, a safety net.
THEOREM NoGap == Spec => []NoGapDetected
<1>1. PluginInv => NoGapDetected
  BY DEF PluginInv
<1> QED
  BY <1>1, PluginInvariant, PTL

\* The chain never commits a block without the indexer's data for it.
THEOREM IndexIsCommittedWithBlock == Spec => []CommitCarriesIndex
<1>1. PluginInv => CommitCarriesIndex
  BY DEF PluginInv, DiskInv, CommitCarriesIndex
<1> QED
  BY <1>1, PluginInvariant, PTL

\* Between two Accepts the indexer is exactly at the height of the chain.
THEOREM IndexerFollowsChain == Spec => []IndexerInStep
<1>1. PluginInv => IndexerInStep
  BY DEF PluginInv, AcceptInv, IndexerInStep
<1> QED
  BY <1>1, PluginInvariant, PTL

\* A round of compactOneBatch, decided on a cached latest block that may have
\* been aborted since, still ends below the last accepted block.
THEOREM RoundsEndBehindTip == Spec => []RoundBehindTip
<1>1. PluginInv => RoundBehindTip
  BY DEF PluginInv, RoundInv
<1> QED
  BY <1>1, PluginInvariant, PTL

\* The state of the plugin is well typed.
THEOREM PluginTypeCorrect == Spec => []TypeOK
<1>1. PluginInv => TypeOK
  BY DEF PluginInv
<1> QED
  BY <1>1, PluginInvariant, PTL

\* Every batch the compactor saves holds the blocks of its key in order, although
\* it reads them one by one from a memory another goroutine drops.
THEOREM BatchesKeepOrder == Spec => []BatchesWellFormed
<1>1. PluginInv => BatchesWellFormed
  BY DEF PluginInv, MemoryInv, WellFormed, BatchesWellFormed
<1> QED
  BY <1>1, PluginInvariant, PTL

=============================================================================
