----------------------------- MODULE SinkProofs -----------------------------
(***************************************************************************)
(* Proofs about the standalone sink, for every batch size, every number of *)
(* blocks kept back and every chain height: the inductive invariant and    *)
(* the safety properties that follow from it.                              *)
(***************************************************************************)
EXTENDS Sink, StoreProofs

USE BatchSizeAssumption, MinBlocksAssumption, ChainHeightAssumption

\* The blocks reach up to the last one saved, so LatestBlock is that one.
LEMMA LatestBlockIsSaved ==
  ASSUME TypeOK, BlocksContiguous, blocks # {}
  PROVE  LatestBlock = saved
<1>1. saved \in blocks /\ \A m \in blocks : m <= saved
  BY DEF TypeOK, StoreTypeOK, IngestionTypeOK, BlocksContiguous
<1>2. LatestBlock \in blocks /\ \A m \in blocks : m <= LatestBlock
  BY <1>1 DEF LatestBlock
<1> QED
  BY <1>1, <1>2 DEF TypeOK, StoreTypeOK, IngestionTypeOK

\* With no individual block left, the batches end at the last block saved.
LEMMA LatestBatchIsSaved ==
  ASSUME TypeOK, StoreInv, blocks = {}, DOMAIN batches # {}
  PROVE  LatestBatch = saved
<1>1. PICK k \in DOMAIN batches : TRUE
  OBVIOUS
<1>2. saved \in Nat \ {0}
  <2>1. k[1] \in Nat \ {0} /\ k[2] <= saved /\ k = BatchKey(k[1])
    BY <1>1 DEF TypeOK, StoreTypeOK, StoreInv, BatchesSound
  <2>2. k[2] = k[1] + BatchSize - 1
    BY <2>1 DEF BatchKey, BatchEnd
  <2> QED
    BY <2>1, <2>2 DEF TypeOK, IngestionTypeOK
<1> DEFINE top == BatchKey(BatchStart(saved))
<1>3. top \in DOMAIN batches
  BY <1>2 DEF StoreInv, Covered, HasBatch
<1>4. top[1] = BatchStart(saved) /\ top[2] = BatchEnd(BatchStart(saved))
  BY DEF BatchKey
<1>5. top[2] = saved
  <2>1. top[2] <= saved
    BY <1>3 DEF StoreInv, BatchesSound
  <2>2. saved <= top[2] /\ top[2] \in Nat
    BY <1>2, <1>4, BatchHoldsBlock
  <2> QED
    BY <1>2, <2>1, <2>2
<1>6. \A j \in DOMAIN batches :
        j[1] \in Nat /\ j[2] = j[1] + BatchSize - 1 /\ j[2] <= saved
  BY DEF TypeOK, StoreTypeOK, StoreInv, BatchesSound, BatchKey, BatchEnd
<1>7. \A j \in DOMAIN batches : j[1] <= top[1]
  BY <1>2, <1>3, <1>5, <1>6
<1> DEFINE last == CHOOSE j \in DOMAIN batches : \A i \in DOMAIN batches : i[1] <= j[1]
<1>8. last \in DOMAIN batches /\ \A i \in DOMAIN batches : i[1] <= last[1]
  BY <1>3, <1>7
<1>9. last[1] = top[1]
  BY <1>3, <1>6, <1>7, <1>8
<1>10. last[2] = saved
  BY <1>3, <1>5, <1>6, <1>8, <1>9
<1> QED
  BY <1>10 DEF LatestBatch

(***************************************************************************)
(* The four ways the store changes.                                        *)
(***************************************************************************)

\* Saving the next block.
LEMMA AddKeepsStore ==
  ASSUME TypeOK, StoreInv, blocks' = WithBlock(saved + 1), saved' = saved + 1,
         UNCHANGED <<batches, meta>>
  PROVE  StoreInv'
<1> USE DEF TypeOK, StoreTypeOK, IngestionTypeOK, WithBlock
<1>1. BatchesSound'
  BY DEF StoreInv, BatchesSound, BatchKey, BatchEnd
<1>2. Covered'
  BY DEF StoreInv, Covered, HasBatch, BatchKey, BatchEnd, BatchStart
<1>3. BatchesPrefix' /\ MetaSound'
  BY DEF StoreInv, BatchesPrefix, MetaSound, HasBatch, BatchKey, BatchEnd, BatchStart
<1>4. BlocksContiguous'
  BY DEF StoreInv, BlocksContiguous
<1>5. FirstBlockAligned'
  <2> DEFINE s == BatchStart(saved + 1)
  <2>1. s \in Nat \ {0} /\ s <= saved + 1 /\ saved + 1 <= BatchEnd(s)
    BY BatchHoldsBlock
  <2>2. BatchStart(s) = s
    BY BatchStartAligned
  <2> HIDE DEF s
  <2>3. CASE s = saved + 1
    BY <2>3 DEF StoreInv, FirstBlockAligned, BatchStart, s
  <2>4. CASE s # saved + 1
    <3>1. s \in 1 .. saved
      BY <2>1, <2>4
    <3>2. s \in blocks \/ BatchKey(s) \in DOMAIN batches
      BY <2>2, <3>1 DEF StoreInv, Covered, HasBatch
    <3>3. BatchKey(s) \notin DOMAIN batches
      BY <2>1 DEF StoreInv, BatchesSound, BatchKey
    <3>4. s \in blocks
      BY <3>2, <3>3
    <3> QED
      BY <3>4 DEF StoreInv, FirstBlockAligned, BatchStart, s
  <2> QED
    BY <2>3, <2>4
<1>6. TipStaysIndividual'
  BY DEF StoreInv, TipStaysIndividual
<1> QED
  BY <1>1, <1>2, <1>3, <1>4, <1>5, <1>6 DEF StoreInv

\* The compactor writing the batch it has read.
LEMMA BatchKeepsStore ==
  ASSUME TypeOK, StoreInv, RoundInv, cpc = "save",
         batches' = WithBatch(cStart, cEnd, buf), UNCHANGED <<blocks, meta, saved>>
  PROVE  StoreInv' /\ BatchKey(cStart) \in DOMAIN batches'
<1> USE DEF TypeOK, StoreTypeOK, IngestionTypeOK, CompactorTypeOK
<1> DEFINE key == BatchKey(cStart)
<1>1. cFirst \in blocks /\ cFirst \in 1 .. saved /\ \A m \in blocks : cFirst <= m
  BY DEF RoundInv, StoreInv, BlocksContiguous
<1>2. /\ cStart \in Nat \ {0} /\ cStart <= cFirst /\ cFirst <= cEnd /\ cEnd \in Nat
      /\ BatchStart(cStart) = cStart
  <2>1. cFirst \in Nat \ {0}
    BY <1>1
  <2>2. cStart \in Nat \ {0} /\ cStart <= cFirst /\ cFirst <= cEnd /\ cEnd \in Nat
    BY <2>1, BatchHoldsBlock DEF cStart, cEnd
  <2>3. cStart \in BatchStart(cFirst) .. BatchEnd(BatchStart(cFirst))
    BY <2>1, <2>2 DEF cStart, cEnd
  <2> QED
    BY <2>1, <2>2, <2>3, BatchIsUnique DEF cStart
<1>3. cEnd <= saved
  BY <1>2 DEF RoundInv
<1>4. key = <<cStart, cEnd>> /\ key[1] = cStart /\ key[2] = cEnd
  BY DEF BatchKey, cEnd
<1>5. /\ DOMAIN batches' = DOMAIN batches \cup {key}
      /\ batches'[key] = buf
      /\ \A k \in DOMAIN batches \ {key} : batches'[k] = batches[k]
  BY <1>4 DEF WithBatch
<1> HIDE DEF key
<1>6. BatchesSound'
  <2> SUFFICES ASSUME NEW k \in DOMAIN batches'
               PROVE  /\ k[1] # 0 /\ BatchStart(k[1]) = k[1] /\ k = BatchKey(k[1])
                      /\ k[2] <= saved
                      /\ Len(batches'[k]) = BatchSize
                      /\ \A i \in 1 .. BatchSize : batches'[k][i] = k[1] + i - 1
    BY DEF BatchesSound, BatchKey, BatchEnd, BatchStart
  <2>1. CASE k = key
    BY <1>2, <1>3, <1>4, <1>5, <2>1 DEF RoundInv, key
  <2>2. CASE k # key
    BY <1>5, <2>2 DEF StoreInv, BatchesSound
  <2> QED
    BY <2>1, <2>2
<1>7. \A n \in 1 .. cEnd : BatchKey(BatchStart(n)) \in DOMAIN batches'
  <2> TAKE n \in 1 .. cEnd
  <2>1. CASE n \in blocks
    <3>1. n \in cStart .. cEnd
      BY <1>1, <1>2, <2>1
    <3>2. BatchStart(n) = cStart
      BY <1>1, <3>1, BatchIsUnique DEF cStart, cEnd
    <3> QED
      BY <1>5, <3>2 DEF key
  <2>2. CASE n \notin blocks
    BY <1>2, <1>3, <1>5, <2>2 DEF StoreInv, Covered, HasBatch
  <2> QED
    BY <2>1, <2>2
<1>8. BatchesPrefix'
  <2> SUFFICES ASSUME NEW k \in DOMAIN batches', NEW n \in 1 .. k[2]
               PROVE  BatchKey(BatchStart(n)) \in DOMAIN batches'
    BY DEF BatchesPrefix, HasBatch, BatchKey, BatchEnd, BatchStart
  <2>1. CASE k = key
    BY <1>4, <1>7, <2>1
  <2>2. CASE k # key
    BY <1>5, <2>2 DEF StoreInv, BatchesPrefix, HasBatch
  <2> QED
    BY <2>1, <2>2
<1>9. Covered'
  BY <1>5 DEF StoreInv, Covered, HasBatch, BatchKey, BatchEnd, BatchStart
<1>10. MetaSound'
  BY <1>5 DEF StoreInv, MetaSound
<1>11. BlocksContiguous' /\ FirstBlockAligned' /\ TipStaysIndividual'
  BY DEF StoreInv, BlocksContiguous, FirstBlockAligned, TipStaysIndividual, BatchStart
<1> QED
  BY <1>5, <1>6, <1>8, <1>9, <1>10, <1>11 DEF StoreInv, key, BatchKey, BatchEnd, cStart, BatchStart

\* The compactor recording the end of a batch it has written.
LEMMA MetaKeepsStore ==
  ASSUME TypeOK, StoreInv, RoundInv, cpc = "meta", meta' = cEnd,
         UNCHANGED <<blocks, batches, saved>>
  PROVE  StoreInv'
<1>1. BatchKey(cStart) \in DOMAIN batches /\ BatchKey(cStart)[2] = cEnd
  BY DEF RoundInv, BatchKey, cEnd
<1>2. MetaSound'
  BY <1>1 DEF MetaSound
<1>3. BatchesSound' /\ Covered' /\ BatchesPrefix'
  BY DEF StoreInv, BatchesSound, Covered, BatchesPrefix, HasBatch, BatchKey, BatchEnd, BatchStart
<1>4. BlocksContiguous' /\ FirstBlockAligned' /\ TipStaysIndividual'
  BY DEF StoreInv, BlocksContiguous, FirstBlockAligned, TipStaysIndividual, BatchStart
<1> QED
  BY <1>2, <1>3, <1>4 DEF StoreInv

\* The compactor deleting the blocks of a batch it has written.
LEMMA DeleteKeepsStore ==
  ASSUME TypeOK, StoreInv, RoundInv, cpc = "delete",
         blocks' = WithoutBlocks(cStart, cEnd), UNCHANGED <<batches, meta, saved>>
  PROVE  StoreInv'
<1> USE DEF TypeOK, StoreTypeOK, IngestionTypeOK, CompactorTypeOK, WithoutBlocks
<1>1. cFirst \in blocks /\ cFirst \in 1 .. saved /\ \A m \in blocks : cFirst <= m
  BY DEF RoundInv, StoreInv, BlocksContiguous
<1>2. cStart \in Nat \ {0} /\ cStart <= cFirst /\ cFirst <= cEnd /\ cEnd \in Nat
  BY <1>1, BatchHoldsBlock DEF cStart, cEnd
<1>3. cEnd + MinBlocks <= saved /\ BatchKey(cStart) \in DOMAIN batches
  BY DEF RoundInv
<1>4. \A n \in cStart .. cEnd : BatchStart(n) = cStart
  BY <1>1, BatchIsUnique DEF cStart, cEnd
<1>5. BatchesSound' /\ BatchesPrefix' /\ MetaSound'
  BY DEF StoreInv, BatchesSound, BatchesPrefix, MetaSound, HasBatch, BatchKey, BatchEnd, BatchStart
<1>6. Covered'
  <2> SUFFICES ASSUME NEW n \in 1 .. saved, n \notin blocks'
               PROVE  BatchKey(BatchStart(n)) \in DOMAIN batches
    BY DEF Covered, HasBatch, BatchKey, BatchEnd, BatchStart
  <2>1. CASE n \in blocks
    BY <1>3, <1>4, <2>1
  <2>2. CASE n \notin blocks
    BY <2>2 DEF StoreInv, Covered, HasBatch
  <2> QED
    BY <2>1, <2>2
<1>7. \A n \in blocks' : n > cEnd
  BY <1>1, <1>2
<1>8. BlocksContiguous'
  BY <1>2, <1>7 DEF StoreInv, BlocksContiguous
<1>9. FirstBlockAligned'
  <2> SUFFICES ASSUME NEW n \in blocks'
               PROVE  BatchStart(n) \in blocks'
    BY DEF FirstBlockAligned, BatchStart
  <2>1. n \in Nat \ {0} /\ BatchStart(n) \in blocks
    BY DEF StoreInv, FirstBlockAligned, BlocksContiguous
  <2>2. BatchStart(BatchStart(n)) = BatchStart(n) /\ n <= BatchEnd(BatchStart(n))
    BY <2>1, BatchHoldsBlock, BatchStartAligned
  <2>3. BatchStart(n) \notin cStart .. cEnd
    <3> SUFFICES ASSUME BatchStart(n) \in cStart .. cEnd PROVE FALSE
      OBVIOUS
    <3>1. BatchStart(n) = cStart
      BY <1>4, <2>2
    <3> QED
      BY <1>2, <1>7, <2>1, <2>2, <3>1 DEF cEnd
  <2> QED
    BY <2>1, <2>3
<1>10. TipStaysIndividual'
  BY <1>2, <1>3 DEF StoreInv, TipStaysIndividual
<1> QED
  BY <1>5, <1>6, <1>8, <1>9, <1>10 DEF StoreInv

\* A step that leaves the store alone.
LEMMA SameKeepsStore ==
  ASSUME StoreInv, UNCHANGED <<storeVars, saved>>
  PROVE  StoreInv'
  BY DEF StoreInv, BatchesSound, Covered, BatchesPrefix, MetaSound, BlocksContiguous,
         FirstBlockAligned, TipStaysIndividual, HasBatch, BatchKey, BatchEnd, BatchStart, storeVars

(***************************************************************************)
(* Every step keeps the invariant: first the compactor's, then ingestion's.*)
(***************************************************************************)
LEMMA InitInv == Init => IndInv
<1> SUFFICES ASSUME Init PROVE IndInv
  OBVIOUS
<1> USE DEF Init, StoreInit, CompactorInit, IngestionInit
<1>1. TypeOK
  BY DEF TypeOK, StoreTypeOK, CompactorTypeOK, IngestionTypeOK
<1>2. StoreInv
  BY DEF StoreInv, BatchesSound, Covered, BatchesPrefix, MetaSound, BlocksContiguous,
         FirstBlockAligned, TipStaysIndividual
<1>3. RoundInv /\ IngestionInv
  BY DEF RoundInv, IngestionInv, ResumeIsExact
<1> QED
  BY <1>1, <1>2, <1>3 DEF IndInv

\* A round that is over has nothing to know.
LEMMA EndRoundInv ==
  ASSUME NEW next \in {"idle", "first"}, EndRound(next)
  PROVE  RoundInv' /\ CompactorTypeOK'
  BY DEF EndRound, RoundInv, CompactorTypeOK

LEMMA CompactKeepsInv ==
  ASSUME IndInv, Compact
  PROVE  IndInv'
<1> USE DEF IndInv, TypeOK, StoreTypeOK, CompactorTypeOK, IngestionTypeOK
<1>0. UNCHANGED ingestionVars
  BY DEF Compact
<1>a. ASSUME UNCHANGED storeVars PROVE StoreInv' /\ IngestionInv' /\ StoreTypeOK'
  BY <1>0, <1>a, SameKeepsStore
     DEF ingestionVars, storeVars, IngestionInv, ResumeIsExact
<1>b. IngestionTypeOK'
  BY <1>0 DEF ingestionVars
<1>1. CASE Tick
  <2>1. RoundInv' /\ CompactorTypeOK'
    BY <1>1 DEF Tick, RoundInv
  <2> QED
    BY <1>1, <1>a, <1>b, <2>1 DEF Tick
<1>2. CASE FindFirst
  <2>1. CASE blocks # {} /\ cFirst' = FirstBlock /\ buf' = <<>> /\ cpc' = "check"
    <3>1. FirstBlock \in blocks /\ \A m \in blocks : FirstBlock <= m
      BY <2>1, FirstBlockIsLeast
    <3>2. CompactorTypeOK'
      BY <2>1, <3>1
    <3>3. RoundInv'
      BY <1>2, <2>1, <3>1 DEF FindFirst, RoundInv, storeVars
    <3> QED
      BY <1>2, <1>a, <1>b, <3>2, <3>3 DEF FindFirst
  <2>2. CASE EndRound("idle")
    BY <1>2, <1>a, <1>b, <2>2, EndRoundInv DEF FindFirst
  <2> QED
    BY <1>2, <2>1, <2>2 DEF FindFirst
<1>3. CASE CheckBacklog(blocks # {}, LatestBlock)
  <2>1. CASE /\ blocks # {} /\ Backlog(LatestBlock) /\ cpc = "check"
             /\ cpc' = "read" /\ UNCHANGED <<cFirst, buf>>
    <3>1. cEnd + MinBlocks <= saved
      BY <2>1, LatestBlockIsSaved DEF Backlog, StoreInv
    <3>2. CompactorTypeOK'
      BY <2>1
    <3>3. RoundInv'
      BY <1>3, <1>0, <2>1, <3>1
         DEF CheckBacklog, RoundInv, storeVars, ingestionVars, cEnd, cStart, BatchStart, BatchEnd
    <3> QED
      BY <1>3, <1>a, <1>b, <3>2, <3>3 DEF CheckBacklog
  <2>2. CASE EndRound("idle")
    BY <1>3, <1>a, <1>b, <2>2, EndRoundInv DEF CheckBacklog
  <2> QED
    BY <1>3, <2>1, <2>2 DEF CheckBacklog
<1>4. CASE ReadBlock
  <2> DEFINE n == cStart + Len(buf)
  <2>1. CASE /\ n \in blocks /\ buf' = Append(buf, n) /\ cpc = "read" /\ UNCHANGED cFirst
             /\ cpc' = IF Len(buf) + 1 = BatchSize THEN "save" ELSE "read"
    <3>1. n \in Nat /\ Len(buf) \in Nat /\ Len(buf) < BatchSize
      BY <2>1 DEF RoundInv
    <3>2. buf' \in Seq(Nat) /\ Len(buf') = Len(buf) + 1
      BY <2>1, <3>1
    <3>3. \A i \in 1 .. Len(buf') : buf'[i] = cStart + i - 1
      <4>1. \A i \in 1 .. Len(buf) : buf'[i] = buf[i] /\ buf[i] = cStart + i - 1
        BY <2>1, <3>1 DEF RoundInv
      <4>2. buf'[Len(buf) + 1] = n
        BY <2>1, <3>1
      <4>3. cStart \in Int
        BY BatchHoldsBlock, <2>1 DEF RoundInv, StoreInv, BlocksContiguous, cStart
      <4>4. SUFFICES ASSUME NEW i \in 1 .. Len(buf')
                    PROVE  buf'[i] = cStart + i - 1
        OBVIOUS
      <4>5. CASE i \in 1 .. Len(buf)
        BY <4>1, <4>5
      <4>6. CASE i = Len(buf) + 1
        BY <3>1, <4>2, <4>3, <4>6
      <4> QED
        BY <3>1, <3>2, <4>5, <4>6
    <3>4. cStart' = cStart /\ cEnd' = cEnd
      BY <2>1 DEF cStart, cEnd, BatchStart, BatchEnd
    <3>5. CompactorTypeOK'
      BY <2>1, <3>2
    <3>6. RoundInv'
      BY <1>4, <1>0, <2>1, <3>1, <3>2, <3>3, <3>4
         DEF ReadBlock, RoundInv, storeVars, ingestionVars
    <3> QED
      BY <1>4, <1>a, <1>b, <3>5, <3>6 DEF ReadBlock
  <2>2. CASE EndRound("idle")
    BY <1>4, <1>a, <1>b, <2>2, EndRoundInv DEF ReadBlock
  <2> QED
    BY <1>4, <2>1, <2>2 DEF ReadBlock
<1>5. CASE SaveBatch
  <2>1. StoreInv' /\ BatchKey(cStart) \in DOMAIN batches'
    BY <1>5, <1>0, BatchKeepsStore DEF SaveBatch, ingestionVars
  <2>2. cStart' = cStart /\ cEnd' = cEnd
    BY <1>5 DEF SaveBatch, cStart, cEnd, BatchStart, BatchEnd
  <2>3. RoundInv' /\ CompactorTypeOK'
    BY <1>5, <1>0, <2>1, <2>2
       DEF SaveBatch, RoundInv, ingestionVars, BatchKey, BatchEnd
  <2>4. IngestionInv'
    BY <1>5, <1>0 DEF SaveBatch, IngestionInv, ResumeIsExact, ingestionVars
  <2>5. cStart \in Nat /\ cEnd \in Nat
    BY <1>5, BatchHoldsBlock DEF SaveBatch, RoundInv, StoreInv, BlocksContiguous, cStart, cEnd
  <2>6. StoreTypeOK'
    BY <1>5, <2>5 DEF SaveBatch, WithBatch
  <2> QED
    BY <1>b, <2>1, <2>3, <2>4, <2>6
<1>6. CASE SaveMeta
  <2>1. StoreInv'
    BY <1>6, <1>0, MetaKeepsStore DEF SaveMeta, ingestionVars
  <2>2. cStart' = cStart /\ cEnd' = cEnd
    BY <1>6 DEF SaveMeta, cStart, cEnd, BatchStart, BatchEnd
  <2>3. RoundInv' /\ CompactorTypeOK'
    BY <1>6, <1>0, <2>2 DEF SaveMeta, RoundInv, ingestionVars, BatchKey, BatchEnd
  <2>4. IngestionInv'
    BY <1>6, <1>0 DEF SaveMeta, IngestionInv, ResumeIsExact, ingestionVars
  <2>5. cEnd \in Nat
    BY <1>6, BatchHoldsBlock DEF SaveMeta, RoundInv, StoreInv, BlocksContiguous, cStart, cEnd
  <2>6. StoreTypeOK'
    BY <1>6, <2>5 DEF SaveMeta
  <2> QED
    BY <1>b, <2>1, <2>3, <2>4, <2>6
<1>7. CASE DeleteBlocks
  <2>1. StoreInv'
    BY <1>7, <1>0, DeleteKeepsStore DEF DeleteBlocks, ingestionVars
  <2>2. RoundInv' /\ CompactorTypeOK'
    BY <1>7, EndRoundInv DEF DeleteBlocks
  <2>3. StoreTypeOK' /\ IngestionInv'
    BY <1>7, <1>0
       DEF DeleteBlocks, WithoutBlocks, IngestionInv, ResumeIsExact, ingestionVars
  <2> QED
    BY <1>b, <2>1, <2>2, <2>3
<1> QED
  BY <1>1, <1>2, <1>3, <1>4, <1>5, <1>6, <1>7 DEF Compact, CompactorStep

\* Saving the next block does not disturb a compaction round.
LEMMA RoundSurvivesAdd ==
  ASSUME IndInv, blocks' = WithBlock(saved + 1), saved' = saved + 1,
         UNCHANGED <<batches, compactorVars>>
  PROVE  RoundInv' /\ CompactorTypeOK'
<1> USE DEF IndInv, TypeOK, StoreTypeOK, CompactorTypeOK, IngestionTypeOK
<1>1. cStart' = cStart /\ cEnd' = cEnd /\ BatchKey(cStart)' = BatchKey(cStart)
  BY DEF compactorVars, cStart, cEnd, BatchStart, BatchEnd, BatchKey
<1>2. cpc \in {"read", "save", "meta", "delete"} => cEnd \in Nat
  BY BatchHoldsBlock DEF RoundInv, StoreInv, BlocksContiguous, cStart, cEnd
<1> QED
  BY <1>1, <1>2 DEF compactorVars, RoundInv, WithBlock, StoreInv, BlocksContiguous

LEMMA IngestKeepsInv ==
  ASSUME IndInv, Ingest
  PROVE  IndInv'
<1> USE DEF IndInv, TypeOK, StoreTypeOK, CompactorTypeOK, IngestionTypeOK
<1>0. UNCHANGED compactorVars
  BY DEF Ingest
<1>a. ASSUME UNCHANGED <<storeVars, saved>>
      PROVE  StoreInv' /\ RoundInv' /\ StoreTypeOK' /\ CompactorTypeOK'
  BY <1>0, <1>a, SameKeepsStore
     DEF compactorVars, storeVars, RoundInv, cStart, cEnd, BatchKey, BatchStart, BatchEnd
<1>1. CASE ResumeFromBlocks
  <2>1. blocks # {} => LatestBlock = saved
    BY LatestBlockIsSaved DEF StoreInv
  <2>2. IngestionInv' /\ IngestionTypeOK'
    BY <1>1, <2>1 DEF ResumeFromBlocks, IngestionInv, ResumeIsExact, storeVars
  <2> QED
    BY <1>1, <1>a, <2>2 DEF ResumeFromBlocks
<1>2. CASE ResumeFallback
  <2>1. blocks = {}
    BY <1>2 DEF ResumeFallback, IngestionInv
  <2>2. DOMAIN batches # {} => LatestBatch = saved
    BY <2>1, LatestBatchIsSaved
  <2>3. DOMAIN batches = {} => saved = 0 /\ meta = 0
    BY <2>1 DEF StoreInv, Covered, HasBatch, MetaSound
  <2>4. currentBlock' = saved + 1
    BY <1>2, <2>2, <2>3 DEF ResumeFallback
  <2>5. ipc' = "stream" /\ UNCHANGED <<latestBlock, saved>>
    BY <1>2 DEF ResumeFallback
  <2>6. IngestionInv' /\ IngestionTypeOK'
    BY <2>4, <2>5 DEF IngestionInv, ResumeIsExact
  <2> QED
    BY <1>2, <1>a, <2>6 DEF ResumeFallback
<1>3. CASE \E num \in 1 .. ChainHeight : SaveReceived(num)
  <2>1. PICK num \in 1 .. ChainHeight : SaveReceived(num)
    BY <1>3
  <2>2. currentBlock = saved + 1 /\ num = saved + 1
    BY <2>1 DEF SaveReceived, IngestionInv, ResumeIsExact
  <2>3. blocks' = WithBlock(saved + 1) /\ saved' = saved + 1 /\ UNCHANGED <<batches, meta>>
    BY <2>1, <2>2 DEF SaveReceived, Advance
  <2>4. StoreInv'
    BY <2>3, AddKeepsStore
  <2>5. RoundInv' /\ CompactorTypeOK'
    BY <1>0, <2>3, RoundSurvivesAdd
  <2>6. IngestionInv' /\ IngestionTypeOK' /\ StoreTypeOK'
    BY <2>1, <2>2, <2>3 DEF SaveReceived, WithBlock, IngestionInv, ResumeIsExact
  <2> QED
    BY <2>4, <2>5, <2>6
<1>4. CASE UpdateLatestBlock
  <2>1. IngestionInv' /\ IngestionTypeOK'
    BY <1>4 DEF UpdateLatestBlock, IngestionInv, ResumeIsExact
  <2> QED
    BY <1>4, <1>a, <2>1 DEF UpdateLatestBlock
<1>5. CASE Retry
  <2>1. IngestionInv' /\ IngestionTypeOK'
    BY <1>5 DEF Retry, IngestionInv, ResumeIsExact
  <2> QED
    BY <1>5, <1>a, <2>1 DEF Retry
<1> QED
  BY <1>1, <1>2, <1>3, <1>4, <1>5 DEF Ingest, IngestionStep

LEMMA FaultKeepsInv ==
  ASSUME IndInv, Fault
  PROVE  IndInv'
<1> USE DEF IndInv, TypeOK, StoreTypeOK, CompactorTypeOK, IngestionTypeOK
<1>1. CASE RoundFails /\ UNCHANGED ingestionVars
  <2>1. StoreInv'
    <3>1. CASE UNCHANGED storeVars
      BY <1>1, <3>1, SameKeepsStore DEF ingestionVars
    <3>2. CASE cpc = "save" /\ batches' = WithBatch(cStart, cEnd, buf) /\ UNCHANGED meta
      BY <1>1, <3>2, BatchKeepsStore DEF RoundFails, ingestionVars
    <3>3. CASE cpc = "meta" /\ meta' = cEnd /\ UNCHANGED batches
      BY <1>1, <3>3, MetaKeepsStore DEF RoundFails, ingestionVars
    <3> QED
      BY <1>1, <3>1, <3>2, <3>3 DEF RoundFails, storeVars
  <2>2. RoundInv' /\ CompactorTypeOK'
    BY <1>1, EndRoundInv DEF RoundFails
  <2>3. cpc \in {"save", "meta"} => cStart \in Nat /\ cEnd \in Nat
    BY BatchHoldsBlock DEF RoundInv, StoreInv, BlocksContiguous, cStart, cEnd
  <2>4. StoreTypeOK'
    BY <1>1, <2>3 DEF RoundFails, WithBatch
  <2>5. IngestionInv' /\ IngestionTypeOK'
    BY <1>1 DEF RoundFails, IngestionInv, ResumeIsExact, ingestionVars
  <2> QED
    BY <2>1, <2>2, <2>4, <2>5
<1>2. CASE DeleteFails /\ UNCHANGED ingestionVars
  <2>1. StoreInv'
    <3>1. CASE blocks' = blocks
      BY <1>2, <3>1, SameKeepsStore DEF DeleteFails, ingestionVars, storeVars
    <3>2. CASE blocks' = WithoutBlocks(cStart, cEnd)
      BY <1>2, <3>2, DeleteKeepsStore DEF DeleteFails, ingestionVars
    <3> QED
      BY <1>2, <3>1, <3>2 DEF DeleteFails
  <2>2. RoundInv' /\ CompactorTypeOK'
    BY <1>2, EndRoundInv DEF DeleteFails
  <2>3. StoreTypeOK' /\ IngestionInv' /\ IngestionTypeOK'
    BY <1>2 DEF DeleteFails, WithoutBlocks, IngestionInv, ResumeIsExact, ingestionVars
  <2> QED
    BY <2>1, <2>2, <2>3
<1>3. CASE IngestionFault /\ UNCHANGED compactorVars
  <2>1. ASSUME UNCHANGED <<storeVars, saved, currentBlock, latestBlock>>, ipc' = "wait"
        PROVE  IndInv'
    <3>1. RoundInv'
      BY <1>3, <2>1
         DEF compactorVars, storeVars, RoundInv, cStart, cEnd, BatchKey, BatchStart, BatchEnd
    <3>2. StoreInv'
      BY <2>1, SameKeepsStore
    <3>3. IngestionInv'
      BY <2>1 DEF IngestionInv, ResumeIsExact
    <3> QED
      BY <1>3, <2>1, <3>1, <3>2, <3>3 DEF compactorVars, storeVars
  <2>2. CASE \E num \in 0 .. ChainHeight : RejectReceived(num)
    BY <2>1, <2>2 DEF RejectReceived
  <2>3. CASE StreamEnds
    BY <2>1, <2>3 DEF StreamEnds
  <2>4. CASE SaveFails
    <3>1. CASE UNCHANGED <<blocks, saved>>
      BY <2>1, <2>4, <3>1 DEF SaveFails, storeVars
    <3>2. CASE blocks' = WithBlock(currentBlock) /\ saved' = Advance(currentBlock)
      <4>1. currentBlock = saved + 1
        BY <2>4 DEF SaveFails, IngestionInv, ResumeIsExact
      <4>2. /\ blocks' = WithBlock(saved + 1) /\ saved' = saved + 1
            /\ UNCHANGED <<batches, meta>>
        BY <2>4, <3>2, <4>1 DEF SaveFails, Advance
      <4>3. StoreInv'
        BY <4>2, AddKeepsStore
      <4>4. RoundInv' /\ CompactorTypeOK'
        BY <1>3, <4>2, RoundSurvivesAdd
      <4>5. IngestionInv' /\ IngestionTypeOK' /\ StoreTypeOK'
        BY <2>4, <4>2 DEF SaveFails, WithBlock, IngestionInv, ResumeIsExact
      <4> QED
        BY <4>3, <4>4, <4>5
    <3> QED
      BY <2>4, <3>1, <3>2 DEF SaveFails
  <2> QED
    BY <1>3, <2>2, <2>3, <2>4 DEF IngestionFault
<1>4. CASE Crash
  <2>1. StoreInv'
    BY <1>4, SameKeepsStore DEF Crash
  <2>2. RoundInv' /\ IngestionInv' /\ TypeOK'
    BY <1>4 DEF Crash, RoundInv, IngestionInv, ResumeIsExact, storeVars
  <2> QED
    BY <2>1, <2>2
<1> QED
  BY <1>1, <1>2, <1>3, <1>4 DEF Fault, Failure, CompactorFault

\* Every step of the sink, a fault included, keeps the invariant.
LEMMA NextKeepsInv ==
  ASSUME IndInv, [Next]_vars
  PROVE  IndInv'
<1>1. CASE UNCHANGED vars
  <2>1. UNCHANGED storeVars /\ UNCHANGED compactorVars /\ UNCHANGED ingestionVars
    BY <1>1 DEF vars
  <2>2. StoreInv'
    BY <2>1, SameKeepsStore DEF IndInv, ingestionVars
  <2>3. RoundInv' /\ IngestionInv' /\ TypeOK'
    BY <2>1 DEF IndInv, TypeOK, StoreTypeOK, CompactorTypeOK, IngestionTypeOK, RoundInv,
       IngestionInv, ResumeIsExact, storeVars, compactorVars, ingestionVars,
       cStart, cEnd, BatchKey, BatchStart, BatchEnd
  <2> QED
    BY <2>2, <2>3 DEF IndInv
<1>2. CASE Compact
  BY <1>2, CompactKeepsInv
<1>3. CASE Ingest
  BY <1>3, IngestKeepsInv
<1>4. CASE Fault
  BY <1>4, FaultKeepsInv
<1> QED
  BY <1>1, <1>2, <1>3, <1>4 DEF Next

\* The inductive invariant of the store, a compaction round and the ingestion
\* loop.
THEOREM InductiveInvariant == Spec => []IndInv
  BY InitInv, NextKeepsInv, PTL DEF Spec

(***************************************************************************)
(* The properties of the runs.                                             *)
(***************************************************************************)

\* A number between 1 and saved is answered for by its own key or by its
\* batch; no other number is.
LEMMA ReadableIsSaved ==
  ASSUME IndInv
  PROVE  /\ \A n \in 1 .. saved : Readable(n)
         /\ \A n \in Nat \ {0} : HasBatch(n) => n <= saved /\ InBatch(n)
         /\ Served = 1 .. saved
<1> USE DEF IndInv, TypeOK, StoreTypeOK, IngestionTypeOK
<1>1. ASSUME NEW n \in Nat \ {0}, HasBatch(n)
      PROVE  n <= saved /\ InBatch(n)
  <2> DEFINE s == BatchStart(n)
             key == BatchKey(s)
  <2>1. s \in Nat \ {0} /\ s <= n /\ n <= BatchEnd(s)
    BY BatchHoldsBlock
  <2>2. key \in DOMAIN batches /\ key[1] = s /\ key[2] = BatchEnd(s)
    BY <1>1 DEF HasBatch, BatchKey
  <2> HIDE DEF s
  <2>3. n - s + 1 \in 1 .. BatchSize
    BY <2>1 DEF BatchEnd
  <2>4. /\ key[2] <= saved /\ batches[key] \in Seq(Nat) /\ Len(batches[key]) = BatchSize
        /\ batches[key][n - s + 1] = s + (n - s + 1) - 1
    BY <2>2, <2>3 DEF StoreInv, BatchesSound
  <2>5. n <= saved
    BY <2>1, <2>2, <2>4 DEF BatchEnd
  <2>6. n - s + 1 \in DOMAIN batches[key] /\ batches[key][n - s + 1] = n
    BY <2>1, <2>3, <2>4
  <2> QED
    BY <2>2, <2>5, <2>6 DEF InBatch, s
<1>2. \A n \in 1 .. saved : Readable(n)
  BY <1>1 DEF StoreInv, Covered, Readable
<1>3. Known \subseteq 1 .. saved
  <2>1. blocks \subseteq 1 .. saved
    BY DEF StoreInv, BlocksContiguous
  <2>2. \A k \in DOMAIN batches : k[1] \in Nat \ {0} /\ k[2] \in Nat /\ k[2] <= saved
    BY DEF StoreInv, BatchesSound
  <2> QED
    BY <2>1, <2>2 DEF Known
<1>4. 1 .. saved \subseteq Known
  <2> SUFFICES ASSUME NEW n \in 1 .. saved, n \notin blocks
               PROVE  \E k \in DOMAIN batches : n \in k[1] .. k[2]
    BY DEF Known
  <2>1. BatchKey(BatchStart(n)) \in DOMAIN batches
    BY DEF StoreInv, Covered, HasBatch
  <2>2. n \in BatchStart(n) .. BatchEnd(BatchStart(n))
    BY BatchHoldsBlock
  <2> QED
    BY <2>1, <2>2 DEF BatchKey
<1> QED
  BY <1>1, <1>2, <1>3, <1>4 DEF Served

\* The variables keep their types.
THEOREM TypeCorrect == Spec => []TypeOK
  BY InductiveInvariant, PTL DEF IndInv

\* No interleaving of ingestion, compaction, failed writes and crashes makes a
\* stored block unreadable.
THEOREM NothingIsForgotten == Spec => []NothingForgotten
<1>1. IndInv => NothingForgotten
  BY ReadableIsSaved DEF NothingForgotten
<1> QED
  BY <1>1, InductiveInvariant, PTL

\* Ingestion always resumes at the block after the last one stored.
THEOREM ResumesExactly == Spec => []ResumeIsExact
<1>1. IndInv => ResumeIsExact
  BY DEF IndInv, IngestionInv
<1> QED
  BY <1>1, InductiveInvariant, PTL

\* FirstBlock and LatestBlock stand for all the blocks between them: the
\* individual blocks are an unbroken run up to the last one saved.
THEOREM BlocksAreARun == Spec => []BlocksContiguous
<1>1. IndInv => BlocksContiguous
  BY DEF IndInv, StoreInv
<1> QED
  BY <1>1, InductiveInvariant, PTL

\* A round of compactOneBatch starts at the first block stored and never below
\* it, where GetBlock would find nothing.
THEOREM RoundsStartAligned == Spec => []FirstBlockAligned
<1>1. IndInv => FirstBlockAligned
  BY DEF IndInv, StoreInv
<1> QED
  BY <1>1, InductiveInvariant, PTL

\* The compactor keeps the last MinBlocks blocks out of its batches, although it
\* reads LatestBlock once and ingestion goes on.
THEOREM TipIsKept == Spec => []TipStaysIndividual
<1>1. IndInv => TipStaysIndividual
  BY DEF IndInv, StoreInv
<1> QED
  BY <1>1, InductiveInvariant, PTL

\* The meta key never claims a block that is not in a batch.
THEOREM MetaIsNeverAhead == Spec => []MetaIsCovered
<1>1. IndInv => MetaIsCovered
  BY ReadableIsSaved
     DEF MetaIsCovered, IndInv, StoreInv, MetaSound, BatchesPrefix, TypeOK, StoreTypeOK
<1> QED
  BY <1>1, InductiveInvariant, PTL

(***************************************************************************)
(* Refinement of BlockLog.                                                 *)
(***************************************************************************)

\* What a step does to the two variables a reader can tell.
LEMMA StepEffect ==
  ASSUME IndInv, [Next]_vars
  PROVE  \/ UNCHANGED <<saved, latestBlock>>
         \/ saved' = saved + 1 /\ UNCHANGED latestBlock
         \/ latestBlock' \in (latestBlock + 1) .. saved /\ UNCHANGED saved
         \/ latestBlock' = 0 /\ UNCHANGED saved
<1> USE DEF IndInv, TypeOK, IngestionTypeOK, IngestionInv, ResumeIsExact
<1>1. CASE UNCHANGED vars \/ Compact
  BY <1>1 DEF vars, Compact, ingestionVars
<1>2. CASE Ingest
  <2>1. CASE \E num \in 1 .. ChainHeight : SaveReceived(num)
    BY <2>1 DEF SaveReceived, Advance
  <2>2. CASE UpdateLatestBlock
    BY <2>2 DEF UpdateLatestBlock
  <2>3. CASE ResumeFromBlocks \/ ResumeFallback \/ Retry
    BY <2>3 DEF ResumeFromBlocks, ResumeFallback, Retry
  <2> QED
    BY <1>2, <2>1, <2>2, <2>3 DEF Ingest, IngestionStep
<1>3. CASE Fault
  <2>1. CASE CompactorFault /\ UNCHANGED ingestionVars
    BY <2>1 DEF ingestionVars
  <2>2. CASE IngestionFault
    BY <2>2 DEF IngestionFault, RejectReceived, SaveFails, StreamEnds, Advance
  <2>3. CASE Crash
    BY <2>3 DEF Crash
  <2> QED
    BY <1>3, <2>1, <2>2, <2>3 DEF Fault, Failure
<1> QED
  BY <1>1, <1>2, <1>3 DEF Next

\* The log is what was saved, before a step and after it.
LEMMA LogIsSaved == IndInv => Served = 1 .. saved
  BY ReadableIsSaved

LEMMA LogStaysSaved == IndInv' => (Served = 1 .. saved)'
  BY LogIsSaved, PTL

\* Each step of the sink is a step of the log or shows nothing of itself.
LEMMA StepImplementsLog ==
  ASSUME IndInv, IndInv', [Next]_vars
  PROVE  [Promise!Next]_<<Served, latestBlock>>
<1>1. Served = 1 .. saved
  BY LogIsSaved
<1>2. Served' = 1 .. saved'
  BY LogStaysSaved
<1>3. saved \in Nat /\ latestBlock \in Nat
  BY DEF IndInv, TypeOK, IngestionTypeOK
<1>4. CASE UNCHANGED <<saved, latestBlock>>
  BY <1>1, <1>2, <1>4
<1>5. CASE saved' = saved + 1 /\ UNCHANGED latestBlock
  <2>1. /\ saved + 1 \in Served' \ Served
        /\ Served' = Served \cup {saved + 1}
        /\ Served = 1 .. ((saved + 1) - 1)
    BY <1>1, <1>2, <1>3, <1>5
  <2>2. Promise!Grow
    BY <2>1, <1>5 DEF Promise!Grow
  <2> QED
    BY <2>2 DEF Promise!Next
<1>6. CASE latestBlock' \in (latestBlock + 1) .. saved /\ UNCHANGED saved
  <2>1. latestBlock' \in Served /\ latestBlock' > latestBlock /\ Served' = Served
    BY <1>1, <1>2, <1>3, <1>6
  <2>2. Promise!Announce
    BY <2>1 DEF Promise!Announce
  <2> QED
    BY <2>2 DEF Promise!Next
<1>7. CASE latestBlock' = 0 /\ UNCHANGED saved
  BY <1>1, <1>2, <1>7 DEF Promise!Next, Promise!Restart
<1> QED
  BY <1>4, <1>5, <1>6, <1>7, StepEffect

\* The sink implements the log it promises: readers see it grow by the next
\* block and nothing else, whatever the compactor and crashes do.
THEOREM SinkImplementsLog == Spec => ImplementsLog
<1>1. Init => Promise!Init
  BY DEF Init, StoreInit, IngestionInit, Served, Known, Promise!Init
<1> QED
  BY <1>1, StepImplementsLog, InductiveInvariant, PTL DEF Spec, ImplementsLog, Promise!Spec

=============================================================================
