---------------------------- MODULE StoreProofs ----------------------------
(***************************************************************************)
(* Facts about batches, for every batch size, and about the reads of the   *)
(* store, for the proofs of the two programs that are built on it.         *)
(***************************************************************************)
EXTENDS Storage, Arithmetic

(***************************************************************************)
(* The arithmetic of batches.                                              *)
(***************************************************************************)
\* A block lies in the batch that BatchStart gives it (batch.go), and that
\* batch starts at a block of its own.
THEOREM BatchHoldsBlock ==
  ASSUME NEW n \in Nat \ {0}
  PROVE  /\ BatchStart(n) \in Nat \ {0}
         /\ BatchStart(n) <= n
         /\ n <= BatchEnd(BatchStart(n))
         /\ BatchEnd(BatchStart(n)) \in Nat
<1> DEFINE q == (n - 1) \div BatchSize
<1>1. q \in Nat /\ q * BatchSize <= n - 1 /\ n - 1 < q * BatchSize + BatchSize
  BY DivisionBounds, BatchSizeAssumption
<1>2. q * BatchSize \in Nat
  BY <1>1, BatchSizeAssumption, SMTT(30)
<1>3. BatchStart(n) = q * BatchSize + 1
  BY DEF BatchStart
<1> HIDE DEF q
<1> QED
  BY <1>1, <1>2, <1>3, BatchSizeAssumption DEF BatchEnd

\* Every block of a batch is given that batch: the ranges never overlap, so the
\* key a reader derives is the key the compactor wrote.
THEOREM BatchIsUnique ==
  ASSUME NEW n \in Nat \ {0}, NEW m \in BatchStart(n) .. BatchEnd(BatchStart(n))
  PROVE  BatchStart(m) = BatchStart(n)
<1> DEFINE q == (n - 1) \div BatchSize
<1>1. q \in Nat /\ q * BatchSize <= n - 1 /\ n - 1 < q * BatchSize + BatchSize
  BY DivisionBounds, BatchSizeAssumption
<1>2. q * BatchSize \in Nat
  BY <1>1, BatchSizeAssumption, SMTT(30)
<1>3. BatchStart(n) = q * BatchSize + 1
  BY DEF BatchStart
<1> HIDE DEF q
<1>4. m \in Nat \ {0} /\ q * BatchSize <= m - 1 /\ m - 1 < q * BatchSize + BatchSize
  BY <1>1, <1>2, <1>3, BatchSizeAssumption DEF BatchEnd
<1>5. (m - 1) \div BatchSize = q
  BY <1>1, <1>4, DivisionUnique, BatchSizeAssumption
<1> QED
  BY <1>3, <1>4, <1>5 DEF BatchStart

\* The first block of a batch is its own batch start.
THEOREM BatchStartAligned ==
  ASSUME NEW n \in Nat \ {0}
  PROVE  BatchStart(BatchStart(n)) = BatchStart(n)
<1>1. BatchStart(n) \in BatchStart(n) .. BatchEnd(BatchStart(n))
  BY BatchHoldsBlock
<1> QED
  BY <1>1, BatchIsUnique

(***************************************************************************)
(* The reads of the store.                                                 *)
(***************************************************************************)
\* FirstBlock is the least block stored.
LEMMA FirstBlockIsLeast ==
  ASSUME StoreTypeOK, blocks # {}
  PROVE  FirstBlock \in blocks /\ \A m \in blocks : FirstBlock <= m
<1>1. \E n \in blocks : \A m \in blocks : n <= m
  BY LeastNatural DEF StoreTypeOK
<1> QED
  BY <1>1 DEF FirstBlock

=============================================================================
