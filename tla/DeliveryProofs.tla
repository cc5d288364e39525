--------------------------- MODULE DeliveryProofs ---------------------------
(***************************************************************************)
(* The delivery to a consumer, for every batch size, every first block and *)
(* any number of reconnects: the handler gets each block once, in order.   *)
(* What the server reads rests on the invariant of the sink (SinkProofs).  *)
(***************************************************************************)
EXTENDS Delivery, SinkProofs

USE BatchSizeAssumption, FromBlockAssumption

(***************************************************************************)
(* The filter of the client.                                               *)
(***************************************************************************)

\* A run of blocks from n on.
RunFrom(n, length) == [j \in 1 .. length |-> n + j - 1]

LEMMA RunGrows ==
  ASSUME NEW n \in Nat, NEW length \in Nat
  PROVE  /\ RunFrom(n, length) \in Seq(Nat) /\ Len(RunFrom(n, length)) = length
         /\ Append(RunFrom(n, length), n + length) = RunFrom(n, length + 1)
<1> DEFINE r == RunFrom(n, length)
           a == Append(r, n + length)
           b == RunFrom(n, length + 1)
<1>1. r \in Seq(Nat) /\ Len(r) = length /\ \A j \in 1 .. length : r[j] = n + j - 1
  BY DEF RunFrom
<1>2. b \in Seq(Nat) /\ Len(b) = length + 1 /\ \A j \in 1 .. length + 1 : b[j] = n + j - 1
  BY DEF RunFrom
<1> HIDE DEF r, b
<1>3. /\ a \in Seq(Nat) /\ Len(a) = length + 1
      /\ \A j \in 1 .. length : a[j] = r[j]
      /\ a[length + 1] = n + length
  BY <1>1
<1> HIDE DEF a
<1>4. \A j \in 1 .. length + 1 : a[j] = b[j]
  BY <1>1, <1>2, <1>3
<1>5. a = b
  BY <1>2, <1>3, <1>4
<1> QED
  BY <1>1, <1>5 DEF a, b, r

\* How much of the first i blocks of a run from first on is wanted.
Wants(first, i) == IF first + i > cCurrent THEN first + i - cCurrent ELSE 0

\* Of a run that the position falls into, the filter keeps the rest.
LEMMA WantedIsTheRest ==
  ASSUME NEW frame \in Seq(Nat), IsRun(frame), cCurrent \in Nat,
         Head(frame) <= cCurrent, cCurrent <= Last(frame)
  PROVE  Wanted(frame) = RunFrom(cCurrent, Last(frame) + 1 - cCurrent)
<1> DEFINE first == Head(frame)
           D == 0 .. Len(frame)
           step(f, i) == IF i = 0 THEN <<>>
                         ELSE IF frame[i] >= cCurrent THEN Append(f[i - 1], frame[i])
                         ELSE f[i - 1]
           g == [i \in D |-> RunFrom(cCurrent, Wants(first, i))]
           K == Kept(frame)
<1>1. /\ Len(frame) \in Nat \ {0} /\ first \in Nat \ {0}
      /\ \A i \in 1 .. Len(frame) : frame[i] = first + i - 1
      /\ Last(frame) = first + Len(frame) - 1
  BY DEF IsRun, Last
<1>2. \A i \in D : g[i] = step(g, i)
  <2> TAKE i \in D
  <2>1. CASE i = 0
    <3>1. Wants(first, 0) = 0
      BY <1>1 DEF Wants
    <3>2. RunFrom(cCurrent, 0) = <<>>
      BY DEF RunFrom
    <3> QED
      BY <2>1, <3>1, <3>2
  <2>2. CASE i # 0
    <3>1. i \in 1 .. Len(frame) /\ i - 1 \in D /\ frame[i] = first + i - 1
      BY <1>1, <2>2
    <3>2. g[i] = RunFrom(cCurrent, Wants(first, i))
          /\ g[i - 1] = RunFrom(cCurrent, Wants(first, i - 1))
      BY <3>1
    <3> HIDE DEF g, first
    <3>3. CASE frame[i] >= cCurrent
      <4>1. /\ Wants(first, i) = Wants(first, i - 1) + 1 /\ Wants(first, i - 1) \in Nat
            /\ frame[i] = cCurrent + Wants(first, i - 1)
        BY <1>1, <3>1, <3>3 DEF Wants
      <4>2. Append(g[i - 1], frame[i]) = g[i]
        BY <3>2, <4>1, RunGrows
      <4> QED
        BY <2>2, <3>3, <4>2
    <3>4. CASE ~(frame[i] >= cCurrent)
      <4>1. Wants(first, i) = Wants(first, i - 1)
        BY <1>1, <3>1, <3>4 DEF Wants
      <4> QED
        BY <2>2, <3>2, <3>4, <4>1
    <3> QED
      BY <3>3, <3>4
  <2> QED
    BY <2>1, <2>2
<1>3. K = [i \in D |-> step(K, i)]
  <2>1. g = [i \in D |-> step(g, i)]
    BY <1>2
  <2>2. K = CHOOSE f : f = [i \in D |-> step(f, i)]
    BY DEF Kept
  <2> HIDE DEF g, K
  <2> QED
    BY <2>1, <2>2
<1> HIDE DEF g, K
<1>4. \A i \in D : K[i] = g[i]
  <2> DEFINE wrong == {i \in D : K[i] # g[i]}
  <2> SUFFICES ASSUME wrong # {} PROVE FALSE
    OBVIOUS
  <2>1. wrong \subseteq Nat
    OBVIOUS
  <2>2. PICK i \in wrong : \A m \in wrong : i <= m
    BY <2>1, LeastNatural
  <2>3. i \in D /\ K[i] # g[i]
    OBVIOUS
  <2>4. K[i] = step(K, i) /\ g[i] = step(g, i)
    BY <1>2, <1>3, <2>3
  <2>5. i # 0
    BY <2>3, <2>4
  <2>6. i - 1 \in D /\ i - 1 < i
    BY <2>3, <2>5
  <2>7. K[i - 1] = g[i - 1]
    <3>1. i - 1 \notin wrong
      BY <2>1, <2>2, <2>6
    <3> QED
      BY <2>6, <3>1
  <2> QED
    BY <2>3, <2>4, <2>5, <2>7
<1>5. Wanted(frame) = g[Len(frame)]
  BY <1>1, <1>4 DEF Wanted, K
<1>6. Wants(first, Len(frame)) = Last(frame) + 1 - cCurrent
  BY <1>1 DEF Wants
<1> QED
  BY <1>1, <1>5, <1>6 DEF g

(***************************************************************************)
(* The frames under way.                                                   *)
(***************************************************************************)

\* One more frame, which the position falls into.
LEMMA BringOneMore ==
  ASSUME NEW S \in Seq(Seq(Nat)), NEW from \in Nat, NEW to \in Nat, Bring(from, S, to),
         NEW f \in Seq(Nat), IsRun(f), Head(f) <= to, to <= Last(f)
  PROVE  Bring(from, Append(S, f), Last(f) + 1)
<1> DEFINE n == Len(S)
           T == Append(S, f)
<1>1. /\ n \in Nat /\ T \in Seq(Seq(Nat)) /\ Len(T) = n + 1 /\ T[n + 1] = f
      /\ \A i \in 1 .. n : T[i] = S[i]
  OBVIOUS
<1> HIDE DEF T
<1>2. \A i \in 0 .. n : Awaited(from, T, i) = Awaited(from, S, i)
  BY <1>1 DEF Awaited
<1>3. Awaited(from, T, n + 1) = Last(f) + 1
  BY <1>1 DEF Awaited
<1>4. ASSUME NEW i \in 1 .. n + 1
      PROVE  Head(T[i]) <= Awaited(from, T, i - 1) /\ Awaited(from, T, i - 1) <= Last(T[i])
  <2>1. CASE i = n + 1
    <3>1. i - 1 = n /\ n \in 0 .. n
      BY <1>1, <2>1
    <3>2. Awaited(from, T, i - 1) = Awaited(from, S, n)
      BY <1>2, <3>1
    <3>3. Awaited(from, T, i - 1) = to /\ T[i] = f
      BY <1>1, <2>1, <3>2 DEF Bring
    <3> QED
      BY <3>3
  <2>2. CASE i # n + 1
    <3>1. i \in 1 .. n /\ i - 1 \in 0 .. n
      BY <1>1, <2>2
    <3> QED
      BY <1>1, <1>2, <3>1 DEF Bring
  <2> QED
    BY <2>1, <2>2
<1>5. Bring(from, T, Last(f) + 1)
  BY <1>1, <1>3, <1>4 DEF Bring
<1> QED
  BY <1>5 DEF T

\* One frame less, which the client has read to its end.
LEMMA BringOneLess ==
  ASSUME NEW S \in Seq(Seq(Nat)), NEW from \in Nat, NEW to \in Nat, Bring(from, S, to),
         S # <<>>
  PROVE  /\ Head(S[1]) <= from /\ from <= Last(S[1])
         /\ Bring(Last(S[1]) + 1, Tail(S), to)
<1> DEFINE n == Len(S)
           T == Tail(S)
<1>1. /\ n \in Nat \ {0} /\ T \in Seq(Seq(Nat)) /\ Len(T) = n - 1
      /\ \A i \in 1 .. n - 1 : T[i] = S[i + 1]
  OBVIOUS
<1> HIDE DEF T
<1> DEFINE next == Last(S[1]) + 1
<1>2. \A i \in 0 .. n - 1 : Awaited(next, T, i) = Awaited(from, S, i + 1)
  <2> TAKE i \in 0 .. n - 1
  <2>1. CASE i = 0
    BY <2>1 DEF Awaited
  <2>2. CASE i # 0
    <3>1. i \in 1 .. n - 1 /\ i + 1 # 0
      BY <1>1, <2>2
    <3>2. T[i] = S[i + 1]
      BY <1>1, <3>1
    <3> QED
      BY <2>2, <3>1, <3>2 DEF Awaited
  <2> QED
    BY <2>1, <2>2
<1>3. Head(S[1]) <= from /\ from <= Last(S[1])
  <2>1. 1 \in 1 .. n /\ Awaited(from, S, 1 - 1) = from
    BY <1>1 DEF Awaited
  <2> QED
    BY <2>1 DEF Bring
<1>4. ASSUME NEW i \in 1 .. n - 1
      PROVE  Head(T[i]) <= Awaited(next, T, i - 1) /\ Awaited(next, T, i - 1) <= Last(T[i])
  <2>1. i + 1 \in 1 .. n /\ i - 1 \in 0 .. n - 1 /\ (i - 1) + 1 = (i + 1) - 1
    BY <1>1
  <2>2. Awaited(next, T, i - 1) = Awaited(from, S, (i + 1) - 1)
    BY <1>2, <2>1
  <2>3. T[i] = S[i + 1]
    BY <1>1
  <2> QED
    BY <2>1, <2>2, <2>3 DEF Bring
<1>5. to = Awaited(next, T, n - 1)
  <2>1. n - 1 \in 0 .. n - 1 /\ (n - 1) + 1 = n
    BY <1>1
  <2>2. Awaited(next, T, n - 1) = Awaited(from, S, n)
    BY <1>2, <2>1
  <2> QED
    BY <2>2 DEF Bring
<1>6. Bring(next, T, to)
  BY <1>1, <1>4, <1>5 DEF Bring
<1> QED
  BY <1>3, <1>6 DEF T

Counts(s, n) == \A i \in 1 .. Len(s) : s[i] = n + i - 1

\* A run followed by the run that continues it.
LEMMA RunContinues ==
  ASSUME NEW n \in Nat, NEW s \in Seq(Nat), NEW r \in Seq(Nat),
         Counts(s, n), Counts(r, n + Len(s))
  PROVE  /\ s \o r \in Seq(Nat) /\ Len(s \o r) = Len(s) + Len(r)
         /\ Counts(s \o r, n)
<1> DEFINE t == s \o r
<1>1. /\ t \in Seq(Nat) /\ Len(t) = Len(s) + Len(r) /\ Len(s) \in Nat /\ Len(r) \in Nat
      /\ \A i \in 1 .. Len(s) + Len(r) : t[i] = IF i <= Len(s) THEN s[i] ELSE r[i - Len(s)]
  OBVIOUS
<1> HIDE DEF t
<1>2. ASSUME NEW i \in 1 .. Len(s) + Len(r)
      PROVE  t[i] = n + i - 1
  <2>1. CASE i <= Len(s)
    <3>1. i \in 1 .. Len(s)
      BY <1>1, <2>1
    <3>2. t[i] = s[i]
      BY <1>1, <2>1
    <3> QED
      BY <3>1, <3>2 DEF Counts
  <2>2. CASE i > Len(s)
    <3>1. i - Len(s) \in 1 .. Len(r)
      BY <1>1, <2>2
    <3>2. t[i] = r[i - Len(s)]
      BY <1>1, <2>2
    <3>3. r[i - Len(s)] = n + Len(s) + (i - Len(s)) - 1
      BY <3>1 DEF Counts
    <3> QED
      BY <1>1, <3>2, <3>3
  <2> QED
    BY <1>1, <2>1, <2>2
<1>3. Counts(t, n)
  BY <1>1, <1>2 DEF Counts
<1> QED
  BY <1>1, <1>3 DEF t

(***************************************************************************)
(* The steps.                                                              *)
(***************************************************************************)

\* The sink goes on whatever the server and the client do.
LEMMA DeliveryRunsSink ==
  ASSUME [DeliveryNext]_allVars
  PROVE  [Next]_vars
  BY DEF DeliveryNext, DeliveryFault, ServerStep, ClientStep, Disconnect, Next, Fault, allVars

\* The sink takes nothing back that it sent: what is saved stays saved.
LEMMA SavedGrows ==
  ASSUME DeliveryInv, [Next]_vars
  PROVE  \A i \in 1 .. Len(frames) : IsRun(frames[i]) /\ Last(frames[i]) <= saved'
<1>1. /\ frames \in Seq(Seq(Nat)) /\ saved \in Nat
      /\ \A i \in 1 .. Len(frames) : IsRun(frames[i]) /\ Last(frames[i]) <= saved
  BY DEF DeliveryInv, FramesInv, DeliveryTypeOK, TypeOK, IngestionTypeOK
<1>2. \A i \in 1 .. Len(frames) : Last(frames[i]) \in Nat
  BY <1>1 DEF IsRun, Last
<1>3. saved' \in {saved, saved + 1}
  BY StepEffect DEF DeliveryInv
<1> QED
  BY <1>1, <1>2, <1>3

\* What the server and the client know is theirs: it outlives any step of the
\* sink.
LEMMA SinkStepKeeps ==
  ASSUME DeliveryInv, [Next]_vars, UNCHANGED deliveryVars
  PROVE  DeliveryInv'
<1>1. IndInv'
  BY NextKeepsInv DEF DeliveryInv
<1>2. DeliveryTypeOK' /\ DeliveredExactly' /\ NothingSkipped'
  BY <1>1 DEF DeliveryInv, DeliveryTypeOK, DeliveredExactly, NothingSkipped, Bring, Awaited,
              IndInv, deliveryVars
<1>3. FramesInv'
  BY SavedGrows DEF DeliveryInv, FramesInv, IsRun, deliveryVars
<1> QED
  BY <1>1, <1>2, <1>3 DEF DeliveryInv

\* A run that the server's position falls into goes out, and the position moves
\* behind it.
LEMMA FrameSent ==
  ASSUME DeliveryInv, IndInv', server # "off", server' = "block",
         NEW f \in Seq(Nat), IsRun(f), Head(f) <= sCurrent, sCurrent <= Last(f),
         Last(f) <= saved, UNCHANGED saved,
         frames' = Append(frames, f), sCurrent' = Last(f) + 1,
         UNCHANGED <<cCurrent, delivered>>
  PROVE  DeliveryInv'
<1>1. /\ frames \in Seq(Seq(Nat)) /\ cCurrent \in Nat /\ sCurrent \in Nat
      /\ delivered \in Seq(Nat)
      /\ \A i \in 1 .. Len(frames) : IsRun(frames[i]) /\ Last(frames[i]) <= saved
  BY DEF DeliveryInv, DeliveryTypeOK, FramesInv
<1>2. /\ frames' \in Seq(Seq(Nat)) /\ Len(frames') = Len(frames) + 1 /\ Len(frames) \in Nat
      /\ frames'[Len(frames) + 1] = f
      /\ \A i \in 1 .. Len(frames) : frames'[i] = frames[i]
  BY <1>1
<1>3. Last(f) \in Nat
  BY DEF IsRun, Last
<1>4. DeliveryTypeOK'
  BY <1>1, <1>2, <1>3 DEF DeliveryTypeOK, IndInv
<1>5. \A i \in 1 .. Len(frames') : IsRun(frames'[i]) /\ Last(frames'[i]) <= saved'
  <2> TAKE i \in 1 .. Len(frames')
  <2>1. CASE i = Len(frames) + 1
    BY <1>2, <2>1
  <2>2. CASE i # Len(frames) + 1
    <3>1. i \in 1 .. Len(frames)
      BY <1>2, <2>2
    <3> QED
      BY <1>1, <1>2, <3>1
  <2> QED
    BY <2>1, <2>2
<1>6. FramesInv'
  BY <1>5 DEF FramesInv, IsRun, Last
<1>7. Bring(cCurrent, Append(frames, f), Last(f) + 1)
  <2>1. Bring(cCurrent, frames, sCurrent)
    BY DEF DeliveryInv, NothingSkipped
  <2> QED
    BY <1>1, <2>1, BringOneMore
<1>8. NothingSkipped'
  BY <1>7 DEF NothingSkipped, Bring, Awaited
<1>9. DeliveredExactly'
  BY DEF DeliveryInv, DeliveredExactly
<1> QED
  BY <1>4, <1>6, <1>8, <1>9 DEF DeliveryInv

\* The server's position is a block.
LEMMA PositionIsBlock ==
  ASSUME DeliveryInv, server # "off"
  PROVE  sCurrent \in Nat \ {0}
<1>1. /\ frames \in Seq(Seq(Nat)) /\ cCurrent \in Nat \ {0}
      /\ \A i \in 1 .. Len(frames) : IsRun(frames[i])
      /\ sCurrent = Awaited(cCurrent, frames, Len(frames))
  BY DEF DeliveryInv, DeliveryTypeOK, DeliveredExactly, FramesInv, NothingSkipped, Bring
<1>2. CASE Len(frames) = 0
  BY <1>1, <1>2 DEF Awaited
<1>3. CASE Len(frames) # 0
  <2> DEFINE f == frames[Len(frames)]
  <2>1. f \in Seq(Nat) /\ IsRun(f)
    BY <1>1, <1>3
  <2>2. sCurrent = Last(f) + 1
    BY <1>1, <1>3 DEF Awaited
  <2> HIDE DEF f
  <2> QED
    BY <2>1, <2>2 DEF IsRun, Last
<1> QED
  BY <1>2, <1>3

LEMMA ServerStepKeeps ==
  ASSUME DeliveryInv, ServerStep, UNCHANGED vars
  PROVE  DeliveryInv'
<1>1. IndInv'
  BY NextKeepsInv DEF DeliveryInv
<1>2. DeliveryTypeOK /\ TypeOK /\ BatchesSound /\ BlocksContiguous
  BY DEF DeliveryInv, IndInv, StoreInv
<1>3. CASE SendBlock
  <2> DEFINE f == <<sCurrent>>
  <2>1. sCurrent \in Nat \ {0}
    BY <1>3, PositionIsBlock DEF SendBlock
  <2>2. f \in Seq(Nat) /\ IsRun(f) /\ Head(f) = sCurrent /\ Last(f) = sCurrent
    BY <2>1 DEF IsRun, Last
  <2>3. /\ server # "off" /\ server' = "block" /\ UNCHANGED <<cCurrent, delivered>>
        /\ frames' = Append(frames, f) /\ sCurrent' = sCurrent + 1
    BY <1>3 DEF SendBlock
  <2>4. sCurrent <= saved /\ UNCHANGED saved
    BY <1>2, <1>3 DEF SendBlock, BlocksContiguous, vars, ingestionVars
  <2> HIDE DEF f
  <2> QED
    BY <1>1, <2>1, <2>2, <2>3, <2>4, FrameSent
<1>4. CASE SendBatch
  <2> DEFINE start == BatchStart(sCurrent)
             key == BatchKey(start)
             f == batches[key]
  <2>1. sCurrent \in Nat \ {0}
    BY <1>4, PositionIsBlock DEF SendBatch
  <2>2. /\ start \in Nat \ {0} /\ start <= sCurrent /\ sCurrent <= start + BatchSize - 1
    BY <2>1, BatchHoldsBlock DEF BatchEnd
  <2>3. /\ server # "off" /\ server' = "block" /\ UNCHANGED <<cCurrent, delivered>>
        /\ key \in DOMAIN batches
        /\ frames' = Append(frames, f) /\ sCurrent' = start + BatchSize
    BY <1>4 DEF SendBatch
  <2>4. key[1] = start /\ key[2] = start + BatchSize - 1
    BY DEF BatchKey, BatchEnd
  <2>7. start + BatchSize - 1 <= saved /\ UNCHANGED saved
    BY <1>2, <2>3, <2>4 DEF BatchesSound, vars, ingestionVars
  <2>5. /\ f \in Seq(Nat) /\ Len(f) = BatchSize
        /\ \A i \in 1 .. BatchSize : f[i] = start + i - 1
    BY <1>2, <2>3, <2>4 DEF BatchesSound, TypeOK, StoreTypeOK
  <2> HIDE DEF f, start
  <2>6. IsRun(f) /\ Head(f) = start /\ Last(f) = start + BatchSize - 1
    <3>1. 1 \in 1 .. BatchSize /\ BatchSize \in 1 .. BatchSize
      OBVIOUS
    <3>2. f # <<>> /\ Head(f) = f[1] /\ Last(f) = f[BatchSize]
      BY <2>5 DEF Last
    <3>3. Head(f) = start /\ Last(f) = start + BatchSize - 1
      BY <2>2, <2>5, <3>1, <3>2
    <3> QED
      BY <2>2, <2>5, <3>2, <3>3 DEF IsRun
  <2> QED
    BY <1>1, <2>1, <2>2, <2>3, <2>5, <2>6, <2>7, FrameSent
<1>5. CASE BlockMissing \/ BatchMissing
  <2>1. /\ UNCHANGED <<sCurrent, frames, cCurrent, delivered>>
        /\ server # "off" /\ server' \in {"block", "batch"}
    BY <1>5 DEF BlockMissing, BatchMissing
  <2>2. DeliveryTypeOK' /\ DeliveredExactly' /\ NothingSkipped'
    BY <1>1, <2>1
       DEF DeliveryInv, DeliveryTypeOK, DeliveredExactly, NothingSkipped, Bring, Awaited, IndInv
  <2>3. FramesInv'
    BY <2>1 DEF DeliveryInv, FramesInv, IsRun, vars, ingestionVars
  <2> QED
    BY <1>1, <2>2, <2>3 DEF DeliveryInv
<1> QED
  BY <1>3, <1>4, <1>5 DEF ServerStep

\* A connection begins where the consumer is, with nothing under way.
LEMMA ConnectKeeps ==
  ASSUME DeliveryInv, Connect, UNCHANGED vars
  PROVE  DeliveryInv'
<1>1. IndInv'
  BY NextKeepsInv DEF DeliveryInv
<1>2. frames = <<>> /\ cCurrent \in Nat
  BY DEF DeliveryInv, FramesInv, Connect, DeliveryTypeOK
<1>3. Bring(cCurrent, <<>>, cCurrent) /\ frames' = <<>>
  BY <1>2 DEF Bring, Awaited, Connect
<1>4. NothingSkipped'
  BY <1>2, <1>3 DEF NothingSkipped, Bring, Awaited, Connect
<1> QED
  BY <1>1, <1>3, <1>4
     DEF DeliveryInv, DeliveryTypeOK, DeliveredExactly, FramesInv, IndInv, Connect

\* The frame read brings the block the consumer is at, and the handler gets the
\* blocks from there to its end.
LEMMA PackRead ==
  ASSUME DeliveryInv, ReadPack
  PROVE  \E last \in Nat, length \in Nat \ {0} :
           /\ cCurrent + length = last + 1 /\ last <= saved
           /\ delivered' = delivered \o RunFrom(cCurrent, length)
           /\ cCurrent' = last + 1
           /\ Bring(last + 1, Tail(frames), sCurrent)
<1> DEFINE f == Head(frames)
           length == Last(f) + 1 - cCurrent
           pack == RunFrom(cCurrent, length)
<1>1. /\ frames \in Seq(Seq(Nat)) /\ frames # <<>> /\ cCurrent \in Nat /\ sCurrent \in Nat
      /\ delivered \in Seq(Nat) /\ server \in {"block", "batch"}
      /\ \A i \in 1 .. Len(frames) : IsRun(frames[i]) /\ Last(frames[i]) <= saved
      /\ DeliveredExactly /\ NothingSkipped
  BY DEF DeliveryInv, DeliveryTypeOK, FramesInv, ReadPack
<1>2. /\ f \in Seq(Nat) /\ f = frames[1] /\ Len(frames) \in Nat \ {0}
      /\ Tail(frames) \in Seq(Seq(Nat)) /\ Len(Tail(frames)) = Len(frames) - 1
      /\ \A i \in 1 .. Len(frames) - 1 : Tail(frames)[i] = frames[i + 1]
  BY <1>1
<1>3. /\ IsRun(f) /\ Last(f) \in Nat /\ Head(f) <= cCurrent /\ cCurrent <= Last(f)
      /\ Last(f) <= saved
      /\ Bring(Last(f) + 1, Tail(frames), sCurrent)
  <2>1. IsRun(f) /\ Last(f) \in Nat /\ Last(f) <= saved
    BY <1>1, <1>2 DEF IsRun, Last
  <2>2. Bring(cCurrent, frames, sCurrent)
    BY <1>1 DEF NothingSkipped
  <2> QED
    BY <1>1, <1>2, <2>1, <2>2, BringOneLess
<1>4. Wanted(f) = pack
  <2>1. f \in Seq(Nat) /\ IsRun(f) /\ Head(f) <= cCurrent /\ cCurrent <= Last(f) /\ cCurrent \in Nat
    BY <1>1, <1>2, <1>3
  <2> HIDE DEF f
  <2> QED
    BY <2>1, WantedIsTheRest
<1>5. length \in Nat \ {0} /\ cCurrent + length = Last(f) + 1
  <2> DEFINE a == Last(f)
  <2>1. a \in Nat /\ cCurrent \in Nat /\ cCurrent <= a
    BY <1>1, <1>3
  <2> HIDE DEF a
  <2>2. a + 1 - cCurrent \in Nat \ {0} /\ cCurrent + (a + 1 - cCurrent) = a + 1
    BY <2>1
  <2> QED
    BY <2>2, Zenon DEF a
<1> HIDE DEF length
<1>6. /\ pack \in Seq(Nat) /\ Len(pack) = length
      /\ \A j \in 1 .. length : pack[j] = cCurrent + j - 1
  BY <1>1, <1>5, RunGrows DEF RunFrom
<1> HIDE DEF pack
<1>7. pack # <<>> /\ Last(pack) = Last(f)
  <2>1. pack # <<>> /\ Last(pack) = pack[length] /\ length \in 1 .. length
    BY <1>5, <1>6 DEF Last
  <2>2. Last(pack) = cCurrent + length - 1
    BY <1>6, <2>1
  <2> DEFINE a == Last(f)
             b == Last(pack)
  <2>3. /\ a \in Nat /\ cCurrent \in Nat /\ length \in Nat /\ cCurrent + length = a + 1
        /\ b = cCurrent + length - 1
    BY <1>1, <1>3, <1>5, <2>2
  <2> HIDE DEF a, b
  <2>4. a = b
    BY <2>3
  <2> QED
    BY <2>1, <2>4, Zenon DEF a, b
<1>8. /\ delivered' = delivered \o pack /\ cCurrent' = Last(f) + 1 /\ frames' = Tail(frames)
      /\ UNCHANGED <<server, sCurrent>>
  BY <1>4, <1>7 DEF ReadPack
<1> HIDE DEF f
<1> QED
  BY <1>3, <1>5, <1>8 DEF pack

\* Reading a frame moves the consumer behind it.
LEMMA ReadPackKeeps ==
  ASSUME DeliveryInv, ReadPack, UNCHANGED vars
  PROVE  DeliveryInv'
<1>1. IndInv'
  BY NextKeepsInv DEF DeliveryInv
<1>2. /\ frames \in Seq(Seq(Nat)) /\ frames # <<>> /\ cCurrent \in Nat /\ sCurrent \in Nat
      /\ delivered \in Seq(Nat) /\ server \in {"block", "batch"}
      /\ \A i \in 1 .. Len(frames) : IsRun(frames[i]) /\ Last(frames[i]) <= saved
      /\ DeliveredExactly /\ NothingSkipped
  BY DEF DeliveryInv, DeliveryTypeOK, FramesInv, ReadPack
<1>3. PICK last \in Nat, length \in Nat \ {0} :
        /\ cCurrent + length = last + 1 /\ last <= saved
        /\ delivered' = delivered \o RunFrom(cCurrent, length)
        /\ cCurrent' = last + 1
        /\ Bring(last + 1, Tail(frames), sCurrent)
  BY PackRead
<1> DEFINE pack == RunFrom(cCurrent, length)
<1>4. /\ Tail(frames) \in Seq(Seq(Nat)) /\ Len(Tail(frames)) = Len(frames) - 1
      /\ Len(frames) \in Nat \ {0}
      /\ \A i \in 1 .. Len(frames) - 1 : Tail(frames)[i] = frames[i + 1]
  BY <1>2
<1>5. frames' = Tail(frames) /\ UNCHANGED <<server, sCurrent>>
  BY DEF ReadPack
<1>6. delivered' = delivered \o pack
  BY <1>3
<1>7. /\ pack \in Seq(Nat) /\ Len(pack) = length
      /\ \A j \in 1 .. length : pack[j] = cCurrent + j - 1
  BY <1>2, RunGrows DEF RunFrom
<1> HIDE DEF pack
<1>8. /\ delivered' \in Seq(Nat) /\ Len(delivered') = Len(delivered) + length
      /\ \A i \in 1 .. Len(delivered') : delivered'[i] = FromBlock + i - 1
  <2>1. Counts(delivered, FromBlock) /\ cCurrent = FromBlock + Len(delivered)
    BY <1>2 DEF DeliveredExactly, Counts
  <2>2. delivered \in Seq(Nat) /\ pack \in Seq(Nat) /\ FromBlock \in Nat
    BY <1>2, <1>7
  <2>3. Counts(pack, FromBlock + Len(delivered))
    BY <1>7, <2>1 DEF Counts
  <2>4. /\ delivered \o pack \in Seq(Nat)
        /\ Len(delivered \o pack) = Len(delivered) + Len(pack)
        /\ Counts(delivered \o pack, FromBlock)
    BY <2>1, <2>2, <2>3, RunContinues, Zenon
  <2>5. /\ delivered' \in Seq(Nat) /\ Len(delivered') = Len(delivered) + length
        /\ Counts(delivered', FromBlock)
    BY <1>6, <1>7, <2>4, Zenon
  <2> QED
    BY <2>5 DEF Counts
<1>9. DeliveryTypeOK'
  BY <1>1, <1>2, <1>3, <1>4, <1>5, <1>8 DEF DeliveryTypeOK, IndInv
<1>10. DeliveredExactly'
  <2>1. cCurrent = FromBlock + Len(delivered) /\ Len(delivered) \in Nat
    BY <1>2 DEF DeliveredExactly
  <2>2. cCurrent' = FromBlock + Len(delivered')
    BY <1>3, <1>8, <2>1
  <2> QED
    BY <1>8, <2>2 DEF DeliveredExactly
<1>11. FramesInv'
  <2>1. \A i \in 1 .. Len(frames') : IsRun(frames'[i]) /\ Last(frames'[i]) <= saved
    BY <1>2, <1>4, <1>5
  <2> QED
    BY <1>2, <1>5, <2>1 DEF FramesInv, IsRun, vars, ingestionVars
<1>12. NothingSkipped'
  <2>1. Bring(cCurrent', frames', sCurrent')
    BY <1>3, <1>5
  <2> QED
    BY <2>1 DEF NothingSkipped, Bring, Awaited
<1> QED
  BY <1>1, <1>9, <1>10, <1>11, <1>12 DEF DeliveryInv

\* A broken connection, with the sink or without it, takes the frames under way
\* and leaves the consumer where it is.
LEMMA DisconnectKeeps ==
  ASSUME DeliveryInv, [Next]_vars, Disconnect
  PROVE  DeliveryInv'
<1>1. IndInv'
  BY NextKeepsInv DEF DeliveryInv
<1> QED
  BY <1>1 DEF DeliveryInv, DeliveryTypeOK, DeliveredExactly, NothingSkipped, FramesInv, IndInv,
              Disconnect

(***************************************************************************)
(* The theorems.                                                           *)
(***************************************************************************)

\* With a server and a consumer the sink is still a sink: all that SinkProofs
\* shows of it holds of this system.
THEOREM DeliveryIsSink == DeliverySpec => Spec
<1>1. DeliveryInit => Init
  BY DEF DeliveryInit
<1>2. [DeliveryNext]_allVars => [Next]_vars
  BY DeliveryRunsSink
<1> QED
  BY <1>1, <1>2, PTL DEF DeliverySpec, Spec

\* The inductive invariant of the server, the frames under way and the client.
THEOREM DeliveryInvariant == DeliverySpec => []DeliveryInv
<1>1. DeliveryInit => DeliveryInv
  <2> SUFFICES ASSUME DeliveryInit PROVE DeliveryInv
    OBVIOUS
  <2>1. IndInv
    BY InitInv DEF DeliveryInit
  <2> QED
    BY <2>1 DEF DeliveryInit, DeliveryInv, DeliveryTypeOK, DeliveredExactly, NothingSkipped,
                FramesInv, IndInv
<1>2. DeliveryInv /\ [DeliveryNext]_allVars => DeliveryInv'
  <2> SUFFICES ASSUME DeliveryInv, [DeliveryNext]_allVars PROVE DeliveryInv'
    OBVIOUS
  <2>1. [Next]_vars
    BY DeliveryRunsSink
  <2>2. CASE UNCHANGED deliveryVars
    BY <2>1, <2>2, SinkStepKeeps
  <2>3. CASE ServerStep /\ UNCHANGED vars
    BY <2>3, ServerStepKeeps
  <2>4. CASE ClientStep /\ UNCHANGED vars
    BY <2>4, ConnectKeeps, ReadPackKeeps DEF ClientStep
  <2>5. CASE Disconnect
    BY <2>1, <2>5, DisconnectKeeps
  <2> QED
    BY <2>2, <2>3, <2>4, <2>5 DEF DeliveryNext, DeliveryFault, allVars
<1> QED
  BY <1>1, <1>2, PTL DEF DeliverySpec

\* Type correctness of the sink, the server, the connection and the client.
THEOREM DeliveryTypes == DeliverySpec => []DeliveryTypeOK
<1>1. DeliveryInv => DeliveryTypeOK
  BY DEF DeliveryInv
<1> QED
  BY <1>1, DeliveryInvariant, PTL

\* Client.Stream gives its handler every block from the first one asked for,
\* once and in order, whatever the store does with the blocks meanwhile.
THEOREM ConsumerGetsEachBlockOnce == DeliverySpec => []DeliveredExactly
<1>1. DeliveryInv => DeliveredExactly
  BY DEF DeliveryInv
<1> QED
  BY <1>1, DeliveryInvariant, PTL

\* streamBlocks leaves out no block between two frames, when it goes from the
\* blocks to a batch and back.
THEOREM FramesOverlapOrMeet == DeliverySpec => []NothingSkipped
<1>1. DeliveryInv => NothingSkipped
  BY DEF DeliveryInv
<1> QED
  BY <1>1, DeliveryInvariant, PTL

(***************************************************************************)
(* Refinement of Feed.                                                     *)
(***************************************************************************)

\* A step of the sink that leaves the consumer alone is a step of its log.
LEMMA SinkStepImplementsFeed ==
  ASSUME IndInv, IndInv', [Next]_vars, UNCHANGED delivered
  PROVE  [Service!FeedNext]_<<Served, latestBlock, delivered>>
<1>1. [Promise!Next]_<<Served, latestBlock>>
  BY StepImplementsLog
<1>2. CASE UNCHANGED <<Served, latestBlock>>
  BY <1>2
<1>3. CASE Promise!Next
  <2>1. Service!Next
    BY <1>3 DEF Promise!Next, Promise!Grow, Promise!Announce, Promise!Restart,
                Service!Next, Service!Grow, Service!Announce, Service!Restart
  <2> QED
    BY <2>1 DEF Service!FeedNext
<1> QED
  BY <1>1, <1>2, <1>3

\* A frame the client reads hands over the next blocks of the log.
LEMMA ReadPackHandsOver ==
  ASSUME DeliveryInv, IndInv', ReadPack, UNCHANGED vars
  PROVE  Service!HandOver
<1>1. PICK last \in Nat, length \in Nat \ {0} :
        /\ cCurrent + length = last + 1 /\ last <= saved
        /\ delivered' = delivered \o RunFrom(cCurrent, length)
  BY PackRead
<1>2. cCurrent = FromBlock + Len(delivered) /\ Len(delivered) \in Nat /\ saved \in Nat
  BY DEF DeliveryInv, DeliveryTypeOK, DeliveredExactly, TypeOK, IngestionTypeOK
<1>3. Served = 1 .. saved /\ Served' = 1 .. saved'
  BY LogIsSaved, LogStaysSaved DEF DeliveryInv
<1>4. saved' = saved /\ latestBlock' = latestBlock
  BY DEF vars, ingestionVars
<1>5. last \in Served /\ cCurrent <= last /\ cCurrent .. last \subseteq Served
  BY <1>1, <1>2, <1>3
<1>6. RunFrom(cCurrent, length) = [i \in 1 .. last - cCurrent + 1 |-> cCurrent + i - 1]
  <2>1. length = last - cCurrent + 1
    BY <1>1, <1>2
  <2> QED
    BY <2>1 DEF RunFrom
<1> QED
  BY <1>1, <1>2, <1>3, <1>4, <1>5, <1>6 DEF Service!HandOver

\* All together, from the node's blocks to the handler's, are a feed of the log
\* the sink keeps: the consumer is handed its next blocks, only such as a crash of
\* the sink cannot take back, and the way there does not show.
THEOREM DeliveryImplementsFeed == DeliverySpec => ImplementsFeed
<1>1. DeliveryInit => Service!FeedInit
  BY DEF DeliveryInit, Init, StoreInit, IngestionInit, Served, Known, Service!FeedInit,
         Service!Init
<1>2. ASSUME DeliveryInv, DeliveryInv', [DeliveryNext]_allVars
      PROVE  [Service!FeedNext]_<<Served, latestBlock, delivered>>
  <2>1. IndInv /\ IndInv' /\ [Next]_vars
    BY <1>2, DeliveryRunsSink DEF DeliveryInv
  <2>2. CASE ReadPack /\ UNCHANGED vars
    BY <1>2, <2>1, <2>2, ReadPackHandsOver DEF Service!FeedNext
  <2>3. CASE UNCHANGED delivered
    BY <2>1, <2>3, SinkStepImplementsFeed
  <2>4. ServerStep \/ Connect \/ Disconnect => UNCHANGED delivered
    BY DEF ServerStep, SendBlock, SendBatch, BlockMissing, BatchMissing, Connect, Disconnect
  <2> QED
    BY <1>2, <2>2, <2>3, <2>4
       DEF DeliveryNext, DeliveryFault, ClientStep, allVars, deliveryVars
<1> QED
  BY <1>1, <1>2, DeliveryInvariant, PTL DEF DeliverySpec, ImplementsFeed, Service!FeedSpec

=============================================================================
