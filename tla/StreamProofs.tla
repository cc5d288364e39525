---------------------------- MODULE StreamProofs ----------------------------
(***************************************************************************)
(* The safety of the block stream and of the loop that reads it, for every *)
(* window, every chain and any number of streams left behind.              *)
(***************************************************************************)
EXTENDS Stream, FiniteSetTheorems, TLAPS

USE BatchSizeAssumption, ChainHeightAssumption, StreamAssumption

(***************************************************************************)
(* The window.                                                             *)
(***************************************************************************)
LEMMA IntervalCardinality ==
  ASSUME NEW first \in Nat, NEW k \in Nat
  PROVE  Cardinality(first .. (first + k - 1)) = k
<1>1. Cardinality(first .. (first + k - 1)) =
        IF first > first + k - 1 THEN 0 ELSE (first + k - 1) - first + 1
  BY FS_Interval
<1> QED
  BY <1>1

\* Refilling a window without holes leaves it without holes, no longer than
\* Window, and adds only blocks up to the latest one.
LEMMA FillExtends ==
  ASSUME NEW first \in Nat \ {0}, NEW k \in 0 .. Window, NEW latest \in 0 .. ChainHeight,
         NEW p \in [first .. (first + k - 1) -> FetchStates]
  PROVE  \E j \in k .. Window :
           /\ Fill(first, p, latest) \in [first .. (first + j - 1) -> FetchStates]
           /\ \A n \in first .. (first + j - 1) : n \in DOMAIN p \/ n <= latest
<1>1. Cardinality(DOMAIN p) = k
  BY IntervalCardinality
<1> DEFINE start == first + k
           new == {n \in start .. latest : n < start + (Window - k)} \ DOMAIN p
           j == IF latest < start THEN k
                ELSE IF latest < first + Window THEN latest - first + 1 ELSE Window
<1>2. j \in k .. Window
  OBVIOUS
<1>3. DOMAIN p \cup new = first .. (first + j - 1)
  OBVIOUS
<1>4. Fill(first, p, latest) =
        [n \in DOMAIN p \cup new |-> IF n \in DOMAIN p THEN p[n] ELSE "fetching"]
  BY <1>1 DEF Fill
<1>5. Fill(first, p, latest) \in [DOMAIN p \cup new -> FetchStates]
  BY <1>4 DEF FetchStates
<1>6. \A n \in first .. (first + j - 1) : n \in DOMAIN p \/ n <= latest
  BY <1>3
<1> HIDE DEF j, new
<1> QED
  BY <1>2, <1>3, <1>5, <1>6

(***************************************************************************)
(* One step of one call of StreamBlocks.                                   *)
(***************************************************************************)

LEMMA PendingType ==
  ASSUME NEW s \in Calls
  PROVE  /\ s.pending \in [DOMAIN s.pending -> FetchStates]
         /\ DOMAIN s.pending \subseteq 1 .. ChainHeight
  BY DEF Calls, Pendings

\* The pending fetches of a call, as an interval.
LEMMA PendingInterval ==
  ASSUME NEW s \in Calls, CallInv(s, chain)
  PROVE  \E k \in 0 .. Window :
           /\ s.pending \in [FirstPending(s) .. (FirstPending(s) + k - 1) -> FetchStates]
           /\ Cardinality(DOMAIN s.pending) = k
           /\ s.pc = "send" => k < Window
<1>1. PICK k \in 0 .. Window :
        /\ DOMAIN s.pending = FirstPending(s) .. (FirstPending(s) + k - 1)
        /\ s.pc = "send" => k < Window
  BY DEF CallInv
<1>2. s.pending \in [DOMAIN s.pending -> FetchStates]
  BY PendingType
<1>3. FirstPending(s) \in Nat
  BY DEF FirstPending, Calls
<1>4. Cardinality(DOMAIN s.pending) = k
  BY <1>1, <1>3, IntervalCardinality
<1> QED
  BY <1>1, <1>2, <1>4

\* Refilling a window of blocks that the chain has, up to such a block.
LEMMA RefillKeeps ==
  ASSUME chain \in 0 .. ChainHeight,
         NEW first \in Nat \ {0}, NEW k \in 0 .. Window, NEW latest \in 0 .. ChainHeight,
         NEW p \in [first .. (first + k - 1) -> FetchStates],
         latest <= chain, \A n \in DOMAIN p : n <= chain
  PROVE  \E j \in 0 .. Window :
           /\ Fill(first, p, latest) \in [first .. (first + j - 1) -> FetchStates]
           /\ Fill(first, p, latest) \in Pendings
           /\ \A n \in first .. (first + j - 1) : n <= chain
<1> DEFINE f == Fill(first, p, latest)
<1>1. PICK j \in k .. Window :
        /\ f \in [first .. (first + j - 1) -> FetchStates]
        /\ \A n \in first .. (first + j - 1) : n \in DOMAIN p \/ n <= latest
  BY FillExtends
<1> HIDE DEF f
<1>2. \A n \in first .. (first + j - 1) : n <= chain
  <2> TAKE n \in first .. (first + j - 1)
  <2>1. n \in DOMAIN p \/ n <= latest
    BY <1>1, Zenon
  <2>2. n \in Int /\ latest \in Int /\ chain \in Int
    OBVIOUS
  <2> QED
    BY <2>1, <2>2
<1>3. first .. (first + j - 1) \in SUBSET (1 .. ChainHeight)
  BY <1>2
<1>4. f \in Pendings
  BY <1>1, <1>3 DEF Pendings
<1>5. j \in 0 .. Window
  OBVIOUS
<1> QED
  BY <1>1, <1>2, <1>4, <1>5, Zenon DEF f

LEMMA RefreshedBound ==
  ASSUME TypeOK, TrackerInv, NEW s \in Calls, CallInv(s, chain)
  PROVE  Refreshed(s) \in 0 .. ChainHeight /\ Refreshed(s) <= chain
  BY DEF TypeOK, TrackerInv, CallInv, Calls, Refreshed

\* What one step makes of a call: another call that knows as much, and which
\* sends where its reader is.
Keeps(i, t) ==
  /\ streams' = [streams EXCEPT ![i] = t]
  /\ t \in Calls /\ CallInv(t, chain)
  /\ NextToRead(t) = NextToRead(streams[i])

LEMMA PollKeeps ==
  ASSUME TypeOK, TrackerInv, NEW i \in 1 .. Len(streams), CallInv(streams[i], chain), Poll(i)
  PROVE  \E t : Keeps(i, t)
<1> DEFINE s == streams[i]
           latest == Refreshed(s)
           p == Fill(s.nextToSend, s.pending, latest)
           t == [s EXCEPT !.latestBlock = latest, !.pending = p]
<1>1. s \in Calls /\ chain \in 0 .. ChainHeight
  BY DEF TypeOK
<1>2. latest \in 0 .. ChainHeight /\ latest <= chain
  BY <1>1, RefreshedBound
<1>3. s.pc = "loop" /\ streams' = [streams EXCEPT ![i] = t]
  BY DEF Poll, Become
<1>4. s.nextToSend \in Nat \ {0} /\ FirstPending(s) = s.nextToSend
  BY <1>1, <1>3 DEF Calls, FirstPending
<1>5. PICK k \in 0 .. Window :
        s.pending \in [s.nextToSend .. (s.nextToSend + k - 1) -> FetchStates]
  BY <1>1, <1>4, PendingInterval
<1>6. PICK j \in 0 .. Window :
        /\ p \in [s.nextToSend .. (s.nextToSend + j - 1) -> FetchStates]
        /\ p \in Pendings
        /\ \A n \in s.nextToSend .. (s.nextToSend + j - 1) : n <= chain
  <2>1. \A n \in DOMAIN s.pending : n <= chain
    BY DEF CallInv
  <2> HIDE DEF latest, s
  <2> QED
    BY <1>1, <1>2, <1>4, <1>5, <2>1, RefillKeeps
<1> HIDE DEF p, latest
<1>7. t \in Calls
  <2>1. latest \in Nat
    BY <1>2
  <2> QED
    BY <1>1, <1>6, <2>1 DEF Calls
<1>8. /\ t.pc = "loop" /\ t.nextToSend = s.nextToSend /\ t.latestBlock = latest
      /\ t.pending = p /\ t.taken = s.taken /\ t.out = s.out
  BY <1>1, <1>3 DEF Calls
<1> HIDE DEF t
<1>9. CallInv(t, chain)
  <2>1. DOMAIN t.pending = FirstPending(t) .. (FirstPending(t) + j - 1)
    BY <1>6, <1>8 DEF FirstPending
  <2>2. \A n \in DOMAIN t.pending : n <= chain
    BY <1>6, <1>8
  <2>3. /\ s.taken \in {0, s.nextToSend} /\ s.taken <= chain
        /\ InOrder(s.out, s.nextToSend, chain)
    BY DEF CallInv
  <2> QED
    BY <1>2, <1>6, <1>8, <2>1, <2>2, <2>3 DEF CallInv
<1> QED
  BY <1>3, <1>7, <1>8, <1>9 DEF Keeps, NextToRead

LEMMA FetchedKeeps ==
  ASSUME TypeOK, NEW i \in 1 .. Len(streams), CallInv(streams[i], chain),
         NEW n \in DOMAIN streams[i].pending, Fetched(i, n)
  PROVE  \E t : Keeps(i, t)
<1> DEFINE s == streams[i]
<1>1. s \in Calls
  BY DEF TypeOK
<1>2. PICK answer \in {"block", "null"} :
        streams' = [streams EXCEPT ![i] = [s EXCEPT !.pending[n] = answer]]
  BY DEF Fetched, Become
<1> DEFINE p == [s.pending EXCEPT ![n] = answer]
           t == [s EXCEPT !.pending = p]
<1>3. p \in [DOMAIN s.pending -> FetchStates] /\ DOMAIN p = DOMAIN s.pending
  BY <1>1, PendingType DEF FetchStates
<1>4. DOMAIN s.pending \in SUBSET (1 .. ChainHeight)
  BY <1>1, PendingType
<1>5. p \in Pendings
  BY <1>3, <1>4 DEF Pendings
<1>6. streams' = [streams EXCEPT ![i] = t]
  BY <1>2
<1> HIDE DEF p
<1>7. t \in Calls
  BY <1>1, <1>5 DEF Calls
<1>8. /\ t.pc = s.pc /\ t.nextToSend = s.nextToSend /\ t.latestBlock = s.latestBlock
      /\ t.pending = p /\ t.taken = s.taken /\ t.out = s.out
  BY <1>1 DEF Calls
<1> HIDE DEF t
<1>9. CallInv(t, chain)
  <2>1. FirstPending(t) = FirstPending(s)
    BY <1>8 DEF FirstPending
  <2> QED
    BY <1>3, <1>8, <2>1 DEF CallInv
<1> QED
  BY <1>6, <1>7, <1>8, <1>9 DEF Keeps, NextToRead

LEMMA TakeKeeps ==
  ASSUME TypeOK, NEW i \in 1 .. Len(streams), CallInv(streams[i], chain), Take(i)
  PROVE  \E t : Keeps(i, t)
<1> DEFINE s == streams[i]
           n == s.nextToSend
           p == [m \in DOMAIN s.pending \ {n} |-> s.pending[m]]
           taken == IF s.pending[n] = "block" THEN n ELSE 0
           t == [s EXCEPT !.pc = "send", !.taken = taken, !.pending = p]
<1>1. s \in Calls /\ chain \in 0 .. ChainHeight
  BY DEF TypeOK
<1>2. s.pc = "loop" /\ n \in Nat \ {0}
  BY <1>1 DEF Take, Calls
<1>3. PICK k \in 0 .. Window : s.pending \in [n .. (n + k - 1) -> FetchStates]
  BY <1>1, <1>2, PendingInterval DEF FirstPending
<1>4. n \in DOMAIN s.pending /\ k > 0 /\ DOMAIN s.pending = n .. (n + k - 1)
  <2>1. DOMAIN s.pending # {}
    BY DEF Take
  <2> QED
    BY <1>2, <1>3, <2>1
<1>5. streams' = [streams EXCEPT ![i] = t]
  BY <1>4 DEF Take, Become
<1>6. p \in [(n + 1) .. (n + 1 + (k - 1) - 1) -> FetchStates]
  <2>1. DOMAIN s.pending \ {n} = (n + 1) .. (n + 1 + (k - 1) - 1)
    BY <1>2, <1>4
  <2> QED
    BY <1>3, <1>4, <2>1
<1>7. \A m \in DOMAIN s.pending : m <= chain
  BY DEF CallInv
<1>8. p \in Pendings
  <2>1. (n + 1) .. (n + 1 + (k - 1) - 1) \in SUBSET (1 .. ChainHeight)
    BY <1>1, <1>2, <1>4, <1>7
  <2> QED
    BY <1>6, <2>1 DEF Pendings
<1>9. taken \in {0, n} /\ taken <= chain /\ taken \in Nat
  BY <1>1, <1>2, <1>4, <1>7
<1>10. DOMAIN p = (n + 1) .. (n + 1 + (k - 1) - 1) /\ \A m \in DOMAIN p : m <= chain
  BY <1>4, <1>6, <1>7
<1> HIDE DEF p, taken
<1>11. t \in Calls
  BY <1>1, <1>8, <1>9 DEF Calls
<1>12. /\ t.pc = "send" /\ t.nextToSend = n /\ t.latestBlock = s.latestBlock
       /\ t.pending = p /\ t.taken = taken /\ t.out = s.out
  BY <1>1 DEF Calls
<1> HIDE DEF t
<1>13. CallInv(t, chain)
  <2>1. DOMAIN t.pending = FirstPending(t) .. (FirstPending(t) + (k - 1) - 1)
    BY <1>10, <1>12 DEF FirstPending
  <2>2. k - 1 \in 0 .. Window /\ k - 1 < Window
    BY <1>4
  <2>3. s.latestBlock <= chain /\ InOrder(s.out, n, chain)
    BY DEF CallInv
  <2> QED
    BY <1>9, <1>10, <1>12, <2>1, <2>2, <2>3 DEF CallInv
<1> QED
  BY <1>5, <1>11, <1>12, <1>13 DEF Keeps, NextToRead

\* The channel after a send: as much in order as before it, and one more.
LEMMA SentInOrder ==
  ASSUME NEW height \in Nat, NEW old \in Seq(Nat), NEW n \in Nat, NEW taken \in {0, n},
         taken <= height, Len(old) < Window, InOrder(old, n, height)
  PROVE  /\ Append(old, taken) \in Seq(Nat)
         /\ Len(Append(old, taken)) = Len(old) + 1
         /\ InOrder(Append(old, taken), n + 1, height)
<1> DEFINE out == Append(old, taken)
<1>1. /\ out \in Seq(Nat) /\ Len(out) = Len(old) + 1 /\ Len(old) \in Nat
      /\ \A i \in 1 .. Len(old) : out[i] = old[i]
      /\ out[Len(old) + 1] = taken
  OBVIOUS
<1> HIDE DEF out
<1>2. ASSUME NEW i \in 1 .. Len(out)
      PROVE  out[i] \in {0, (n + 1) - Len(out) + i - 1} /\ out[i] <= height
  <2>1. CASE i = Len(old) + 1
    BY <1>1, <2>1
  <2>2. CASE i # Len(old) + 1
    <3>1. i \in 1 .. Len(old)
      BY <1>1, <2>2
    <3>2. n - Len(old) + i - 1 = (n + 1) - Len(out) + i - 1
      BY <1>1, <3>1
    <3> QED
      BY <1>1, <3>1, <3>2 DEF InOrder
  <2> QED
    BY <2>1, <2>2
<1>3. InOrder(out, n + 1, height)
  BY <1>1, <1>2 DEF InOrder
<1> QED
  BY <1>1, <1>3 DEF out

\* The channel after a receive, and what was received.
LEMMA ReceivedInOrder ==
  ASSUME NEW height \in Nat, NEW old \in Seq(Nat), NEW n \in Nat, old # <<>>,
         InOrder(old, n, height)
  PROVE  /\ Tail(old) \in Seq(Nat) /\ Len(Tail(old)) = Len(old) - 1
         /\ InOrder(Tail(old), n, height)
         /\ Head(old) \in {0, n - Len(old)} /\ Head(old) <= height /\ Head(old) \in Nat
<1>1. /\ Len(old) \in Nat \ {0} /\ Tail(old) \in Seq(Nat) /\ Len(Tail(old)) = Len(old) - 1
      /\ \A i \in 1 .. Len(Tail(old)) : Tail(old)[i] = old[i + 1]
      /\ Head(old) = old[1]
  OBVIOUS
<1>2. ASSUME NEW i \in 1 .. Len(Tail(old))
      PROVE  /\ Tail(old)[i] \in {0, n - Len(Tail(old)) + i - 1}
             /\ Tail(old)[i] <= height
  <2>1. i + 1 \in 1 .. Len(old)
    BY <1>1
  <2>2. n - Len(old) + (i + 1) - 1 = n - Len(Tail(old)) + i - 1
    BY <1>1
  <2> QED
    BY <1>1, <2>1, <2>2 DEF InOrder
<1>3. Head(old) \in {0, n - Len(old)} /\ Head(old) <= height /\ Head(old) \in Nat
  <2>1. n - Len(old) + 1 - 1 = n - Len(old) /\ 1 \in 1 .. Len(old)
    BY <1>1
  <2> QED
    BY <1>1, <2>1 DEF InOrder
<1>4. InOrder(Tail(old), n, height)
  BY <1>1, <1>2 DEF InOrder
<1> QED
  BY <1>1, <1>3, <1>4

\* Refilling once more with a newer head is refilling with it.
LEMMA SendKeeps ==
  ASSUME TypeOK, TrackerInv, NEW i \in 1 .. Len(streams), CallInv(streams[i], chain), Send(i)
  PROVE  \E t : Keeps(i, t)
<1> DEFINE s == streams[i]
           next == s.nextToSend + 1
           refilled == Fill(next, s.pending, s.latestBlock)
           out == Append(s.out, s.taken)
           sent == [s EXCEPT !.pc = "loop", !.taken = 0, !.nextToSend = next, !.out = out]
           short == Cardinality(DOMAIN refilled) < Window
           latest == IF short THEN Refreshed(s) ELSE s.latestBlock
           p == IF short THEN Fill(next, refilled, Refreshed(s)) ELSE refilled
           t == [s EXCEPT !.pc = "loop", !.taken = 0, !.nextToSend = next, !.out = out,
                          !.latestBlock = latest, !.pending = p]
<1>1. s \in Calls /\ chain \in 0 .. ChainHeight
  BY DEF TypeOK
<1>2. s.pc = "send" /\ Len(s.out) < Window
  BY DEF Send
<1>3. next \in Nat \ {0} /\ FirstPending(s) = next
  BY <1>1, <1>2 DEF Calls, FirstPending
<1>4. streams' = [streams EXCEPT ![i] = t]
  <2>1. streams' = [streams EXCEPT ![i] =
          IF short THEN [sent EXCEPT !.latestBlock = Refreshed(s),
                                     !.pending = Fill(next, refilled, Refreshed(s))]
          ELSE [sent EXCEPT !.pending = refilled]]
    BY DEF Send, Become
  <2>2. CASE short
    <3>1. t = [sent EXCEPT !.latestBlock = Refreshed(s),
                           !.pending = Fill(next, refilled, Refreshed(s))]
      BY <2>2
    <3> QED
      BY <2>1, <2>2, <3>1
  <2>3. CASE ~short
    <3>1. t = [sent EXCEPT !.pending = refilled]
      BY <1>1, <2>3 DEF Calls
    <3> QED
      BY <2>1, <2>3, <3>1
  <2> QED
    BY <2>2, <2>3
<1>5. PICK k \in 0 .. Window : s.pending \in [next .. (next + k - 1) -> FetchStates]
  BY <1>1, <1>3, PendingInterval
<1>6. /\ s.latestBlock \in 0 .. ChainHeight /\ s.latestBlock <= chain
      /\ \A n \in DOMAIN s.pending : n <= chain
  BY <1>1 DEF CallInv, Calls
<1>7. Refreshed(s) \in 0 .. ChainHeight /\ Refreshed(s) <= chain
  BY <1>1, RefreshedBound
<1>8. PICK k2 \in 0 .. Window :
        /\ refilled \in [next .. (next + k2 - 1) -> FetchStates]
        /\ refilled \in Pendings
        /\ \A n \in next .. (next + k2 - 1) : n <= chain
  <2> HIDE DEF s, next
  <2> QED
    BY <1>1, <1>3, <1>5, <1>6, RefillKeeps
<1>9. \E j \in 0 .. Window :
        /\ p \in [next .. (next + j - 1) -> FetchStates]
        /\ p \in Pendings
        /\ \A n \in next .. (next + j - 1) : n <= chain
  <2>1. CASE short
    <3>1. \A n \in DOMAIN refilled : n <= chain
      BY <1>8
    <3>2. \E j \in 0 .. Window :
            /\ Fill(next, refilled, Refreshed(s)) \in [next .. (next + j - 1) -> FetchStates]
            /\ Fill(next, refilled, Refreshed(s)) \in Pendings
            /\ \A n \in next .. (next + j - 1) : n <= chain
      <4> HIDE DEF refilled, s, next
      <4> QED
        BY <1>1, <1>3, <1>7, <1>8, <3>1, RefillKeeps
    <3> QED
      BY <2>1, <3>2
  <2>2. CASE ~short
    BY <1>8, <2>2
  <2> QED
    BY <2>1, <2>2
<1>10. PICK j \in 0 .. Window :
         /\ p \in [next .. (next + j - 1) -> FetchStates]
         /\ p \in Pendings
         /\ \A n \in next .. (next + j - 1) : n <= chain
  BY <1>9
<1>11. latest \in Nat /\ latest <= chain
  BY <1>6, <1>7
<1>12. out \in Seq(Nat) /\ Len(out) = Len(s.out) + 1 /\ InOrder(out, next, chain)
  <2>1. /\ s.out \in Seq(Nat) /\ s.nextToSend \in Nat /\ chain \in Nat
        /\ s.taken \in {0, s.nextToSend} /\ s.taken <= chain
        /\ InOrder(s.out, s.nextToSend, chain)
    BY <1>1 DEF CallInv, Calls
  <2> QED
    BY <1>2, <2>1, SentInOrder
<1> HIDE DEF p, latest, out, short, next
<1>13. t \in Calls
  BY <1>1, <1>3, <1>10, <1>11, <1>12 DEF Calls
<1>14. /\ t.pc = "loop" /\ t.nextToSend = next /\ t.latestBlock = latest
       /\ t.pending = p /\ t.taken = 0 /\ t.out = out
  BY <1>1 DEF Calls
<1> HIDE DEF t
<1>15. CallInv(t, chain)
  <2>1. DOMAIN t.pending = FirstPending(t) .. (FirstPending(t) + j - 1)
    BY <1>10, <1>14 DEF FirstPending
  <2>2. \A n \in DOMAIN t.pending : n <= chain
    BY <1>10, <1>14
  <2>3. 0 <= chain
    BY <1>1
  <2> QED
    BY <1>10, <1>11, <1>12, <1>14, <2>1, <2>2, <2>3 DEF CallInv
<1>16. NextToRead(t) = NextToRead(s)
  <2>1. s.nextToSend \in Nat /\ Len(s.out) \in Nat /\ next = s.nextToSend + 1
    BY <1>1 DEF Calls, next
  <2>2. \A a, b \in Nat : (a + 1) - (b + 1) = a - b
    OBVIOUS
  <2>3. (s.nextToSend + 1) - (Len(s.out) + 1) = s.nextToSend - Len(s.out)
    BY <2>1, <2>2, Zenon
  <2> QED
    BY <1>12, <1>14, <2>1, <2>3, Zenon DEF NextToRead
<1> QED
  BY <1>4, <1>13, <1>15, <1>16 DEF Keeps

\* A step of one call leaves the others, the loop and the store as they are.
LEMMA StreamStepKeeps ==
  ASSUME StreamInv, NEW i \in DOMAIN streams, StreamStep(i)
  PROVE  StreamInv'
<1>1. TypeOK /\ TrackerInv /\ LoopInv
      /\ \A j \in 1 .. Len(streams) : CallInv(streams[j], chain)
  BY DEF StreamInv, CallsInv
<1>2. streams \in Seq(Calls) /\ i \in 1 .. Len(streams) /\ Len(streams) \in Nat
  BY <1>1 DEF TypeOK
<1>3. PICK t : Keeps(i, t)
  BY <1>1, <1>2, PollKeeps, FetchedKeeps, TakeKeeps, SendKeeps DEF StreamStep
<1>4. UNCHANGED <<storeVars, ingestionVars, trackerVars, faults>>
  BY DEF StreamStep, Poll, Fetched, Take, Send, Become
<1>5. /\ streams' \in Seq(Calls) /\ Len(streams') = Len(streams)
      /\ streams'[i] = t
      /\ \A j \in 1 .. Len(streams) : j # i => streams'[j] = streams[j]
  BY <1>2, <1>3 DEF Keeps
<1>6. TypeOK' /\ TrackerInv'
  BY <1>1, <1>4, <1>5
     DEF TypeOK, TrackerInv, StoreTypeOK, IngestionTypeOK, storeVars, ingestionVars, trackerVars
<1>7. CallsInv'
  <2> SUFFICES ASSUME NEW j \in 1 .. Len(streams')
               PROVE  CallInv(streams'[j], chain')
    BY DEF CallsInv
  <2>1. CallInv(streams'[j], chain)
    BY <1>1, <1>2, <1>3, <1>5 DEF Keeps
  <2>2. chain' = chain
    BY <1>4 DEF trackerVars
  <2> QED
    BY <2>1, <2>2
<1>8. LoopInv'
  <2>1. ASSUME ipc \in {"stream", "saved"}
        PROVE  streams' # <<>> /\ NextToRead(Reading') = saved + 1
    <3>1. NextToRead(Reading) = saved + 1 /\ Len(streams) > 0
      BY <1>1, <1>2, <2>1 DEF LoopInv
    <3>2. NextToRead(Reading') = NextToRead(Reading)
      BY <1>2, <1>3, <1>5, <3>1 DEF Keeps, Reading
    <3>3. streams' # <<>>
      BY <1>5, <3>1
    <3> QED
      BY <3>1, <3>2, <3>3
  <2> QED
    BY <1>1, <1>4, <2>1 DEF LoopInv, storeVars, ingestionVars, trackerVars, NextToRead
<1> QED
  BY <1>5, <1>6, <1>7, <1>8 DEF StreamInv

(***************************************************************************)
(* The head tracker.                                                       *)
(***************************************************************************)

\* What a call knows stays true when the chain grows.
LEMMA CallInvGrows ==
  ASSUME NEW s \in Calls, NEW c \in Nat, NEW d \in Nat, c <= d, CallInv(s, c)
  PROVE  CallInv(s, d)
<1>1. /\ s.latestBlock \in Nat /\ s.taken \in Nat
      /\ DOMAIN s.pending \subseteq 1 .. ChainHeight
      /\ \A m \in 1 .. Len(s.out) : s.out[m] \in Nat
  BY PendingType DEF Calls
<1>2. s.latestBlock <= d /\ s.taken <= d
  BY <1>1 DEF CallInv
<1>3. \A n \in DOMAIN s.pending : n <= d
  BY <1>1 DEF CallInv
<1>4. InOrder(s.out, s.nextToSend, d)
  BY <1>1 DEF CallInv, InOrder
<1> QED
  BY <1>2, <1>3, <1>4 DEF CallInv

LEMMA TrackerStepKeeps ==
  ASSUME StreamInv, TrackerStep
  PROVE  StreamInv'
<1>1. TypeOK /\ TrackerInv /\ LoopInv
      /\ \A j \in 1 .. Len(streams) : CallInv(streams[j], chain)
  BY DEF StreamInv, CallsInv
<1>2. UNCHANGED <<storeVars, ingestionVars, streams, faults>>
  BY DEF TrackerStep, ChainGrows, Subscribe, Disconnect, ReadHead, notTracker
<1>3. chain' \in 0 .. ChainHeight /\ chain <= chain'
  BY <1>1 DEF TrackerStep, ChainGrows, Subscribe, Disconnect, ReadHead, TypeOK
<1>4. /\ head' \in Nat /\ ws' \in {"down", "subscribed"}
      /\ heads' \in Seq(Nat)
      /\ TrackerInv'
  <2>1. CASE ChainGrows
    BY <1>1, <2>1 DEF ChainGrows, TypeOK, TrackerInv
  <2>2. CASE Subscribe
    BY <1>1, <2>2 DEF Subscribe, TypeOK, TrackerInv
  <2>3. CASE Disconnect
    BY <1>1, <2>3 DEF Disconnect, TypeOK, TrackerInv
  <2>4. CASE ReadHead
    BY <1>1, <2>4 DEF ReadHead, TypeOK, TrackerInv
  <2> QED
    BY <2>1, <2>2, <2>3, <2>4 DEF TrackerStep
<1>5. TypeOK'
  BY <1>1, <1>2, <1>3, <1>4 DEF TypeOK, StoreTypeOK, IngestionTypeOK, storeVars, ingestionVars
<1>6. LoopInv'
  <2>1. saved <= chain'
    BY <1>1, <1>3 DEF LoopInv, TypeOK, IngestionTypeOK
  <2>2. Reading' = Reading
    BY <1>2 DEF Reading
  <2> QED
    BY <1>1, <1>2, <2>1, <2>2 DEF LoopInv, storeVars, ingestionVars
<1>7. CallsInv'
  <2> SUFFICES ASSUME NEW j \in 1 .. Len(streams')
               PROVE  CallInv(streams'[j], chain')
    BY DEF CallsInv
  <2>1. CallInv(streams[j], chain) /\ streams[j] \in Calls /\ streams' = streams
    BY <1>1, <1>2 DEF TypeOK
  <2> QED
    BY <1>1, <1>3, <2>1, CallInvGrows DEF TypeOK
<1> QED
  BY <1>5, <1>4, <1>6, <1>7 DEF StreamInv

(***************************************************************************)
(* The loop.                                                               *)
(***************************************************************************)
LEMMA NewStreamKnows ==
  ASSUME NEW from \in Nat \ {0}, NEW height \in Nat
  PROVE  /\ NewStream(from) \in Calls /\ CallInv(NewStream(from), height)
         /\ NextToRead(NewStream(from)) = from
<1> DEFINE p == [n \in {} |-> "fetching"]
           s == NewStream(from)
<1>1. /\ s.pc = "loop" /\ s.nextToSend = from /\ s.latestBlock = 0 /\ s.pending = p
      /\ s.taken = 0 /\ s.out = <<>>
  BY DEF NewStream
<1>2. p \in Pendings
  <2>1. p \in [{} -> FetchStates] /\ {} \in SUBSET (1 .. ChainHeight)
    OBVIOUS
  <2> QED
    BY <2>1 DEF Pendings
<1>3. s \in Calls
  BY <1>2 DEF NewStream, Calls
<1>4. DOMAIN s.pending = FirstPending(s) .. (FirstPending(s) + 0 - 1)
  <2>1. from .. (from + 0 - 1) = {}
    OBVIOUS
  <2> QED
    BY <1>1, <2>1 DEF FirstPending
<1>5. InOrder(<<>>, from, height)
  BY DEF InOrder
<1>6. DOMAIN s.pending = {}
  BY <1>1
<1> HIDE DEF s
<1>7. CallInv(s, height)
  <2>1. \E k \in 0 .. Window :
          /\ DOMAIN s.pending = FirstPending(s) .. (FirstPending(s) + k - 1)
          /\ s.pc = "send" => k < Window
    <3>1. 0 \in 0 .. Window
      OBVIOUS
    <3>2. s.pc # "send"
      BY <1>1
    <3> QED
      BY <1>4, <3>1, <3>2
  <2>2. \A n \in DOMAIN s.pending : n <= height
    BY <1>6
  <2>3. InOrder(s.out, s.nextToSend, height)
    BY <1>1, <1>5
  <2>4. s.latestBlock <= height /\ s.taken \in {0, s.nextToSend} /\ s.taken <= height
    BY <1>1
  <2>5. s.pc # "failed"
    BY <1>1
  <2> QED
    BY <2>1, <2>2, <2>3, <2>4, <2>5 DEF CallInv
<1>8. NextToRead(s) = from
  BY <1>1 DEF NextToRead
<1> QED
  BY <1>3, <1>7, <1>8 DEF s

\* The latest block of a store that is a run is the last one saved.
LEMMA LatestIsSaved ==
  ASSUME saved \in Nat, blocks = 1 .. saved, blocks # {}
  PROVE  LatestBlock = saved
<1>1. saved \in blocks /\ \A m \in blocks : m <= saved
  OBVIOUS
<1>2. LatestBlock \in blocks /\ \A m \in blocks : m <= LatestBlock
  BY <1>1 DEF LatestBlock
<1> QED
  BY <1>1, <1>2

\* Every resume, from blocks or from the absent meta key, expects the block
\* after the last one saved.
LEMMA ResumeEffect ==
  ASSUME TypeOK, LoopInv, ResumeFromBlocks \/ ResumeFallback
  PROVE  /\ ipc' = "stream" => currentBlock' = saved + 1
         /\ ipc' = "fallback" => saved = 0 /\ currentBlock' = currentBlock
         /\ ipc' \in {"stream", "fallback"}
<1> USE DEF TypeOK, IngestionTypeOK
<1>1. CASE ResumeFromBlocks
  <2>1. CASE blocks # {}
    BY <1>1, <2>1, LatestIsSaved DEF ResumeFromBlocks, LoopInv
  <2>2. CASE blocks = {}
    <3>1. saved = 0
      BY <2>2 DEF LoopInv
    <3> QED
      BY <1>1, <2>2, <3>1 DEF ResumeFromBlocks
  <2> QED
    BY <2>1, <2>2
<1>2. CASE ResumeFallback
  BY <1>2 DEF ResumeFallback, LoopInv
<1> QED
  BY <1>1, <1>2

LEMMA StartStreamKeeps ==
  ASSUME StreamInv, StartStream
  PROVE  StreamInv'
<1>1. TypeOK /\ TrackerInv /\ LoopInv
      /\ \A j \in 1 .. Len(streams) : CallInv(streams[j], chain)
  BY DEF StreamInv, CallsInv
<1>2. /\ UNCHANGED <<latestBlock, saved, storeVars>>
      /\ UNCHANGED <<trackerVars, faults>>
  BY DEF StartStream, ResumeFromBlocks, ResumeFallback
<1>3. /\ ipc' = "stream" => currentBlock' = saved + 1
      /\ ipc' = "fallback" => saved = 0 /\ currentBlock' = currentBlock
      /\ ipc' \in {"stream", "fallback"}
  BY <1>1, ResumeEffect DEF StartStream
<1>4. /\ streams \in Seq(Calls) /\ saved \in Nat /\ currentBlock \in Nat
      /\ chain \in Nat /\ chain' = chain
  BY <1>1, <1>2 DEF TypeOK, IngestionTypeOK, trackerVars
<1> DEFINE new == NewStream(saved + 1)
<1>5. new \in Calls /\ CallInv(new, chain) /\ NextToRead(new) = saved + 1
  BY <1>4, NewStreamKnows
<1>6. streams' = IF ipc' = "stream" THEN Append(streams, new) ELSE streams
  BY <1>3 DEF StartStream
<1> HIDE DEF new
<1>7. streams' \in Seq(Calls) /\ \A j \in 1 .. Len(streams') : CallInv(streams'[j], chain)
  <2>1. CASE ipc' = "stream"
    <3>1. /\ Append(streams, new) \in Seq(Calls)
          /\ Len(Append(streams, new)) = Len(streams) + 1 /\ Len(streams) \in Nat
          /\ \A j \in 1 .. Len(streams) : Append(streams, new)[j] = streams[j]
          /\ Append(streams, new)[Len(streams) + 1] = new
      BY <1>4, <1>5
    <3> QED
      BY <1>1, <1>5, <1>6, <2>1, <3>1
  <2>2. CASE ipc' # "stream"
    BY <1>1, <1>4, <1>6, <2>2
  <2> QED
    BY <2>1, <2>2
<1>8. TypeOK'
  <2>1. currentBlock' \in Nat
    BY <1>3, <1>4
  <2> QED
    BY <1>1, <1>2, <1>3, <1>7, <2>1
       DEF TypeOK, StoreTypeOK, IngestionTypeOK, storeVars, trackerVars
<1>9. LoopInv'
  <2>1. ASSUME ipc' = "stream"
        PROVE  streams' # <<>> /\ NextToRead(Reading') = saved + 1
    <3>1. Len(streams') = Len(streams) + 1 /\ Len(streams) \in Nat
          /\ streams'[Len(streams) + 1] = new
      BY <1>4, <1>5, <1>6, <2>1
    <3>2. Reading' = new /\ streams' # <<>>
      BY <3>1 DEF Reading
    <3> QED
      BY <1>5, <3>2
  <2>2. NextToRead(Reading)' = NextToRead(Reading')
    BY DEF NextToRead
  <2> QED
    BY <1>1, <1>2, <1>3, <1>4, <2>1, <2>2 DEF LoopInv, storeVars
<1>10. TrackerInv' /\ CallsInv'
  BY <1>1, <1>2, <1>4, <1>7 DEF TrackerInv, CallsInv, trackerVars
<1> QED
  BY <1>8, <1>9, <1>10 DEF StreamInv

\* A block leaves the channel of the last stream; what is read is the block its
\* reader expects, or a null in its place.
LEMMA ReadKeeps ==
  ASSUME StreamInv, ipc = "stream", Reading.out # <<>>
  PROVE  /\ Read \in Seq(Calls) /\ Len(Read) = Len(streams) /\ streams # <<>>
         /\ \A j \in 1 .. Len(Read) : CallInv(Read[j], chain)
         /\ NextToRead(Read[Len(streams)]) = saved + 2
         /\ Head(Reading.out) \in {0, saved + 1} /\ Head(Reading.out) <= chain
<1> DEFINE last == Len(streams)
           s == streams[last]
           t == [s EXCEPT !.out = Tail(@)]
<1>1. /\ streams \in Seq(Calls) /\ streams # <<>> /\ saved \in Nat /\ chain \in Nat
      /\ NextToRead(s) = saved + 1
      /\ \A j \in 1 .. Len(streams) : CallInv(streams[j], chain)
  BY DEF StreamInv, CallsInv, LoopInv, TypeOK, IngestionTypeOK, Reading
<1>2. last \in 1 .. Len(streams) /\ last \in Nat
  BY <1>1
<1>3. s \in Calls /\ CallInv(s, chain) /\ s.out # <<>>
  BY <1>1, <1>2 DEF Reading
<1>4. s.out \in Seq(Nat) /\ s.nextToSend \in Nat /\ InOrder(s.out, s.nextToSend, chain)
  BY <1>3 DEF Calls, CallInv
<1>5. /\ Tail(s.out) \in Seq(Nat) /\ Len(Tail(s.out)) = Len(s.out) - 1
      /\ InOrder(Tail(s.out), s.nextToSend, chain)
      /\ Head(s.out) \in {0, s.nextToSend - Len(s.out)} /\ Head(s.out) <= chain
  BY <1>1, <1>3, <1>4, ReceivedInOrder
<1>6. Head(Reading.out) \in {0, saved + 1} /\ Head(Reading.out) <= chain
  BY <1>1, <1>5 DEF NextToRead, Reading
<1>7. t \in Calls
  BY <1>3, <1>5 DEF Calls
<1>8. /\ t.pc = s.pc /\ t.nextToSend = s.nextToSend /\ t.latestBlock = s.latestBlock
      /\ t.pending = s.pending /\ t.taken = s.taken /\ t.out = Tail(s.out)
  BY <1>3 DEF Calls
<1>9. Read = [streams EXCEPT ![last] = t]
  BY DEF Read
<1> HIDE DEF t
<1>10. CallInv(t, chain)
  <2>1. FirstPending(t) = FirstPending(s)
    BY <1>8 DEF FirstPending
  <2> QED
    BY <1>3, <1>5, <1>8, <2>1 DEF CallInv
<1>11. NextToRead(t) = saved + 2
  <2>1. NextToRead(t) = s.nextToSend - (Len(s.out) - 1)
    BY <1>5, <1>8 DEF NextToRead
  <2>2. s.nextToSend - Len(s.out) = saved + 1
    BY <1>1 DEF NextToRead
  <2>3. s.nextToSend \in Nat /\ Len(s.out) \in Nat
    BY <1>4
  <2>4. saved \in Nat
    BY <1>1
  <2> DEFINE a == s.nextToSend
             b == Len(s.out)
  <2>5. a \in Nat /\ b \in Nat /\ a - b = saved + 1
    BY <2>2, <2>3
  <2> HIDE DEF a, b
  <2>6. a - (b - 1) = saved + 2
    BY <2>4, <2>5
  <2>7. s.nextToSend - (Len(s.out) - 1) = saved + 2
    BY <2>6, Zenon DEF a, b
  <2> QED
    BY <2>1, <2>7, Zenon
<1> HIDE DEF s
<1>12. /\ Read \in Seq(Calls) /\ Len(Read) = Len(streams) /\ Read[last] = t
       /\ \A j \in 1 .. Len(streams) : j # last => Read[j] = streams[j]
  BY <1>1, <1>2, <1>7, <1>9
<1> QED
  BY <1>1, <1>6, <1>10, <1>11, <1>12

LEMMA ReceiveKeeps ==
  ASSUME StreamInv, Receive
  PROVE  StreamInv'
<1>1. TypeOK /\ TrackerInv /\ LoopInv /\ CallsInv
  BY DEF StreamInv
<1>2. /\ ipc = "stream" /\ Reading.out # <<>> /\ streams' = Read
      /\ UNCHANGED <<trackerVars, faults>>
      /\ SaveReceived(Head(Reading.out))
  BY DEF Receive
<1>3. /\ Read \in Seq(Calls) /\ Len(Read) = Len(streams) /\ streams # <<>>
      /\ \A j \in 1 .. Len(Read) : CallInv(Read[j], chain)
      /\ NextToRead(Read[Len(streams)]) = saved + 2
      /\ Head(Reading.out) \in {0, saved + 1} /\ Head(Reading.out) <= chain
  BY <1>2, ReadKeeps
<1>4. currentBlock = saved + 1 /\ saved \in Nat /\ saved + 1 <= chain
  BY <1>1, <1>2, <1>3 DEF LoopInv, SaveReceived, TypeOK, IngestionTypeOK
<1>5. /\ ipc' = "saved" /\ saved' = saved + 1 /\ blocks' = 1 .. (saved + 1)
      /\ UNCHANGED <<batches, meta, currentBlock, latestBlock>>
  BY <1>1, <1>2, <1>4 DEF SaveReceived, WithBlock, Advance, LoopInv
<1>6. TypeOK'
  BY <1>1, <1>2, <1>3, <1>4, <1>5 DEF TypeOK, StoreTypeOK, IngestionTypeOK, trackerVars
<1>7. TrackerInv' /\ CallsInv'
  BY <1>1, <1>2, <1>3 DEF TrackerInv, CallsInv, trackerVars
<1>8. LoopInv'
  <2>1. Reading' = Read[Len(streams)] /\ streams' # <<>>
    BY <1>2, <1>3 DEF Reading
  <2>2. NextToRead(Reading)' = NextToRead(Reading')
    BY DEF NextToRead
  <2>3. chain' = chain
    BY <1>2 DEF trackerVars
  <2> QED
    BY <1>1, <1>3, <1>4, <1>5, <2>1, <2>2, <2>3 DEF LoopInv
<1> QED
  BY <1>6, <1>7, <1>8 DEF StreamInv

\* A block that is refused, and one whose write fails, applied or not: the loop
\* resumes.
LEMMA DropKeeps ==
  ASSUME StreamInv, Refuse \/ LoseSave
  PROVE  StreamInv'
<1>1. TypeOK /\ TrackerInv /\ LoopInv /\ CallsInv
  BY DEF StreamInv
<1>2. /\ ipc = "stream" /\ Reading.out # <<>> /\ streams' = Read
      /\ faults < MaxFaults /\ faults' = faults + 1
      /\ UNCHANGED <<trackerVars, batches, meta, currentBlock, latestBlock>>
      /\ ipc' = "wait"
  BY DEF Refuse, LoseSave, RejectReceived, SaveFails, storeVars
<1>3. /\ Read \in Seq(Calls) /\ Len(Read) = Len(streams)
      /\ \A j \in 1 .. Len(Read) : CallInv(Read[j], chain)
      /\ Head(Reading.out) <= chain
  BY <1>2, ReadKeeps
<1>4. currentBlock = saved + 1 /\ saved \in Nat
  BY <1>1, <1>2 DEF LoopInv, TypeOK, IngestionTypeOK
<1>5. saved' \in Nat /\ blocks' = 1 .. saved' /\ saved' <= chain
  <2>1. CASE UNCHANGED <<blocks, saved>>
    BY <1>1, <1>4, <2>1 DEF LoopInv
  <2>2. CASE ~ UNCHANGED <<blocks, saved>>
    <3>1. /\ blocks' = WithBlock(currentBlock) /\ saved' = Advance(currentBlock)
          /\ Head(Reading.out) = currentBlock
      BY <2>2 DEF Refuse, LoseSave, RejectReceived, SaveFails, storeVars
    <3>2. saved' = saved + 1 /\ blocks' = 1 .. (saved + 1)
      BY <1>1, <1>4, <3>1 DEF WithBlock, Advance, LoopInv
    <3> QED
      BY <1>3, <1>4, <3>1, <3>2
  <2> QED
    BY <2>1, <2>2
<1>6. TypeOK'
  <2>1. blocks' \in SUBSET Nat
    BY <1>5
  <2>2. StoreTypeOK'
    BY <1>1, <1>2, <2>1 DEF TypeOK, StoreTypeOK
  <2>3. IngestionTypeOK'
    BY <1>1, <1>2, <1>5 DEF TypeOK, IngestionTypeOK
  <2>4. faults' \in 0 .. MaxFaults
    BY <1>1, <1>2, StreamAssumption DEF TypeOK
  <2> QED
    BY <1>1, <1>2, <1>3, <2>2, <2>3, <2>4 DEF TypeOK, trackerVars
<1>7. TrackerInv' /\ CallsInv'
  BY <1>1, <1>2, <1>3 DEF TrackerInv, CallsInv, trackerVars
<1>8. LoopInv'
  BY <1>1, <1>2, <1>5 DEF LoopInv, trackerVars
<1> QED
  BY <1>6, <1>7, <1>8 DEF StreamInv

\* The height is announced and the next block expected, or the loop goes to
\* resume.
LEMMA ProceedKeeps ==
  ASSUME StreamInv, Proceed
  PROVE  StreamInv'
<1>1. TypeOK /\ TrackerInv /\ LoopInv /\ CallsInv
  BY DEF StreamInv
<1>2. UNCHANGED <<trackerVars, storeVars, saved, streams, faults>>
  BY DEF Proceed, UpdateLatestBlock, Retry
<1>3. /\ currentBlock' \in Nat /\ latestBlock' \in Nat /\ ipc' \in {"stream", "resume"}
      /\ ipc' = "stream" => ipc = "saved" /\ currentBlock' = currentBlock + 1
  BY <1>1 DEF Proceed, UpdateLatestBlock, Retry, TypeOK, IngestionTypeOK
<1>4. TypeOK'
  BY <1>1, <1>2, <1>3
     DEF TypeOK, StoreTypeOK, IngestionTypeOK, trackerVars, storeVars
<1>5. TrackerInv' /\ CallsInv'
  BY <1>1, <1>2 DEF TrackerInv, CallsInv, trackerVars
<1>6. LoopInv'
  <2>1. Reading' = Reading
    BY <1>2 DEF Reading
  <2>2. ipc' = "stream" => currentBlock' = saved + 1
    BY <1>1, <1>3 DEF LoopInv
  <2> QED
    BY <1>1, <1>2, <1>3, <2>1, <2>2 DEF LoopInv, trackerVars, storeVars
<1> QED
  BY <1>4, <1>5, <1>6 DEF StreamInv

LEMMA CrashKeeps ==
  ASSUME StreamInv, Crash
  PROVE  StreamInv'
<1>1. TypeOK /\ LoopInv
  BY DEF StreamInv
<1>2. TypeOK'
  <2>1. StoreTypeOK'
    BY <1>1 DEF Crash, TypeOK, StoreTypeOK, storeVars
  <2>2. IngestionTypeOK'
    BY <1>1 DEF Crash, TypeOK, IngestionTypeOK
  <2>3. /\ chain' \in 0 .. ChainHeight /\ head' \in Nat /\ faults' \in 0 .. MaxFaults
        /\ ws' \in {"down", "subscribed"}
    BY <1>1, StreamAssumption, ChainHeightAssumption DEF Crash, TypeOK
  <2>4. heads' \in Seq(Nat) /\ streams' \in Seq(Calls)
    BY DEF Crash
  <2> QED
    BY <2>1, <2>2, <2>3, <2>4 DEF TypeOK
<1>3. TrackerInv'
  BY <1>1 DEF Crash, TrackerInv, TypeOK
<1>4. LoopInv'
  BY <1>1 DEF Crash, LoopInv, storeVars
<1>5. CallsInv'
  BY DEF Crash, CallsInv
<1> QED
  BY <1>2, <1>3, <1>4, <1>5 DEF StreamInv

(***************************************************************************)
(* The theorems.                                                           *)
(***************************************************************************)

LEMMA StreamInit ==
  ASSUME Init
  PROVE  StreamInv
<1>1. TypeOK
  BY DEF Init, StoreInit, IngestionInit, TypeOK, StoreTypeOK, IngestionTypeOK
<1>2. TrackerInv /\ CallsInv
  BY DEF Init, TrackerInv, CallsInv
<1>3. LoopInv
  BY DEF Init, StoreInit, IngestionInit, LoopInv
<1> QED
  BY <1>1, <1>2, <1>3 DEF StreamInv

LEMMA StreamNext ==
  ASSUME StreamInv, [Next]_vars
  PROVE  StreamInv'
<1>1. CASE StartStream
  BY <1>1, StartStreamKeeps
<1>2. CASE Receive
  BY <1>2, ReceiveKeeps
<1>3. CASE Refuse \/ LoseSave
  BY <1>3, DropKeeps
<1>4. CASE Proceed
  BY <1>4, ProceedKeeps
<1>5. CASE Crash
  BY <1>5, CrashKeeps
<1>6. CASE TrackerStep
  BY <1>6, TrackerStepKeeps
<1>7. CASE \E i \in DOMAIN streams : StreamStep(i)
  BY <1>7, StreamStepKeeps
<1>8. CASE UNCHANGED vars
  <2>1. Reading' = Reading
    BY <1>8 DEF vars, Reading
  <2> QED
    BY <1>8, <2>1
       DEF vars, StreamInv, TypeOK, StoreTypeOK, IngestionTypeOK, TrackerInv, LoopInv, CallsInv,
           storeVars, ingestionVars, trackerVars
<1> QED
  BY <1>1, <1>2, <1>3, <1>4, <1>5, <1>6, <1>7, <1>8 DEF Next, LoopStep

\* The inductive invariant of the loop, the tracker and every call of
\* StreamBlocks.
THEOREM StreamInvariant == Spec => []StreamInv
<1>1. Init => StreamInv
  BY StreamInit
<1>2. StreamInv /\ [Next]_vars => StreamInv'
  BY StreamNext
<1> QED
  BY <1>1, <1>2, PTL DEF Spec

\* Type correctness of the store, the loop, the tracker and the streams.
THEOREM StreamTypes == Spec => []TypeOK
<1>1. StreamInv => TypeOK
  BY DEF StreamInv
<1> QED
  BY <1>1, StreamInvariant, PTL

\* refreshAndFill in fetcher.go never leaves a hole: "missing pending fetch"
\* is dead code, for every window and chain.
THEOREM WindowIsContiguous == Spec => []WindowContiguous
<1>1. ASSUME StreamInv PROVE WindowContiguous
  <2> SUFFICES ASSUME NEW i \in DOMAIN streams
               PROVE  /\ streams[i].pc # "failed"
                      /\ DOMAIN streams[i].pending =
                           FirstPending(streams[i]) ..
                             (FirstPending(streams[i]) + Cardinality(DOMAIN streams[i].pending) - 1)
    BY DEF WindowContiguous
  <2> DEFINE s == streams[i]
  <2>1. s \in Calls /\ CallInv(s, chain)
    BY <1>1 DEF StreamInv, TypeOK, CallsInv
  <2>2. PICK k \in 0 .. Window :
          /\ s.pending \in [FirstPending(s) .. (FirstPending(s) + k - 1) -> FetchStates]
          /\ Cardinality(DOMAIN s.pending) = k
    BY <2>1, PendingInterval
  <2>3. s.pc # "failed"
    BY <2>1 DEF CallInv
  <2> QED
    BY <2>2, <2>3
<1> QED
  BY <1>1, StreamInvariant, PTL

\* The loop of main.go reads the blocks from the one it expects on, in order,
\* or nulls in their places, whatever streams it left before.
THEOREM StreamInTurn == Spec => []DeliveredInOrder
<1>1. ASSUME StreamInv PROVE DeliveredInOrder
  <2> SUFFICES ASSUME ipc \in {"stream", "saved"}
               PROVE  /\ Reading.nextToSend = saved + 1 + Len(Reading.out)
                      /\ \A i \in DOMAIN Reading.out :
                           Reading.out[i] \in {0, saved + 1 + i - 1}
    BY <1>1 DEF DeliveredInOrder, StreamInv, LoopInv
  <2>1. /\ streams \in Seq(Calls) /\ streams # <<>> /\ saved \in Nat
        /\ NextToRead(Reading) = saved + 1
    BY <1>1 DEF StreamInv, LoopInv, TypeOK, IngestionTypeOK
  <2>2. Reading \in Calls /\ CallInv(Reading, chain)
    BY <1>1, <2>1 DEF StreamInv, CallsInv, Reading
  <2>3. /\ Reading.nextToSend \in Nat /\ Len(Reading.out) \in Nat
        /\ DOMAIN Reading.out = 1 .. Len(Reading.out)
    BY <2>2 DEF Calls
  <2>4. Reading.nextToSend = saved + 1 + Len(Reading.out)
    <3>1. Reading.nextToSend - Len(Reading.out) = saved + 1
      BY <2>1, Zenon DEF NextToRead
    <3> DEFINE a == Reading.nextToSend
               b == Len(Reading.out)
    <3>2. a \in Nat /\ b \in Nat /\ a - b = saved + 1 /\ saved \in Nat
      BY <2>1, <2>3, <3>1
    <3> HIDE DEF a, b
    <3>3. a = saved + 1 + b
      BY <3>2
    <3> QED
      BY <3>3, Zenon DEF a, b
  <2>5. \A i \in 1 .. Len(Reading.out) :
          Reading.out[i] \in {0, Reading.nextToSend - Len(Reading.out) + i - 1}
    BY <2>2 DEF CallInv, InOrder
  <2> QED
    BY <2>1, <2>3, <2>4, <2>5
<1> QED
  BY <1>1, StreamInvariant, PTL

\* No call of StreamBlocks holds more than two windows, however many were left
\* before it.
THEOREM StreamMemory == Spec => []MemoryBounded
<1>1. ASSUME StreamInv PROVE MemoryBounded
  <2> SUFFICES ASSUME NEW i \in DOMAIN streams
               PROVE  Cardinality(DOMAIN streams[i].pending) + Len(streams[i].out)
                        + (IF streams[i].pc = "send" THEN 1 ELSE 0) <= 2 * Window
    BY DEF MemoryBounded
  <2> DEFINE s == streams[i]
  <2>1. s \in Calls /\ CallInv(s, chain)
    BY <1>1 DEF StreamInv, TypeOK, CallsInv
  <2>2. PICK k \in 0 .. Window :
          /\ Cardinality(DOMAIN s.pending) = k
          /\ s.pc = "send" => k < Window
    BY <2>1, PendingInterval
  <2>3. Len(s.out) \in Nat /\ Len(s.out) <= Window
    BY <2>1 DEF CallInv, InOrder, Calls
  <2> QED
    BY <2>2, <2>3
<1> QED
  BY <1>1, StreamInvariant, PTL

\* Nothing is fetched or saved before the chain has it.
THEOREM StreamBehindChain == Spec => []NeverAheadOfChain
<1>1. StreamInv => NeverAheadOfChain
  BY DEF StreamInv, NeverAheadOfChain, TypeOK, TrackerInv, LoopInv, CallsInv, CallInv
<1> QED
  BY <1>1, StreamInvariant, PTL

(***************************************************************************)
(* Refinement of Sink.                                                     *)
(***************************************************************************)

\* What the loop reads from its stream is one of the numbers Sink lets arrive.
LEMMA ReadNumber ==
  ASSUME StreamInv, ipc = "stream", Reading.out # <<>>
  PROVE  /\ Head(Reading.out) \in 0 .. ChainHeight
         /\ Head(Reading.out) = currentBlock => Head(Reading.out) \in 1 .. ChainHeight
<1>1. Head(Reading.out) \in {0, saved + 1} /\ Head(Reading.out) <= chain
  BY ReadKeeps
<1>2. /\ chain \in 0 .. ChainHeight /\ saved \in Nat /\ currentBlock = saved + 1
  BY DEF StreamInv, TypeOK, IngestionTypeOK, LoopInv
<1> QED
  BY <1>1, <1>2

\* Reading a block, or resuming, is what the loop of a sink does.
LEMMA LoopImplementsSink ==
  ASSUME StreamInv, LoopStep \/ LoseSave
  PROVE  RestingSink!Next
<1>1. CASE StartStream \/ Proceed
  <2>1. ResumeFromBlocks \/ ResumeFallback \/ UpdateLatestBlock \/ Retry
    BY <1>1 DEF StartStream, Proceed
  <2>2. RestingSink!Ingest
    BY <2>1 DEF RestingSink!Ingest, RestingSink!IngestionStep, RestingSink!compactorVars,
       ResumeFromBlocks, ResumeFallback, UpdateLatestBlock, Retry,
       RestingSink!ResumeFromBlocks, RestingSink!ResumeFallback,
       RestingSink!UpdateLatestBlock, RestingSink!Retry,
       LatestBlock, LatestBatch, RestingSink!LatestBlock, RestingSink!LatestBatch,
       storeVars, RestingSink!storeVars
  <2> QED
    BY <2>2 DEF RestingSink!Next
<1>2. CASE Receive
  <2>1. SaveReceived(Head(Reading.out)) /\ Head(Reading.out) \in 1 .. ChainHeight
    BY <1>2, ReadNumber DEF Receive, SaveReceived
  <2>2. RestingSink!SaveReceived(Head(Reading.out))
    BY <2>1 DEF SaveReceived, RestingSink!SaveReceived, WithBlock, RestingSink!WithBlock,
                Advance, RestingSink!Advance
  <2> QED
    BY <2>1, <2>2 DEF RestingSink!Next, RestingSink!Ingest, RestingSink!IngestionStep,
                      RestingSink!compactorVars
<1>3. CASE Refuse \/ LoseSave
  <2>1. RestingSink!IngestionFault
    <3>1. CASE Refuse
      <4>1. RejectReceived(Head(Reading.out)) /\ Head(Reading.out) \in 0 .. ChainHeight
        BY <3>1, ReadNumber DEF Refuse
      <4>2. RestingSink!RejectReceived(Head(Reading.out))
        BY <4>1 DEF RejectReceived, RestingSink!RejectReceived, storeVars, RestingSink!storeVars
      <4> QED
        BY <4>1, <4>2 DEF RestingSink!IngestionFault
    <3>2. CASE LoseSave
      <4>1. SaveFails
        BY <3>2 DEF LoseSave
      <4>2. RestingSink!SaveFails
        BY <4>1 DEF SaveFails, RestingSink!SaveFails, WithBlock, RestingSink!WithBlock,
                    Advance, RestingSink!Advance
      <4> QED
        BY <4>2 DEF RestingSink!IngestionFault
    <3> QED
      BY <1>3, <3>1, <3>2
  <2> QED
    BY <2>1 DEF RestingSink!Next, RestingSink!Fault, RestingSink!Failure,
                RestingSink!compactorVars
<1> QED
  BY <1>1, <1>2, <1>3 DEF LoopStep

\* The loop with the streams that feed it is a sink: what SinkProofs shows for any
\* order in which numbers may arrive covers what StreamBlocks delivers.
THEOREM StreamIsSink == Spec => IsSink
<1>1. Init => RestingSink!Init
  BY DEF Init, StoreInit, IngestionInit, RestingSink!Init, RestingSink!StoreInit,
         RestingSink!IngestionInit, RestingSink!CompactorInit
<1>2. ASSUME StreamInv, [Next]_vars
      PROVE  [RestingSink!Next]_RestingSink!vars
  <2>1. CASE LoopStep \/ LoseSave
    BY <1>2, <2>1, LoopImplementsSink
  <2>2. CASE Crash
    <3>1. RestingSink!Crash
      BY <2>2 DEF Crash, RestingSink!Crash, storeVars, RestingSink!storeVars
    <3> QED
      BY <3>1 DEF RestingSink!Next, RestingSink!Fault
  <2>3. CASE UNCHANGED <<storeVars, ingestionVars>>
    BY <2>3 DEF storeVars, ingestionVars, RestingSink!vars, RestingSink!storeVars,
                RestingSink!ingestionVars, RestingSink!compactorVars
  <2>4. TrackerStep => UNCHANGED <<storeVars, ingestionVars>>
    BY DEF TrackerStep, ChainGrows, Subscribe, Disconnect, ReadHead, notTracker
  <2>5. (\E i \in DOMAIN streams : StreamStep(i)) => UNCHANGED <<storeVars, ingestionVars>>
    BY DEF StreamStep, Poll, Take, Send, Fetched, Become
  <2> QED
    BY <1>2, <2>1, <2>2, <2>3, <2>4, <2>5 DEF Next, vars
<1> QED
  BY <1>1, <1>2, StreamInvariant, PTL DEF Spec, IsSink, RestingSink!Spec

=============================================================================
