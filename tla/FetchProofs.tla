---------------------------- MODULE FetchProofs ----------------------------
(***************************************************************************)
(* The safety of the fetch of one block, for every number of transactions, *)
(* every batch size and any number of retries: no answer is filed for a    *)
(* request it was not given for, no receipt of a stage that succeeded is   *)
(* missing, and no trace is nil without a precompile's error in its batch. *)
(***************************************************************************)
EXTENDS Fetch, FiniteSetTheorems, Arithmetic

USE FetchAssumption DEF AllBodies, Calling

(***************************************************************************)
(* The requests of a stage and their batches.                              *)
(***************************************************************************)
LEMMA StageSizes ==
  ASSUME TypeOK
  PROVE  /\ TxCount \in 0 .. MaxTx
         /\ RequestCount(stage) \in 0 .. MaxTx + 1
         /\ ChunkSize(stage) \in Nat \ {0}
<1>1. TxCount \in 0 .. MaxTx
  BY DEF TypeOK, TxCount
<1> QED
  BY <1>1 DEF TypeOK, RequestCount, ChunkSize

\* A block of the stage is divided by the size of the chunks.
LEMMA RequestChunk ==
  ASSUME TypeOK, NEW i \in 1 .. RequestCount(stage), NEW c \in Nat \ {0}
  PROVE  (i - 1) \div ChunkSize(stage) = c - 1 <=>
           FirstRequest(c) <= i /\ i < FirstRequest(c) + ChunkSize(stage)
<1> DEFINE size == ChunkSize(stage)
           q == c - 1
           m == q * size
<1>1. size \in Nat \ {0} /\ RequestCount(stage) \in Nat
  BY StageSizes
<1>2. i - 1 \in Nat /\ i \in Nat /\ q \in Nat
  BY <1>1
<1> HIDE DEF size, q
<1>3. m \in Nat
  BY <1>1, <1>2, SMTT(30)
<1>4. ASSUME (i - 1) \div size = q
      PROVE  m <= i - 1 /\ i - 1 < m + size
  BY <1>1, <1>2, <1>4, DivisionBounds
<1>5. ASSUME m <= i - 1, i - 1 < m + size
      PROVE  (i - 1) \div size = q
  BY <1>1, <1>2, <1>5, DivisionUnique
<1>6. FirstRequest(c) = m + 1
  BY DEF FirstRequest, m, q, size
<1> HIDE DEF m
<1>7. (i - 1) \div size = q <=> FirstRequest(c) <= i /\ i < FirstRequest(c) + size
  <2>1. m <= i - 1 /\ i - 1 < m + size <=> m + 1 <= i /\ i < m + 1 + size
    BY <1>1, <1>2, <1>3
  <2> QED
    BY <1>4, <1>5, <1>6, <2>1, Zenon
<1> QED
  BY <1>7 DEF size, q

\* The requests of a batch are consecutive, from FirstRequest on.
LEMMA RequestsConsecutive ==
  ASSUME TypeOK, NEW c \in Chunks(stage)
  PROVE  \E n \in Nat \ {0} :
           /\ Cardinality(Requests(c)) = n
           /\ FirstRequest(c) \in Nat \ {0}
           /\ Requests(c) = FirstRequest(c) .. (FirstRequest(c) + n - 1)
           /\ Requests(c) \subseteq 1 .. MaxTx + 1
<1> DEFINE size == ChunkSize(stage)
           first == FirstRequest(c)
           R == RequestCount(stage)
           n == IF first + size - 1 <= R THEN size ELSE R - first + 1
<1>1. size \in Nat \ {0} /\ R \in 0 .. MaxTx + 1
  BY StageSizes
<1>2. c \in Nat \ {0} /\ (c - 1) * size < R
  BY DEF Chunks
<1>3. first \in Nat \ {0} /\ first <= R
  <2>1. (c - 1) * size \in Nat
    <3> HIDE DEF size
    <3>1. c - 1 \in Nat
      BY <1>2
    <3> QED
      BY <1>1, <3>1, SMTT(30)
  <2>2. first = (c - 1) * size + 1
    BY DEF FirstRequest
  <2> HIDE DEF first
  <2> DEFINE m == (c - 1) * size
  <2>3. m \in Nat /\ m < R /\ first = m + 1
    BY <1>2, <2>1, <2>2
  <2> HIDE DEF m
  <2> QED
    BY <1>1, <2>3
<1>4. \A i \in 1 .. R :
        (i - 1) \div size = c - 1 <=> first <= i /\ i < first + size
  BY <1>2, RequestChunk
<1>5. Requests(c) = {i \in 1 .. R : (i - 1) \div size = c - 1}
  BY DEF Requests
<1> HIDE DEF size, first, R
<1>6. n \in Nat \ {0}
  BY <1>1, <1>3
<1>7. Requests(c) = first .. (first + n - 1)
  <2>1. Requests(c) = {i \in 1 .. R : first <= i /\ i < first + size}
    BY <1>4, <1>5
  <2> QED
    BY <1>1, <1>3, <2>1
<1>8. Cardinality(first .. (first + n - 1)) = n
  <2>1. Cardinality(first .. (first + n - 1)) =
          IF first > first + n - 1 THEN 0 ELSE (first + n - 1) - first + 1
    <3> HIDE DEF n
    <3> QED
      BY <1>3, <1>6, FS_Interval
  <2> HIDE DEF n
  <2> QED
    BY <1>3, <1>6, <2>1
<1>9. Requests(c) \subseteq 1 .. MaxTx + 1
  BY <1>1, <1>5
<1> HIDE DEF n
<1> QED
  BY <1>3, <1>6, <1>7, <1>8, <1>9 DEF first

\* Every request of the stage is in a batch.
LEMMA RequestsCovered ==
  ASSUME TypeOK, NEW i \in 1 .. RequestCount(stage)
  PROVE  \E c \in Chunks(stage) : i \in Requests(c)
<1> DEFINE size == ChunkSize(stage)
           R == RequestCount(stage)
           q == (i - 1) \div size
<1>1. size \in Nat \ {0} /\ R \in 0 .. MaxTx + 1
  BY StageSizes
<1>2. i - 1 \in Nat /\ i <= R
  BY <1>1
<1> HIDE DEF size, R
<1>3. q \in Nat /\ q * size <= i - 1
  BY <1>1, <1>2, DivisionBounds
<1>4. q <= q * size
  <2> HIDE DEF q
  <2> QED
    BY <1>1, <1>3, SMTT(30)
<1> HIDE DEF q
<1>5. q * size \in Nat
  BY <1>1, <1>3, SMTT(30)
<1>6. q + 1 \in 1 .. MaxTx + 1 /\ q * size < R
  <2> DEFINE m == q * size
  <2>1. m \in Nat /\ q <= m /\ m <= i - 1
    BY <1>3, <1>4, <1>5
  <2> HIDE DEF m
  <2>2. q + 1 \in 1 .. MaxTx + 1 /\ m < R
    BY <1>1, <1>2, <1>3, <2>1
  <2> QED
    BY <2>2 DEF m
<1>7. (q + 1) - 1 = q
  BY <1>3
<1>8. q + 1 \in Chunks(stage)
  BY <1>6, <1>7 DEF Chunks, size, R
<1>9. i \in Requests(q + 1)
  BY <1>7 DEF Requests, q, size
<1> QED
  BY <1>8, <1>9

\* A stage for a block asks for one thing.
LEMMA OneBlock ==
  ASSUME TypeOK, stage = "block"
  PROVE  Chunks(stage) = {1} /\ Requests(1) = {1}
<1>1. RequestCount(stage) = 1
  BY DEF RequestCount
<1>2. 1 \in 1 .. RequestCount(stage)
  BY <1>1
<1>3. \A c \in Chunks(stage) : c = 1
  <2> TAKE c \in Chunks(stage)
  <2>1. PICK n \in Nat \ {0} :
          /\ FirstRequest(c) \in Nat \ {0}
          /\ Requests(c) = FirstRequest(c) .. (FirstRequest(c) + n - 1)
    BY RequestsConsecutive
  <2>2. FirstRequest(c) \in Requests(c)
    BY <2>1
  <2>3. FirstRequest(c) = 1
    BY <1>1, <2>2 DEF Requests
  <2>4. ChunkSize(stage) \in Nat \ {0} /\ c \in Nat \ {0}
    BY StageSizes DEF Chunks
  <2>5. (1 - 1) \div ChunkSize(stage) = c - 1
    BY <1>1, <2>2, <2>3 DEF Requests
  <2> DEFINE size == ChunkSize(stage)
  <2> HIDE DEF size
  <2>6. 0 \div size = 0
    BY <2>4, DivisionUnique, SMTT(30) DEF size
  <2> QED
    BY <2>4, <2>5, <2>6 DEF size
<1>4. PICK c \in Chunks(stage) : 1 \in Requests(c)
  BY <1>2, RequestsCovered
<1>5. Requests(1) \subseteq {1}
  BY <1>1 DEF Requests
<1> QED
  BY <1>3, <1>4, <1>5

(***************************************************************************)
(* The slice of a call.                                                    *)
(***************************************************************************)
AnyAnswer == [id : 1 .. MaxTx + 1, body : Bodies]

LEMMA NothingIsResult == Nothing \in Results
  BY DEF Nothing, Results

LEMMA BlankIsPlace == Blank \in Places
  BY DEF Blank, Places, IsFor, Nothing, Results

\* Decoding an answer over a place: the result is the one that came with the id,
\* unless an earlier error is still there.
LEMMA MergeKeeps ==
  ASSUME NEW old \in Places, NEW answer \in AnyAnswer
  PROVE  Merge(old, answer) \in Places
<1>1. /\ old.error \in {"none", "error", "precompile"} /\ old.result \in Results
      /\ answer.id \in 1 .. MaxTx + 1
      /\ answer.body \in {"own", "null", "bad", "error", "precompile", "missing"}
      /\ answer.body \in Bodies
  BY DEF Places, AnyAnswer
<1> DEFINE fresh == answer.body \in {"own", "null", "bad"}
           new == [of |-> answer.id, body |-> answer.body]
           error == IF answer.body \in {"error", "precompile"} THEN answer.body ELSE old.error
           value == IF fresh THEN new ELSE old.result
<1>2. Merge(old, answer) = [id |-> answer.id, error |-> error, result |-> value]
  BY DEF Merge
<1>3. fresh => new \in Results
  BY <1>1 DEF Results
<1>4. value \in Results
  BY <1>1, <1>3
<1>5. error \in {"none", "error", "precompile"} /\ answer.id \in 0 .. MaxTx + 1
  BY <1>1
<1>6. error = "none" => IsFor(value, answer.id)
  BY <1>1 DEF IsFor
<1> HIDE DEF error, value
<1> QED
  BY <1>2, <1>4, <1>5, <1>6 DEF Places

\* The slice after a decode: no shorter than it was, unless the array was empty,
\* and no shorter than the array.
LEMMA DecodeKeeps ==
  ASSUME NEW slice \in Seq(Places), NEW answers \in Seq(AnyAnswer)
  PROVE  /\ Decode(slice, answers) \in Seq(Places)
         /\ Len(answers) <= Len(Decode(slice, answers))
<1>1. CASE answers = <<>>
  BY <1>1 DEF Decode
<1>2. CASE answers # <<>>
  <2> DEFINE m == IF Len(slice) > Len(answers) THEN Len(slice) ELSE Len(answers)
             old(i) == IF i <= Len(slice) THEN slice[i] ELSE Blank
             new(i) == IF i <= Len(answers) THEN Merge(old(i), answers[i]) ELSE old(i)
  <2>1. Decode(slice, answers) = [i \in 1 .. m |-> new(i)]
    BY <1>2 DEF Decode
  <2>2. m \in Nat /\ Len(answers) <= m
    OBVIOUS
  <2>3. ASSUME NEW i \in 1 .. m
        PROVE  new(i) \in Places
    <3>1. old(i) \in Places
      BY <2>2, BlankIsPlace
    <3>2. i <= Len(answers) => answers[i] \in AnyAnswer
      BY <2>2
    <3> HIDE DEF old
    <3> QED
      BY <3>1, <3>2, MergeKeeps
  <2> HIDE DEF m, new
  <2>4. [i \in 1 .. m |-> new(i)] \in Seq(Places) /\ Len([i \in 1 .. m |-> new(i)]) = m
    BY <2>2, <2>3
  <2> QED
    BY <2>1, <2>2, <2>4
<1> QED
  BY <1>1, <1>2

\* Sorting moves places about and changes none.
LEMMA ArrangedKeeps ==
  ASSUME NEW slice \in Seq(Places), NEW n \in Nat, NEW count \in Nat, n <= Len(slice),
         NEW t \in Arranged(slice, n, count)
  PROVE  t \in Seq(Places) /\ Len(t) = Len(slice)
<1>1. CASE t = slice
  BY <1>1
<1>2. CASE t \in Sorted(slice, n)
  <2>1. PICK p \in Bijection(1 .. n, 1 .. n) :
          t = [i \in DOMAIN slice |-> IF i <= n THEN slice[p[i]] ELSE slice[i]]
    BY <1>2 DEF Sorted
  <2>2. p \in [1 .. n -> 1 .. n]
    BY DEF Bijection, Injection
  <2>3. DOMAIN slice = 1 .. Len(slice) /\ Len(slice) \in Nat
    OBVIOUS
  <2> DEFINE new(i) == IF i <= n THEN slice[p[i]] ELSE slice[i]
  <2>4. ASSUME NEW i \in 1 .. Len(slice)
        PROVE  new(i) \in Places
    <3>1. CASE i <= n
      <4>1. p[i] \in 1 .. Len(slice)
        BY <2>2, <2>3, <3>1
      <4> QED
        BY <3>1, <4>1
    <3>2. CASE ~(i <= n)
      BY <3>2
    <3> QED
      BY <3>1, <3>2
  <2> HIDE DEF new
  <2>5. t = [i \in 1 .. Len(slice) |-> new(i)]
    BY <2>1, <2>3 DEF new
  <2> QED
    BY <2>3, <2>4, <2>5
<1> QED
  BY <1>1, <1>2 DEF Arranged

\* An answer to a call is one to a request of the batch, and a precompile's error
\* one to a precompile's transaction.
LEMMA AnswersTyped ==
  ASSUME TypeOK, NEW c \in Chunks(stage), NEW answers \in Answers(c)
  PROVE  /\ answers \in Seq(AnyAnswer)
         /\ \A i \in 1 .. Len(answers) :
              answers[i].body = "precompile" => Requests(c) \cap Precompiles # {}
<1> DEFINE n == Cardinality(Requests(c))
           any == Replies(c, StageBodies)
<1>1. n \in Nat /\ Requests(c) \subseteq 1 .. MaxTx + 1
  BY RequestsConsecutive
<1>2. StageBodies \subseteq Bodies
  BY DEF StageBodies
<1>3. /\ any \subseteq AnyAnswer
      /\ \A a \in any : a.body = "precompile" => Requests(c) \cap Precompiles # {}
  BY <1>1, <1>2 DEF AnyAnswer, Replies
<1>4. \E k \in 0 .. n : answers \in [1 .. k -> any]
  <2>1. CASE healthy
    <3> DEFINE good == StageBodies \cap (CASE stage = "blockTrace" -> {"own", "bad", "error"}
                                          [] stage = "txTraces" -> {"own", "precompile"}
                                          [] OTHER -> {"own"})
    <3>1. answers \in [1 .. n -> Replies(c, good)]
      BY <2>1 DEF Answers
    <3>2. Replies(c, good) \subseteq any
      <4>1. good \subseteq StageBodies
        OBVIOUS
      <4> HIDE DEF good
      <4> QED
        BY <4>1 DEF Replies
    <3>3. answers \in [1 .. n -> any]
      <4> HIDE DEF any, good, n
      <4> QED
        BY <3>1, <3>2
    <3>4. n \in 0 .. n
      BY <1>1
    <3> QED
      BY <3>3, <3>4
  <2>2. CASE ~healthy
    BY <2>2 DEF Answers
  <2> QED
    BY <2>1, <2>2
<1> HIDE DEF any, n
<1>5. PICK k \in 0 .. n : answers \in [1 .. k -> any]
  BY <1>4
<1>6. k \in Nat
  BY <1>1
<1>7. answers \in Seq(any)
  BY <1>5, <1>6
<1> HIDE DEF any
<1> QED
  BY <1>3, <1>7

\* When no answer is refused, each has the id of the request at its place.
LEMMA NoneRefused ==
  ASSUME TypeOK, NEW c \in Chunks(stage), NEW slice, FirstRefused(c, slice) = 0,
         NEW i \in 1 .. Cardinality(Requests(c))
  PROVE  slice[i].id = FirstRequest(c) + i - 1
<1> DEFINE n == Cardinality(Requests(c))
           refused == {j \in 1 .. n :
             \/ ~IdMatches(c, slice, j)
             \/ ~Debug /\ (slice[j].error # "none" \/ slice[j].result.body = "none")}
<1>1. FirstRefused(c, slice) =
        IF refused = {} THEN 0 ELSE CHOOSE j \in refused : \A k \in refused : j <= k
  BY DEF FirstRefused
<1>2. n \in Nat
  BY RequestsConsecutive
<1>3. refused \subseteq Nat /\ 0 \notin refused
  BY <1>2
<1>4. i \in refused \/ IdMatches(c, slice, i)
  OBVIOUS
<1> HIDE DEF refused, n
<1>5. refused = {}
  <2> SUFFICES ASSUME refused # {} PROVE FALSE
    OBVIOUS
  <2>1. \E j \in refused : \A k \in refused : j <= k
    BY <1>3, LeastNatural
  <2> QED
    BY <1>1, <1>3, <2>1
<1> QED
  BY <1>4, <1>5 DEF IdMatches

(***************************************************************************)
(* The steps of a call.                                                    *)
(***************************************************************************)
LEMMA NewCallState == NewCall \in CallStates /\ NewCall.pc = "call"
<1>1. <<>> \in Seq(Places) /\ 0 \in 0 .. MaxRetries
  OBVIOUS
<1> QED
  BY <1>1 DEF NewCall, CallStates

LEMMA EndedState ==
  ASSUME NEW how \in {"ok", "failed"}
  PROVE  Ended(how) \in CallStates /\ Ended(how).pc = how
  BY NewCallState DEF Ended, CallStates

\* No attempt and no new call is beyond maxRetries.
LEMMA GiveUpState ==
  ASSUME CallsInv, NEW c \in Chunks(stage)
  PROVE  GiveUp(c) \in CallStates /\ GiveUp(c).pc # "ok"
<1>1. calls[c].round \in 0 .. MaxRetries
  BY DEF CallsInv, CallStates
<1>2. CASE calls[c].round < MaxRetries /\ stage = "txTraces"
  <2>1. calls[c].round + 1 \in 0 .. MaxRetries
    BY <1>1, <1>2
  <2>2. GiveUp(c) = [NewCall EXCEPT !.round = calls[c].round + 1]
    BY <1>2 DEF GiveUp
  <2> QED
    BY <2>1, <2>2, NewCallState DEF CallStates
<1>3. CASE ~(calls[c].round < MaxRetries /\ stage = "txTraces")
  <2>1. GiveUp(c) = Ended("failed")
    BY <1>3 DEF GiveUp
  <2> QED
    BY <2>1, EndedState
<1> QED
  BY <1>2, <1>3

LEMMA AttemptState ==
  ASSUME CallsInv, NEW c \in Chunks(stage), calls[c].pc = "call", NEW slice \in Seq(Places)
  PROVE  Attempt(c, slice) \in CallStates /\ Attempt(c, slice).pc # "ok"
<1>1. calls[c] \in CallStates /\ calls[c].tries \in 0 .. MaxRetries
  BY DEF CallsInv, CallStates
<1>2. CASE calls[c].tries < MaxRetries
  <2>1. calls[c].tries + 1 \in 0 .. MaxRetries
    BY <1>1, <1>2
  <2>2. Attempt(c, slice) = [calls[c] EXCEPT !.tries = @ + 1, !.slice = slice]
    BY <1>2 DEF Attempt
  <2> QED
    BY <1>1, <2>1, <2>2 DEF CallStates
<1>3. CASE ~(calls[c].tries < MaxRetries)
  <2>1. Attempt(c, slice) = GiveUp(c)
    BY <1>3 DEF Attempt
  <2> QED
    BY <2>1, GiveUpState
<1> QED
  BY <1>2, <1>3

\* The answers of a call that returned, filed by their ids.
LEMMA FiledKeeps ==
  ASSUME TypeOK, GotInv, NEW c \in Chunks(stage), NEW slice \in Seq(Places),
         Cardinality(Requests(c)) <= Len(slice), FirstRefused(c, slice) = 0,
         \A i \in 1 .. Cardinality(Requests(c)) : Usable(slice[i])
  PROVE  /\ DOMAIN got \subseteq DOMAIN Filed(c, slice)
         /\ Requests(c) \subseteq DOMAIN Filed(c, slice)
         /\ \A r \in DOMAIN Filed(c, slice) :
              /\ Filed(c, slice)[r] \in Results
              /\ \/ IsFor(Filed(c, slice)[r], r)
                 \/ stage = "txTraces" /\ Filed(c, slice)[r] = Nothing
<1> DEFINE n == Cardinality(Requests(c))
           ids == {slice[i].id : i \in 1 .. n}
           place(r) == CHOOSE i \in 1 .. n : slice[i].id = r
           value(r) == IF r \in ids THEN Value(slice[place(r)]) ELSE got[r]
<1>1. Filed(c, slice) = [r \in DOMAIN got \cup ids |-> value(r)]
  BY DEF Filed
<1>2. /\ n \in Nat \ {0} /\ FirstRequest(c) \in Nat \ {0}
      /\ Requests(c) = FirstRequest(c) .. (FirstRequest(c) + n - 1)
  BY RequestsConsecutive
<1>3. \A i \in 1 .. n : slice[i].id = FirstRequest(c) + i - 1
  BY NoneRefused
<1>4. Requests(c) \subseteq ids
  <2> SUFFICES ASSUME NEW r \in Requests(c) PROVE r \in ids
    OBVIOUS
  <2> HIDE DEF n
  <2>1. r - FirstRequest(c) + 1 \in 1 .. n
    BY <1>2
  <2>2. slice[r - FirstRequest(c) + 1].id = r
    BY <1>2, <1>3, <2>1
  <2> QED
    BY <2>1, <2>2
<1>5. ASSUME NEW r \in ids
      PROVE  /\ value(r) \in Results
             /\ IsFor(value(r), r) \/ (stage = "txTraces" /\ value(r) = Nothing)
  <2> DEFINE i == place(r)
             e == slice[i]
  <2>1. i \in 1 .. n /\ e.id = r
    <3>1. \E j \in 1 .. n : slice[j].id = r
      OBVIOUS
    <3> QED
      BY <3>1
  <2>2. e \in Places /\ Usable(e)
    <3> HIDE DEF i, n
    <3>1. i \in 1 .. Len(slice)
      BY <1>2, <2>1 DEF n
    <3> QED
      BY <2>1, <3>1 DEF n
  <2>3. value(r) = Value(e)
    OBVIOUS
  <2> HIDE DEF i, e, value
  <2>4. CASE e.error = "none"
    BY <2>1, <2>2, <2>3, <2>4 DEF Value, Places
  <2>5. CASE e.error # "none"
    BY <2>2, <2>3, <2>5, NothingIsResult DEF Value, Usable
  <2> QED
    BY <2>4, <2>5
<1>6. ASSUME NEW r \in DOMAIN got, r \notin ids
      PROVE  /\ value(r) \in Results
             /\ IsFor(value(r), r) \/ (stage = "txTraces" /\ value(r) = Nothing)
  <2>1. value(r) = got[r]
    BY <1>6
  <2> HIDE DEF value, ids
  <2>2. got[r] \in Results
    BY DEF TypeOK
  <2>3. IsFor(got[r], r) \/ (stage = "txTraces" /\ got[r] = Nothing)
    BY DEF GotInv
  <2> QED
    BY <2>1, <2>2, <2>3
<1> HIDE DEF value, ids
<1> QED
  BY <1>1, <1>4, <1>5, <1>6

\* The places of a slice hold results.
LEMMA SlicesTyped ==
  ASSUME NEW D, NEW f \in [D -> CallStates], NEW c \in D
  PROVE  /\ f[c].pc \in {"call", "ok", "failed"}
         /\ {f[c].round, f[c].tries} \subseteq 0 .. MaxRetries
         /\ \A i \in DOMAIN f[c].slice : f[c].slice[i].result \in Results
<1>1. f[c] \in CallStates
  OBVIOUS
<1>2. f[c].slice \in Seq(Places)
  BY <1>1 DEF CallStates
<1>3. \A i \in DOMAIN f[c].slice : f[c].slice[i] \in Places
  BY <1>2
<1> QED
  BY <1>1, <1>3 DEF CallStates, Places

\* A step of one call: the other calls, and what was filed, stay.
LEMMA CallKeeps ==
  ASSUME FetchInv, NEW c \in Chunks(stage), NEW v \in CallStates,
         UNCHANGED <<nodeVars, stageVars>>, calls' = [calls EXCEPT ![c] = v],
         v.pc = "ok" => Requests(c) \subseteq DOMAIN got',
         DOMAIN got \subseteq DOMAIN got',
         \A r \in DOMAIN got' :
           /\ got'[r] \in Results
           /\ IsFor(got'[r], r) \/ (stage = "txTraces" /\ got'[r] = Nothing)
  PROVE  FetchInv'
<1>1. /\ TypeOK /\ CallsInv /\ BlockInv
      /\ UNCHANGED <<txs, healthy, stage, block, receipts, traces, result>>
  BY DEF FetchInv, nodeVars, stageVars
<1>2. TxCount' = TxCount
  BY <1>1 DEF TxCount
<1>3. Chunks(stage)' = Chunks(stage)
  BY <1>1 DEF Chunks, RequestCount, TxCount, ChunkSize
<1>4. \A b : Requests(b)' = Requests(b)
  BY <1>1 DEF Requests, RequestCount, TxCount, ChunkSize
<1>5. calls \in [Chunks(stage) -> CallStates] /\ calls' \in [Chunks(stage) -> CallStates]
  BY <1>1 DEF CallsInv
<1>6. \A b \in Chunks(stage) : calls'[b].pc = "ok" => Requests(b) \subseteq DOMAIN got'
  <2> TAKE b \in Chunks(stage)
  <2>1. CASE b = c
    BY <1>5, <2>1
  <2>2. CASE b # c
    BY <1>1, <1>5, <2>2 DEF CallsInv
  <2> QED
    BY <2>1, <2>2
<1>7. CallsInv'
  BY <1>3, <1>4, <1>5, <1>6 DEF CallsInv
<1>8. GotInv'
  BY <1>1 DEF GotInv, IsFor, Nothing
<1>9. BlockInv'
  BY <1>1, <1>2 DEF BlockInv, IsTrace, IsFor, Nothing
<1>10. TypeOK'
  <2>1. \A b \in DOMAIN calls' :
          /\ calls'[b].pc \in {"call", "ok", "failed"}
          /\ {calls'[b].round, calls'[b].tries} \subseteq 0 .. MaxRetries
          /\ \A i \in DOMAIN calls'[b].slice : calls'[b].slice[i].result \in Results
    <3> DEFINE D == Chunks(stage)
               f == calls'
    <3>1. f \in [D -> CallStates] /\ DOMAIN f = D
      BY <1>5
    <3> HIDE DEF D, f
    <3>2. \A b \in DOMAIN f :
            /\ f[b].pc \in {"call", "ok", "failed"}
            /\ {f[b].round, f[b].tries} \subseteq 0 .. MaxRetries
            /\ \A i \in DOMAIN f[b].slice : f[b].slice[i].result \in Results
      BY <3>1, SlicesTyped, Zenon
    <3> QED
      BY <3>2 DEF f
  <2> QED
    BY <1>1, <2>1 DEF TypeOK, Results
<1> QED
  BY <1>7, <1>8, <1>9, <1>10 DEF FetchInv

LEMMA CallFailsKeeps ==
  ASSUME FetchInv, NEW c \in DOMAIN calls, CallFails(c)
  PROVE  FetchInv'
<1>1. TypeOK /\ CallsInv /\ c \in Chunks(stage)
  BY DEF FetchInv, CallsInv
<1>2. PICK slice \in {calls[c].slice} \cup {Decode(calls[c].slice, a) : a \in Answers(c)} :
        calls' = [calls EXCEPT ![c] = Attempt(c, slice)]
  BY DEF CallFails
<1> DEFINE v == Attempt(c, slice)
<1>3. v \in CallStates /\ v.pc # "ok"
  <2>1. calls[c].slice \in Seq(Places) /\ calls[c].pc = "call"
    BY <1>1 DEF CallsInv, CallStates, CallFails
  <2>2. slice \in Seq(Places)
    BY <1>1, <2>1, AnswersTyped, DecodeKeeps
  <2> QED
    BY <1>1, <2>1, <2>2, AttemptState
<1>4. calls' = [calls EXCEPT ![c] = v] /\ UNCHANGED <<nodeVars, stageVars, got>>
  BY <1>2 DEF CallFails
<1>5. \A r \in DOMAIN got :
        /\ got[r] \in Results
        /\ IsFor(got[r], r) \/ (stage = "txTraces" /\ got[r] = Nothing)
  BY DEF FetchInv, TypeOK, GotInv
<1> HIDE DEF v
<1> QED
  BY <1>1, <1>3, <1>4, <1>5, CallKeeps

\* The calls that end in a failure or try again file nothing.
LEMMA CallAnsweredKeeps ==
  ASSUME FetchInv, NEW c \in DOMAIN calls, CallAnswered(c)
  PROVE  FetchInv'
<1> DEFINE n == Cardinality(Requests(c))
<1>1. TypeOK /\ CallsInv /\ GotInv /\ c \in Chunks(stage)
  BY DEF FetchInv, CallsInv
<1>2. n \in Nat
  BY <1>1, RequestsConsecutive
<1>3. calls[c].slice \in Seq(Places) /\ calls[c].pc = "call"
  BY <1>1 DEF CallsInv, CallStates, CallAnswered
<1>4. PICK answers \in Answers(c) :
      \E slice \in Arranged(Decode(calls[c].slice, answers), Len(answers), n) :
        IF Len(answers) # n
          THEN calls' = [calls EXCEPT ![c] = Attempt(c, slice)] /\ UNCHANGED got
          ELSE LET i == FirstRefused(c, slice)
               IN  IF i = 0 THEN Returned(c, slice)
                   ELSE /\ calls' = [calls EXCEPT ![c] =
                             IF IdMatches(c, slice, i) THEN Ended("failed")
                             ELSE Attempt(c, slice)]
                        /\ UNCHANGED got
  BY DEF CallAnswered
<1>5. PICK slice \in Arranged(Decode(calls[c].slice, answers), Len(answers), n) :
        IF Len(answers) # n
          THEN calls' = [calls EXCEPT ![c] = Attempt(c, slice)] /\ UNCHANGED got
          ELSE LET i == FirstRefused(c, slice)
               IN  IF i = 0 THEN Returned(c, slice)
                   ELSE /\ calls' = [calls EXCEPT ![c] =
                             IF IdMatches(c, slice, i) THEN Ended("failed")
                             ELSE Attempt(c, slice)]
                        /\ UNCHANGED got
  BY <1>4
<1>6. slice \in Seq(Places) /\ Len(answers) <= Len(slice)
  <2> DEFINE decoded == Decode(calls[c].slice, answers)
  <2>1. answers \in Seq(AnyAnswer)
    BY <1>1, AnswersTyped
  <2>2. decoded \in Seq(Places) /\ Len(answers) <= Len(decoded) /\ Len(answers) \in Nat
    BY <1>3, <2>1, DecodeKeeps
  <2>3. slice \in Arranged(decoded, Len(answers), n)
    OBVIOUS
  <2> HIDE DEF decoded, n
  <2>4. slice \in Seq(Places) /\ Len(slice) = Len(decoded)
    BY <1>2, <2>2, <2>3, ArrangedKeeps
  <2> QED
    BY <2>2, <2>4
<1>7. /\ Attempt(c, slice) \in CallStates /\ Attempt(c, slice).pc # "ok"
      /\ GiveUp(c) \in CallStates /\ GiveUp(c).pc # "ok"
      /\ Ended("failed") \in CallStates /\ Ended("failed").pc # "ok"
      /\ Ended("ok") \in CallStates
  BY <1>1, <1>3, <1>6, AttemptState, GiveUpState, EndedState
<1>8. UNCHANGED <<nodeVars, stageVars>>
  BY DEF CallAnswered
<1>9. ASSUME NEW v \in CallStates, v.pc # "ok",
             calls' = [calls EXCEPT ![c] = v], UNCHANGED got
      PROVE  FetchInv'
  <2>1. \A r \in DOMAIN got :
          /\ got[r] \in Results
          /\ IsFor(got[r], r) \/ (stage = "txTraces" /\ got[r] = Nothing)
    BY DEF FetchInv, TypeOK, GotInv
  <2> QED
    BY <1>1, <1>8, <1>9, <2>1, CallKeeps
<1>10. CASE Len(answers) # n
  BY <1>5, <1>7, <1>9, <1>10
<1>11. CASE Len(answers) = n /\ FirstRefused(c, slice) # 0
  <2> DEFINE v == IF IdMatches(c, slice, FirstRefused(c, slice)) THEN Ended("failed")
                  ELSE Attempt(c, slice)
  <2>1. calls' = [calls EXCEPT ![c] = v] /\ UNCHANGED got
    BY <1>5, <1>11
  <2>2. v \in CallStates /\ v.pc # "ok"
    BY <1>7
  <2> HIDE DEF v
  <2> QED
    BY <1>9, <2>1, <2>2
<1>12. CASE Len(answers) = n /\ FirstRefused(c, slice) = 0
  <2> DEFINE used == {slice[i] : i \in 1 .. n}
  <2>1. Returned(c, slice)
    BY <1>5, <1>12
  <2>2. CASE \A e \in used : Usable(e)
    <3>1. got' = Filed(c, slice) /\ calls' = [calls EXCEPT ![c] = Ended("ok")]
      BY <2>1, <2>2 DEF Returned
    <3>2. \A i \in 1 .. n : Usable(slice[i])
      BY <2>2
    <3>3. /\ DOMAIN got \subseteq DOMAIN got'
          /\ Requests(c) \subseteq DOMAIN got'
          /\ \A r \in DOMAIN got' :
               /\ got'[r] \in Results
               /\ IsFor(got'[r], r) \/ (stage = "txTraces" /\ got'[r] = Nothing)
      BY <1>1, <1>6, <1>12, <3>1, <3>2, FiledKeeps
    <3> QED
      BY <1>1, <1>7, <1>8, <3>1, <3>3, CallKeeps
  <2>3. CASE ~ \A e \in used : Usable(e)
    <3> DEFINE v == IF \E e \in used : e.error = "error" THEN GiveUp(c) ELSE Ended("failed")
    <3>1. calls' = [calls EXCEPT ![c] = v] /\ UNCHANGED got
      BY <2>1, <2>3 DEF Returned
    <3>2. v \in CallStates /\ v.pc # "ok"
      BY <1>7
    <3> HIDE DEF v
    <3> QED
      BY <1>9, <3>1, <3>2
  <2> QED
    BY <2>2, <2>3
<1> QED
  BY <1>10, <1>11, <1>12

(***************************************************************************)
(* The steps of fetchSingleBlock.                                          *)
(***************************************************************************)

\* When every call of a stage succeeded, every request has its answer.
LEMMA StageComplete ==
  ASSUME FetchInv, Succeeded
  PROVE  1 .. RequestCount(stage) \subseteq DOMAIN got
<1> SUFFICES ASSUME NEW i \in 1 .. RequestCount(stage) PROVE i \in DOMAIN got
  OBVIOUS
<1>1. TypeOK /\ CallsInv
  BY DEF FetchInv
<1>2. PICK c \in Chunks(stage) : i \in Requests(c)
  BY <1>1, RequestsCovered
<1>3. calls[c].pc = "ok"
  BY <1>1 DEF Succeeded, CallsInv
<1> QED
  BY <1>1, <1>2, <1>3 DEF CallsInv

\* A new stage: its calls are all to be made, and nothing is filed.
LEMMA AskKeeps ==
  ASSUME NEW st \in {"block", "receipts", "blockTrace", "txTraces", "assemble", "done"},
         Ask(st), UNCHANGED nodeVars, TypeOK,
         block' \in Results,
         \A r \in DOMAIN receipts' : receipts'[r] \in Results,
         \A r \in DOMAIN traces' : traces'[r] \in Results
  PROVE  TypeOK' /\ CallsInv' /\ GotInv'
<1>1. stage' = st /\ got' = Empty /\ calls' = [c \in Chunks(st)' |-> NewCall]
  BY DEF Ask
<1>2. Chunks(st)' = Chunks(stage)'
  BY <1>1 DEF Chunks, RequestCount, ChunkSize, TxCount
<1> DEFINE D == Chunks(stage)'
<1>3. calls' = [c \in D |-> NewCall]
  BY <1>1, <1>2
<1> HIDE DEF D
<1>4. calls' \in [D -> CallStates] /\ \A c \in D : calls'[c].pc # "ok"
  BY <1>3, NewCallState
<1>5. CallsInv'
  BY <1>4 DEF CallsInv, D
<1>6. GotInv'
  BY <1>1 DEF GotInv, Empty
<1>7. TypeOK'
  <2>1. DOMAIN calls' = D
    BY <1>3
  <2>2. \A c \in DOMAIN calls' :
          /\ calls'[c].pc \in {"call", "ok", "failed"}
          /\ {calls'[c].round, calls'[c].tries} \subseteq 0 .. MaxRetries
          /\ \A i \in DOMAIN calls'[c].slice : calls'[c].slice[i].result \in Results
    BY <1>4, <2>1, SlicesTyped, Zenon
  <2>3. \A r \in DOMAIN got' : got'[r] \in Results
    BY <1>1 DEF Empty
  <2> QED
    BY <1>1, <2>2, <2>3 DEF TypeOK, nodeVars, Results
<1> QED
  BY <1>5, <1>6, <1>7

LEMMA GotBlockKeeps ==
  ASSUME FetchInv, GotBlock
  PROVE  FetchInv'
<1>1. TypeOK /\ BlockInv /\ stage = "block" /\ UNCHANGED <<nodeVars, receipts, traces, result>>
  BY DEF FetchInv, GotBlock, Waited
<1>2. got[1] \in Results
  <2>1. 1 \in 1 .. RequestCount(stage)
    BY <1>1 DEF RequestCount
  <2>2. 1 \in DOMAIN got
    BY <2>1, StageComplete DEF GotBlock
  <2> QED
    BY <1>1, <2>2 DEF TypeOK
<1>3. block' = got[1] /\ TxCount' \in Nat
  BY <1>1 DEF GotBlock, TxCount, TypeOK, nodeVars
<1>4. \/ TxCount' > 0 /\ Ask("receipts")
      \/ TxCount' = 0 /\ Ask("assemble")
  BY <1>3 DEF GotBlock
<1>5. TypeOK' /\ CallsInv' /\ GotInv'
  BY <1>1, <1>2, <1>3, <1>4, AskKeeps DEF TypeOK
<1>6. BlockInv'
  <2>1. stage' = "receipts" \/ (stage' = "assemble" /\ TxCount' = 0)
    BY <1>4 DEF Ask
  <2>2. /\ \A t \in DOMAIN receipts' : IsFor(receipts'[t], t)
        /\ \A t \in DOMAIN traces' : IsTrace(traces'[t], t)
    BY <1>1 DEF BlockInv
  <2> QED
    BY <2>1, <2>2 DEF BlockInv, IsFor, IsTrace, Nothing
<1> QED
  BY <1>5, <1>6 DEF FetchInv

LEMMA GotReceiptsKeeps ==
  ASSUME FetchInv, GotReceipts
  PROVE  FetchInv'
<1>1. /\ TypeOK /\ BlockInv /\ GotInv /\ stage = "receipts" /\ Succeeded
      /\ UNCHANGED <<nodeVars, block, traces, result>> /\ receipts' = got
      /\ Ask("blockTrace")
  BY DEF FetchInv, GotReceipts, Waited
<1>2. 1 .. TxCount \subseteq DOMAIN receipts'
  BY <1>1, StageComplete DEF RequestCount
<1>3. TypeOK' /\ CallsInv' /\ GotInv'
  BY <1>1, AskKeeps DEF TypeOK
<1>4. BlockInv'
  <2>1. stage' = "blockTrace" /\ TxCount' = TxCount
    BY <1>1 DEF Ask, TxCount, nodeVars
  <2>2. \A t \in DOMAIN receipts' : IsFor(receipts'[t], t)
    BY <1>1 DEF GotInv
  <2>3. \A t \in DOMAIN traces' : IsTrace(traces'[t], t)
    BY <1>1 DEF BlockInv
  <2> QED
    BY <1>2, <2>1, <2>2, <2>3 DEF BlockInv, IsFor, IsTrace, Nothing
<1> QED
  BY <1>3, <1>4 DEF FetchInv

LEMMA GotTracesKeeps ==
  ASSUME FetchInv, GotBlockTraces \/ GotTxTraces
  PROVE  FetchInv'
<1>1. /\ TypeOK /\ BlockInv /\ GotInv /\ stage \in {"blockTrace", "txTraces"} /\ Succeeded
      /\ UNCHANGED <<nodeVars, block, receipts, result>>
      /\ Ask("assemble")
  BY DEF FetchInv, GotBlockTraces, GotTxTraces, Waited
<1>2. /\ 1 .. TxCount \subseteq DOMAIN traces'
      /\ \A t \in DOMAIN traces' : IsTrace(traces'[t], t) /\ traces'[t] \in Results
  <2>1. CASE GotBlockTraces
    <3>1. traces' = [t \in 1 .. TxCount |-> [of |-> t, body |-> "own"]]
      BY <2>1 DEF GotBlockTraces
    <3>2. TxCount \in 0 .. MaxTx
      BY <1>1, StageSizes
    <3> QED
      BY <3>1, <3>2 DEF IsTrace, IsFor, Results
  <2>2. CASE GotTxTraces
    <3>1. traces' = got /\ stage = "txTraces"
      BY <2>2 DEF GotTxTraces, Waited
    <3>2. 1 .. TxCount \subseteq DOMAIN got
      BY <1>1, <3>1, StageComplete DEF RequestCount
    <3> QED
      BY <1>1, <3>1, <3>2 DEF GotInv, IsTrace, TypeOK
  <2> QED
    BY <2>1, <2>2
<1>3. TypeOK' /\ CallsInv' /\ GotInv'
  BY <1>1, <1>2, AskKeeps DEF TypeOK
<1>4. BlockInv'
  <2>1. stage' = "assemble" /\ TxCount' = TxCount
    BY <1>1 DEF Ask, TxCount, nodeVars
  <2>2. /\ \A t \in DOMAIN receipts' : IsFor(receipts'[t], t)
        /\ 1 .. TxCount \subseteq DOMAIN receipts'
    BY <1>1 DEF BlockInv
  <2> QED
    BY <1>2, <2>1, <2>2 DEF BlockInv, IsFor, IsTrace, Nothing
<1> QED
  BY <1>3, <1>4 DEF FetchInv

LEMMA FallBackKeeps ==
  ASSUME FetchInv, FallBack
  PROVE  FetchInv'
<1>1. /\ TypeOK /\ BlockInv /\ stage = "blockTrace"
      /\ UNCHANGED <<nodeVars, block, receipts, traces, result>>
      /\ Ask("txTraces")
  BY DEF FetchInv, FallBack, Waited
<1>2. TypeOK' /\ CallsInv' /\ GotInv'
  BY <1>1, AskKeeps DEF TypeOK
<1>3. BlockInv'
  <2>1. stage' = "txTraces" /\ TxCount' = TxCount
    BY <1>1 DEF Ask, TxCount, nodeVars
  <2> QED
    BY <1>1, <2>1 DEF BlockInv, IsFor, IsTrace, Nothing
<1> QED
  BY <1>2, <1>3 DEF FetchInv

LEMMA AssembleKeeps ==
  ASSUME FetchInv, Assemble
  PROVE  FetchInv'
<1>1. /\ TypeOK /\ BlockInv /\ stage = "assemble"
      /\ UNCHANGED <<nodeVars, block, receipts, traces>>
      /\ Ask("done")
  BY DEF FetchInv, Assemble
<1>2. TypeOK' /\ CallsInv' /\ GotInv'
  BY <1>1, AskKeeps DEF TypeOK
<1>3. \A t \in 1 .. TxCount :
        /\ IsFor(result'.receipts[t], t)
        /\ IsTrace(result'.traces[t], t)
  <2> TAKE t \in 1 .. TxCount
  <2>1. t \in DOMAIN receipts /\ t \in DOMAIN traces
    BY <1>1 DEF BlockInv
  <2>2. result'.receipts[t] = receipts[t] /\ result'.traces[t] = traces[t]
    BY <2>1 DEF Assemble
  <2> QED
    BY <1>1, <2>1, <2>2 DEF BlockInv
<1>4. BlockInv'
  <2>1. stage' = "done" /\ TxCount' = TxCount
    BY <1>1 DEF Ask, TxCount, nodeVars
  <2>2. /\ \A t \in DOMAIN receipts' : IsFor(receipts'[t], t)
        /\ \A t \in DOMAIN traces' : IsTrace(traces'[t], t)
    BY <1>1 DEF BlockInv
  <2> QED
    BY <1>3, <2>1, <2>2 DEF BlockInv, IsFor, IsTrace, Nothing
<1> QED
  BY <1>2, <1>4 DEF FetchInv

LEMMA StartOverKeeps ==
  ASSUME FetchInv, StartOver
  PROVE  FetchInv'
<1>1. /\ TypeOK /\ UNCHANGED nodeVars /\ Ask("block")
      /\ block' = Nothing /\ receipts' = Empty /\ traces' = Empty
  BY DEF FetchInv, StartOver
<1>2. block' \in Results
  BY <1>1, NothingIsResult
<1>3. TypeOK' /\ CallsInv' /\ GotInv'
  BY <1>1, <1>2, AskKeeps DEF Empty
<1>4. BlockInv'
  BY <1>1 DEF BlockInv, Ask, Empty
<1> QED
  BY <1>3, <1>4 DEF FetchInv

\* The node turns healthy, or nothing happens.
LEMMA QuietKeeps ==
  ASSUME FetchInv, TurnHealthy \/ UNCHANGED vars
  PROVE  FetchInv'
<1>1. /\ UNCHANGED <<txs, stage, calls, got, block, receipts, traces, result>>
      /\ healthy' \in BOOLEAN
  BY DEF FetchInv, TypeOK, TurnHealthy, vars, nodeVars, stageVars
<1>2. TypeOK'
  BY <1>1 DEF FetchInv, TypeOK, Results
<1>3. CallsInv'
  BY <1>1 DEF FetchInv, CallsInv, Chunks, Requests, RequestCount, TxCount, ChunkSize,
              CallStates, Places, Results, IsFor
<1>4. GotInv' /\ BlockInv'
  BY <1>1 DEF FetchInv, GotInv, BlockInv, TxCount, IsFor, IsTrace, Nothing
<1> QED
  BY <1>2, <1>3, <1>4 DEF FetchInv

(***************************************************************************)
(* What a nil trace comes of: NilInv, on top of FetchInv.                  *)
(***************************************************************************)

\* An error in a slice was there before the decode or came with an answer.
LEMMA DecodeErrors ==
  ASSUME NEW slice \in Seq(Places), NEW answers \in Seq(AnyAnswer),
         NEW i \in DOMAIN Decode(slice, answers),
         Decode(slice, answers)[i].error = "precompile"
  PROVE  \/ i \in DOMAIN slice /\ slice[i].error = "precompile"
         \/ i \in 1 .. Len(answers) /\ answers[i].body = "precompile"
<1>1. answers # <<>>
  BY DEF Decode
<1> DEFINE m == IF Len(slice) > Len(answers) THEN Len(slice) ELSE Len(answers)
           old == IF i <= Len(slice) THEN slice[i] ELSE Blank
<1>2. i \in 1 .. m /\ Decode(slice, answers)[i] =
                        IF i <= Len(answers) THEN Merge(old, answers[i]) ELSE old
  BY <1>1 DEF Decode
<1>3. i <= Len(answers) => i \in 1 .. Len(answers)
  BY <1>2
<1>4. i <= Len(slice) => i \in DOMAIN slice
  BY <1>2
<1>5. old.error = "precompile" => i \in DOMAIN slice /\ slice[i].error = "precompile"
  BY <1>4 DEF Blank
<1> HIDE DEF old, m
<1>6. CASE i <= Len(answers)
  <2>1. Merge(old, answers[i]).error = "precompile"
    BY <1>2, <1>6
  <2>2. answers[i].body = "precompile" \/ old.error = "precompile"
    BY <2>1 DEF Merge
  <2> QED
    BY <1>3, <1>5, <1>6, <2>2
<1>7. CASE ~(i <= Len(answers))
  BY <1>2, <1>5, <1>7
<1> QED
  BY <1>6, <1>7

\* Sorting brings no place into a slice.
LEMMA ArrangedFrom ==
  ASSUME NEW slice \in Seq(Places), NEW n \in Nat, NEW count \in Nat, n <= Len(slice),
         NEW t \in Arranged(slice, n, count), NEW i \in DOMAIN t
  PROVE  \E j \in DOMAIN slice : t[i] = slice[j]
<1>1. CASE t = slice
  BY <1>1
<1>2. CASE t \in Sorted(slice, n)
  <2>1. PICK p \in Bijection(1 .. n, 1 .. n) :
          t = [j \in DOMAIN slice |-> IF j <= n THEN slice[p[j]] ELSE slice[j]]
    BY <1>2 DEF Sorted
  <2>2. p \in [1 .. n -> 1 .. n]
    BY DEF Bijection, Injection
  <2>3. DOMAIN slice = 1 .. Len(slice) /\ Len(slice) \in Nat /\ i \in DOMAIN slice
    BY <2>1
  <2>4. CASE i <= n
    <3>1. p[i] \in DOMAIN slice
      BY <2>2, <2>3, <2>4
    <3> QED
      BY <2>1, <2>3, <2>4, <3>1
  <2>5. CASE ~(i <= n)
    BY <2>1, <2>3, <2>5
  <2> QED
    BY <2>4, <2>5
<1> QED
  BY <1>1, <1>2 DEF Arranged

\* What an answer leaves in the slice of its batch is explained.
LEMMA DecodeExplained ==
  ASSUME TypeOK, CallsInv, NilInv, NEW c \in Chunks(stage), NEW answers \in Answers(c)
  PROVE  Explained(c, Decode(calls[c].slice, answers))
<1>1. calls[c].slice \in Seq(Places) /\ Explained(c, calls[c].slice)
  BY DEF CallsInv, CallStates, NilInv
<1> QED
  BY <1>1, AnswersTyped, DecodeErrors DEF Explained

LEMMA ArrangedExplained ==
  ASSUME TypeOK, CallsInv, NilInv, NEW c \in Chunks(stage), NEW answers \in Answers(c),
         NEW slice \in Arranged(Decode(calls[c].slice, answers), Len(answers),
                                Cardinality(Requests(c)))
  PROVE  Explained(c, slice)
<1> DEFINE decoded == Decode(calls[c].slice, answers)
<1>1. Explained(c, decoded)
  BY DecodeExplained
<1>2. decoded \in Seq(Places) /\ Len(answers) <= Len(decoded) /\ Len(answers) \in Nat
  <2>1. calls[c].slice \in Seq(Places) /\ answers \in Seq(AnyAnswer)
    BY AnswersTyped DEF CallsInv, CallStates
  <2> QED
    BY <2>1, DecodeKeeps
<1>3. Cardinality(Requests(c)) \in Nat
  BY RequestsConsecutive
<1> HIDE DEF decoded
<1>4. \A i \in DOMAIN slice : \E j \in DOMAIN decoded : slice[i] = decoded[j]
  BY <1>2, <1>3, ArrangedFrom DEF decoded
<1> QED
  BY <1>1, <1>4 DEF Explained

\* A call that ends or begins anew has an empty slice.
LEMMA FreshExplained ==
  ASSUME NEW c
  PROVE  /\ Explained(c, NewCall.slice) /\ Explained(c, GiveUp(c).slice)
         /\ \A how : Explained(c, Ended(how).slice)
<1>1. NewCall.slice = <<>> /\ \A how : Ended(how).slice = <<>>
  BY DEF NewCall, Ended
<1>2. GiveUp(c).slice = <<>>
  BY <1>1 DEF GiveUp, NewCall
<1> QED
  BY <1>1, <1>2 DEF Explained

LEMMA AttemptExplained ==
  ASSUME CallsInv, NEW c \in Chunks(stage), NEW slice, Explained(c, slice)
  PROVE  Explained(c, Attempt(c, slice).slice)
<1>1. CASE calls[c].tries < MaxRetries
  <2>1. calls[c] \in CallStates
    BY DEF CallsInv
  <2>2. Attempt(c, slice).slice = slice
    BY <1>1, <2>1 DEF Attempt, CallStates
  <2> QED
    BY <2>2
<1>2. CASE ~(calls[c].tries < MaxRetries)
  BY <1>2, FreshExplained DEF Attempt
<1> QED
  BY <1>1, <1>2

\* A batch of traces that asks for a precompile's transaction is near it throughout.
LEMMA BatchIsNear ==
  ASSUME TypeOK, stage = "txTraces", NEW c \in Chunks(stage), NEW r \in Requests(c),
         Requests(c) \cap Precompiles # {}
  PROVE  NearPrecompile(r)
<1>1. RequestCount(stage) = TxCount /\ ChunkSize(stage) = DebugBatchSize
  BY DEF RequestCount, ChunkSize
<1>2. PICK p \in Requests(c) : p \in Precompiles
  OBVIOUS
<1>3. p \in 1 .. TxCount /\ (p - 1) \div DebugBatchSize = c - 1
  BY <1>1 DEF Requests
<1>4. (r - 1) \div DebugBatchSize = c - 1
  BY <1>1 DEF Requests
<1> QED
  BY <1>2, <1>3, <1>4 DEF NearPrecompile

\* A trace is filed as nil for a precompile's error in its batch only.
LEMMA FiledNil ==
  ASSUME TypeOK, NilInv, NEW c \in Chunks(stage), NEW slice \in Seq(Places),
         Cardinality(Requests(c)) <= Len(slice), FirstRefused(c, slice) = 0,
         \A i \in 1 .. Cardinality(Requests(c)) : Usable(slice[i]),
         Explained(c, slice),
         NEW r \in DOMAIN Filed(c, slice), Filed(c, slice)[r] = Nothing
  PROVE  NearPrecompile(r)
<1> DEFINE n == Cardinality(Requests(c))
           ids == {slice[i].id : i \in 1 .. n}
           place == CHOOSE i \in 1 .. n : slice[i].id = r
<1>1. /\ n \in Nat \ {0} /\ FirstRequest(c) \in Nat \ {0}
      /\ Requests(c) = FirstRequest(c) .. (FirstRequest(c) + n - 1)
  BY RequestsConsecutive
<1>2. /\ r \in DOMAIN got \cup ids
      /\ IF r \in ids THEN Value(slice[place]) = Nothing ELSE got[r] = Nothing
  BY DEF Filed
<1>3. CASE r \notin ids
  BY <1>2, <1>3 DEF NilInv
<1>4. CASE r \in ids
  <2>1. place \in 1 .. n /\ slice[place].id = r
    <3>1. \E i \in 1 .. n : slice[i].id = r
      BY <1>4
    <3> QED
      BY <3>1
  <2>2. r = FirstRequest(c) + place - 1
    BY <2>1, NoneRefused
  <2>3. r \in Requests(c)
    <3> HIDE DEF n, place
    <3> QED
      BY <1>1, <2>1, <2>2
  <2>4. place \in DOMAIN slice
    <3> HIDE DEF place
    <3>1. DOMAIN slice = 1 .. Len(slice) /\ Len(slice) \in Nat /\ n <= Len(slice)
      OBVIOUS
    <3> HIDE DEF n
    <3> QED
      BY <1>1, <2>1, <3>1
  <2>5. Usable(slice[place]) /\ Value(slice[place]) = Nothing
    BY <1>2, <1>4, <2>1
  <2> HIDE DEF place
  <2>6. slice[place].error = "precompile" /\ stage = "txTraces"
    BY <2>5 DEF Usable, Value, Nothing
  <2> QED
    BY <2>3, <2>4, <2>6, BatchIsNear DEF Explained
<1> QED
  BY <1>3, <1>4

\* A step of one call.
LEMMA CallKeepsNil ==
  ASSUME FetchInv, NilInv, NEW c \in Chunks(stage), NEW v,
         UNCHANGED <<nodeVars, stageVars>>, calls' = [calls EXCEPT ![c] = v],
         Explained(c, v.slice),
         \A r \in DOMAIN got' : got'[r] = Nothing => NearPrecompile(r)
  PROVE  NilInv'
<1>1. UNCHANGED <<txs, healthy, stage, block, receipts, traces, result>>
  BY DEF nodeVars, stageVars
<1>2. TxCount' = TxCount
  BY <1>1 DEF TxCount
<1>3. /\ Chunks(stage)' = Chunks(stage)
      /\ \A b : Requests(b)' = Requests(b)
  BY <1>1 DEF Chunks, Requests, RequestCount, TxCount, ChunkSize
<1>4. \A t : NearPrecompile(t)' <=> NearPrecompile(t)
  BY <1>2 DEF NearPrecompile
<1>5. \A b \in Chunks(stage) : Explained(b, calls'[b].slice)
  <2>1. DOMAIN calls = Chunks(stage)
    BY DEF FetchInv, CallsInv
  <2> QED
    BY <2>1 DEF NilInv
<1>6. \A b \in Chunks(stage)' : Explained(b, calls[b].slice)'
  BY <1>3, <1>5 DEF Explained
<1> QED
  BY <1>1, <1>2, <1>4, <1>6 DEF NilInv

LEMMA CallStepKeepsNil ==
  ASSUME FetchInv, NilInv, NEW c \in DOMAIN calls, CallFails(c) \/ CallAnswered(c)
  PROVE  NilInv'
<1> DEFINE n == Cardinality(Requests(c))
<1>1. TypeOK /\ CallsInv /\ c \in Chunks(stage)
  BY DEF FetchInv, CallsInv
<1>2. UNCHANGED <<nodeVars, stageVars>>
  BY DEF CallFails, CallAnswered
<1>3. ASSUME NEW v, Explained(c, v.slice), calls' = [calls EXCEPT ![c] = v], UNCHANGED got
      PROVE  NilInv'
  <2>1. \A r \in DOMAIN got' : got'[r] = Nothing => NearPrecompile(r)
    BY <1>3 DEF NilInv
  <2> QED
    BY <1>1, <1>2, <1>3, <2>1, CallKeepsNil
<1>4. CASE CallFails(c)
  <2>1. PICK slice \in {calls[c].slice} \cup {Decode(calls[c].slice, a) : a \in Answers(c)} :
          calls' = [calls EXCEPT ![c] = Attempt(c, slice)]
    BY <1>4 DEF CallFails
  <2>2. Explained(c, slice)
    BY <1>1, DecodeExplained DEF NilInv
  <2>3. Explained(c, Attempt(c, slice).slice)
    BY <1>1, <2>2, AttemptExplained
  <2> QED
    BY <1>3, <1>4, <2>1, <2>3 DEF CallFails
<1>5. CASE CallAnswered(c)
  <2>1. PICK answers \in Answers(c) :
        \E slice \in Arranged(Decode(calls[c].slice, answers), Len(answers), n) :
          IF Len(answers) # n
            THEN calls' = [calls EXCEPT ![c] = Attempt(c, slice)] /\ UNCHANGED got
            ELSE LET i == FirstRefused(c, slice)
                 IN  IF i = 0 THEN Returned(c, slice)
                     ELSE /\ calls' = [calls EXCEPT ![c] =
                               IF IdMatches(c, slice, i) THEN Ended("failed")
                               ELSE Attempt(c, slice)]
                          /\ UNCHANGED got
    BY <1>5 DEF CallAnswered
  <2>2. PICK slice \in Arranged(Decode(calls[c].slice, answers), Len(answers), n) :
          IF Len(answers) # n
            THEN calls' = [calls EXCEPT ![c] = Attempt(c, slice)] /\ UNCHANGED got
            ELSE LET i == FirstRefused(c, slice)
                 IN  IF i = 0 THEN Returned(c, slice)
                     ELSE /\ calls' = [calls EXCEPT ![c] =
                               IF IdMatches(c, slice, i) THEN Ended("failed")
                               ELSE Attempt(c, slice)]
                          /\ UNCHANGED got
    BY <2>1
  <2>3. Explained(c, slice)
    BY <1>1, ArrangedExplained
  <2>4. /\ Explained(c, Attempt(c, slice).slice)
        /\ Explained(c, GiveUp(c).slice)
        /\ Explained(c, Ended("failed").slice) /\ Explained(c, Ended("ok").slice)
    BY <1>1, <2>3, AttemptExplained, FreshExplained
  <2>5. CASE Len(answers) # n
    BY <1>3, <2>2, <2>4, <2>5
  <2>6. CASE Len(answers) = n /\ FirstRefused(c, slice) # 0
    <3> DEFINE v == IF IdMatches(c, slice, FirstRefused(c, slice)) THEN Ended("failed")
                    ELSE Attempt(c, slice)
    <3>1. calls' = [calls EXCEPT ![c] = v] /\ UNCHANGED got
      BY <2>2, <2>6
    <3>2. Explained(c, v.slice)
      BY <2>4
    <3> HIDE DEF v
    <3> QED
      BY <1>3, <3>1, <3>2
  <2>7. CASE Len(answers) = n /\ FirstRefused(c, slice) = 0
    <3> DEFINE used == {slice[i] : i \in 1 .. n}
    <3>1. Returned(c, slice)
      BY <2>2, <2>7
    <3>2. CASE \A e \in used : Usable(e)
      <4>1. got' = Filed(c, slice) /\ calls' = [calls EXCEPT ![c] = Ended("ok")]
        BY <3>1, <3>2 DEF Returned
      <4>2. \A i \in 1 .. n : Usable(slice[i])
        BY <3>2
      <4>3. slice \in Seq(Places) /\ n <= Len(slice)
        <5> DEFINE decoded == Decode(calls[c].slice, answers)
        <5>1. calls[c].slice \in Seq(Places) /\ answers \in Seq(AnyAnswer)
          BY <1>1, AnswersTyped DEF CallsInv, CallStates
        <5>2. decoded \in Seq(Places) /\ Len(answers) <= Len(decoded) /\ Len(answers) \in Nat
          BY <5>1, DecodeKeeps
        <5>3. slice \in Arranged(decoded, Len(answers), n) /\ n \in Nat
          BY <1>1, RequestsConsecutive
        <5> HIDE DEF decoded, n
        <5>4. slice \in Seq(Places) /\ Len(slice) = Len(decoded)
          BY <5>2, <5>3, ArrangedKeeps
        <5> QED
          BY <2>7, <5>2, <5>4
      <4>4. \A r \in DOMAIN got' : got'[r] = Nothing => NearPrecompile(r)
        BY <1>1, <2>3, <2>7, <4>1, <4>2, <4>3, FiledNil
      <4> QED
        BY <1>1, <1>2, <2>4, <4>1, <4>4, CallKeepsNil
    <3>3. CASE ~ \A e \in used : Usable(e)
      <4> DEFINE v == IF \E e \in used : e.error = "error" THEN GiveUp(c) ELSE Ended("failed")
      <4>1. calls' = [calls EXCEPT ![c] = v] /\ UNCHANGED got
        BY <3>1, <3>3 DEF Returned
      <4>2. Explained(c, v.slice)
        BY <2>4
      <4> HIDE DEF v
      <4> QED
        BY <1>3, <4>1, <4>2
    <3> QED
      BY <3>2, <3>3
  <2> QED
    BY <2>5, <2>6, <2>7
<1> QED
  BY <1>4, <1>5

\* A new stage begins with empty slices and nothing filed.
LEMMA AskKeepsNil ==
  ASSUME NEW st, Ask(st),
         st = "block" => traces' = Empty,
         \A t \in DOMAIN traces' : traces'[t] = Nothing => NearPrecompile(t)',
         st = "done" => \A t \in 1 .. TxCount' :
                          result'.traces[t] = Nothing => NearPrecompile(t)'
  PROVE  NilInv'
<1>1. stage' = st /\ got' = Empty /\ calls' = [c \in Chunks(st)' |-> NewCall]
  BY DEF Ask
<1>2. Chunks(st)' = Chunks(stage)'
  BY <1>1 DEF Chunks, RequestCount, ChunkSize, TxCount
<1>3. \A c \in Chunks(stage)' : calls'[c].slice = <<>>
  BY <1>1, <1>2 DEF NewCall
<1>4. \A c \in Chunks(stage)' : Explained(c, calls[c].slice)'
  BY <1>3 DEF Explained
<1> QED
  BY <1>1, <1>4 DEF NilInv, Empty

LEMMA StageKeepsNil ==
  ASSUME FetchInv, NilInv,
         \/ GotBlock \/ GotReceipts \/ GotBlockTraces \/ FallBack \/ GotTxTraces
         \/ Assemble \/ StartOver
  PROVE  NilInv'
<1>1. ASSUME UNCHANGED <<txs, block>>
      PROVE  \A t : NearPrecompile(t)' <=> NearPrecompile(t)
  BY <1>1 DEF NearPrecompile, TxCount
<1>2. \A t \in DOMAIN traces : traces[t] = Nothing => NearPrecompile(t)
  BY DEF NilInv
<1>3. CASE GotBlock
  <2>1. traces' = Empty /\ (Ask("receipts") \/ Ask("assemble"))
    BY <1>3 DEF GotBlock, Waited, NilInv
  <2>2. \A t \in DOMAIN traces' : traces'[t] = Nothing => NearPrecompile(t)'
    BY <2>1 DEF Empty
  <2> QED
    BY <2>1, <2>2, AskKeepsNil
<1>4. CASE GotReceipts \/ FallBack
  <2>1. /\ UNCHANGED <<txs, block, traces>>
        /\ Ask("blockTrace") \/ Ask("txTraces")
    BY <1>4 DEF GotReceipts, FallBack, nodeVars
  <2>2. \A t \in DOMAIN traces' : traces'[t] = Nothing => NearPrecompile(t)'
    BY <1>1, <1>2, <2>1
  <2> QED
    BY <2>1, <2>2, AskKeepsNil
<1>5. CASE GotBlockTraces \/ GotTxTraces
  <2>1. UNCHANGED <<txs, block>> /\ Ask("assemble")
    BY <1>5 DEF GotBlockTraces, GotTxTraces, nodeVars
  <2>2. \A t \in DOMAIN traces' : traces'[t] = Nothing => NearPrecompile(t)
    <3>1. CASE GotBlockTraces
      BY <3>1 DEF GotBlockTraces, Nothing
    <3>2. CASE GotTxTraces
      BY <3>2 DEF GotTxTraces, NilInv
    <3> QED
      BY <1>5, <3>1, <3>2
  <2>3. \A t \in DOMAIN traces' : traces'[t] = Nothing => NearPrecompile(t)'
    BY <1>1, <2>1, <2>2
  <2> QED
    BY <2>1, <2>3, AskKeepsNil
<1>6. CASE Assemble
  <2>1. UNCHANGED <<txs, block, traces>> /\ Ask("done") /\ stage = "assemble"
    BY <1>6 DEF Assemble, nodeVars
  <2>2. TxCount' = TxCount /\ \A t : NearPrecompile(t)' <=> NearPrecompile(t)
    BY <1>1, <2>1 DEF TxCount
  <2>3. \A t \in 1 .. TxCount : t \in DOMAIN traces /\ result'.traces[t] = traces[t]
    BY <1>6, <2>1 DEF Assemble, FetchInv, BlockInv
  <2>4. \A t \in 1 .. TxCount' : result'.traces[t] = Nothing => NearPrecompile(t)'
    BY <1>2, <2>2, <2>3
  <2>5. \A t \in DOMAIN traces' : traces'[t] = Nothing => NearPrecompile(t)'
    BY <1>2, <2>1, <2>2
  <2> QED
    BY <2>1, <2>4, <2>5, AskKeepsNil
<1>7. CASE StartOver
  <2>1. traces' = Empty /\ Ask("block")
    BY <1>7 DEF StartOver
  <2>2. \A t \in DOMAIN traces' : traces'[t] = Nothing => NearPrecompile(t)'
    BY <2>1 DEF Empty
  <2> QED
    BY <2>1, <2>2, AskKeepsNil
<1> QED
  BY <1>3, <1>4, <1>5, <1>6, <1>7

(***************************************************************************)
(* The theorems.                                                           *)
(***************************************************************************)
LEMMA FetchInit ==
  ASSUME Init
  PROVE  FetchInv
<1>1. TypeOK
  <2>1. calls \in [{1} -> CallStates]
    BY NewCallState DEF Init
  <2>2. \A c \in DOMAIN calls :
          /\ calls[c].pc \in {"call", "ok", "failed"}
          /\ {calls[c].round, calls[c].tries} \subseteq 0 .. MaxRetries
          /\ \A i \in DOMAIN calls[c].slice : calls[c].slice[i].result \in Results
    <3>1. DOMAIN calls = {1}
      BY <2>1
    <3> QED
      BY <2>1, <3>1, SlicesTyped, Zenon
  <2>3. \A f \in {got, receipts, traces} : \A r \in DOMAIN f : f[r] \in Results
    BY DEF Init, Empty
  <2> QED
    BY <2>2, <2>3, NothingIsResult DEF Init, TypeOK
<1>2. Chunks(stage) = {1}
  BY <1>1, OneBlock DEF Init
<1>3. CallsInv
  BY <1>2, NewCallState DEF Init, CallsInv
<1>4. GotInv /\ BlockInv
  BY DEF Init, Empty, GotInv, BlockInv
<1> QED
  BY <1>1, <1>3, <1>4 DEF FetchInv

LEMMA FetchNext ==
  ASSUME FetchInv, [Next]_vars
  PROVE  FetchInv'
<1>1. CASE \E c \in DOMAIN calls : CallFails(c) \/ CallAnswered(c)
  BY <1>1, CallFailsKeeps, CallAnsweredKeeps
<1>2. CASE GotBlock
  BY <1>2, GotBlockKeeps
<1>3. CASE GotReceipts
  BY <1>3, GotReceiptsKeeps
<1>4. CASE GotBlockTraces \/ GotTxTraces
  BY <1>4, GotTracesKeeps
<1>5. CASE FallBack
  BY <1>5, FallBackKeeps
<1>6. CASE Assemble
  BY <1>6, AssembleKeeps
<1>7. CASE StartOver
  BY <1>7, StartOverKeeps
<1>8. CASE TurnHealthy \/ UNCHANGED vars
  BY <1>8, QuietKeeps
<1> QED
  BY <1>1, <1>2, <1>3, <1>4, <1>5, <1>6, <1>7, <1>8 DEF Next, FetchStep

\* The inductive invariant of the calls of a stage and of what they filed.
THEOREM FetchInvariant == Spec => []FetchInv
<1>1. Init => FetchInv
  BY FetchInit
<1>2. FetchInv /\ [Next]_vars => FetchInv'
  BY FetchNext
<1> QED
  BY <1>1, <1>2, PTL DEF Spec

\* Type correctness of the fetch; no call makes more attempts than maxRetries.
THEOREM FetchTypes == Spec => []TypeOK
<1>1. FetchInv => TypeOK
  BY DEF FetchInv
<1> QED
  BY <1>1, FetchInvariant, PTL

LEMMA NilInit ==
  ASSUME Init
  PROVE  NilInv
<1>1. \A c \in Chunks(stage) : calls[c].slice = <<>>
  <2>1. Chunks(stage) = {1}
    BY FetchInit, OneBlock DEF FetchInv, Init
  <2> QED
    BY <2>1 DEF Init, NewCall
<1> QED
  BY <1>1 DEF Init, Empty, NilInv, Explained

LEMMA NilNext ==
  ASSUME FetchInv, NilInv, [Next]_vars
  PROVE  NilInv'
<1>1. CASE \E c \in DOMAIN calls : CallFails(c) \/ CallAnswered(c)
  BY <1>1, CallStepKeepsNil
<1>2. CASE GotBlock \/ GotReceipts \/ GotBlockTraces \/ FallBack \/ GotTxTraces
           \/ Assemble \/ StartOver
  BY <1>2, StageKeepsNil
<1>3. CASE TurnHealthy \/ UNCHANGED vars
  <2>1. UNCHANGED <<txs, stage, calls, got, block, receipts, traces, result>>
    BY <1>3 DEF TurnHealthy, vars, nodeVars, stageVars
  <2>2. Chunks(stage)' = Chunks(stage) /\ \A c : Requests(c)' = Requests(c)
    BY <2>1 DEF Chunks, Requests, RequestCount, TxCount, ChunkSize
  <2>3. TxCount' = TxCount /\ \A t : NearPrecompile(t)' <=> NearPrecompile(t)
    BY <2>1 DEF TxCount, NearPrecompile
  <2>4. \A c \in Chunks(stage)' : Explained(c, calls[c].slice)'
    BY <2>1, <2>2 DEF NilInv, Explained
  <2> QED
    BY <2>1, <2>3, <2>4 DEF NilInv
<1> QED
  BY <1>1, <1>2, <1>3 DEF Next, FetchStep

LEMMA NilInvariant == Spec => []NilInv
<1>1. Init => NilInv
  BY NilInit
<1>2. FetchInv /\ NilInv /\ [Next]_vars => NilInv'
  BY NilNext
<1> QED
  BY <1>1, <1>2, FetchInvariant, PTL DEF Spec

\* batchRpcCall and batchRpcCallDebug let no call return without an answer to
\* each of its requests: "missing receipt for tx" is dead code, and a trace is nil
\* only in a batch with a transaction whose trace the node refused.  Not more: the
\* transaction may be another one of that batch, by a stale error.
THEOREM NilTracesHaveCause == Spec => []NilHasCause
<1>1. FetchInv /\ NilInv => NilHasCause
  BY DEF FetchInv, BlockInv, NilInv, NilHasCause
<1> QED
  BY <1>1, FetchInvariant, NilInvariant, PTL

\* fetchReceiptsBatch and fetchTracesBatch: whatever the order of the answers and
\* however often the slice is decoded into again, a transaction is handed over
\* with no other one's receipt or trace, as long as each answer has a result or
\* an error.
THEOREM AnswersAreFiledRight ==
  ASSUME "missing" \notin Bodies
  PROVE  Spec => []AnswersKeepTheirTx
<1>1. FetchInv => AnswersKeepTheirTx
  BY DEF FetchInv, BlockInv, AnswersKeepTheirTx, IsTrace, IsFor
<1> QED
  BY <1>1, FetchInvariant, PTL

=============================================================================
