------------------------------- MODULE Fetch -------------------------------
(***************************************************************************)
(* The fetch of one block (evm-ingestion/rpc/fetcher.go): startFetch calls *)
(* fetchSingleBlock until it succeeds, which asks for the block, for its   *)
(* receipts and for its traces, and assembles the answers.  A stage sends  *)
(* its requests in batches, each by a goroutine that retries by itself.    *)
(*                                                                         *)
(* The node is external.  It may fail a call, answer in any order, leave   *)
(* answers out or repeat them; a result it gives for a request is its      *)
(* result for that request, or null, or one that does not parse.           *)
(* Slots of the controller are left out (see Controller).                  *)
(***************************************************************************)
EXTENDS Integers, Sequences, FiniteSets, Functions

CONSTANTS
  MaxTx,          \* transactions a block has at most
  BatchSize,      \* Fetcher.batchSize
  DebugBatchSize, \* Fetcher.debugBatchSize
  MaxRetries,     \* Fetcher.maxRetries
  Precompiles,    \* the transactions whose trace a node may refuse, a precompile's
  Bodies          \* what an answer may carry, besides its id

AllBodies == {"own", "null", "bad", "error", "precompile", "missing"}

ASSUME FetchAssumption ==
  /\ MaxTx \in Nat /\ MaxRetries \in Nat
  /\ BatchSize \in Nat \ {0} /\ DebugBatchSize \in Nat \ {0}
  /\ Precompiles \subseteq 1 .. MaxTx
  /\ "own" \in Bodies /\ Bodies \subseteq AllBodies

VARIABLES
  txs,        \* how many transactions the block has
  healthy,    \* from now on the node answers every request
  stage,      \* where fetchSingleBlock is
  calls,      \* the goroutines of the stage, one per batch of requests
  got,        \* the results of the stage by request
  block,      \* fetchSingleBlock: block
  receipts,   \* fetchSingleBlock: receiptsMap
  traces,     \* fetchSingleBlock: tracesMap
  result      \* what startFetch sends to StreamBlocks

nodeVars == <<txs, healthy>>
vars == <<nodeVars, stage, calls, got, block, receipts, traces, result>>

Empty == [x \in {} |-> x]
Nothing == [of |-> 0, body |-> "none"]        \* no result, a nil trace
Results == [of : 0 .. MaxTx + 1, body : {"none", "own", "null", "bad"}]

Calling == {"block", "receipts", "blockTrace", "txTraces"}

(***************************************************************************)
(* Requests, numbered from 1 within a stage, and their batches.            *)
(***************************************************************************)

\* A null block is the zero value of Block: it has no transactions.
TxCount == IF block.body = "own" THEN txs ELSE 0

\* One request for a block or its traces, else one for every transaction.
RequestCount(st) ==
  CASE st \in {"block", "blockTrace"} -> 1
    [] st \in {"receipts", "txTraces"} -> TxCount
    [] OTHER -> 0

ChunkSize(st) == IF st \in {"block", "receipts"} THEN BatchSize ELSE DebugBatchSize

\* chunksOf
Chunks(st) == {c \in 1 .. MaxTx + 1 : (c - 1) * ChunkSize(st) < RequestCount(st)}
Requests(c) ==
  {i \in 1 .. RequestCount(stage) : (i - 1) \div ChunkSize(stage) = c - 1}
FirstRequest(c) == (c - 1) * ChunkSize(stage) + 1

(***************************************************************************)
(* One call: batchRpcCall, and batchRpcCallDebug in the stages of traces.  *)
(* slice is the memory of its variable responses, which outlives an        *)
(* attempt: a decoder keeps the fields that the new answer leaves out.     *)
(***************************************************************************)
Blank == [id |-> 0, error |-> "none", result |-> Nothing]
NewCall == [pc |-> "call", round |-> 0, tries |-> 0, slice |-> <<>>]
Ended(how) == [NewCall EXCEPT !.pc = how]

Debug == stage \in {"blockTrace", "txTraces"}

\* Only a trace of one transaction fails for its precompile.
StageBodies ==
  IF stage = "txTraces" THEN Bodies ELSE Bodies \ {"precompile"}

\* One answer to a request of the batch, with one of these bodies.
Replies(c, bodies) ==
  {a \in [id : Requests(c), body : bodies] :
     a.body = "precompile" => a.id \in Precompiles}

\* The answers of a node that is not well, and of one that is.  It may refuse
\* the traces of a block for ever, and those of a precompile's transaction.
Answers(c) ==
  LET n == Cardinality(Requests(c))
      good == StageBodies \cap (CASE stage = "blockTrace" -> {"own", "bad", "error"}
                                  [] stage = "txTraces" -> {"own", "precompile"}
                                  [] OTHER -> {"own"})
  IN  IF healthy
        THEN {a \in [1 .. n -> Replies(c, good)] :
                \A r \in Requests(c) : \E i \in 1 .. n : a[i].id = r}
        ELSE UNION {[1 .. k -> Replies(c, StageBodies)] : k \in 0 .. n}

\* Mutant: a null leaves the result that is there, as it would in a type that
\* is not a RawMessage.
MergeKeepingNull(old, answer) ==
  [id     |-> answer.id,
   error  |-> IF answer.body \in {"error", "precompile"} THEN answer.body ELSE old.error,
   result |-> IF answer.body \in {"own", "bad"}
                THEN [of |-> answer.id, body |-> answer.body] ELSE old.result]

\* json.Decode of one answer over what its place in the slice held.
Merge(old, answer) ==
  [id     |-> answer.id,
   error  |-> IF answer.body \in {"error", "precompile"} THEN answer.body ELSE old.error,
   result |-> IF answer.body \in {"own", "null", "bad"}
                THEN [of |-> answer.id, body |-> answer.body] ELSE old.result]

\* An empty array gives the variable a new slice.
Decode(slice, answers) ==
  IF answers = <<>> THEN <<>>
  ELSE [i \in 1 .. (IF Len(slice) > Len(answers) THEN Len(slice) ELSE Len(answers)) |->
         LET old == IF i <= Len(slice) THEN slice[i] ELSE Blank
         IN  IF i <= Len(answers) THEN Merge(old, answers[i]) ELSE old]

\* sort.Slice of the first n by id; it is not stable.
Sorted(slice, n) ==
  {[i \in DOMAIN slice |-> IF i <= n THEN slice[p[i]] ELSE slice[i]] :
     p \in {q \in Bijection(1 .. n, 1 .. n) :
              \A i, j \in 1 .. n : i < j => slice[q[i]].id <= slice[q[j]].id}}

\* The debug call sorts before it counts, the other one after.
Arranged(slice, n, count) ==
  IF Debug \/ n = count THEN Sorted(slice, n) ELSE {slice}

\* Mutant: the ids of the answers are not compared with the requests'.
AnyId(c, slice, i) == TRUE

IdMatches(c, slice, i) == slice[i].id = FirstRequest(c) + i - 1

\* The first answer that is refused, in the order of the loop; 0 if none is.
FirstRefused(c, slice) ==
  LET n == Cardinality(Requests(c))
      refused == {i \in 1 .. n :
        \/ ~IdMatches(c, slice, i)
        \/ ~Debug /\ (slice[i].error # "none" \/ slice[i].result.body = "none")}
  IN  IF refused = {} THEN 0 ELSE CHOOSE i \in refused : \A j \in refused : i <= j

\* The call gives up.  Traces of transactions are asked for again in a new call.
GiveUp(c) ==
  IF stage = "txTraces" /\ calls[c].round < MaxRetries
    THEN [NewCall EXCEPT !.round = calls[c].round + 1]
    ELSE Ended("failed")

\* Mutant: one attempt too many.
AttemptOneMore(c, slice) ==
  IF calls[c].tries <= MaxRetries
    THEN [calls[c] EXCEPT !.tries = @ + 1, !.slice = slice]
    ELSE GiveUp(c)

\* An attempt fails: the next one decodes into the same slice.
Attempt(c, slice) ==
  IF calls[c].tries < MaxRetries
    THEN [calls[c] EXCEPT !.tries = @ + 1, !.slice = slice]
    ELSE GiveUp(c)

(***************************************************************************)
(* What the goroutine does with the answers of a call that returned.       *)
(***************************************************************************)

\* StrictUnmarshal succeeds, also on null; a precompile has no trace.
Usable(e) ==
  \/ e.error = "none" /\ e.result.body \in {"own", "null"}
  \/ e.error = "precompile" /\ stage = "txTraces"

Value(e) == IF e.error = "none" THEN e.result ELSE Nothing

\* The answers filed by the id they came with.
Filed(c, slice) ==
  LET ids == {slice[i].id : i \in 1 .. Cardinality(Requests(c))}
  IN  [r \in DOMAIN got \cup ids |->
         IF r \in ids
           THEN Value(slice[CHOOSE i \in 1 .. Cardinality(Requests(c)) : slice[i].id = r])
           ELSE got[r]]

\* Errors that are not a precompile's make the goroutine ask again.
Returned(c, slice) ==
  LET answers == {slice[i] : i \in 1 .. Cardinality(Requests(c))}
  IN  IF \A e \in answers : Usable(e)
        THEN got' = Filed(c, slice) /\ calls' = [calls EXCEPT ![c] = Ended("ok")]
        ELSE /\ calls' = [calls EXCEPT ![c] =
                  IF \E e \in answers : e.error = "error" THEN GiveUp(c) ELSE Ended("failed")]
             /\ UNCHANGED got

stageVars == <<stage, block, receipts, traces, result>>

\* The request fails, or its answer is refused by the decoder: one that is not
\* JSON leaves the slice alone, one with a field of another type has filled it.
CallFails(c) ==
  /\ ~healthy /\ calls[c].pc = "call"
  /\ \E slice \in {calls[c].slice} \cup {Decode(calls[c].slice, a) : a \in Answers(c)} :
       calls' = [calls EXCEPT ![c] = Attempt(c, slice)]
  /\ UNCHANGED <<nodeVars, stageVars, got>>

CallAnswered(c) ==
  /\ calls[c].pc = "call"
  /\ \E answers \in Answers(c) :
     \E slice \in Arranged(Decode(calls[c].slice, answers),
                           Len(answers), Cardinality(Requests(c))) :
       IF Len(answers) # Cardinality(Requests(c))
         THEN calls' = [calls EXCEPT ![c] = Attempt(c, slice)] /\ UNCHANGED got
         ELSE LET i == FirstRefused(c, slice)
              IN  IF i = 0 THEN Returned(c, slice)
                  ELSE /\ calls' = [calls EXCEPT ![c] =
                            IF IdMatches(c, slice, i) THEN Ended("failed")
                            ELSE Attempt(c, slice)]
                       /\ UNCHANGED got
  /\ UNCHANGED <<nodeVars, stageVars>>

(***************************************************************************)
(* fetchSingleBlock, a stage at a time: it waits for all the goroutines.   *)
(***************************************************************************)
Waited(st) == stage = st /\ \A c \in DOMAIN calls : calls[c].pc # "call"
Succeeded == \A c \in DOMAIN calls : calls[c].pc = "ok"

Ask(st) == /\ stage' = st
           /\ calls' = [c \in Chunks(st)' |-> NewCall]
           /\ got' = Empty

\* A block without transactions needs no receipts and no traces.
GotBlock ==
  /\ Waited("block") /\ Succeeded
  /\ block' = got[1]
  /\ UNCHANGED <<nodeVars, receipts, traces, result>>
  /\ IF TxCount' > 0 THEN Ask("receipts") ELSE Ask("assemble")

GotReceipts ==
  /\ Waited("receipts") /\ Succeeded
  /\ receipts' = got
  /\ UNCHANGED <<nodeVars, block, traces, result>>
  /\ Ask("blockTrace")

\* The traces of the block are those of its transactions, in order.
GotBlockTraces ==
  /\ Waited("blockTrace") /\ Succeeded
  /\ got[1].body = "own"
  /\ traces' = [t \in 1 .. TxCount |-> [of |-> t, body |-> "own"]]
  /\ UNCHANGED <<nodeVars, block, receipts, result>>
  /\ Ask("assemble")

\* Mutant: the traces of the block are asked for once more.
AskBlockAgain ==
  /\ Waited("blockTrace") /\ ~Succeeded
  /\ UNCHANGED <<nodeVars, block, receipts, traces, result>>
  /\ Ask("blockTrace")

FallBack ==
  /\ Waited("blockTrace") /\ ~Succeeded
  /\ UNCHANGED <<nodeVars, block, receipts, traces, result>>
  /\ Ask("txTraces")

GotTxTraces ==
  /\ Waited("txTraces") /\ Succeeded
  /\ traces' = got
  /\ UNCHANGED <<nodeVars, block, receipts, result>>
  /\ Ask("assemble")

\* A receipt that is missing is an error, a trace that is missing is nil.
Assemble ==
  /\ stage = "assemble"
  /\ 1 .. TxCount \subseteq DOMAIN receipts
  /\ result' = [block    |-> block,
                receipts |-> [t \in 1 .. TxCount |-> receipts[t]],
                traces   |-> [t \in 1 .. TxCount |->
                                IF t \in DOMAIN traces THEN traces[t] ELSE Nothing]]
  /\ UNCHANGED <<nodeVars, block, receipts, traces>>
  /\ Ask("done")

\* fetchSingleBlock returns an error and startFetch calls it again.  A null in
\* the place of the block's traces is an empty list, too short for the block.
StartOver ==
  /\ \/ \E st \in Calling \ {"blockTrace"} : Waited(st) /\ ~Succeeded
     \/ Waited("blockTrace") /\ Succeeded /\ got[1].body = "null"
     \/ stage = "assemble" /\ ~(1 .. TxCount \subseteq DOMAIN receipts)
  /\ block' = Nothing /\ receipts' = Empty /\ traces' = Empty
  /\ UNCHANGED <<nodeVars, result>>
  /\ Ask("block")

Init ==
  /\ txs \in 0 .. MaxTx /\ healthy = FALSE
  /\ stage = "block" /\ calls = [c \in {1} |-> NewCall] /\ got = Empty
  /\ block = Nothing /\ receipts = Empty /\ traces = Empty
  /\ result = [block |-> Nothing, receipts |-> <<>>, traces |-> <<>>]

TurnHealthy == ~healthy /\ healthy' = TRUE /\ UNCHANGED <<txs, stageVars, calls, got>>

FetchStep ==
  \/ \E c \in DOMAIN calls : CallFails(c) \/ CallAnswered(c)
  \/ GotBlock \/ GotReceipts \/ GotBlockTraces \/ FallBack \/ GotTxTraces
  \/ Assemble \/ StartOver

Next == FetchStep \/ TurnHealthy

Spec == Init /\ [][Next]_vars

(***************************************************************************)
(* The goroutines run, every call ends (the HTTP client has a timeout) and *)
(* every sleep does.  Nothing is asked of a node that is not well, so this *)
(* is of use from then on only.                                            *)
(***************************************************************************)
FairSpec == Spec /\ WF_vars(healthy /\ FetchStep)

(***************************************************************************)
(* Properties.                                                             *)
(***************************************************************************)

\* The states of a fetch; no call makes more attempts than maxRetries allows.
TypeOK ==
  /\ txs \in 0 .. MaxTx /\ healthy \in BOOLEAN
  /\ stage \in Calling \cup {"assemble", "done"}
  /\ \A c \in DOMAIN calls :
       /\ calls[c].pc \in {"call", "ok", "failed"}
       /\ {calls[c].round, calls[c].tries} \subseteq 0 .. MaxRetries
       /\ \A i \in DOMAIN calls[c].slice : calls[c].slice[i].result \in Results
  /\ block \in Results
  /\ \A f \in {got, receipts, traces} : \A r \in DOMAIN f : f[r] \in Results

\* However the answers were ordered, split over batches and retried, a receipt
\* or a trace handed over for a transaction is none of another's.
AnswersKeepTheirTx ==
  stage = "done" =>
    \A t \in 1 .. TxCount :
      /\ result.receipts[t].of = t
      /\ result.traces[t] # Nothing => result.traces[t].of = t

\* The batch of transactions that is traced with t has one of a precompile.
NearPrecompile(t) ==
  \E p \in Precompiles \cap (1 .. TxCount) :
    (p - 1) \div DebugBatchSize = (t - 1) \div DebugBatchSize

\* The checks of a call leave no request without an answer: "missing receipt for
\* tx" is never returned, and every trace that is nil goes back to an error the
\* node gave for a precompile's transaction, of t or of another one of its batch.
\* (Of another one when the error is stale: an answer without one keeps the error
\* that an earlier attempt left in its place, and its trace is dropped.)
NilHasCause ==
  /\ stage = "assemble" => 1 .. TxCount \subseteq DOMAIN receipts
  /\ stage = "done" =>
       \A t \in 1 .. TxCount : result.traces[t] = Nothing => NearPrecompile(t)

\* Once the node answers every request, the fetch ends, whatever was answered
\* before and although the node never traces the block as a whole.
FetchEnds == <>healthy => <>(stage = "done")

\* fetcher.go: "fetchSingleBlock fetches a single block with its receipts and
\* traces".  A receipt handed over with a block is the node's receipt, and not
\* the zero value that a null gives.
ReceiptsAreTheNodes ==
  stage = "done" => \A t \in DOMAIN result.receipts : result.receipts[t].body = "own"

(***************************************************************************)
(* The inductive invariant behind the safety properties.                   *)
(***************************************************************************)

\* A result is the node's for request i.  All bets are off when an answer may leave
\* out its result and its error ("missing"), since the place then keeps what an
\* answer to another request left there.
IsFor(value, i) == "missing" \in Bodies \/ value.of = i

\* The places of a slice: a result is for the request whose id came with it.
Places ==
  {e \in [id : 0 .. MaxTx + 1, error : {"none", "error", "precompile"}, result : Results] :
     e.error = "none" => IsFor(e.result, e.id)}

CallStates ==
  [pc    : {"call", "ok", "failed"},
   round : 0 .. MaxRetries,
   tries : 0 .. MaxRetries,
   slice : Seq(Places)]

\* A call that returned has filed an answer to each of its requests.
CallsInv ==
  /\ calls \in [Chunks(stage) -> CallStates]
  /\ \A c \in Chunks(stage) : calls[c].pc = "ok" => Requests(c) \subseteq DOMAIN got

\* Only a trace of one transaction is nil.
GotInv ==
  \A r \in DOMAIN got : IsFor(got[r], r) \/ (stage = "txTraces" /\ got[r] = Nothing)

IsTrace(value, t) == IsFor(value, t) \/ value = Nothing

BlockInv ==
  /\ \A t \in DOMAIN receipts : IsFor(receipts[t], t)
  /\ \A t \in DOMAIN traces : IsTrace(traces[t], t)
  /\ stage \in {"blockTrace", "txTraces", "assemble"} => 1 .. TxCount \subseteq DOMAIN receipts
  /\ stage = "assemble" => 1 .. TxCount \subseteq DOMAIN traces
  /\ stage = "done" =>
       \A t \in 1 .. TxCount : IsFor(result.receipts[t], t) /\ IsTrace(result.traces[t], t)

FetchInv == TypeOK /\ CallsInv /\ GotInv /\ BlockInv

\* A precompile's error in a slice, fresh or stale, came from a request of its batch.
Explained(c, slice) ==
  (\E i \in DOMAIN slice : slice[i].error = "precompile") => Requests(c) \cap Precompiles # {}

\* A trace is nil for such an error only.
NilInv ==
  /\ \A c \in Chunks(stage) : Explained(c, calls[c].slice)
  /\ \A r \in DOMAIN got : got[r] = Nothing => NearPrecompile(r)
  /\ stage = "block" => traces = Empty
  /\ \A t \in DOMAIN traces : traces[t] = Nothing => NearPrecompile(t)
  /\ stage = "done" =>
       \A t \in 1 .. TxCount : result.traces[t] = Nothing => NearPrecompile(t)

=============================================================================
