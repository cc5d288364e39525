# A verification of l1-data-tools

TLA+ specifications of the EVM sink (`evm-ingestion`), its consumer client
(`evm-ingestion-client`) and the subnet-evm plugin that embeds the same storage
(`indexing-subnet-evm`), with TLC runs and TLAPS proofs. Paths below are relative
to the repository, `module!Name` is a definition of a module here.

## 1. Inventory of the system

| Part | Code | State | Operations |
|---|---|---|---|
| Block batches | `evm-ingestion/storage/batch.go` | none | `BatchStart`, `BatchEnd`, compression |
| Storage | `storage/pebble.go`, `storage/versiondb.go`, `storage/interface.go` | keys `block:n`, `batch:s-e`, `meta` (versiondb: also a cached latest block) | save, get, first, latest, delete range, meta |
| Compactor | `storage/compactor.go` | one goroutine, the locals of a round | tick, one batch at a time: read, save batch, save meta, delete |
| Ingestion loop | `evm-ingestion/main.go` | `currentBlock`, the channel of a stream | resume, receive, check order, save, announce, restart |
| API server | `api/server.go` | `latestBlock`, one `currentBlock` per client | `/info`, `/ws` stream |
| Consumer client | `evm-ingestion-client/client.go` | `currentBlock`, the connection | connect, read a pack, filter, hand over, reconnect |
| Rate controller | `rpc/controller.go` | channel of slots, `currentParallel`, window of metrics | `Execute` (acquire, run, record, release), `adjust` |
| Head tracker | `rpc/heads.go` | `latestBlock`, the subscription | initial height, subscribe, read heads, reconnect |
| Block stream | `rpc/fetcher.go`, `StreamBlocks` | `pending`, `nextToSend`, `latestBlock` | refresh, fetch, take, send, refill |
| RPC assembly | `rpc/fetcher.go`, `rpc/types.go` | none across calls | batches of requests, retry, validation, assembly of a block |
| Plugin VM | `indexing-subnet-evm/vm.go`, `block.go`, `indexer.go` | `lastIndexedHeight`, `lastAcceptedHeight`, the versiondb | `Initialize`, `Accept`, `indexBlock` |
| Plugin validation, marshalling | `validate.go`, `marshal.go` | none | diagnostics; conversions to JSON |
| Metrics, constants, exporter notes, build scripts | | | not behaviour |

How the parts interact:

```
 node --newHeads--> HeadTracker --height--> StreamBlocks --channel--> runIngestion
   ^                                            |                        | SaveBlock
   +------- Execute (Controller slots) ---------+                        v
                                              Compactor <--reads/writes--> Storage
                                                                         ^
 Client <------ WebSocket frames ------ streamBlocks (Server) ---reads---+

 plugin: consensus -> Accept -> indexBlock -> Storage over versiondb memory
                        +-> wrapped Accept: Commit or Abort of that memory
```

The ingestion loop, the compactor and every client's handler run concurrently
over one store without a lock; they rely on the order of their synced writes. In
the plugin the same compactor writes into a memory that another goroutine commits
or drops. What is hard, and hard to test: the interleavings of these goroutines; a
crash between two writes; calls that fail after taking effect; the loss of
messages with a WebSocket; retries. `PROJECT.json` lists each hazard at its line.

What makes each part correct: a stored block can always be read back, from one of
its two homes; ingestion resumes exactly after the last stored block; the tip
stays in individual blocks; a consumer gets every block once and in order; the
window delivers in order and each stream keeps within bounded memory; slots are never lost; the chain
never commits a block without its index.

## 2. Modules

| Module | Models | Notes |
|---|---|---|
| `Batches` | `batch.go` | arithmetic, constant `BatchSize` |
| `Storage` | `pebble.go` | `blocks`, `batches`, `meta`; a block's data is its number, a batch the sequence of its blocks |
| `Compactor` | `compactor.go` | `cpc` is the program counter of the goroutine; one action per call on the store; `RoundFails`, `DeleteFails` are its error paths |
| `Ingestion` | `main.go`, `UpdateLatestBlock` | `ipc` is the place in `runIngestion`; `saved` is a history variable |
| `Sink` | the process of `main.go` | `Compactor` and `Ingestion` interleaved over one `Storage`, with `Crash` |
| `BlockLog` | what a sink promises | abstract: a log that grows by the next block, an announced height |
| `Feed` | what a consumer is promised | abstract: the log of `BlockLog`, and its next blocks handed over |
| `Delivery` | `streamBlocks`, `client.go` over `Sink` | server, connection, client |
| `MCDeliveryLive` | liveness of `Sink` and `Delivery` | adds `calm`: no fault from some point on |
| `Plugin` | `vm.go`, `block.go`, `indexer.go`, `versiondb.go` | `Storage`'s variables are the view through the versiondb, `disk` is what is committed |
| `MCPluginLive` | liveness of `Plugin` | as `MCDeliveryLive`; `first` is a history variable, the first block committed with its index |
| `Controller` | `controller.go` | slots as a count of tokens |
| `Stream` | `heads.go`, `StreamBlocks`, and `Ingestion` fed by them | window, channel, subscription; `streams` are all the calls of `StreamBlocks` of a process, the last one being read |
| `Fetch` | `fetchSingleBlock`, `batchRpcCall`, `batchRpcCallDebug`, `types.go` | the fetch of one block; `calls` are the goroutines of a stage |
| `Arithmetic` | lemmas on division and on least numbers | used by the proofs below |
| `StoreProofs` | theorems on batches, lemmas on the store | used by `SinkProofs` and `PluginProofs` |
| `SinkProofs`, `DeliveryProofs`, `PluginProofs`, `ControllerProofs`, `StreamProofs`, `FetchProofs` | the theorems on the module each is named after; `DeliveryProofs` extends `SinkProofs` | see section 6 |

Operators before a definition and introduced as "Mutant" are deliberate bugs, one
per property, that show that the property depends on the code; no behaviour of
a specification uses them.

### Abstractions

* A block's JSON is its number; compression keeps the sequence of the blocks.
* The compactor performs each storage call as one step, and its decision (the
  arithmetic on `firstBlock` and `latestBlock`) belongs to the step that reads
  `latestBlock`. A call that returns an error may have taken effect.
* `runIngestion` asks for the latest block in one step and for batches and the
  meta key in another. These last two are one step: only the compactor writes them,
  and it cannot while there is no individual block (`Sink!RoundInv`), which is when
  they are read.
* Upstream of `Ingestion` any block number may arrive in `Sink`, so that its
  properties rest on the loop alone. `Stream` composes the same actions with the
  streams that feed them, without the compactor: the loop reads a channel and
  starts a stream each time it resumes, and the streams it has left go on. `IsSink`
  says that this upstream is one that `Sink` allows.
* In `Delivery` a frame is under way from the moment it is read until the client
  takes it; a write that blocks is a frame that stays under way. The server takes any
  error of a read as a miss; only absent keys are modelled, since a miss by failure
  leads where a miss by absence does: to the batch, or back to the block.
* `Controller` reduces latencies and errors to the verdict they lead to; the
  verdicts are all those `adjust` can reach. The lock is held by `adjust` while
  `toAdd > 0`.
* `Stream` has fetches that end in the end (`startFetch` retries without a bound;
  `Fetch!FetchEnds` is the reason), with the block or with a null, and no cancelled
  context: `main` cancels only when it exits. A `StreamBlocks` that returned would
  close its channel; `WindowContiguous` shows that it never does. A connection
  that breaks is noticed: one that is half open, of which a read without a deadline
  (`heads.go:214`) hears nothing, is not modelled.
* `Fetch` numbers requests from 1 and keeps of an answer its id, its error and its
  result; the result is the node's for that id, a null, or one that does not
  parse. `Precompiles` are the transactions whose trace a node may refuse with a
  precompile's error. The variable `responses` of a call is kept as memory (`slice`): the JSON
  decoder fills the elements of the attempt before in place, also those past its
  length, also when it then fails on the type of a field (`CallFails`), and an empty
  array gives it a new slice. An answer longer than the batch
  is refused like a shorter one and left out. The writes of a goroutine to the
  shared maps are one step, since nobody reads them before `wg.Wait`. Slots of the
  controller and the pauses between attempts are left out.
* `Plugin`: the wrapped `Accept` and the versiondb are external. A round of the
  compactor may end at any of its calls, since a read of a committed block goes to
  the disk and may fail like a write. The wrapped
  `Accept` commits the memory when it succeeds and aborts it in any case, as the
  notes under `indexing-subnet-evm/notes` quote it.

## 3. Runs

| Run | Checks | Bounds |
|---|---|---|
| `sink` | `TypeOK`, `NothingForgotten`, `ResumeIsExact`, `BlocksContiguous`, `FirstBlockAligned`, `TipStaysIndividual`, `MetaIsCovered`, `ImplementsLog` | `BatchSize` 2, `MinBlocks` 1, chain of 6 |
| `delivery` | `DeliveryTypeOK`, `DeliveredExactly`, `NothingSkipped`, `ImplementsFeed`, `EverythingDelivered`, `BacklogDrains` | `BatchSize` 2, `MinBlocks` 0, chain of 5, consumer from block 2 |
| `plugin` | `TypeOK`, `NoGapDetected`, `CommitCarriesIndex`, `IndexerInStep`, `RoundBehindTip`, `BatchesWellFormed`, `AlignedBacklogDrains` | `BatchSize` 2, `MinBlocks` 2, 7 heights, installed at 0, 1 or 2 |
| `controller` | `TypeOK`, `CurrentInBounds`, `SlotsCoverCurrent`, `AcquireServed` | 4 requests, maximum 3 |
| `stream` | `TypeOK`, `WindowContiguous`, `DeliveredInOrder`, `MemoryBounded`, `NeverAheadOfChain`, `IsSink`, `DeliversToHead` | window 2, chain of 5, one stop of the loop or crash |
| `fetch` | `TypeOK`, `AnswersKeepTheirTx`, `NilHasCause`, `FetchEnds` | blocks of 0 to 3 transactions, batches of 2, one retry at each level, transaction 1 a precompile's |
| `plugin_loss`, `plugin_backlog`, `plugin_skip`, `controller_excess`, `stream_head`, `fetch_null` | the six findings | see section 5 |

Why the bounds are enough. Two blocks per batch distinguish the first, the last and
an outside block; a chain of 6 has room for two batches and the buffer after them,
so that a round runs with an earlier batch stored, and with a batch stored twice
after a failed delete. `MinBlocks` 1 is the smallest buffer that keeps `LatestBlock`
present; `MinBlocks` 0 in `delivery` lets compaction empty the individual
blocks, which is the only way resume reaches `LatestBatch`, and lets a round start
in every store a larger buffer would let it start in; the odd chain of 5
leaves a block that no batch ever takes. A consumer that starts
at block 2 enters in the middle of a batch. `EverythingDelivered` includes that the
store reaches the tip, since the consumer is sent stored blocks only. In `plugin`, seven heights with the
buffer of 2 run two rounds wherever it is installed. The first block it indexes is the
one after the last accepted, or that one itself, when the chain accepts it again:
installed at 0 it is block 1, where a batch starts; installed at 1 or 2 either of the
two is, and the other one is not. Four requests exceed the three slots. A window of 2 with five blocks
lets the window, the block in between and the channel all fill and all empty, with
one stream left behind. Three transactions in batches of two give a stage two
goroutines, one of which has answers to reorder; one retry is enough for an answer
to be decoded over another, and one round more for the traces of transactions
shows a call with a new slice after one that gave up. A precompile in the batch of the
first two transactions gives that batch a cause for a nil trace and the other batch
none.

## 4. Fairness

* `MCDeliveryLive`, `MCPluginLive`: weak fairness of the goroutines (ingestion,
  compactor, server handler, client), since each is a loop that sleeps or waits on a
  ticker and never on another of them for ever; nothing is assumed of faults except
  that they stop, which is the premise (`<>calm`) of each property. In the plugin
  nothing makes consensus accept another block: an Accept that has begun ends.
* `Controller`: strong fairness of `Acquire` for each request, since a Go channel
  serves its waiting receivers in order; strong fairness of `RecordMetric`, since
  a `sync.Mutex` in starvation mode is handed over in order, and a request ends
  (the HTTP client has a timeout).
* `Stream`: weak fairness of the loop, of every stream with its fetches (each is
  retried until it ends), of the reader of heads and of reconnecting. Nothing makes
  the chain grow. `MaxFaults` bounds nulls, failed writes and crashes together, so
  that they stop.
* `Fetch`: weak fairness of the fetch as a whole once the node is healthy; the HTTP
  client has a timeout. The premise `<>healthy` is a node that from then on answers every request of a batch,
  although it may never trace a block as a whole nor a precompile's transaction.

## 5. Findings

* **Committed blocks lost in the plugin** (`plugin_loss`, `NoBlockLost`). The
  compactor's three writes go into the versiondb's memory one by one; the Abort of
  the wrapped `Accept` can fall after `SaveBatch`. The next commit then carries only
  the delete. The notes call the compactor safe against `Accept`.
* **More than `MAX_PARALLELISM` requests** (`controller_excess`). A reduction removes
  no token; a raise adds tokens.
* **A head that is never learnt** (`stream_head`). Nothing asks for the height
  after the subscription is (re)established.
* **A plugin that never compacts** (`plugin_backlog`, `BacklogDrains`). Installed in
  the middle of a batch, its first block is not where a batch starts, and every round
  begins at the start of the batch. `AlignedBacklogDrains` shows that compaction keeps
  up when the first block indexed is the first of a batch. The height of installation
  does not decide that alone: while nothing is indexed, Accept indexes the last
  accepted block if the chain accepts it again.
* **An index that a crash takes away** (`plugin_skip`, `IndexerAheadAfterCrash`).
  `block.go:17-19` says that the indexer is always at or ahead of the chain, and that
  a crash between index and accept leaves it ahead, so that the block is skipped when it is
  accepted again. The index is only in memory then, and `Initialize` takes the chain's
  height: the block is indexed again. This is safe, and `IndexerInStep` and
  `CommitCarriesIndex` are what holds instead: between Accepts the two are level, and
  no accepted block is committed without its index.
* **Empty receipts stored for good** (`fetch_null`, `ReceiptsAreTheNodes`). A null
  passes the check for an empty result and the strict decoder. A null block passes as
  well, and is stopped by the loop, which finds no number in it.

Other divergences, met while modelling, for which no run is kept:

* `/info` reports 0 after a restart of the standalone sink at the tip, until a block
  arrives: `main.go:62` restores nothing, while `vm.go:177` does for the plugin.
* The answers of an attempt are decoded over those of the attempt before. An answer
  without an error keeps the error that was in its place; when that is a precompile's,
  the trace the node gave for another transaction is replaced by nil. `NilHasCause`
  bounds the damage: a nil trace needs a precompile's transaction in the same batch.
* By the same decoding an answer with neither a result nor an error (the body
  `missing`, which breaks JSON-RPC) keeps the result that was in its place, and is not
  refused as the "empty result" that `batchRpcCall` looks for: a transaction is handed
  the receipt of another one.

## 6. Proofs

Every invariant that a passing run checks is proved for every value of the
constants, from the assumptions the modules state on them and, where said below,
one more; so are the three refinements. The proofs have one shape: an inductive
invariant; that `Init` gives it; one lemma for each action that keeps it; and the
properties from it. The runs check the properties; `StreamInv`, `DeliveryInv`,
`FetchInv` and `NilInv` hold in every state of their runs as well.

| Module | Invariant | What is proved from it |
|---|---|---|
| `SinkProofs` | `IndInv` | all invariants of `sink`, and `ImplementsLog` |
| `DeliveryProofs` | `DeliveryInv` | `DeliveryTypeOK`, `DeliveredExactly`, `NothingSkipped`, `ImplementsFeed`; `DeliverySpec => Spec` |
| `PluginProofs` | `PluginInv` | all invariants of `plugin`, for `MinBlocks >= 2` |
| `ControllerProofs` | `ControllerInv` | `TypeOK`, `SlotsCoverCurrent`; `CurrentInBounds` for `MaxParallelism >= 2` |
| `StreamProofs` | `StreamInv` | all invariants of `stream`, and `IsSink` |
| `FetchProofs` | `FetchInv`, `NilInv` | `TypeOK`, `NilHasCause`; `AnswersKeepTheirTx` where no answer is `missing` |

**Batches.** `StoreProofs` proves, for every `BatchSize`, that batches partition the
blocks: a block lies in the batch `BatchStart` gives it, and every block of that
batch is given the same one.

**Sink.** `SinkProofs` proves, for every `BatchSize > 0`, `MinBlocks` and chain:

* `InductiveInvariant`: `Spec => []IndInv`;
* from it `TypeCorrect`, `NothingIsForgotten`, `ResumesExactly`, `BlocksAreARun`,
  `RoundsStartAligned`, `TipIsKept` and `MetaIsNeverAhead`;
* `SinkImplementsLog`: the sink implements `BlockLog`, where the log is the set of
  blocks the keys can answer for.

The assumptions are those the modules state on their constants. None of the
properties is inductive alone. Deleting a range is harmless only if the batch is
stored, so `RoundInv` says that from the step after `SaveBatch` on, the key of the
batch is there; that this key is the one a reader derives needs `BatchesSound` and
the partition lemmas; that the buffer holds the right blocks needs that the read
loop starts at `FirstBlock`, hence `FirstBlockAligned`; that the delete takes a
prefix of the individual blocks and leaves `MinBlocks` of them needs that
`latestBlock` was taken when the backlog was measured and that blocks only grow at
the other end, `BlocksContiguous` and `TipStaysIndividual`. Resume rests on the
same facts, and on `BatchesPrefix` and `MetaSound` for its two fallbacks.

**Delivery.** `DeliveryIsSink` says that the sink with a server and a consumer is
still a sink, so that `IndInv` and every theorem of `SinkProofs` hold there.
`DeliveryInv` adds what is under way: each frame is a run of blocks (`IsRun`) and the
frames lead from the client's position to the server's (`NothingSkipped`). That a
frame from the store is the run it should be is `BatchesSound` and the partition
lemmas: the batch looked up at a block holds that block, hence begins no later and
ends no earlier than the client expects. `DeliveredExactly` then needs that the filter
of `client.go` takes from such a frame the blocks from the awaited one on and no
others. The filter is a loop over the pack, `Kept`, a recursive function; the
induction theorem cannot be instantiated here, so the proof exhibits the function and
takes a least place at which the loop and the interval disagree (`LeastNatural`).
`DeliveryImplementsFeed` puts the parts together: each step of the sink is a step of its
log (`StepImplementsLog`, shared with `SinkImplementsLog`), and each pack the client
reads hands over the next blocks of that log. The second needs that only stored
blocks are under way (`FramesInv`), and that the log never shrinks.

**Plugin.** `PluginProofs` proves `Spec => []PluginInv` for every `BatchSize > 0`,
every chain and height of installation and every `MinBlocks >= 2` (production: 1000), and from
it `NoGap`, `IndexIsCommittedWithBlock`, `IndexerFollowsChain`,
`RoundsEndBehindTip`, `BatchesKeepOrder` and `PluginTypeCorrect`. The bound is needed: with `MinBlocks` 1 a cache
that counts the block of a failed Accept lets the compactor delete the last
accepted block itself, and TLC then finds a commit without it. `PluginInv` separates what is committed
(`DiskInv`: nothing above the last accepted block, and that block itself once
anything is indexed, which is what makes a restart sound) from what the memory
holds over it (`MemoryInv`: at most the block being accepted, and never a delete of
the last accepted one). The second needs that a round, whose decision was taken from
a cache that may count a block since aborted, still ends below the last accepted
block: `RoundBehindTip`. An Abort keeps the invariant because it makes the memory
what is committed, for which `DiskInv` is `MemoryInv`.

**Controller.** The tokens in the channel, those held and those `adjust` still has to
add cover `currentParallel` in every state, for every number of requests and every
maximum. That `currentParallel` stays between its bounds needs a maximum of at least 2,
the least minimum.

**Stream.** `StreamInv` relates four parts that change in steps of their own: the
tracker (nothing read or under way is above the chain), the loop (the store is the run
of the blocks saved), each call of `StreamBlocks` by itself (`CallInv`), and the call
the loop reads, whose channel starts at the block the loop awaits. `CallInv` says that
the pending fetches are an interval from `nextToSend` on, of at most a window; a refill
begins at `nextToSend + len(pending)`, which is the next free block only because of
that. The channel is bounded by its capacity, so that `MemoryBounded` is the sum of the
two. A call that the loop has left keeps `CallInv`, which mentions nobody else; this
is why leaving one harms only memory. `DeliveredInOrder` needs in addition that a
resume starts its stream exactly after the last block saved. `StreamIsSink` maps each
step of the loop to the step of `Sink` it is, with a compactor that rests; what it
needs of the invariant is that no number above the chain is ever read.

**Fetch.** `FetchInv` follows an answer from the slice it is decoded into to the block:
each place of the slice whose error is empty holds a result of the request whose id is
there (`Places`), through sorting, decoding over an earlier attempt and shortening;
what is filed under a transaction is its own (`GotInv`); and a call that ends well has
filed an answer for each of its requests (`CallsInv`). That the chunks of a stage leave
no request out is division with remainder. A missing field is what could break the
first: the decoder leaves what was in the place before. `IsFor` is therefore
conditional, and `AnswersAreFiledRight` assumes `"missing" \notin Bodies`, as JSON-RPC
requires of a node (section 5 says what happens otherwise).
`NilTracesHaveCause` needs no such assumption: it rests on `NilInv`, by which an error
in a slice, fresh or left from any attempt before, was given for a precompile's
transaction of the batch the slice belongs to (`Explained`), since a slice never
outlives its call nor serves another batch.

Only model-checked: liveness (`BacklogDrains`, `AlignedBacklogDrains`,
`EverythingDelivered`, `AcquireServed`, `DeliversToHead`, `FetchEnds`), which is
beyond the prover; the six findings, which are counterexamples.

## 7. Not modelled

The marshalling of the plugin (`marshal.go`), a conversion of values field by field
that no property is about, and its validation (`validate.go`), which reads, compares
and logs; metrics, logging, the example client, scripts and the notes of an exporter
that has no code. A field that a node's answer has and the types do not makes
`StrictUnmarshal` fail, which is the body `bad` of `Fetch`.
An answer of a node with neither a result nor an error is the body `missing`, which
breaks JSON-RPC; the module and the proofs have it, the runs leave it out (section 5).
Streams that the loop leaves behind grow in number with every restart of it
(`main.go:155`): `MemoryBounded` bounds each of them, and no property their number.
`Compactor.Stop`, `Controller.Stop` and `HeadTracker.Stop` are not steps: the sink
never calls them, and for the plugin a stop at any point is covered by `Restart`.

## 8. Plan

1. Done: storage, compactor, ingestion and their proofs; delivery to a consumer;
   plugin and its liveness; controller; the stream with the ingestion loop that reads
   it; the fetch of a block.
2. Done: the proofs of every invariant the runs check, and of the three refinements.
3. Left: action properties worth a theorem (a committed block is never lost once the
   tip is past it), first checked by TLC; an abstract chain with an index that `Plugin`
   implements; `Plugin` with the server's stream: what a client may see before the commit.
