------------------------------- MODULE Stream -------------------------------
(***************************************************************************)
(* The ingestion loop of the standalone sink with what feeds it: the head  *)
(* tracker (evm-ingestion/rpc/heads.go), which learns the height of the    *)
(* chain from a WebSocket subscription, and StreamBlocks (rpc/fetcher.go), *)
(* which keeps a window of concurrent block fetches behind it and hands    *)
(* the blocks over in order.  The loop leaves a stream at a block it does  *)
(* not accept or cannot save, and starts another; the goroutines of the    *)
(* stream it left stay.  The chain and the node are external.              *)
(***************************************************************************)
EXTENDS Ingestion

CONSTANTS
  Window,         \* LOOKAHEAD: windowSize, and the capacity of the channel
  MaxFaults       \* how often the loop may be stopped or the process die

ASSUME StreamAssumption == Window \in Nat \ {0} /\ MaxFaults \in Nat

VARIABLES
  chain,          \* the height of the chain
  ws,             \* the subscription: "down" or "subscribed"
  heads,          \* newHeads messages sent on it and not read yet
  head,           \* HeadTracker.latestBlock
  streams,        \* the calls of StreamBlocks of this process, the loop's last
  faults          \* what stopped the loop or the process so far

trackerVars == <<chain, ws, heads, head>>
vars == <<storeVars, ingestionVars, trackerVars, streams, faults>>

\* A fetch is under way, or has the block, or a null in its place.
FetchStates == {"fetching", "block", "null"}

Pendings == UNION {[window -> FetchStates] : window \in SUBSET (1 .. ChainHeight)}

\* One call: where it is, the next block to send, its copy of the head, the
\* fetches of its window, the block taken from it, and its channel.  A null has
\* no number, which is 0 here.
Calls ==
  [pc          : {"loop", "send", "failed"},
   nextToSend  : Nat \ {0},
   latestBlock : Nat,
   pending     : Pendings,
   taken       : Nat,
   out         : Seq(Nat)]

TypeOK ==
  /\ StoreTypeOK /\ IngestionTypeOK
  /\ chain \in 0 .. ChainHeight /\ head \in Nat /\ faults \in 0 .. MaxFaults
  /\ ws \in {"down", "subscribed"}
  /\ heads \in Seq(Nat)
  /\ streams \in Seq(Calls)

NewStream(from) ==
  [pc |-> "loop", nextToSend |-> from, latestBlock |-> 0,
   pending |-> [n \in {} |-> "fetching"], taken |-> 0, out |-> <<>>]

\* Start fetched the height once over RPC; the subscription comes later.
Init ==
  /\ StoreInit /\ IngestionInit
  /\ chain \in 0 .. ChainHeight
  /\ ws = "down" /\ heads = <<>> /\ head = chain
  /\ streams = <<>> /\ faults = 0

(***************************************************************************)
(* The head tracker.                                                       *)
(***************************************************************************)
notTracker == <<storeVars, ingestionVars, streams, faults>>

\* The chain grows; the node notifies a subscription that is up.
ChainGrows ==
  /\ chain < ChainHeight
  /\ chain' = chain + 1
  /\ heads' = IF ws = "subscribed" THEN Append(heads, chain + 1) ELSE heads
  /\ UNCHANGED <<ws, head, notTracker>>

\* connectAndSubscribe, from the dial to the answer to eth_subscribe.
Subscribe ==
  /\ ws = "down"
  /\ ws' = "subscribed"
  /\ UNCHANGED <<chain, heads, head, notTracker>>

\* A read fails: the messages under way are lost with the connection.  The read
\* has no deadline, so that a connection that is only half open would stay
\* subscribed and lose its heads: that is left to the network's keep-alive.
Disconnect ==
  /\ ws = "subscribed"
  /\ ws' = "down"
  /\ heads' = <<>>
  /\ UNCHANGED <<chain, head, notTracker>>

ReadHead ==
  /\ heads # <<>>
  /\ head' = IF Head(heads) > head THEN Head(heads) ELSE head
  /\ heads' = Tail(heads)
  /\ UNCHANGED <<chain, ws, notTracker>>

(***************************************************************************)
(* StreamBlocks.  The i-th call goes on while the loop reads a later one. *)
(***************************************************************************)

\* Mutants: the refill starts one block late; it ignores the window.
FillLate(first, p, latest) ==
  LET start == first + Cardinality(DOMAIN p) + 1
      room == Window - Cardinality(DOMAIN p)
      new == {n \in start .. latest : n < start + room} \ DOMAIN p
  IN  [n \in DOMAIN p \cup new |-> IF n \in DOMAIN p THEN p[n] ELSE "fetching"]
FillAll(first, p, latest) ==
  LET new == ((first + Cardinality(DOMAIN p)) .. latest) \ DOMAIN p
  IN  [n \in DOMAIN p \cup new |-> IF n \in DOMAIN p THEN p[n] ELSE "fetching"]

\* Start fetches after the ones pending, up to the latest block and the window.
\* first: the next block to send; p: the fetches pending.
Fill(first, p, latest) ==
  LET start == first + Cardinality(DOMAIN p)
      room == Window - Cardinality(DOMAIN p)
      new == {n \in start .. latest : n < start + room} \ DOMAIN p
  IN  [n \in DOMAIN p \cup new |-> IF n \in DOMAIN p THEN p[n] ELSE "fetching"]

\* Mutants: stay a block behind the head; fetch the next block early; read the
\* head once only.
RefreshedBehind(s) == head - 1
RefreshedAhead(s) == head + 1
RefreshedOnce(s) == IF s.latestBlock = 0 THEN head ELSE s.latestBlock

\* refreshAndFill
Refreshed(s) == IF head > s.latestBlock THEN head ELSE s.latestBlock

Become(i, s) ==
  /\ streams' = [streams EXCEPT ![i] = s]
  /\ UNCHANGED <<storeVars, ingestionVars, trackerVars, faults>>

\* Nothing is pending, at the start and at the tip.
Poll(i) ==
  LET s == streams[i]
  IN  /\ s.pc = "loop" /\ DOMAIN s.pending = {}
      /\ Become(i, [s EXCEPT !.latestBlock = Refreshed(s),
                             !.pending = Fill(s.nextToSend, @, Refreshed(s))])

\* A fetch goroutine retries until it has an answer (Fetch).  Not more nulls
\* than faults: each one stops the loop that reads it.
Fetched(i, n) ==
  LET s == streams[i]
  IN  /\ s.pending[n] = "fetching"
      /\ \E answer \in {"block"} \cup {a \in {"null"} : faults < MaxFaults} :
           Become(i, [s EXCEPT !.pending[n] = answer])

\* The next block is taken from the window when its result is there.  Were it
\* not in the window, StreamBlocks would return "missing pending fetch".
Take(i) ==
  LET s == streams[i]
      n == s.nextToSend
  IN  /\ s.pc = "loop" /\ DOMAIN s.pending # {}
      /\ n \in DOMAIN s.pending => s.pending[n] # "fetching"
      /\ Become(i, IF n \in DOMAIN s.pending
                     THEN [s EXCEPT !.pc = "send",
                                    !.taken = IF s.pending[n] = "block" THEN n ELSE 0,
                                    !.pending = [m \in DOMAIN @ \ {n} |-> @[m]]]
                     ELSE [s EXCEPT !.pc = "failed"])

\* The block goes into the channel; then the window is refilled, and when that
\* does not fill it the head is read again.
Send(i) ==
  LET s == streams[i]
      next == s.nextToSend + 1
      refilled == Fill(next, s.pending, s.latestBlock)
      sent == [s EXCEPT !.pc = "loop", !.taken = 0, !.nextToSend = next,
                        !.out = Append(@, s.taken)]
  IN  /\ s.pc = "send" /\ Len(s.out) < Window
      /\ Become(i, IF Cardinality(DOMAIN refilled) < Window
                     THEN [sent EXCEPT !.latestBlock = Refreshed(s),
                                       !.pending = Fill(next, refilled, Refreshed(s))]
                     ELSE [sent EXCEPT !.pending = refilled])

StreamStep(i) ==
  /\ i \in DOMAIN streams
  /\ \/ Poll(i) \/ Take(i) \/ Send(i)
     \/ \E n \in DOMAIN streams[i].pending : Fetched(i, n)

(***************************************************************************)
(* The loop (Ingestion), with a stream for its upstream.                   *)
(***************************************************************************)
Reading == streams[Len(streams)]
Read == [streams EXCEPT ![Len(streams)].out = Tail(@)]

\* Mutant: the channel of the stream before is used again.
ReuseChannel ==
  /\ ResumeFromBlocks \/ ResumeFallback
  /\ streams' = IF ipc' # "stream" THEN streams
                ELSE IF streams = <<>> THEN <<NewStream(currentBlock')>>
                ELSE Append(streams, [NewStream(currentBlock') EXCEPT !.out = Reading.out])
  /\ UNCHANGED <<trackerVars, faults>>

\* Having found where to resume, the loop makes a channel and starts a stream.
StartStream ==
  /\ ResumeFromBlocks \/ ResumeFallback
  /\ streams' = IF ipc' = "stream" THEN Append(streams, NewStream(currentBlock'))
                ELSE streams
  /\ UNCHANGED <<trackerVars, faults>>

\* A block comes out of the channel and is saved ...
Receive ==
  /\ ipc = "stream" /\ Reading.out # <<>>
  /\ SaveReceived(Head(Reading.out))
  /\ streams' = Read
  /\ UNCHANGED <<trackerVars, faults>>

\* Mutant: the loop goes on with the block after a null.
SkipNull ==
  /\ ipc = "stream" /\ Reading.out # <<>>
  /\ faults < MaxFaults
  /\ Head(Reading.out) # currentBlock
  /\ currentBlock' = currentBlock + 1
  /\ streams' = Read /\ faults' = faults + 1
  /\ UNCHANGED <<ipc, latestBlock, saved, storeVars, trackerVars>>

\* ... or does not have the number the loop expects ...
Refuse ==
  /\ ipc = "stream" /\ Reading.out # <<>>
  /\ faults < MaxFaults
  /\ RejectReceived(Head(Reading.out))
  /\ streams' = Read /\ faults' = faults + 1
  /\ UNCHANGED trackerVars

\* ... or is not saved.
LoseSave ==
  /\ ipc = "stream" /\ Reading.out # <<>>
  /\ Head(Reading.out) = currentBlock
  /\ faults < MaxFaults
  /\ SaveFails
  /\ streams' = Read /\ faults' = faults + 1
  /\ UNCHANGED trackerVars

Proceed ==
  /\ UpdateLatestBlock \/ Retry
  /\ UNCHANGED <<trackerVars, streams, faults>>

\* The process dies and starts again: every stream is gone, and the tracker
\* asks for the height.
Crash ==
  /\ faults < MaxFaults /\ faults' = faults + 1
  /\ ipc' = "resume" /\ currentBlock' = 1 /\ latestBlock' = 0
  /\ ws' = "down" /\ heads' = <<>> /\ head' = chain
  /\ streams' = <<>>
  /\ UNCHANGED <<storeVars, saved, chain>>

LoopStep == StartStream \/ Receive \/ Refuse \/ Proceed

TrackerStep == ChainGrows \/ Subscribe \/ Disconnect \/ ReadHead

Next ==
  \/ LoopStep \/ LoseSave \/ Crash \/ TrackerStep
  \/ \E i \in DOMAIN streams : StreamStep(i)

Spec == Init /\ [][Next]_vars

(***************************************************************************)
(* Every fetch ends in the end (it is retried until it does), the loop and *)
(* every stream are scheduled, the tracker reads what arrives, and         *)
(* runWebSocket keeps reconnecting.                                        *)
(***************************************************************************)
FairSpec ==
  /\ Spec
  /\ \A i \in 1 .. MaxFaults + 1 : WF_vars(StreamStep(i))
  /\ WF_vars(LoopStep) /\ WF_vars(ReadHead) /\ WF_vars(Subscribe)

(***************************************************************************)
(* Properties.                                                             *)
(***************************************************************************)

FirstPending(s) == IF s.pc = "send" THEN s.nextToSend + 1 ELSE s.nextToSend

\* "missing pending fetch" never happens: the pending fetches are the blocks
\* from nextToSend on without a hole, so that refilling from
\* nextToSend + len(pending) neither skips nor repeats one.
WindowContiguous ==
  \A i \in DOMAIN streams :
    LET s == streams[i]
    IN  /\ s.pc # "failed"
        /\ DOMAIN s.pending =
             FirstPending(s) .. (FirstPending(s) + Cardinality(DOMAIN s.pending) - 1)

\* The loop is stopped by a null only, never by a block out of turn: its
\* channel holds the blocks from the one it expects on, in order, although
\* fetches end in any order and streams it has left are still at work.
DeliveredInOrder ==
  ipc \in {"stream", "saved"} =>
    LET expected == IF ipc = "saved" THEN currentBlock + 1 ELSE currentBlock
    IN  /\ Reading.nextToSend = expected + Len(Reading.out)
        /\ \A i \in DOMAIN Reading.out : Reading.out[i] \in {0, expected + i - 1}

\* What the sink holds in memory: each call of StreamBlocks two windows, the
\* one being sent while the channel is full included, and a stream that was
\* left no more than the one in use.
MemoryBounded ==
  \A i \in DOMAIN streams :
    LET s == streams[i]
    IN  Cardinality(DOMAIN s.pending) + Len(s.out) + (IF s.pc = "send" THEN 1 ELSE 0)
          <= 2 * Window

\* No block is fetched before the chain has it: the head never runs ahead, and
\* neither does any stream, nor the store.
NeverAheadOfChain ==
  /\ head <= chain /\ saved <= chain
  /\ \A i \in DOMAIN streams :
       /\ streams[i].latestBlock <= chain
       /\ \A n \in DOMAIN streams[i].pending : n <= chain

\* The store catches up with the height the tracker knows, through nulls,
\* failed writes, streams that were left and crashes.
DeliversToHead == []<>(saved >= head)

\* fetcher.go: GetLatestBlock "returns the latest block number (instant, from
\* WebSocket subscription)".  Once the chain stops growing and the subscription
\* stays up, the tracker knows its height.
HeadReachesChain ==
  <>[](ws = "subscribed" /\ chain = ChainHeight) => <>(head = ChainHeight)

\* The streams are one of the upstreams that Sink leaves open, and the loop reads
\* nothing else: this is a sink whose compactor rests, left streams, nulls and
\* crashes included.  Compaction is what MinBlocks is for.
RestingSink == INSTANCE Sink WITH cpc <- "idle", cFirst <- 0, buf <- <<>>, MinBlocks <- 0

IsSink == RestingSink!Spec

(***************************************************************************)
(* The inductive invariant behind the safety properties.                   *)
(***************************************************************************)

\* A channel holds the blocks before next in order, or nulls in their places.
InOrder(out, next, height) ==
  /\ Len(out) <= Window
  /\ \A i \in 1 .. Len(out) : out[i] \in {0, next - Len(out) + i - 1} /\ out[i] <= height

NextToRead(s) == s.nextToSend - Len(s.out)

\* What a call of StreamBlocks knows by itself, whoever reads it; height is the
\* chain's.
CallInv(s, height) ==
  /\ s.pc # "failed"
  /\ \E k \in 0 .. Window :
       /\ DOMAIN s.pending = FirstPending(s) .. (FirstPending(s) + k - 1)
       /\ s.pc = "send" => k < Window
  /\ \A n \in DOMAIN s.pending : n <= height
  /\ s.latestBlock <= height
  /\ s.taken \in {0, s.nextToSend} /\ s.taken <= height
  /\ InOrder(s.out, s.nextToSend, height)

CallsInv == \A i \in 1 .. Len(streams) : CallInv(streams[i], chain)

\* Without a compactor the store is the run of the blocks saved, so that every
\* resume is where the stream it starts begins.
LoopInv ==
  /\ blocks = 1 .. saved /\ DOMAIN batches = {} /\ meta = 0
  /\ saved <= chain
  /\ ipc = "fallback" => saved = 0
  /\ ipc \in {"stream", "saved"} =>
       /\ streams # <<>>
       /\ currentBlock = IF ipc = "stream" THEN saved + 1 ELSE saved
       /\ NextToRead(Reading) = saved + 1

TrackerInv == head <= chain /\ \A i \in 1 .. Len(heads) : heads[i] <= chain

StreamInv ==
  TypeOK /\ TrackerInv /\ LoopInv /\ CallsInv

=============================================================================
