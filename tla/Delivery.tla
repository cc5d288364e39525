------------------------------ MODULE Delivery ------------------------------
(***************************************************************************)
(* From the sink to a consumer: the server streams blocks and batches over *)
(* a WebSocket (evm-ingestion/api/server.go, streamBlocks) while ingestion *)
(* and compaction go on, and the client (evm-ingestion-client/client.go)   *)
(* reconnects, filters and hands the blocks to its handler.                *)
(* A frame is the sequence of the blocks packed in it.  The connection     *)
(* keeps frames in order and loses those under way when it breaks.         *)
(***************************************************************************)
EXTENDS Sink, SequencesExt

CONSTANT FromBlock      \* the block the consumer asks for first

ASSUME FromBlockAssumption == FromBlock \in Nat \ {0}

VARIABLES
  server,         \* streamBlocks: "off", or about to read "block" or "batch"
  sCurrent,       \* streamBlocks: currentBlock
  frames,         \* written by the server and not read by the client yet
  cCurrent,       \* Client.Stream: currentBlock
  delivered       \* history: the blocks given to the handler, in order

deliveryVars == <<server, sCurrent, frames, cCurrent, delivered>>
allVars == <<vars, deliveryVars>>

DeliveryTypeOK ==
  /\ TypeOK
  /\ server \in {"off", "block", "batch"}
  /\ sCurrent \in Nat
  /\ frames \in Seq(Seq(Nat))
  /\ cCurrent \in Nat
  /\ delivered \in Seq(Nat)

DeliveryInit ==
  /\ Init
  /\ server = "off" /\ sCurrent = 0 /\ frames = <<>>
  /\ cCurrent = FromBlock /\ delivered = <<>>

(***************************************************************************)
(* The server.                                                             *)
(***************************************************************************)

\* Client.connect, and handleWS from the upgrade to streamBlocks.
Connect ==
  /\ server = "off"
  /\ server' = "block"
  /\ sCurrent' = cCurrent
  /\ UNCHANGED <<frames, cCurrent, delivered>>

SendBlock ==
  /\ server = "block"
  /\ sCurrent \in blocks
  /\ frames' = Append(frames, <<sCurrent>>)
  /\ sCurrent' = sCurrent + 1
  /\ UNCHANGED <<server, cCurrent, delivered>>

\* Here and below the server takes any error of a read as a miss.  A read that
\* fails would send it on to the batch, or back to the block, which it also does
\* without one: only keys that are absent are modelled.
BlockMissing ==
  /\ server = "block"
  /\ sCurrent \notin blocks
  /\ server' = "batch"
  /\ UNCHANGED <<sCurrent, frames, cCurrent, delivered>>

\* Mutant: the position moves on by a batch, from wherever it is.
SendBatchUnaligned ==
  LET key == BatchKey(BatchStart(sCurrent))
  IN  /\ server = "batch"
      /\ key \in DOMAIN batches
      /\ frames' = Append(frames, batches[key])
      /\ sCurrent' = sCurrent + BatchSize
      /\ server' = "block"
      /\ UNCHANGED <<cCurrent, delivered>>

\* The whole batch is sent as it is stored, even when the position is inside it.
SendBatch ==
  LET key == BatchKey(BatchStart(sCurrent))
  IN  /\ server = "batch"
      /\ key \in DOMAIN batches
      /\ frames' = Append(frames, batches[key])
      /\ sCurrent' = BatchStart(sCurrent) + BatchSize
      /\ server' = "block"
      /\ UNCHANGED <<cCurrent, delivered>>

\* Mutant: the server waits for the batch, and never looks for the block again.
WaitForBatch ==
  /\ server = "batch"
  /\ BatchKey(BatchStart(sCurrent)) \notin DOMAIN batches
  /\ UNCHANGED deliveryVars

\* At the tip: sleep, then look again.
BatchMissing ==
  /\ server = "batch"
  /\ BatchKey(BatchStart(sCurrent)) \notin DOMAIN batches
  /\ server' = "block"
  /\ UNCHANGED <<sCurrent, frames, cCurrent, delivered>>

(***************************************************************************)
(* The client.                                                             *)
(***************************************************************************)

\* Mutant: a batch is handed over whole, wherever it starts.
AsReceived(frame) == frame

\* What the loop over a pack has kept of its first i blocks: blocks below the
\* position are dropped, as a batch may start before it.
Kept(frame) ==
  LET Filtered[i \in 0 .. Len(frame)] ==
        IF i = 0 THEN <<>>
        ELSE IF frame[i] >= cCurrent THEN Append(Filtered[i - 1], frame[i])
        ELSE Filtered[i - 1]
  IN  Filtered

Wanted(frame) == Kept(frame)[Len(frame)]

ReadPack ==
  /\ frames # <<>>
  /\ LET pack == Wanted(Head(frames))
     IN  IF pack = <<>>
           THEN UNCHANGED <<cCurrent, delivered>>
           ELSE /\ delivered' = delivered \o pack
                /\ cCurrent' = Last(pack) + 1
  /\ frames' = Tail(frames)
  /\ UNCHANGED <<server, sCurrent>>

\* Mutant: each connection asks for the first block again.
DisconnectAndForget ==
  /\ server' = "off"
  /\ sCurrent' = 0
  /\ frames' = <<>>
  /\ cCurrent' = FromBlock
  /\ UNCHANGED delivered

\* The connection breaks, or a read or a write on it fails.
Disconnect ==
  /\ server' = "off"
  /\ sCurrent' = 0
  /\ frames' = <<>>
  /\ UNCHANGED <<cCurrent, delivered>>

ServerStep == SendBlock \/ BlockMissing \/ SendBatch \/ BatchMissing

ClientStep == Connect \/ ReadPack

\* A crash of the sink takes the connection with it.
DeliveryFault ==
  \/ Failure /\ UNCHANGED deliveryVars
  \/ Crash /\ Disconnect
  \/ server # "off" /\ Disconnect /\ UNCHANGED vars

DeliveryNext ==
  \/ (Compact \/ Ingest) /\ UNCHANGED deliveryVars
  \/ (ServerStep \/ ClientStep) /\ UNCHANGED vars
  \/ DeliveryFault

DeliverySpec == DeliveryInit /\ [][DeliveryNext]_allVars

(***************************************************************************)
(* Properties.                                                             *)
(***************************************************************************)

\* The handler gets every block from FromBlock on, each once and in order,
\* across reconnects, crashes of the sink, and the compaction of the blocks
\* between any two reads of the server.
DeliveredExactly ==
  /\ \A i \in 1 .. Len(delivered) : delivered[i] = FromBlock + i - 1
  /\ cCurrent = FromBlock + Len(delivered)

\* The block awaited after the first i of the frames sent, and what it means that
\* these bring the blocks between two positions: each one starts no later than the
\* block awaited and brings it.
Awaited(from, sent, i) == IF i = 0 THEN from ELSE Last(sent[i]) + 1

Bring(from, sent, to) ==
  /\ \A i \in 1 .. Len(sent) :
       Head(sent[i]) <= Awaited(from, sent, i - 1) /\ Awaited(from, sent, i - 1) <= Last(sent[i])
  /\ to = Awaited(from, sent, Len(sent))

\* Nothing is skipped on the way: the frames under way bring every block between
\* the client's position and the server's.  Frames may overlap: a block, then the
\* batch it went into.
NothingSkipped == server # "off" => Bring(cCurrent, frames, sCurrent)

(***************************************************************************)
(* What the system promises a consumer (Feed), over the same log the sink  *)
(* promises its readers.                                                   *)
(***************************************************************************)
Service == INSTANCE Feed WITH log <- Served, announced <- latestBlock,
                              received <- delivered, From <- FromBlock

\* Ingestion, compaction, the server, the connection and the client together
\* implement the feed: a consumer that started anywhere in a batch, or lost its
\* connection, is handed the next blocks of the log, and none that a crash of the
\* sink could take back.
ImplementsFeed == Service!FeedSpec

(***************************************************************************)
(* The inductive invariant, together with the sink's.                      *)
(***************************************************************************)

\* What the sink stores and sends is a run of blocks.
IsRun(frame) ==
  /\ frame # <<>> /\ Head(frame) # 0
  /\ \A j \in 1 .. Len(frame) : frame[j] = Head(frame) + j - 1

\* Only what was stored is sent.
FramesInv ==
  /\ \A i \in 1 .. Len(frames) : IsRun(frames[i]) /\ Last(frames[i]) <= saved
  /\ server = "off" => frames = <<>>

DeliveryInv ==
  /\ DeliveryTypeOK /\ IndInv
  /\ DeliveredExactly /\ NothingSkipped /\ FramesInv

=============================================================================
