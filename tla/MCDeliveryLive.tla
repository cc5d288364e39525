--------------------------- MODULE MCDeliveryLive ---------------------------
(***************************************************************************)
(* Liveness of the sink and of the delivery to a consumer.  Failures,      *)
(* crashes and broken connections are unrestricted until the system turns  *)
(* calm, if it ever does.                                                  *)
(***************************************************************************)
EXTENDS Delivery

VARIABLE calm       \* no fault happens from now on

MCvars == <<allVars, calm>>

MCInit == DeliveryInit /\ calm = FALSE

SinkWork == (Compact \/ Ingest) /\ UNCHANGED <<deliveryVars, calm>>
ServerWork == ServerStep /\ UNCHANGED <<vars, calm>>
ClientWork == ClientStep /\ UNCHANGED <<vars, calm>>

Disturb == ~calm /\ DeliveryFault /\ UNCHANGED calm

TurnCalm == ~calm /\ calm' = TRUE /\ UNCHANGED allVars

MCNext == SinkWork \/ ServerWork \/ ClientWork \/ Disturb \/ TurnCalm

(***************************************************************************)
(* The goroutines of the sink, of the server's handler and of the client   *)
(* are scheduled; the tickers and sleeps end.                              *)
(***************************************************************************)
MCSpec ==
  /\ MCInit
  /\ [][MCNext]_MCvars
  /\ WF_MCvars(Compact /\ UNCHANGED <<deliveryVars, calm>>)
  /\ WF_MCvars(Ingest /\ UNCHANGED <<deliveryVars, calm>>)
  /\ WF_MCvars(ServerWork)
  /\ WF_MCvars(ClientWork)

\* Compaction keeps up: no backlog of MinBlocks + BatchSize blocks stays, in
\* spite of rounds that were cut short and deletes that failed.
BacklogDrains ==
  <>calm => <>[](Cardinality(blocks) < MinBlocks + BatchSize)

\* However ingestion was interrupted, however often the connection broke and
\* wherever compaction moved the blocks meanwhile, the store reaches the tip and
\* the consumer gets the whole chain.
EverythingDelivered == <>calm => <>(cCurrent = ChainHeight + 1)

=============================================================================
