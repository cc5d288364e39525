---------------------------- MODULE MCPluginLive ----------------------------
(***************************************************************************)
(* Liveness of the plugin.  Failed Accepts, failed rounds, restarts and    *)
(* blocks accepted again are unrestricted until the node turns calm, if it *)
(* ever does; from then on the chain only grows, as long as it does.       *)
(***************************************************************************)
EXTENDS Plugin

VARIABLES
  calm,       \* no fault happens from now on
  first       \* history: the first block committed with its index, 0 before

MCvars == <<vars, calm, first>>

MCInit == Init /\ calm = FALSE /\ first = 0

Accepting ==
  /\ \/ BeginAccept(disk.accepted + 1) /\ disk.accepted < MaxHeight
     \/ PutBlock \/ UpdateCaches \/ Commit \/ DeferredAbort \/ UpdateHeights
  /\ UNCHANGED <<compactorVars, base, status>>

Compacting ==
  /\ status = "up"
  /\ CompactorStep(cacheLatest > 0, cacheLatest)
  /\ UNCHANGED <<acceptVars, disk, base, status>>

Work == (Accepting \/ Compacting) /\ UNCHANGED calm

Disturb == ~calm /\ Next /\ UNCHANGED calm

TurnCalm == ~calm /\ calm' = TRUE /\ UNCHANGED vars

NoteFirst ==
  first' = IF first = 0 /\ disk'.blocks # {} THEN Highest(disk'.blocks) ELSE first

MCNext == (Work \/ Disturb \/ TurnCalm) /\ NoteFirst

(***************************************************************************)
(* The compactor's goroutine is scheduled and its ticker keeps firing; an  *)
(* Accept ends, whether or not another one comes.                          *)
(***************************************************************************)
MCSpec ==
  /\ MCInit /\ [][MCNext]_MCvars
  /\ WF_MCvars(Compacting /\ UNCHANGED calm /\ NoteFirst)
  /\ WF_MCvars(Accepting /\ apc # "idle" /\ UNCHANGED calm /\ NoteFirst)

Kept == Cardinality(blocks) < MinBlocks + BatchSize

\* Compaction keeps up with the chain when the first block the plugin indexed is
\* the first of a batch, however many of its writes the Aborts of Accept dropped.
\* Where the plugin was installed does not decide that alone: the chain may accept
\* its last block again, and with nothing indexed Accept then indexes that one.
AlignedBacklogDrains ==
  <>calm /\ [](first > 0 => first = BatchStart(first)) => <>[]Kept

\* evm-ingestion/README.md on the storage the plugin shares: "Compaction runs
\* automatically, keeping ~1000 individual blocks as buffer".
BacklogDrains == <>calm => <>[]Kept

=============================================================================
