-------------------------------- MODULE Feed --------------------------------
(***************************************************************************)
(* What the system promises a consumer: it is handed the blocks of the log *)
(* from the one it asked for on, several at a time, and never one that the *)
(* log does not have or could still lose.  Servers, connections and the    *)
(* place a block is stored in do not show.                                 *)
(***************************************************************************)
EXTENDS BlockLog, Sequences

CONSTANT From       \* the block the consumer asks for first

VARIABLE received   \* the blocks it was handed, in order

FeedInit == Init /\ received = <<>>

\* The next blocks, up to some block of the log.
HandOver ==
  LET next == From + Len(received)
  IN  /\ \E last \in log :
           /\ next <= last /\ next .. last \subseteq log
           /\ received' = received \o [i \in 1 .. last - next + 1 |-> next + i - 1]
      /\ UNCHANGED <<log, announced>>

FeedNext == (Next /\ UNCHANGED received) \/ HandOver

FeedSpec == FeedInit /\ [][FeedNext]_<<log, announced, received>>

=============================================================================
