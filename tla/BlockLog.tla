------------------------------ MODULE BlockLog ------------------------------
(***************************************************************************)
(* What a sink promises its readers: a log of blocks that grows by exactly *)
(* the next block, never forgets one, and an announced height that never   *)
(* exceeds it and only falls back to 0 (a restarted server).               *)
(***************************************************************************)
EXTENDS Naturals

VARIABLES
  log,        \* the block numbers a reader can get
  announced   \* the height the server reports

Init == log = {} /\ announced = 0

\* The one block added is the next one: everything before it is in the log.
Grow ==
  /\ \E n \in log' \ log : log' = log \cup {n} /\ log = 1 .. (n - 1)
  /\ UNCHANGED announced

Announce ==
  /\ announced' \in log
  /\ announced' > announced
  /\ UNCHANGED log

Restart ==
  /\ announced' = 0
  /\ UNCHANGED log

Next == Grow \/ Announce \/ Restart

Spec == Init /\ [][Next]_<<log, announced>>

=============================================================================
