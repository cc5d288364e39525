----------------------------- MODULE Controller -----------------------------
(***************************************************************************)
(* The adaptive rate limiter of the RPC client                             *)
(* (evm-ingestion/rpc/controller.go): a channel of slot tokens that every  *)
(* request takes one from, and an adjustment loop that raises and lowers   *)
(* the parallelism.  Latencies and errors are abstracted to the verdict of *)
(* an adjustment; the tokens, and the lock the loop holds, are modelled.   *)
(***************************************************************************)
EXTENDS Integers, FiniteSets

CONSTANTS
  Requests,         \* the goroutines that call Execute
  MaxParallelism    \* MAX_PARALLELISM, also the capacity of the channel

ASSUME ControllerAssumption ==
  IsFiniteSet(Requests) /\ MaxParallelism \in Nat \ {0}

VARIABLES
  filled,     \* NewController: tokens put in so far; beyond it, adjustLoop runs
  tokens,     \* the number of tokens in the semaphore channel
  current,    \* currentParallel
  toAdd,      \* adjust: slots still to add, metricsMu being held
  req         \* where each request is in Execute

vars == <<filled, tokens, current, toAdd, req>>

MinParallelism ==
  IF MaxParallelism \div 10 > 2 THEN MaxParallelism \div 10 ELSE 2

Started == filled = MinParallelism

TypeOK ==
  /\ filled \in 0 .. MinParallelism
  /\ tokens \in 0 .. MaxParallelism
  /\ current \in Nat
  /\ toAdd \in Nat
  /\ req \in [Requests -> {"idle", "acquire", "running", "release"}]

Init ==
  /\ filled = 0 /\ tokens = 0 /\ toAdd = 0
  /\ current = MinParallelism
  /\ req = [r \in Requests |-> "idle"]

\* NewController fills the channel to the minimum; each send blocks when the
\* channel is full.
Fill ==
  /\ ~Started
  /\ tokens < MaxParallelism
  /\ tokens' = tokens + 1
  /\ filled' = filled + 1
  /\ UNCHANGED <<current, toAdd, req>>

(***************************************************************************)
(* Execute: acquire a slot, run, record the metric, release the slot.      *)
(***************************************************************************)
Call(r) ==
  /\ Started
  /\ req[r] = "idle"
  /\ req' = [req EXCEPT ![r] = "acquire"]
  /\ UNCHANGED <<filled, tokens, current, toAdd>>

Acquire(r) ==
  /\ req[r] = "acquire"
  /\ tokens > 0
  /\ tokens' = tokens - 1
  /\ req' = [req EXCEPT ![r] = "running"]
  /\ UNCHANGED <<filled, current, toAdd>>

\* The context ends first: Execute returns without a slot.
Cancel(r) ==
  /\ req[r] = "acquire"
  /\ req' = [req EXCEPT ![r] = "idle"]
  /\ UNCHANGED <<filled, tokens, current, toAdd>>

\* Mutant: a request that fails returns without releasing its slot.
RecordAndReturn(r) ==
  /\ req[r] = "running"
  /\ toAdd = 0
  /\ \E next \in {"release", "idle"} : req' = [req EXCEPT ![r] = next]
  /\ UNCHANGED <<filled, tokens, current, toAdd>>

\* The request has ended, well or badly; RecordMetric needs the lock.
RecordMetric(r) ==
  /\ req[r] = "running"
  /\ toAdd = 0
  /\ req' = [req EXCEPT ![r] = "release"]
  /\ UNCHANGED <<filled, tokens, current, toAdd>>

\* Mutants: the release ignores the capacity; the token is not put back.
ReleaseUnbounded(r) ==
  /\ req[r] = "release"
  /\ tokens' = tokens + 1
  /\ req' = [req EXCEPT ![r] = "idle"]
  /\ UNCHANGED <<filled, current, toAdd>>
ReleaseNothing(r) ==
  /\ req[r] = "release"
  /\ req' = [req EXCEPT ![r] = "idle"]
  /\ UNCHANGED <<filled, tokens, current, toAdd>>

\* A token that does not fit the channel is discarded.
Release(r) ==
  /\ req[r] = "release"
  /\ tokens' = IF tokens < MaxParallelism THEN tokens + 1 ELSE tokens
  /\ req' = [req EXCEPT ![r] = "idle"]
  /\ UNCHANGED <<filled, current, toAdd>>

(***************************************************************************)
(* adjust: errors halve the parallelism, latency above the maximum takes 2 *)
(* from it, latency below the target adds 1 to 10 (the growth is           *)
(* int(1 / (ratio + 0.1)), at least 1, for a ratio from 0 to 1).           *)
(***************************************************************************)
Verdicts == {current \div 2, current - 2} \cup {current + growth : growth \in 1 .. 10}

\* Mutant: the lower bound is not enforced.
ClampAbove(n) == IF n > MaxParallelism THEN MaxParallelism ELSE n

Clamp(n) ==
  LET raised == IF n < MinParallelism THEN MinParallelism ELSE n
  IN  IF raised > MaxParallelism THEN MaxParallelism ELSE raised

Adjust(verdict) ==
  /\ Started
  /\ toAdd = 0
  /\ Clamp(verdict) # current
  /\ current' = Clamp(verdict)
  /\ toAdd' = IF Clamp(verdict) > current THEN Clamp(verdict) - current ELSE 0
  /\ UNCHANGED <<filled, tokens, req>>

\* One slot more, unless the channel is full.
AddSlot ==
  /\ toAdd > 0
  /\ toAdd' = toAdd - 1
  /\ tokens' = IF tokens < MaxParallelism THEN tokens + 1 ELSE tokens
  /\ UNCHANGED <<filled, current, req>>

Next ==
  \/ Fill
  \/ \E r \in Requests : Call(r) \/ Acquire(r) \/ Cancel(r) \/ RecordMetric(r) \/ Release(r)
  \/ \E verdict \in Verdicts : Adjust(verdict)
  \/ AddSlot

Spec == Init /\ [][Next]_vars

(***************************************************************************)
(* Requests end (the HTTP client has a timeout), goroutines are scheduled, *)
(* and the receivers of a channel are served in the order they came: no    *)
(* waiting request is passed over forever.                                 *)
(***************************************************************************)
Fairness ==
  /\ WF_vars(Fill) /\ WF_vars(AddSlot)
  /\ \A r \in Requests : /\ SF_vars(Acquire(r))
                         /\ SF_vars(RecordMetric(r))
                         /\ WF_vars(Release(r))

FairSpec == Spec /\ Fairness

(***************************************************************************)
(* Properties.                                                             *)
(***************************************************************************)
InFlight == {r \in Requests : req[r] \in {"running", "release"}}

\* The parallelism stays between the bounds NewController derives.
CurrentInBounds == current \in MinParallelism .. MaxParallelism

\* Slots are never lost: those in the channel, those in use and those adjust is
\* about to add are at least the parallelism it reports, in spite of the
\* tokens that Release and adjust discard when the channel is full.
SlotsCoverCurrent ==
  Started => tokens + Cardinality(InFlight) + toAdd >= current

\* A request that waits for a slot gets one, unless its context ends.
AcquireServed ==
  \A r \in Requests : req[r] = "acquire" ~> req[r] # "acquire"

\* README.md: MAX_PARALLELISM is the "Max concurrent RPC requests".
MaxConcurrentRequests == Cardinality(InFlight) <= MaxParallelism

(***************************************************************************)
(* The inductive invariant behind the safety properties.  With a maximum   *)
(* of 1 the minimum exceeds it, and NewController never ends.              *)
(***************************************************************************)
Starting ==
  tokens = filled /\ current = MinParallelism /\ toAdd = 0 /\ InFlight = {}
    /\ \A r \in Requests : req[r] = "idle"

ControllerInv ==
  /\ TypeOK
  /\ ~Started => Starting
  /\ Started => CurrentInBounds
  /\ SlotsCoverCurrent

=============================================================================
