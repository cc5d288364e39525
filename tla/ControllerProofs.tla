-------------------------- MODULE ControllerProofs --------------------------
(***************************************************************************)
(* The safety of the rate controller, for every maximum and every set of   *)
(* requests.                                                               *)
(***************************************************************************)
EXTENDS Controller, FiniteSetTheorems, TLAPS

LEMMA MinParallelismType == MinParallelism \in Nat /\ MinParallelism >= 2
<1>1. MaxParallelism \div 10 \in Int
  BY ControllerAssumption
<1> QED
  BY <1>1 DEF MinParallelism

\* What the loop sets is between the bounds, whatever adjust computed.
LEMMA ClampBounds ==
  ASSUME NEW v \in Int, MinParallelism <= MaxParallelism
  PROVE  Clamp(v) \in MinParallelism .. MaxParallelism
  BY MinParallelismType, ControllerAssumption DEF Clamp

LEMMA InFlightFinite ==
  IsFiniteSet(InFlight) /\ Cardinality(InFlight) \in Nat
<1>1. IsFiniteSet(InFlight)
  BY ControllerAssumption, FS_Subset DEF InFlight
<1> QED
  BY <1>1, FS_CardinalityType

\* A request that takes a slot adds one to those in use.
LEMMA AcquireCounts ==
  ASSUME NEW r \in Requests, TypeOK, Acquire(r)
  PROVE  Cardinality(InFlight') = Cardinality(InFlight) + 1
<1>1. r \notin InFlight /\ InFlight' = InFlight \cup {r}
  BY DEF Acquire, InFlight, TypeOK
<1> QED
  BY <1>1, InFlightFinite, FS_AddElement

\* A request that gives its slot back takes one from them.
LEMMA ReleaseCounts ==
  ASSUME NEW r \in Requests, TypeOK, Release(r)
  PROVE  Cardinality(InFlight') = Cardinality(InFlight) - 1
<1>1. r \in InFlight /\ InFlight' = InFlight \ {r}
  BY DEF Release, InFlight, TypeOK
<1> QED
  BY <1>1, InFlightFinite, FS_RemoveElement

\* Every other step leaves the slots in use as they are.
LEMMA OthersKeepInFlight ==
  ASSUME NEW r \in Requests, TypeOK, Call(r) \/ Cancel(r) \/ RecordMetric(r)
  PROVE  InFlight' = InFlight
  BY DEF Call, Cancel, RecordMetric, InFlight, TypeOK

LEMMA InitEstablishes == Init => ControllerInv
<1> SUFFICES ASSUME Init PROVE ControllerInv
  OBVIOUS
<1>1. TypeOK /\ ~Started
  BY MinParallelismType, ControllerAssumption DEF Init, TypeOK, Started
<1>2. Starting
  BY DEF Init, Starting, InFlight
<1> QED
  BY <1>1, <1>2 DEF ControllerInv, SlotsCoverCurrent

\* NewController leaves behind a full minimum of slots.
LEMMA FillKeeps ==
  ASSUME ControllerInv, Fill
  PROVE  ControllerInv'
<1> USE MinParallelismType, ControllerAssumption
<1>1. Starting /\ InFlight' = InFlight
  BY DEF ControllerInv, Fill, InFlight
<1>2. Cardinality(InFlight') = 0
  BY <1>1, FS_EmptySet DEF Starting
<1>3. TypeOK'
  BY DEF ControllerInv, TypeOK, Fill, Started
<1>4. Starting'
  BY <1>1 DEF Starting, Fill
<1>5. Started' => CurrentInBounds' /\ SlotsCoverCurrent'
  <2> SUFFICES ASSUME Started' PROVE CurrentInBounds' /\ SlotsCoverCurrent'
    OBVIOUS
  <2>1. tokens' = MinParallelism /\ current' = MinParallelism /\ toAdd' = 0
    BY <1>4 DEF Starting, Started
  <2>2. MinParallelism <= MaxParallelism
    BY <2>1, <1>3 DEF TypeOK
  <2> QED
    BY <1>2, <2>1, <2>2 DEF CurrentInBounds, SlotsCoverCurrent
<1> QED
  BY <1>3, <1>4, <1>5 DEF ControllerInv, SlotsCoverCurrent

\* Nothing runs before NewController has ended.
LEMMA RunsWhenStarted ==
  ASSUME ControllerInv,
         \/ \E r \in Requests : Call(r) \/ Acquire(r) \/ Cancel(r)
                                  \/ RecordMetric(r) \/ Release(r)
         \/ \E verdict \in Verdicts : Adjust(verdict)
         \/ AddSlot
  PROVE  /\ Started /\ Started' /\ CurrentInBounds
         /\ tokens + Cardinality(InFlight) + toAdd >= current
<1>1. Started
  <2> SUFFICES ASSUME ~Started PROVE FALSE
    OBVIOUS
  <2>1. toAdd = 0 /\ \A r \in Requests : req[r] = "idle"
    BY DEF ControllerInv, Starting
  <2> QED
    BY <2>1 DEF Call, Acquire, Cancel, RecordMetric, Release, Adjust, AddSlot
<1>2. Started'
  BY <1>1 DEF Started, Call, Acquire, Cancel, RecordMetric, Release, Adjust, AddSlot
<1> QED
  BY <1>1, <1>2 DEF ControllerInv, SlotsCoverCurrent

\* Requests come and go; only taking and giving back a slot moves tokens.
LEMMA RequestsKeep ==
  ASSUME ControllerInv, NEW r \in Requests,
         Call(r) \/ Acquire(r) \/ Cancel(r) \/ RecordMetric(r) \/ Release(r)
  PROVE  ControllerInv'
<1> USE ControllerAssumption, MinParallelismType
<1>1. /\ Started /\ Started' /\ CurrentInBounds
      /\ tokens + Cardinality(InFlight) + toAdd >= current
  BY RunsWhenStarted
<1>2. TypeOK /\ Cardinality(InFlight) \in Nat
  BY InFlightFinite DEF ControllerInv
<1>3. TypeOK'
  BY <1>2 DEF TypeOK, Call, Acquire, Cancel, RecordMetric, Release
<1>4. CurrentInBounds' /\ toAdd' = toAdd /\ current' = current
  BY <1>1 DEF CurrentInBounds, Call, Acquire, Cancel, RecordMetric, Release
<1>5. tokens' + Cardinality(InFlight') + toAdd' >= current'
  <2>1. CASE Acquire(r)
    <3>1. Cardinality(InFlight') = Cardinality(InFlight) + 1
      BY <1>2, <2>1, AcquireCounts
    <3> QED
      BY <1>1, <1>2, <2>1, <3>1 DEF Acquire, TypeOK
  <2>2. CASE Release(r)
    <3>1. Cardinality(InFlight') = Cardinality(InFlight) - 1
      BY <1>2, <2>2, ReleaseCounts
    <3>2. Cardinality(InFlight') \in Nat
      <4>1. r \in InFlight
        BY <2>2 DEF Release, InFlight
      <4>2. Cardinality(InFlight) # 0
        BY <4>1, InFlightFinite, FS_EmptySet
      <4> QED
        BY <1>2, <3>1, <4>2
    <3>3. CASE tokens < MaxParallelism
      BY <1>1, <1>2, <1>4, <2>2, <3>1, <3>3 DEF Release, TypeOK
    <3>4. CASE ~(tokens < MaxParallelism)
      BY <1>1, <1>2, <1>4, <2>2, <3>2, <3>4 DEF Release, TypeOK, CurrentInBounds
    <3> QED
      BY <3>3, <3>4
  <2>3. CASE Call(r) \/ Cancel(r) \/ RecordMetric(r)
    <3>1. InFlight' = InFlight
      BY <1>2, <2>3, OthersKeepInFlight
    <3>2. tokens' = tokens
      BY <2>3 DEF Call, Cancel, RecordMetric
    <3> QED
      BY <1>1, <1>4, <3>1, <3>2
  <2> QED
    BY <2>1, <2>2, <2>3
<1> QED
  BY <1>1, <1>3, <1>4, <1>5 DEF ControllerInv, SlotsCoverCurrent

\* A raise announces as many slots to add as it raises.
LEMMA AdjustKeeps ==
  ASSUME ControllerInv, NEW verdict \in Verdicts, Adjust(verdict)
  PROVE  ControllerInv'
<1> USE ControllerAssumption, MinParallelismType
<1>1. /\ Started /\ Started' /\ CurrentInBounds
      /\ tokens + Cardinality(InFlight) + toAdd >= current
  BY RunsWhenStarted
<1>2. TypeOK /\ Cardinality(InFlight) \in Nat
  BY InFlightFinite DEF ControllerInv
<1>3. current \div 2 \in Int
  BY <1>2 DEF TypeOK
<1>4. verdict \in Int
  BY <1>2, <1>3 DEF Verdicts, TypeOK
<1>5. Clamp(verdict) \in MinParallelism .. MaxParallelism
  BY <1>1, <1>2, <1>4, ClampBounds DEF CurrentInBounds, TypeOK
<1>6. TypeOK' /\ CurrentInBounds'
  BY <1>2, <1>5 DEF Adjust, TypeOK, CurrentInBounds
<1>7. InFlight' = InFlight
  BY DEF Adjust, InFlight
<1>8. tokens' + Cardinality(InFlight') + toAdd' >= current'
  BY <1>1, <1>2, <1>5, <1>7 DEF Adjust, TypeOK
<1> QED
  BY <1>1, <1>6, <1>8 DEF ControllerInv, SlotsCoverCurrent

\* A slot that does not fit was not needed.
LEMMA AddSlotKeeps ==
  ASSUME ControllerInv, AddSlot
  PROVE  ControllerInv'
<1> USE ControllerAssumption, MinParallelismType
<1>1. /\ Started /\ Started' /\ CurrentInBounds
      /\ tokens + Cardinality(InFlight) + toAdd >= current
  BY RunsWhenStarted
<1>2. TypeOK /\ Cardinality(InFlight) \in Nat
  BY InFlightFinite DEF ControllerInv
<1>3. TypeOK' /\ CurrentInBounds'
  BY <1>1, <1>2 DEF AddSlot, TypeOK, CurrentInBounds
<1>4. InFlight' = InFlight
  BY DEF AddSlot, InFlight
<1>5. tokens' + Cardinality(InFlight') + toAdd' >= current'
  BY <1>1, <1>2, <1>4 DEF AddSlot, TypeOK, CurrentInBounds
<1> QED
  BY <1>1, <1>3, <1>5 DEF ControllerInv, SlotsCoverCurrent

\* The inductive invariant of the slots, the requests and the raises under way.
THEOREM ControllerInvariant == Spec => []ControllerInv
<1>1. ControllerInv /\ [Next]_vars => ControllerInv'
  <2> SUFFICES ASSUME ControllerInv, [Next]_vars PROVE ControllerInv'
    OBVIOUS
  <2>1. CASE Fill
    BY <2>1, FillKeeps
  <2>2. CASE \E r \in Requests : Call(r) \/ Acquire(r) \/ Cancel(r)
                                   \/ RecordMetric(r) \/ Release(r)
    BY <2>2, RequestsKeep
  <2>3. CASE \E verdict \in Verdicts : Adjust(verdict)
    BY <2>3, AdjustKeeps
  <2>4. CASE AddSlot
    BY <2>4, AddSlotKeeps
  <2>5. CASE UNCHANGED vars
    BY <2>5 DEF vars, ControllerInv, TypeOK, Started, Starting, CurrentInBounds,
                SlotsCoverCurrent, InFlight
  <2> QED
    BY <2>1, <2>2, <2>3, <2>4, <2>5 DEF Next
<1> QED
  BY InitEstablishes, <1>1, PTL DEF Spec

\* Type correctness of the controller; the channel never holds more tokens than
\* its capacity, whatever Release and adjust put back.
THEOREM ControllerTypes == Spec => []TypeOK
<1>1. ControllerInv => TypeOK
  BY DEF ControllerInv
<1> QED
  BY <1>1, ControllerInvariant, PTL

\* The slots of the controller (controller.go, Release and adjust) always cover
\* the parallelism it reports: discarding a token that does not fit the channel
\* never costs one that was needed.
THEOREM SlotsAreNeverLost == Spec => []SlotsCoverCurrent
<1>1. ControllerInv => SlotsCoverCurrent
  BY DEF ControllerInv
<1> QED
  BY <1>1, ControllerInvariant, PTL

\* The parallelism stays between its bounds, from the start if the maximum
\* allows the minimum of 2.
THEOREM ParallelismInBounds ==
  ASSUME MaxParallelism >= 2
  PROVE  Spec => []CurrentInBounds
<1>1. MinParallelism <= MaxParallelism
  BY ControllerAssumption, SMTT(30) DEF MinParallelism
<1>2. ControllerInv => CurrentInBounds
  BY <1>1, MinParallelismType, ControllerAssumption
     DEF ControllerInv, Starting, CurrentInBounds
<1> QED
  BY <1>2, ControllerInvariant, PTL

=============================================================================
