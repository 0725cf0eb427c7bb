--------------------------- MODULE TaskRing_proof ---------------------------
(***************************************************************************)
(* Theorems about the task ring, for every depth, copy time and bound.     *)
(*                                                                         *)
(* NotBusyMeansDrained is not inductive: that a status of "not busy" means *)
(* an empty FIFO rests on the engine never being idle over unequal         *)
(* pointers, which in turn rests on a start coming due before the core can *)
(* submit again.  EngineInv says so.                                       *)
(*                                                                         *)
(* OverflowCountsLost rests on where an ID can be (PlacesInv), and the     *)
(* refinement of TrFifo on the order of what waits (Orderly).              *)
(***************************************************************************)
EXTENDS TaskRing, FiniteSetTheorems, SequenceTheorems, TLAPS

\* An idle engine has nothing queued and equal pointers; a start that is due is
\* due within the submitting step and has something to copy.
EngineInv ==
  /\ engine_idle => unlatched = {} /\ fifo_wr = fifo_rd
  /\ starting => /\ in_flight = NoTR /\ fifo_wr # fifo_rd
                 /\ cycles_left = TR_START_CYCLES /\ owed > 0

RingInv == TypeOK /\ EngineInv
-----------------------------------------------------------------------------
(***************************************************************************)
(* Pointer arithmetic.                                                     *)
(***************************************************************************)
LEMMA ModRange ==
  ASSUME NEW M \in Nat \ {0}, NEW a \in Int
  PROVE  a % M \in 0..M-1
  OBVIOUS

LEMMA ModZero ==
  ASSUME NEW M \in Nat \ {0}, NEW a \in 0..M-1, NEW b \in 0..M-1
  PROVE  (a - b) % M = 0 <=> a = b
  OBVIOUS

LEMMA ModBump ==
  ASSUME NEW M \in Nat \ {0}, NEW a \in 0..M-1, NEW n \in 1..M-1
  PROVE  (a + n) % M \in 0..M-1 /\ (a + n) % M # a
  OBVIOUS

LEMMA PtrModulusType == PtrModulus \in Nat \ {0} /\ Depth \in 1..PtrModulus-1
  BY DepthAssumption DEF PtrModulus

\* The occupancy is zero exactly when the pointers agree.
LEMMA OccupancyZero ==
  ASSUME NEW wr \in 0..PtrModulus-1, NEW rd \in 0..PtrModulus-1
  PROVE  Occupancy(wr, rd) = 0 <=> wr = rd
  BY DepthAssumption, ModZero DEF Occupancy, PtrModulus

\* The slot a pointer addresses exists.
LEMMA SlotOfPointer ==
  ASSUME NEW p \in Int
  PROVE  p % Depth \in Slots
  BY DepthAssumption, ModRange DEF Slots
-----------------------------------------------------------------------------
LEMMA RingInit == Init => RingInv
<1> SUFFICES ASSUME Init PROVE RingInv
  OBVIOUS
<1>1. FlagsOK
  BY Zenon DEF Init, FlagsOK
<1> QED
  BY <1>1, DepthAssumption, NumsAssumption
  DEF Init, RingInv, TypeOK, EngineInv, engine_idle, NoTR, PtrModulus,
      BUSY_TAIL_CYCLES

\* The flags stay Boolean.
LEMMA FlagsStep == FlagsOK /\ [Next]_vars => FlagsOK'
<1> SUFFICES ASSUME FlagsOK, [Next]_vars PROVE FlagsOK'
  OBVIOUS
<1> USE DEF FlagsOK, config, engine
<1>1. CASE Reset
  BY <1>1, Zenon DEF Reset, RingReset
<1>2. ASSUME NEW c \in 1..MaxElapsed, ConfigureSource(c) \/ ConfigureRing(c)
      PROVE  FlagsOK'
  BY <1>2, Zenon DEF ConfigureSource, ConfigureRing
<1>3. ASSUME NEW c \in 1..MaxElapsed, NEW n \in 1..MaxIdsPerXout, Submit(c, n)
      PROVE  FlagsOK'
  BY <1>3, Zenon DEF Submit
<1>4. ASSUME NEW c \in 1..MaxElapsed, OtherInstruction(c) \/ Halt(c) PROVE FlagsOK'
  BY <1>4, Zenon DEF OtherInstruction, Halt
<1>5. CASE HaltedStep
  BY <1>5, Zenon DEF HaltedStep
<1>6. CASE EngineCycle
  BY <1>6, Zenon DEF EngineCycle, IdleCycle, CountDown, StartComesDue, Land, LandFails
<1>7. CASE UNCHANGED vars
  BY <1>7, Zenon DEF vars
<1> QED
  BY <1>1, <1>2, <1>3, <1>4, <1>5, <1>6, <1>7, Zenon DEF Next, Instruction

\* A submission leaves counters and slots well typed and starts an idle engine.
LEMMA SubmitKeepsInv ==
  ASSUME RingInv, FlagsOK', NEW c \in 1..MaxElapsed, NEW n \in 1..MaxIdsPerXout, Submit(c, n)
  PROVE  RingInv'
<1> USE DepthAssumption, XoutAssumption, BoundAssumption
<1>1. TypeOK /\ EngineInv
  BY DEF RingInv
<1>2. fifo_wr' \in 0..PtrModulus-1 /\ fifo_wr' # fifo_wr
  <2>1. PtrModulus \in Nat \ {0} /\ n \in 1..PtrModulus-1 /\ fifo_wr \in 0..PtrModulus-1
    BY <1>1, PtrModulusType DEF TypeOK
  <2>2. fifo_wr' = (fifo_wr + n) % PtrModulus
    BY DEF Submit, Advanced
  <2> QED
    BY <2>1, <2>2, ModBump
<1>3. \A s \in Slots : Offset(s) \in 0..Depth-1
  BY <1>1, ModRange DEF Offset, TypeOK, Slots, PtrModulus
<1>4. Cardinality(unlatched \cap Written(n)) \in Nat
  <2>1. IsFiniteSet(Slots)
    BY FS_Interval DEF Slots
  <2>2. unlatched \cap Written(n) \subseteq Slots
    BY <1>1 DEF TypeOK
  <2> QED
    BY <2>1, <2>2, FS_Subset, FS_CardinalityType
<1>5. slots' \in [Slots -> Nat]
  BY <1>1, <1>3 DEF Submit, TypeOK
<1>6. owed' \in Nat /\ owed' > 0 /\ ~starting
  BY <1>1 DEF Submit, Executes, RingInv, EngineInv, TypeOK
<1>7. TypeOK'
  BY <1>1, <1>2, <1>4, <1>5, <1>6
  DEF Submit, Executes, TypeOK, config, Written, TR_START_CYCLES, BUSY_TAIL_CYCLES
<1>8. EngineInv'
  <2>1. CASE engine_idle
    <3>1. fifo_wr' # fifo_rd
      BY <1>1, <1>2, <2>1 DEF EngineInv
    <3>2. Occupancy(fifo_wr', fifo_rd) # 0
      BY <1>1, <1>2, <3>1, OccupancyZero DEF TypeOK
    <3> QED
      BY <1>1, <1>6, <2>1, <3>1, <3>2
      DEF Submit, StartsEngine, EngineInv, engine_idle, TR_START_CYCLES
  <2>2. CASE ~engine_idle
    BY <1>1, <1>6, <2>2 DEF Submit, StartsEngine, EngineInv, engine_idle
  <2> QED
    BY <2>1, <2>2
<1> QED
  BY <1>7, <1>8 DEF RingInv

\* Latching the next ID or stopping re-establishes the engine's invariant.
LEMMA NextCopyKeepsInv ==
  ASSUME TypeOK, NEW rd \in 0..PtrModulus-1, NextCopyOrStop(rd),
         in_flight = NoTR => Occupancy(fifo_wr, rd) # 0,
         fifo_wr' = fifo_wr, fifo_rd' = rd, starting' = FALSE
  PROVE  /\ in_flight' \in Nat \cup {NoTR} /\ unlatched' \subseteq Slots
         /\ cycles_left' \in Nat /\ busy_tail' \in 0..BUSY_TAIL_CYCLES
         /\ abandoned' \subseteq Nat
         /\ EngineInv'
<1> USE DepthAssumption, CopyAssumption
<1>1. rd % Depth \in Slots
  BY SlotOfPointer
<1>2. CASE Occupancy(fifo_wr, rd) # 0
  <2>1. in_flight' \in Nat /\ in_flight' # NoTR
    BY <1>1, <1>2 DEF NextCopyOrStop, TypeOK, NoTR
  <2> QED
    BY <1>1, <1>2, <2>1
    DEF NextCopyOrStop, TypeOK, EngineInv, engine_idle, Latched, tr_copy_cycles
<1>3. CASE Occupancy(fifo_wr, rd) = 0
  <2>1. fifo_wr = rd
    BY <1>3, OccupancyZero DEF TypeOK
  <2>2. {slots[s] : s \in unlatched} \subseteq Nat
    BY DEF TypeOK
  <2>3. in_flight # NoTR
    BY <1>3
  <2>4. /\ in_flight' = NoTR /\ unlatched' = {} /\ busy_tail' = 1 /\ cycles_left' = 0
        /\ abandoned' = abandoned \cup {slots[s] : s \in unlatched}
    BY <1>3, <2>3 DEF NextCopyOrStop, WaitingAfterStop, BUSY_TAIL_CYCLES
  <2>5. EngineInv'
    BY <2>1, <2>4 DEF EngineInv
  <2>6. abandoned' \subseteq Nat
    BY <2>2, <2>4 DEF TypeOK
  <2>7. cycles_left' \in Nat /\ busy_tail' \in 0..BUSY_TAIL_CYCLES
    BY <2>4 DEF BUSY_TAIL_CYCLES
  <2> QED
    BY <2>4, <2>5, <2>6, <2>7
<1> QED
  BY <1>2, <1>3

LEMMA StartKeepsInv ==
  ASSUME RingInv, FlagsOK', StartComesDue
  PROVE  RingInv'
<1>1. TypeOK /\ EngineInv
  BY DEF RingInv
<1>2. fifo_rd \in 0..PtrModulus-1 /\ Occupancy(fifo_wr, fifo_rd) # 0
  BY <1>1, OccupancyZero DEF TypeOK, EngineInv, StartComesDue
<1>3. /\ in_flight' \in Nat \cup {NoTR} /\ unlatched' \subseteq Slots
      /\ cycles_left' \in Nat /\ busy_tail' \in 0..BUSY_TAIL_CYCLES
      /\ abandoned' \subseteq Nat
      /\ EngineInv'
  BY <1>1, <1>2, NextCopyKeepsInv DEF StartComesDue
<1> QED
  BY <1>1, <1>3 DEF StartComesDue, Due, RingInv, TypeOK, config

LEMMA LandKeepsInv ==
  ASSUME RingInv, FlagsOK', Land
  PROVE  RingInv'
<1>1. TypeOK /\ EngineInv
  BY DEF RingInv
<1>2. fifo_rd' \in 0..PtrModulus-1
  BY <1>1, PtrModulusType, ModRange DEF TypeOK, Land, Advanced
<1>3. /\ in_flight' \in Nat \cup {NoTR} /\ unlatched' \subseteq Slots
      /\ cycles_left' \in Nat /\ busy_tail' \in 0..BUSY_TAIL_CYCLES
      /\ abandoned' \subseteq Nat
      /\ EngineInv'
  BY <1>1, <1>2, NextCopyKeepsInv DEF Land
<1>4. wrt_index' \in Nat
  <2>1. ring_entries \in Nat \ {0}
    BY <1>1, NumsAssumption DEF TypeOK, ring_entries
  <2> QED
    BY <1>1, <2>1, ModRange DEF TypeOK, Land
<1>5. landed' \in Seq(Nat)
  BY <1>1 DEF TypeOK, Land
<1> QED
  BY <1>1, <1>2, <1>3, <1>4, <1>5 DEF Land, Due, RingInv, TypeOK, config

LEMMA RingStep == RingInv /\ [Next]_vars => RingInv'
<1> SUFFICES ASSUME RingInv, [Next]_vars PROVE RingInv'
  OBVIOUS
<1> USE DEF RingInv
<1>0. FlagsOK'
  BY FlagsStep DEF TypeOK
<1>1. CASE Reset
  BY <1>0, <1>1, DepthAssumption, NumsAssumption
  DEF Reset, RingReset, TypeOK, EngineInv, engine_idle, NoTR, PtrModulus, Slots,
      BUSY_TAIL_CYCLES
<1>2. ASSUME NEW c \in 1..MaxElapsed, ConfigureSource(c) PROVE RingInv'
  BY <1>0, <1>2, BoundAssumption
  DEF ConfigureSource, Executes, TypeOK, EngineInv, engine_idle, fifo, engine, history
<1>3. ASSUME NEW c \in 1..MaxElapsed, ConfigureRing(c) PROVE RingInv'
  BY <1>0, <1>3, BoundAssumption
  DEF ConfigureRing, Executes, TypeOK, EngineInv, engine_idle, fifo, engine, history
<1>4. ASSUME NEW c \in 1..MaxElapsed, NEW n \in 1..MaxIdsPerXout, Submit(c, n)
      PROVE  RingInv'
  BY <1>0, <1>4, SubmitKeepsInv
<1>5. ASSUME NEW c \in 1..MaxElapsed, OtherInstruction(c) PROVE RingInv'
  BY <1>0, <1>5, BoundAssumption
  DEF OtherInstruction, Executes, TypeOK, EngineInv, engine_idle, config, fifo,
      engine, history
<1>13. ASSUME NEW c \in 1..MaxElapsed, Halt(c) PROVE RingInv'
  BY <1>0, <1>13, BoundAssumption
  DEF Halt, Executes, TypeOK, EngineInv, engine_idle, config, fifo, engine, history
<1>6. CASE HaltedStep
  BY <1>0, <1>6
  DEF HaltedStep, TypeOK, EngineInv, engine_idle, config, fifo, engine, history
<1>7. CASE IdleCycle
  BY <1>0, <1>7
  DEF IdleCycle, CycleElapses, TypeOK, EngineInv, engine_idle, config, fifo, history,
      BUSY_TAIL_CYCLES
<1>8. CASE CountDown
  BY <1>0, <1>8
  DEF CountDown, CycleElapses, TypeOK, EngineInv, engine_idle, config, fifo, history,
      TR_START_CYCLES
<1>9. CASE StartComesDue
  BY <1>0, <1>9, StartKeepsInv
<1>10. CASE Land
  BY <1>0, <1>10, LandKeepsInv
<1>11. CASE LandFails
  BY <1>0, <1>11
  DEF LandFails, Due, TypeOK, EngineInv, engine_idle, config, fifo, history
<1>12. CASE UNCHANGED vars
  BY <1>0, <1>12
  DEF vars, TypeOK, EngineInv, engine_idle, config, fifo, engine, history
<1> QED
  BY <1>1, <1>2, <1>3, <1>4, <1>5, <1>6, <1>7, <1>8, <1>9, <1>10, <1>11, <1>12, <1>13
  DEF Next, Instruction, EngineCycle
-----------------------------------------------------------------------------
\* Every variable keeps its type and the engine is idle only over an empty FIFO,
\* whatever firmware submits and however long its instructions take.
THEOREM RingInvariant == Spec => []RingInv
<1>1. Init => RingInv
  BY RingInit
<1>2. RingInv /\ [Next]_vars => RingInv'
  BY RingStep
<1> QED
  BY <1>1, <1>2, PTL DEF Spec

THEOREM RingTypeOK == Spec => []TypeOK
<1>1. RingInv => TypeOK
  BY DEF RingInv
<1> QED
  BY <1>1, RingInvariant, PTL

\* When the status XIN 0x71 returns says "not busy", no submitted ID is left
\* waiting in the FIFO: firmware that polls tr_rsrc_busy may trust it.
THEOREM StatusIsHonest == Spec => []NotBusyMeansDrained
<1>1. RingInv => NotBusyMeansDrained
  BY DEF RingInv, EngineInv, NotBusyMeansDrained, busy, engine_idle
<1> QED
  BY <1>1, RingInvariant, PTL
-----------------------------------------------------------------------------
(***************************************************************************)
(* OverflowCountsLost is a statement about a cardinality; what makes it    *)
(* inductive is where an ID can be.  An ID that waits in a slot was never  *)
(* latched and waits in no other slot; a slot that holds no waiting ID     *)
(* holds one that is gone, or none: pointers that alias may copy it again, *)
(* and that changes no set.                                                *)
(***************************************************************************)
Gone == LatchedIds \cup abandoned
LostIds == Ids \ (LatchedIds \cup WaitingIds \cup abandoned)

PlacesInv ==
  /\ \A s \in Slots : slots[s] \in 0..submitted
  /\ Gone \subseteq 0..submitted
  /\ \A s \in unlatched : slots[s] # 0 /\ slots[s] \notin Gone
  /\ \A s, t \in unlatched : slots[s] = slots[t] => s = t
  /\ \A s \in Slots \ unlatched : slots[s] = 0 \/ slots[s] \in Gone

CountInv == PlacesInv /\ OverflowCountsLost

LEMMA CountInit == Init => CountInv
<1> SUFFICES ASSUME Init PROVE CountInv
  OBVIOUS
<1>1. /\ slots = [s \in Slots |-> 0] /\ unlatched = {} /\ submitted = 0
      /\ in_flight = NoTR /\ abandoned = {} /\ landed = <<>> /\ overflow_events = 0
  BY DEF Init
<1>2. Gone = {} /\ LostIds = {}
  BY <1>1 DEF Gone, LostIds, Ids, LatchedIds, LandedIds
<1>3. Cardinality(LostIds) = overflow_events
  BY <1>1, <1>2, FS_EmptySet
<1> QED
  BY <1>1, <1>2, <1>3 DEF CountInv, PlacesInv, OverflowCountsLost, LostIds

\* Whatever leaves IDs and counters where they are.
LEMMA QuietKeepsCount ==
  ASSUME CountInv, UNCHANGED <<fifo, in_flight, history>>
  PROVE  CountInv'
  BY DEF CountInv, PlacesInv, OverflowCountsLost, Gone, Ids, LatchedIds, LandedIds,
         WaitingIds, fifo, history

\* What has landed grows by the ID that lands.
LEMMA LandedGrows ==
  ASSUME landed \in Seq(Nat), in_flight \in Nat, landed' = Append(landed, in_flight)
  PROVE  LandedIds' = LandedIds \cup {in_flight}
<1>1. /\ DOMAIN landed = 1..Len(landed) /\ DOMAIN landed' = 1..Len(landed)+1
      /\ Len(landed) \in Nat
      /\ \A i \in 1..Len(landed) : landed'[i] = landed[i]
      /\ landed'[Len(landed)+1] = in_flight
  OBVIOUS
<1>2. ASSUME NEW x \in LandedIds' PROVE x \in LandedIds \cup {in_flight}
  <2>1. PICK i \in 1..Len(landed)+1 : x = landed'[i]
    BY <1>1, <1>2 DEF LandedIds
  <2>2. i \in 1..Len(landed) \/ i = Len(landed)+1
    BY <1>1
  <2> QED
    BY <1>1, <2>1, <2>2 DEF LandedIds
<1>3. ASSUME NEW x \in LandedIds \cup {in_flight} PROVE x \in LandedIds'
  <2>1. CASE x = in_flight
    BY <1>1, <2>1 DEF LandedIds
  <2>2. CASE x \in LandedIds
    <3>1. PICK i \in 1..Len(landed) : x = landed[i]
      BY <1>1, <2>2 DEF LandedIds
    <3>2. i \in DOMAIN landed' /\ x = landed'[i]
      BY <1>1, <3>1
    <3> QED
      BY <3>2 DEF LandedIds
  <2> QED
    BY <1>3, <2>1, <2>2
<1> QED
  BY <1>2, <1>3

\* Latching an ID, or giving up those that wait, moves IDs and loses none.
LEMMA NextCopyKeepsCount ==
  ASSUME TypeOK, CountInv, NEW rd \in 0..PtrModulus-1, NextCopyOrStop(rd),
         in_flight = NoTR => Occupancy(fifo_wr, rd) # 0,
         UNCHANGED <<slots, submitted, overflow_events>>,
         LandedIds' = LandedIds \cup ({in_flight} \ {NoTR})
  PROVE  CountInv'
<1> DEFINE slot == rd % Depth
<1>1. slot \in Slots /\ slots[slot] \in Nat /\ slots[slot] # NoTR
  BY SlotOfPointer DEF TypeOK, NoTR
<1>2. CASE Occupancy(fifo_wr, rd) # 0
  <2>1. /\ in_flight' = slots[slot] /\ unlatched' = unlatched \ {slot}
        /\ abandoned' = abandoned
    BY <1>2 DEF NextCopyOrStop, Latched
  <2>2. Gone' = Gone \cup {slots[slot]}
    BY <1>1, <2>1 DEF Gone, LatchedIds
  <2> HIDE DEF slot
  <2>3. PlacesInv'
    BY <1>1, <2>1, <2>2 DEF CountInv, PlacesInv
  <2>4. LostIds' = LostIds
    <3>1. Ids' = Ids /\ 0 \notin Ids
      BY DEF Ids
    <3>2. \A x \in Ids : x \in WaitingIds' \cup Gone' <=> x \in WaitingIds \cup Gone
      BY <1>1, <2>1, <2>2, <3>1 DEF WaitingIds, CountInv, PlacesInv
    <3> QED
      BY <3>1, <3>2 DEF LostIds, Gone
  <2> QED
    BY <2>3, <2>4 DEF CountInv, OverflowCountsLost, LostIds
<1>3. CASE Occupancy(fifo_wr, rd) = 0
  <2>1. /\ in_flight' = NoTR /\ unlatched' = {} /\ in_flight # NoTR
        /\ abandoned' = abandoned \cup WaitingIds
    BY <1>3 DEF NextCopyOrStop, WaitingAfterStop, WaitingIds
  <2>2. Gone' = Gone \cup WaitingIds /\ WaitingIds' = {}
    BY <2>1 DEF Gone, LatchedIds, WaitingIds
  <2>3. PlacesInv'
    <3>1. unlatched \subseteq Slots
      BY DEF TypeOK
    <3> QED
      BY <2>1, <2>2, <3>1 DEF CountInv, PlacesInv, WaitingIds
  <2>4. LostIds' = LostIds
    BY <2>2 DEF LostIds, Gone, Ids
  <2> QED
    BY <2>3, <2>4 DEF CountInv, OverflowCountsLost, LostIds
<1> QED
  BY <1>2, <1>3
-----------------------------------------------------------------------------
(***************************************************************************)
(* A submission.  Its n IDs go to the n slots from the write pointer on,   *)
(* one each: Offset maps the slots one to one to 0..Depth-1.               *)
(***************************************************************************)
LEMMA ModInj ==
  ASSUME NEW D \in Nat \ {0}, NEW w \in Nat, NEW a \in 0..D-1, NEW b \in 0..D-1,
         (a - w) % D = (b - w) % D
  PROVE  a = b
<1> DEFINE p == (a - w) \div D
           q == (b - w) \div D
<1>1. /\ p \in Int /\ a - w = (D * p) + ((a - w) % D)
      /\ q \in Int /\ b - w = (D * q) + ((b - w) % D)
      /\ (a - w) % D \in Int
  OBVIOUS
<1> HIDE DEF p, q
<1>2. a - b = D * p - D * q
  BY <1>1
<1>3. D * p - D * q = D * (p - q) /\ p - q \in Int
  BY <1>1
<1>4. a - b < D /\ b - a < D
  OBVIOUS
<1>5. \A k \in Int : (k >= 1 => D * k >= D) /\ (k <= -1 => D * k <= -D)
  OBVIOUS
<1>6. p - q = 0
  BY <1>2, <1>3, <1>4, <1>5
<1> QED
  BY <1>2, <1>3, <1>6

LEMMA OffsetIsBijection ==
  ASSUME fifo_wr \in Nat
  PROVE  /\ \A s \in Slots : Offset(s) \in 0..Depth-1
         /\ \A s, t \in Slots : Offset(s) = Offset(t) => s = t
         /\ \A k \in 0..Depth-1 : \E s \in Slots : Offset(s) = k
<1>1. \A s \in Slots : Offset(s) \in 0..Depth-1
  BY DepthAssumption, ModRange DEF Offset, Slots
<1>2. ASSUME NEW s \in Slots, NEW t \in Slots, Offset(s) = Offset(t) PROVE s = t
  <2>1. /\ Depth \in Nat \ {0} /\ s \in 0..Depth-1 /\ t \in 0..Depth-1
        /\ (s - fifo_wr) % Depth = (t - fifo_wr) % Depth
    BY <1>2, DepthAssumption DEF Offset, Slots
  <2> QED
    BY <2>1, ModInj
<1>3. ASSUME NEW k \in 0..Depth-1 PROVE \E s \in Slots : Offset(s) = k
  <2> DEFINE f == [s \in Slots |-> Offset(s)]
  <2>1. f \in Injection(Slots, Slots)
    BY <1>1, <1>2, Zenon DEF Injection, IsInjective, Slots
  <2>2. IsFiniteSet(Slots)
    BY DepthAssumption, FS_Interval DEF Slots
  <2>3. f \in Surjection(Slots, Slots)
    BY <2>1, <2>2, FS_Injection
  <2>4. PICK s \in Slots : f[s] = k
    BY <2>3 DEF Surjection, Slots
  <2> QED
    BY <2>4
<1> QED
  BY <1>1, <1>2, <1>3

\* What the slots hold after a submission of n IDs.
LEMMA SubmittedSlots ==
  ASSUME TypeOK, NEW c \in 1..MaxElapsed, NEW n \in 1..MaxIdsPerXout, Submit(c, n)
  PROVE  /\ \A s \in Written(n) : slots'[s] \in submitted+1..submitted+n
         /\ \A s \in Slots \ Written(n) : slots'[s] = slots[s]
         /\ \A s, t \in Written(n) : slots'[s] = slots'[t] => s = t
         /\ \A x \in submitted+1..submitted+n : \E s \in Written(n) : slots'[s] = x
<1>1. /\ fifo_wr \in Nat /\ submitted \in Nat /\ n \in Nat /\ n <= Depth
      /\ slots' = [s \in Slots |-> IF s \in Written(n) THEN submitted + 1 + Offset(s)
                                                       ELSE slots[s]]
  BY DepthAssumption, XoutAssumption DEF TypeOK, Submit, PtrModulus
<1>2. Written(n) = {s \in Slots : Offset(s) < n}
  BY DEF Written
<1>3. /\ \A s \in Slots : Offset(s) \in 0..Depth-1
      /\ \A s, t \in Slots : Offset(s) = Offset(t) => s = t
      /\ \A k \in 0..Depth-1 : \E s \in Slots : Offset(s) = k
  BY <1>1, OffsetIsBijection
<1>4. \A s \in Written(n) : slots'[s] = submitted + 1 + Offset(s) /\ s \in Slots
  BY <1>1, <1>2
<1>5. \A s \in Written(n) : slots'[s] \in submitted+1..submitted+n
  BY <1>1, <1>2, <1>3, <1>4
<1>6. \A s \in Slots \ Written(n) : slots'[s] = slots[s]
  BY <1>1
<1>7. \A s, t \in Written(n) : slots'[s] = slots'[t] => s = t
  BY <1>1, <1>3, <1>4
<1>8. ASSUME NEW x \in submitted+1..submitted+n
      PROVE  \E s \in Written(n) : slots'[s] = x
  <2>1. x - submitted - 1 \in 0..Depth-1 /\ x - submitted - 1 < n
    BY <1>1, DepthAssumption
  <2>2. PICK s \in Slots : Offset(s) = x - submitted - 1
    BY <1>3, <2>1
  <2>3. s \in Written(n)
    BY <1>2, <2>1, <2>2
  <2> QED
    BY <1>1, <1>4, <2>2, <2>3
<1> QED
  BY <1>5, <1>6, <1>7, <1>8

\* The IDs that are lost by a submission are those of the waiting slots it writes.
LEMMA SubmitKeepsCount ==
  ASSUME TypeOK, CountInv, NEW c \in 1..MaxElapsed, NEW n \in 1..MaxIdsPerXout,
         Submit(c, n)
  PROVE  CountInv'
<1> DEFINE W == Written(n)
           Hit == unlatched \cap W
           V == {slots[s] : s \in Hit}
<1>1. /\ submitted \in Nat /\ n \in Nat \ {0} /\ submitted' = submitted + n
      /\ unlatched' = unlatched \cup W /\ unlatched \subseteq Slots /\ W \subseteq Slots
      /\ overflow_events' = overflow_events + Cardinality(Hit)
  BY DepthAssumption, XoutAssumption DEF TypeOK, Submit, Written
<1>2. /\ \A s \in W : slots'[s] \in submitted+1..submitted+n
      /\ \A s \in Slots \ W : slots'[s] = slots[s]
      /\ \A s, t \in W : slots'[s] = slots'[t] => s = t
      /\ \A x \in submitted+1..submitted+n : \E s \in W : slots'[s] = x
  BY SubmittedSlots
<1>3. Gone' = Gone
  BY DEF Submit, Gone, LatchedIds, LandedIds
<1>4. PlacesInv
  BY DEF CountInv
<1> HIDE DEF W
<1>5. PlacesInv'
  BY <1>1, <1>2, <1>3, <1>4 DEF PlacesInv
<1>6. Ids' = Ids \cup (submitted+1..submitted+n) /\ Ids = 1..submitted
  BY <1>1 DEF Ids
<1>7. WaitingIds' = {slots[s] : s \in unlatched \ W} \cup (submitted+1..submitted+n)
  <2>1. ASSUME NEW x \in WaitingIds'
        PROVE  x \in {slots[s] : s \in unlatched \ W} \cup (submitted+1..submitted+n)
    <3>1. PICK s \in unlatched \cup W : x = slots'[s]
      BY <1>1, <2>1 DEF WaitingIds
    <3>2. CASE s \in W
      BY <1>2, <3>1, <3>2
    <3>3. CASE s \in unlatched \ W
      BY <1>1, <1>2, <3>1, <3>3
    <3> QED
      BY <3>1, <3>2, <3>3
  <2>2. ASSUME NEW s \in unlatched \ W PROVE slots[s] \in WaitingIds'
    BY <1>1, <1>2, <2>2 DEF WaitingIds
  <2>3. ASSUME NEW x \in submitted+1..submitted+n PROVE x \in WaitingIds'
    BY <1>1, <1>2, <2>3 DEF WaitingIds
  <2> QED
    BY <2>1, <2>2, <2>3
<1>8. LostIds' = LostIds \cup V /\ LostIds \cap V = {}
  <2>1. \A x \in submitted+1..submitted+n : x \notin Ids
    BY <1>1, <1>6
  <2>2. V \subseteq WaitingIds /\ V \subseteq Ids /\ V \cap Gone = {}
    BY <1>1, <1>4, <1>6 DEF PlacesInv, WaitingIds
  <2>3. \A x \in WaitingIds : x \in V \/ x \in {slots[s] : s \in unlatched \ W}
    BY DEF WaitingIds
  <2>4. \A x \in V : x \notin {slots[s] : s \in unlatched \ W}
    BY <1>4 DEF PlacesInv
  <2>5. {slots[s] : s \in unlatched \ W} \subseteq WaitingIds
    BY DEF WaitingIds
  <2> HIDE DEF V
  <2>6. LostIds = Ids \ (WaitingIds \cup Gone) /\ LostIds' = Ids' \ (WaitingIds' \cup Gone')
    BY DEF LostIds, Gone
  <2> QED
    BY <1>3, <1>6, <1>7, <2>1, <2>2, <2>3, <2>4, <2>5, <2>6
<1>9. IsFiniteSet(LostIds)
  <2>1. IsFiniteSet(Ids) /\ LostIds \subseteq Ids
    BY <1>1, FS_Interval DEF Ids, LostIds
  <2> QED
    BY <2>1, FS_Subset
<1>10. IsFiniteSet(V) /\ Cardinality(V) = Cardinality(Hit) /\ Cardinality(V) \in Nat
  <2> DEFINE f == [s \in Hit |-> slots[s]]
  <2>1. IsFiniteSet(Hit)
    <3>1. IsFiniteSet(Slots) /\ Hit \subseteq Slots
      BY <1>1, DepthAssumption, FS_Interval DEF Slots
    <3> QED
      BY <3>1, FS_Subset
  <2>2. f \in [Hit -> V]
    OBVIOUS
  <2>3. \A s, t \in Hit : f[s] = f[t] => s = t
    BY <1>4 DEF PlacesInv
  <2>4. \A x \in V : \E s \in Hit : f[s] = x
    OBVIOUS
  <2> HIDE DEF V, Hit, f
  <2>5. f \in Bijection(Hit, V)
    BY <2>2, <2>3, <2>4, Zenon DEF Bijection, Injection, Surjection, IsInjective
  <2>6. ExistsBijection(Hit, V)
    BY <2>5 DEF ExistsBijection
  <2>7. IsFiniteSet(V) /\ Cardinality(V) = Cardinality(Hit)
    BY <2>1, <2>6, FS_Bijection
  <2> QED
    BY <2>7, FS_CardinalityType
<1>11. Cardinality(LostIds') = Cardinality(LostIds) + Cardinality(V)
  <2> HIDE DEF V
  <2>1. Cardinality(LostIds \cup V) =
          Cardinality(LostIds) + Cardinality(V) - Cardinality(LostIds \cap V)
    BY <1>9, <1>10, FS_Union
  <2>2. Cardinality(LostIds \cap V) = 0 /\ Cardinality(LostIds) \in Nat
    BY <1>8, <1>9, FS_EmptySet, FS_CardinalityType
  <2> QED
    BY <1>8, <1>10, <2>1, <2>2
<1>12. Cardinality(LostIds) = overflow_events
  BY DEF CountInv, OverflowCountsLost, LostIds
<1>13. Cardinality(LostIds') = overflow_events'
  BY <1>1, <1>10, <1>11, <1>12
<1> QED
  BY <1>5, <1>13 DEF CountInv, OverflowCountsLost, LostIds
-----------------------------------------------------------------------------
LEMMA CountStep == RingInv /\ CountInv /\ [Next]_vars => CountInv'
<1> SUFFICES ASSUME RingInv, CountInv, [Next]_vars PROVE CountInv'
  OBVIOUS
<1>0. TypeOK /\ EngineInv
  BY DEF RingInv
<1>1. CASE Reset
  <2>1. /\ slots' = [s \in Slots |-> 0] /\ unlatched' = {} /\ submitted' = 0
        /\ in_flight' = NoTR /\ abandoned' = {} /\ landed' = <<>> /\ overflow_events' = 0
    BY <1>1 DEF Reset, RingReset
  <2>2. Gone' = {} /\ LostIds' = {}
    BY <2>1 DEF Gone, LostIds, Ids, LatchedIds, LandedIds
  <2>3. Cardinality(LostIds') = overflow_events'
    BY <2>1, <2>2, FS_EmptySet
  <2> QED
    BY <2>1, <2>2, <2>3 DEF CountInv, PlacesInv, OverflowCountsLost, LostIds
<1>2. ASSUME NEW c \in 1..MaxElapsed, NEW n \in 1..MaxIdsPerXout, Submit(c, n)
      PROVE  CountInv'
  BY <1>0, <1>2, SubmitKeepsCount
<1>3. ASSUME NEW c \in 1..MaxElapsed,
             ConfigureSource(c) \/ ConfigureRing(c) \/ OtherInstruction(c) \/ Halt(c)
      PROVE  CountInv'
  BY <1>3, QuietKeepsCount
  DEF ConfigureSource, ConfigureRing, OtherInstruction, Halt, engine
<1>4. CASE HaltedStep \/ IdleCycle \/ CountDown \/ LandFails
  BY <1>4, QuietKeepsCount DEF HaltedStep, IdleCycle, CountDown, LandFails, engine
<1>5. CASE StartComesDue
  <2>1. fifo_rd \in 0..PtrModulus-1 /\ Occupancy(fifo_wr, fifo_rd) # 0
    BY <1>0, <1>5, OccupancyZero DEF TypeOK, EngineInv, StartComesDue
  <2>2. LandedIds' = LandedIds \cup ({in_flight} \ {NoTR})
    BY <1>0, <1>5 DEF StartComesDue, EngineInv, LandedIds
  <2> QED
    BY <1>0, <1>5, <2>1, <2>2, NextCopyKeepsCount DEF StartComesDue
<1>6. CASE Land
  <2>1. fifo_rd' \in 0..PtrModulus-1
    BY <1>0, <1>6, PtrModulusType, ModRange DEF TypeOK, Land, Advanced
  <2>2. in_flight # NoTR /\ in_flight \in Nat /\ landed' = Append(landed, in_flight)
    BY <1>0, <1>6 DEF TypeOK, Land
  <2>3. LandedIds' = LandedIds \cup ({in_flight} \ {NoTR})
    BY <1>0, <2>2, LandedGrows DEF TypeOK
  <2> QED
    BY <1>0, <1>6, <2>1, <2>2, <2>3, NextCopyKeepsCount DEF Land
<1>7. CASE UNCHANGED vars
  BY <1>7, QuietKeepsCount DEF vars, engine
<1> QED
  BY <1>1, <1>2, <1>3, <1>4, <1>5, <1>6, <1>7 DEF Next, Instruction, EngineCycle

\* The overflow counter is honest: it counts the IDs that were submitted and
\* can never be copied, each once, for every depth of the FIFO and every
\* interleaving of submissions with copies, aliased pointers included.
THEOREM OverflowIsCounted == Spec => []OverflowCountsLost
<1>1. CountInv => OverflowCountsLost
  BY DEF CountInv
<1> QED
  BY RingInit, RingStep, CountInit, CountStep, <1>1, PTL DEF Spec
-----------------------------------------------------------------------------
(***************************************************************************)
(* The ring implements a FIFO.  More modular arithmetic: positions, which  *)
(* are numbers of IDs, against pointers, which are positions modulo twice  *)
(* the depth, and slots, which are positions modulo the depth.             *)
(***************************************************************************)
LEMMA DivMod ==
  ASSUME NEW D \in Nat \ {0}, NEW a \in Int
  PROVE  a \div D \in Int /\ a = (D * (a \div D)) + (a % D) /\ a % D \in 0..D-1
  OBVIOUS

LEMMA Distribute ==
  ASSUME NEW D \in Int, NEW p \in Int, NEW q \in Int
  PROVE  D * (q - p) = (D * q) - (D * p)
  OBVIOUS

LEMMA SmallMultiple ==
  ASSUME NEW D \in Nat \ {0}, NEW k \in Int, D * k < D, D * k > -D
  PROVE  k = 0
<1>1. k >= 1 => D * k >= D
  OBVIOUS
<1>2. k <= -1 => D * k <= -D
  OBVIOUS
<1> QED
  BY <1>1, <1>2

LEMMA ModUnique ==
  ASSUME NEW D \in Nat \ {0}, NEW q \in Int, NEW r \in 0..D-1, NEW a \in Int,
         a = (D * q) + r
  PROVE  a % D = r
<1> DEFINE p == a \div D
           m == a % D
<1>1. p \in Int /\ m \in 0..D-1 /\ a = (D * p) + m
  BY DivMod
<1> HIDE DEF p, m
<1>2. D * (q - p) = m - r /\ q - p \in Int
  BY <1>1, Distribute
<1>3. m - r < D /\ m - r > -D
  BY <1>1
<1>4. q - p = 0
  BY <1>2, <1>3, SmallMultiple
<1>5. D * (q - p) = 0
  BY <1>4
<1>6. m = r
  BY <1>1, <1>2, <1>5
<1> QED
  BY <1>6 DEF m

\* Two positions less than D apart, taken modulo D, differ by what they differ.
LEMMA ModDistance ==
  ASSUME NEW D \in Nat \ {0}, NEW x \in Nat, NEW y \in Nat, x - y \in 0..D-1
  PROVE  ((x % D) - (y % D)) % D = x - y
<1> DEFINE p == x \div D
           q == y \div D
           u == x % D
           v == y % D
<1>1. p \in Int /\ x = (D * p) + u /\ u \in Int
  BY DivMod
<1>2. q \in Int /\ y = (D * q) + v /\ v \in Int
  BY DivMod
<1> HIDE DEF p, q, u, v
<1>3. D * (q - p) = (D * q) - (D * p) /\ q - p \in Int
  BY <1>1, <1>2, Distribute
<1> DEFINE a == u - v
           k == q - p
           d == x - y
<1>4. a = (D * k) + d /\ a \in Int /\ k \in Int /\ d \in 0..D-1
  BY <1>1, <1>2, <1>3
<1> HIDE DEF a, k, d
<1>5. a % D = d
  BY <1>4, ModUnique
<1> QED
  BY <1>5 DEF a, d, u, v

\* Advancing a pointer advances its position.
LEMMA AdvancedPosition ==
  ASSUME NEW M \in Nat \ {0}, NEW x \in Nat, NEW n \in Nat
  PROVE  ((x % M) + n) % M = (x + n) % M
<1> DEFINE p == x \div M
           q == (x + n) \div M
           u == x % M
           v == (x + n) % M
<1>1. p \in Int /\ x = (M * p) + u /\ u \in Int
  BY DivMod
<1>2. x + n \in Int
  OBVIOUS
<1>3. q \in Int /\ x + n = (M * q) + v /\ v \in 0..M-1
  BY <1>2, DivMod
<1> HIDE DEF p, q, u, v
<1>4. M * (q - p) = (M * q) - (M * p) /\ q - p \in Int
  BY <1>1, <1>3, Distribute
<1> DEFINE a == u + n
           k == q - p
<1>5. a = (M * k) + v /\ a \in Int /\ k \in Int /\ v \in 0..M-1
  BY <1>1, <1>3, <1>4
<1> HIDE DEF a, k
<1>6. a % M = v
  BY <1>5, ModUnique
<1> QED
  BY <1>6 DEF a, u, v

\* Two positions that share a slot are at least D apart, and D apart share one.
LEMMA SharedSlot ==
  ASSUME NEW D \in Nat \ {0}, NEW x \in Nat
  PROVE  /\ \A y \in Nat : x < y /\ x % D = y % D => y - x >= D
         /\ (x + D) % D = x % D
<1>1. ASSUME NEW y \in Nat, x < y, x % D = y % D PROVE y - x >= D
  <2> DEFINE p == x \div D
             q == y \div D
  <2>1. p \in Int /\ x = (D * p) + (x % D) /\ x % D \in Int
    BY DivMod
  <2>2. q \in Int /\ y = (D * q) + (y % D)
    BY DivMod
  <2> HIDE DEF p, q
  <2>3. y - x = D * (q - p) /\ q - p \in Int
    BY <1>1, <2>1, <2>2
  <2>4. \A k \in Int : (k >= 1 => D * k >= D) /\ (k <= 0 => D * k <= 0)
    OBVIOUS
  <2> QED
    BY <1>1, <2>3, <2>4
<1>2. (x + D) % D = x % D
  <2> DEFINE p == x \div D
             u == x % D
  <2>1. p \in Int /\ x = (D * p) + u /\ u \in 0..D-1
    BY DivMod
  <2> HIDE DEF p, u
  <2>2. D * (p + 1) = (D * p) + D
    BY <2>1
  <2> DEFINE a == x + D
             k == p + 1
  <2>3. a = (D * k) + u /\ a \in Int /\ k \in Int
    BY <2>1, <2>2
  <2> HIDE DEF a, k
  <2>4. a % D = u
    BY <2>1, <2>3, ModUnique
  <2> QED
    BY <2>4 DEF a, u
<1> QED
  BY <1>1, <1>2
-----------------------------------------------------------------------------
(***************************************************************************)
(* As long as nothing was overwritten, the ring is in order: the IDs       *)
(* landed are 1, 2, ...; the one being copied is the next; those after it, *)
(* and no others, wait, each in the slot of its position.  At most Depth   *)
(* wait, so that pointers modulo twice the depth tell full from empty.     *)
(***************************************************************************)
Done == Len(landed)
Latest == Done + (IF in_flight = NoTR THEN 0 ELSE 1)

Orderly ==
  /\ \A i \in 1..Done : landed[i] = i
  /\ in_flight # NoTR => in_flight = Done + 1
  /\ Latest <= submitted /\ submitted - Latest <= Depth
  /\ fifo_wr = submitted % PtrModulus
  /\ fifo_rd = Done % PtrModulus
  /\ \A s \in unlatched : slots[s] \in Latest+1..submitted /\ s = (slots[s] - 1) % Depth
  /\ \A p \in Latest+1..submitted :
        (p - 1) % Depth \in unlatched /\ slots[(p - 1) % Depth] = p

OrderInv == overflow_events = 0 => Orderly

LEMMA DoneType ==
  ASSUME TypeOK
  PROVE  Done \in Nat /\ Latest \in Nat /\ submitted \in Nat /\ Done <= Latest
  BY DEF TypeOK, Done, Latest

LEMMA DepthFacts == Depth \in Nat \ {0} /\ PtrModulus \in Nat \ {0}
                    /\ PtrModulus = 2 * Depth /\ Depth + 1 < PtrModulus
  BY DepthAssumption DEF PtrModulus

LEMMA OrderlyAtFirst == Init => Orderly
<1> SUFFICES ASSUME Init PROVE Orderly
  OBVIOUS
<1>1. Done = 0 /\ Latest = 0
  BY DEF Init, Done, Latest
<1>2. 0 % PtrModulus = 0
  BY DepthFacts
<1> QED
  BY <1>1, <1>2, DepthAssumption DEF Init, Orderly

LEMMA OrderlyFromReset == Reset => Orderly'
<1> SUFFICES ASSUME Reset PROVE Orderly'
  OBVIOUS
<1>1. Done' = 0 /\ Latest' = 0
  BY DEF Reset, RingReset, Done, Latest
<1>2. 0 % PtrModulus = 0
  BY DepthFacts
<1> QED
  BY <1>1, <1>2, DepthAssumption DEF Reset, RingReset, Orderly

LEMMA QuietKeepsOrder ==
  ASSUME OrderInv, UNCHANGED <<fifo, fifo_rd, in_flight, history>>
  PROVE  OrderInv'
  BY DEF OrderInv, Orderly, Done, Latest, fifo, history

\* The occupancy a pointer pair shows is the number of IDs between them.
LEMMA OccupancyIsExact ==
  ASSUME NEW x \in Nat, NEW y \in Nat, x - y \in 0..Depth+1
  PROVE  Occupancy(x % PtrModulus, y % PtrModulus) = x - y
<1>1. x - y \in 0..PtrModulus-1
  BY DepthFacts
<1> QED
  BY <1>1, DepthFacts, ModDistance DEF Occupancy

\* A pointer addresses the slot of its position.
LEMMA PointerSlot ==
  ASSUME NEW x \in Nat
  PROVE  (x % PtrModulus) % Depth = x % Depth
<1>0. /\ Depth \in Nat \ {0} /\ PtrModulus \in Nat \ {0}
      /\ PtrModulus = 2 * Depth
  BY DepthFacts
<1> DEFINE p == x \div Depth
           q == x \div PtrModulus
           u == x % Depth
           v == x % PtrModulus
<1>1. p \in Int /\ x = (Depth * p) + u /\ u \in 0..Depth-1
  BY <1>0, DivMod
<1>2. PtrModulus \in Nat \ {0} /\ x \in Int
  BY <1>0
<1>3. q \in Int /\ x = (PtrModulus * q) + v /\ v \in Int
  BY ONLY <1>2, DivMod
<1> HIDE DEF p, q, u, v
<1>4. PtrModulus * q = Depth * (2 * q) /\ 2 * q \in Int
  BY <1>0, <1>3
<1>5. Depth * (p - (2 * q)) = (Depth * p) - (Depth * (2 * q)) /\ p - (2 * q) \in Int
  BY <1>0, <1>1, <1>4, Distribute
<1>6. v = (Depth * (p - (2 * q))) + u
  BY <1>0, <1>1, <1>3, <1>4, <1>5
<1>7. v % Depth = u
  BY <1>0, <1>1, <1>3, <1>5, <1>6, ModUnique
<1> QED
  BY <1>7 DEF u, v

\* The slot of position x is x - y after the slot the pointer of y addresses.
LEMMA PointerOffset ==
  ASSUME NEW x \in Nat, NEW y \in Nat, x - y \in 0..Depth-1
  PROVE  ((x % Depth) - (y % PtrModulus)) % Depth = x - y
<1>0. /\ Depth \in Nat \ {0} /\ PtrModulus \in Nat \ {0}
      /\ PtrModulus = 2 * Depth
  BY DepthFacts
<1> DEFINE p == x \div Depth
           q == y \div PtrModulus
           u == x % Depth
           v == y % PtrModulus
<1>1. p \in Int /\ x = (Depth * p) + u /\ u \in Int
  BY <1>0, DivMod
<1>2. PtrModulus \in Nat \ {0} /\ y \in Int
  BY <1>0
<1>3. q \in Int /\ y = (PtrModulus * q) + v /\ v \in Int
  BY ONLY <1>2, DivMod
<1> HIDE DEF p, q, u, v
<1>4. PtrModulus * q = Depth * (2 * q) /\ 2 * q \in Int
  BY <1>0, <1>3
<1>5. Depth * ((2 * q) - p) = (Depth * (2 * q)) - (Depth * p) /\ (2 * q) - p \in Int
  BY <1>0, <1>1, <1>4, Distribute
<1> DEFINE a == u - v
           k == (2 * q) - p
           d == x - y
<1>6. a = (Depth * k) + d /\ a \in Int /\ k \in Int /\ d \in 0..Depth-1
  BY <1>0, <1>1, <1>3, <1>4, <1>5
<1> HIDE DEF a, k, d
<1>7. a % Depth = d
  BY <1>0, <1>6, ModUnique
<1> QED
  BY <1>7 DEF a, d, u, v

\* Submissions that overwrite nothing are those the FIFO has room for.
LEMMA SubmitKeepsOrder ==
  ASSUME TypeOK, OrderInv, NEW c \in 1..MaxElapsed, NEW n \in 1..MaxIdsPerXout,
         Submit(c, n), overflow_events' = 0
  PROVE  /\ overflow_events = 0
         /\ submitted + n - Latest <= Depth
         /\ Orderly'
<1> DEFINE W == Written(n)
<1>1. /\ submitted \in Nat /\ Latest \in Nat /\ Done \in Nat
      /\ n \in Nat \ {0} /\ n <= Depth /\ submitted' = submitted + n
      /\ unlatched' = unlatched \cup W /\ unlatched \subseteq Slots /\ W \subseteq Slots
      /\ overflow_events' = overflow_events + Cardinality(unlatched \cap W)
      /\ overflow_events \in Nat
  BY DepthAssumption, XoutAssumption, DoneType DEF TypeOK, Submit, Written
<1>2. Latest' = Latest /\ Done' = Done /\ UNCHANGED <<landed, in_flight, fifo_rd>>
  BY DEF Submit, Latest, Done
<1>3. overflow_events = 0 /\ unlatched \cap W = {}
  <2> HIDE DEF W
  <2>1. IsFiniteSet(Slots)
    BY DepthAssumption, FS_Interval DEF Slots
  <2>2. IsFiniteSet(unlatched \cap W) /\ Cardinality(unlatched \cap W) \in Nat
    BY <1>1, <2>1, FS_Subset, FS_CardinalityType
  <2>3. Cardinality(unlatched \cap W) = 0 /\ overflow_events = 0
    BY <1>1, <2>2
  <2> QED
    BY <2>2, <2>3, FS_EmptySet
<1>4. Orderly
  BY <1>3 DEF OrderInv
<1>5. fifo_wr = submitted % PtrModulus /\ fifo_wr' = (fifo_wr + n) % PtrModulus
  BY <1>4 DEF Orderly, Submit, Advanced
<1>6. fifo_wr' = (submitted + n) % PtrModulus
  BY <1>1, <1>5, DepthFacts, AdvancedPosition
<1>7. ASSUME NEW p \in submitted+1..submitted+n
      PROVE  LET s == (p - 1) % Depth IN s \in W /\ Offset(s) = p - 1 - submitted
  <2> DEFINE x == p - 1
             s == x % Depth
  <2> HIDE DEF s
  <2>1. x \in Nat /\ submitted \in Nat /\ x - submitted \in 0..Depth-1 /\ x - submitted < n
    BY <1>1, DepthFacts
  <2> HIDE DEF x
  <2>2. s \in Slots
    BY <2>1, SlotOfPointer DEF s
  <2>3. (s - (submitted % PtrModulus)) % Depth = x - submitted
    BY <2>1, PointerOffset DEF s
  <2>4. Offset(s) = x - submitted
    BY <1>5, <2>3 DEF Offset
  <2>5. s \in W
    BY <2>1, <2>2, <2>4 DEF Written
  <2> QED
    BY <2>4, <2>5 DEF x, s
<1>8. \A p \in submitted+1..submitted+n :
         (p - 1) % Depth \in W /\ slots'[(p - 1) % Depth] = p
  <2>1. slots' = [s \in Slots |-> IF s \in W THEN submitted + 1 + Offset(s) ELSE slots[s]]
    BY DEF Submit
  <2> HIDE DEF W
  <2> TAKE p \in submitted+1..submitted+n
  <2>2. (p - 1) % Depth \in W /\ Offset((p - 1) % Depth) = p - 1 - submitted
    BY <1>7
  <2> QED
    BY <1>1, <2>1, <2>2
<1> HIDE DEF W
<1>9. submitted + n - Latest <= Depth
  <2>1. Latest <= submitted /\ submitted - Latest <= Depth
    BY <1>4 DEF Orderly
  <2>2. SUFFICES ASSUME submitted + n - Latest > Depth PROVE FALSE
    BY <1>1, DepthFacts
  <2>3. Latest + 1 \in Latest+1..submitted /\ Latest + 1 + Depth \in submitted+1..submitted+n
    BY <1>1, <2>1, <2>2, DepthFacts
  <2>4. Latest % Depth \in unlatched
    BY <1>1, <1>4, <2>3 DEF Orderly
  <2>5. (Latest + Depth) % Depth \in W
    <3>1. (Latest + 1 + Depth) - 1 = Latest + Depth
      BY <1>1, DepthFacts
    <3> QED
      BY <1>8, <2>3, <3>1
  <2>6. (Latest + Depth) % Depth = Latest % Depth
    BY <1>1, DepthFacts, SharedSlot
  <2> QED
    BY <1>3, <2>4, <2>5, <2>6
<1>10. \A s \in unlatched : slots'[s] = slots[s]
  BY <1>1, <1>3, SubmittedSlots DEF W
<1>11. ASSUME NEW s \in unlatched'
       PROVE  slots'[s] \in Latest+1..submitted' /\ s = (slots'[s] - 1) % Depth
  <2>1. CASE s \in unlatched
    BY <1>1, <1>4, <1>10, <2>1 DEF Orderly
  <2>2. CASE s \in W
    <3>1. slots'[s] \in submitted+1..submitted+n
      BY <2>2, SubmittedSlots DEF W
    <3> DEFINE t == (slots'[s] - 1) % Depth
    <3>2. t \in W /\ slots'[t] = slots'[s]
      BY <1>8, <3>1
    <3>3. t = s
      BY <2>2, <3>2, SubmittedSlots DEF W
    <3> QED
      BY <1>1, <1>4, <3>1, <3>3 DEF Orderly
  <2> QED
    BY <1>1, <2>1, <2>2
<1>12. ASSUME NEW p \in Latest+1..submitted'
       PROVE  (p - 1) % Depth \in unlatched' /\ slots'[(p - 1) % Depth] = p
  <2>1. CASE p \in Latest+1..submitted
    BY <1>1, <1>4, <1>10, <2>1 DEF Orderly
  <2>2. CASE p \in submitted+1..submitted+n
    BY <1>1, <1>8, <2>2
  <2> QED
    BY <1>1, <2>1, <2>2
<1>13. Orderly'
  <2>1. Latest <= submitted
    BY <1>4 DEF Orderly
  <2>2. Latest' <= submitted' /\ submitted' - Latest' <= Depth
    BY <1>1, <1>2, <1>9, <2>1
  <2>3. /\ \A i \in 1..Done' : landed'[i] = i
        /\ in_flight' # NoTR => in_flight' = Done' + 1
        /\ fifo_rd' = Done' % PtrModulus
    BY <1>2, <1>4 DEF Orderly
  <2>4. fifo_wr' = submitted' % PtrModulus
    BY <1>1, <1>6
  <2> QED
    BY <1>2, <1>11, <1>12, <2>2, <2>3, <2>4 DEF Orderly
<1> QED
  BY <1>3, <1>9, <1>13

\* Behind a copy comes the next ID; a stop leaves none behind.
LEMMA NextCopyKeepsOrder ==
  ASSUME TypeOK, Orderly, fifo_rd' = Latest % PtrModulus, NextCopyOrStop(fifo_rd'),
         in_flight = NoTR => Occupancy(fifo_wr, fifo_rd') # 0,
         UNCHANGED <<slots, fifo_wr, submitted>>,
         Done' = Latest, \A i \in 1..Latest : landed'[i] = i
  PROVE  Orderly'
<1> DEFINE slot == Latest % Depth
<1>1. /\ Done \in Nat /\ Latest \in Nat /\ submitted \in Nat
      /\ Latest <= submitted /\ submitted - Latest <= Depth
      /\ unlatched \subseteq Slots
  BY DoneType DEF Orderly, TypeOK
<1>2. fifo_rd' % Depth = slot
  BY <1>1, PointerSlot
<1>3. Occupancy(fifo_wr, fifo_rd') = submitted - Latest
  <2>1. submitted - Latest \in 0..Depth+1
    BY <1>1, DepthFacts
  <2> QED
    BY <1>1, <2>1, OccupancyIsExact DEF Orderly
<1>4. /\ \A s \in unlatched : slots[s] \in Latest+1..submitted /\ s = (slots[s] - 1) % Depth
      /\ \A p \in Latest+1..submitted :
            (p - 1) % Depth \in unlatched /\ slots[(p - 1) % Depth] = p
      /\ fifo_wr = submitted % PtrModulus
  BY DEF Orderly
<1>5. CASE Latest < submitted
  <2>1. /\ in_flight' = slots[slot] /\ unlatched' = unlatched \ {slot}
    BY <1>1, <1>2, <1>3, <1>5 DEF NextCopyOrStop, Latched
  <2>2. Latest + 1 \in Latest+1..submitted /\ (Latest + 1) - 1 = Latest
    BY <1>1, <1>5
  <2>3. slot \in unlatched /\ slots[slot] = Latest + 1
    BY <1>4, <2>2
  <2>4. in_flight' = Latest + 1 /\ in_flight' # NoTR /\ Latest' = Latest + 1
    BY <1>1, <2>1, <2>3 DEF Latest, NoTR
  <2>5. ASSUME NEW s \in unlatched'
        PROVE  slots[s] \in Latest+2..submitted /\ s = (slots[s] - 1) % Depth
    <3>1. /\ s \in unlatched /\ s # slot /\ slots[s] \in Latest+1..submitted
          /\ s = (slots[s] - 1) % Depth
      BY <1>4, <2>1
    <3>2. slots[s] # Latest + 1
      BY <2>2, <3>1
    <3> QED
      BY <1>1, <3>1, <3>2
  <2>6. ASSUME NEW p \in Latest+2..submitted
        PROVE  (p - 1) % Depth \in unlatched' /\ slots[(p - 1) % Depth] = p
    <3>1. p \in Latest+1..submitted /\ p # Latest + 1
      BY <1>1
    <3>2. (p - 1) % Depth \in unlatched /\ slots[(p - 1) % Depth] = p
      BY <1>4, <3>1
    <3>3. (p - 1) % Depth # slot
      BY <2>3, <3>1, <3>2
    <3> QED
      BY <2>1, <3>2, <3>3
  <2> HIDE DEF slot
  <2>7. Latest' + 1 = Latest + 2 /\ Latest' <= submitted' /\ submitted' - Latest' <= Depth
    <3>1. submitted' = submitted /\ Depth \in Nat
      BY DepthAssumption
    <3> QED
      BY <1>1, <1>5, <2>4, <3>1
  <2> QED
    BY <1>4, <2>4, <2>5, <2>6, <2>7 DEF Orderly
<1>6. CASE Latest = submitted
  <2>1. Occupancy(fifo_wr, fifo_rd') = 0
    BY <1>1, <1>3, <1>6
  <2>2. in_flight' = NoTR /\ unlatched' = {}
    BY <2>1 DEF NextCopyOrStop, WaitingAfterStop
  <2>3. Latest' = Latest
    BY <1>1, <2>2 DEF Latest
  <2> QED
    BY <1>1, <1>4, <1>6, <2>2, <2>3 DEF Orderly
<1> QED
  BY <1>1, <1>5, <1>6

LEMMA StartKeepsOrder ==
  ASSUME RingInv, Orderly, StartComesDue
  PROVE  Orderly'
<1>1. /\ TypeOK /\ in_flight = NoTR /\ fifo_wr # fifo_rd
      /\ fifo_rd' = fifo_rd /\ NextCopyOrStop(fifo_rd')
      /\ UNCHANGED <<slots, fifo_wr, submitted, landed>>
  BY DEF RingInv, EngineInv, StartComesDue
<1>2. Latest = Done /\ Done' = Done /\ Done \in Nat
  BY <1>1, DoneType DEF Latest, Done
<1>3. Occupancy(fifo_wr, fifo_rd') # 0
  BY <1>1, OccupancyZero DEF TypeOK
<1>4. fifo_rd' = Latest % PtrModulus /\ \A i \in 1..Latest : landed'[i] = i
  BY <1>1, <1>2 DEF Orderly
<1> QED
  BY <1>1, <1>2, <1>3, <1>4, NextCopyKeepsOrder

LEMMA LandKeepsOrder ==
  ASSUME RingInv, Orderly, Land
  PROVE  /\ Orderly'
         /\ landed' = Append(landed, Done + 1) /\ Done < submitted
<1>1. /\ TypeOK /\ in_flight # NoTR /\ landed' = Append(landed, in_flight)
      /\ fifo_rd' = (fifo_rd + 1) % PtrModulus /\ NextCopyOrStop(fifo_rd')
      /\ UNCHANGED <<slots, fifo_wr, submitted>>
  BY DEF RingInv, Land, Advanced
<1>2. /\ Done \in Nat /\ submitted \in Nat /\ Latest = Done + 1
      /\ in_flight = Done + 1 /\ Done < submitted
  BY <1>1, DoneType DEF Latest, Orderly
<1>3. /\ landed \in Seq(Nat) /\ Done' = Done + 1
      /\ \A i \in 1..Done : landed'[i] = landed[i]
      /\ landed'[Done + 1] = Done + 1
  BY <1>1, <1>2 DEF TypeOK, Done
<1>4. \A i \in 1..Latest : landed'[i] = i
  <2> TAKE i \in 1..Latest
  <2>1. i \in 1..Done \/ i = Done + 1
    BY <1>2
  <2> QED
    BY <1>3, <2>1 DEF Orderly
<1>5. fifo_rd' = Latest % PtrModulus
  <2>1. fifo_rd = Done % PtrModulus
    BY DEF Orderly
  <2>2. ((Done % PtrModulus) + 1) % PtrModulus = (Done + 1) % PtrModulus
    BY <1>2, DepthFacts, AdvancedPosition, ZenonT(40)
  <2> QED
    BY <1>1, <1>2, <2>1, <2>2
<1> QED
  BY <1>1, <1>2, <1>3, <1>4, <1>5, NextCopyKeepsOrder

LEMMA OrderStep == RingInv /\ OrderInv /\ [Next]_vars => OrderInv'
<1> SUFFICES ASSUME RingInv, OrderInv, [Next]_vars PROVE OrderInv'
  OBVIOUS
<1>0. TypeOK
  BY DEF RingInv
<1>1. CASE Reset
  BY <1>1, OrderlyFromReset DEF OrderInv
<1>2. ASSUME NEW c \in 1..MaxElapsed, NEW n \in 1..MaxIdsPerXout, Submit(c, n)
      PROVE  OrderInv'
  BY <1>0, <1>2, SubmitKeepsOrder DEF OrderInv
<1>3. ASSUME NEW c \in 1..MaxElapsed,
             ConfigureSource(c) \/ ConfigureRing(c) \/ OtherInstruction(c) \/ Halt(c)
      PROVE  OrderInv'
  BY <1>3, QuietKeepsOrder
  DEF ConfigureSource, ConfigureRing, OtherInstruction, Halt, engine
<1>4. CASE HaltedStep \/ IdleCycle \/ CountDown \/ LandFails
  BY <1>4, QuietKeepsOrder DEF HaltedStep, IdleCycle, CountDown, LandFails, engine
<1>5. CASE StartComesDue
  BY <1>5, StartKeepsOrder DEF OrderInv, StartComesDue
<1>6. CASE Land
  BY <1>6, LandKeepsOrder DEF OrderInv, Land
<1>7. CASE UNCHANGED vars
  BY <1>7, QuietKeepsOrder DEF vars, engine
<1> QED
  BY <1>1, <1>2, <1>3, <1>4, <1>5, <1>6, <1>7 DEF Next, Instruction, EngineCycle
-----------------------------------------------------------------------------
(***************************************************************************)
(* The refinement.  The FIFO's queue is the IDs that have not landed; it   *)
(* is broken once an ID was overwritten.                                   *)
(***************************************************************************)
Outstanding == [i \in 1..(submitted - Done) |-> Done + i]

\* Nothing is broken before and after: the step is one of the FIFO's own.
LEMMA SubmitIsEnqueue ==
  ASSUME TypeOK, OrderInv, NEW c \in 1..MaxElapsed, NEW n \in 1..MaxIdsPerXout,
         Submit(c, n), overflow_events' = 0
  PROVE  Fifo!Enqueue(n)
<1>1. /\ overflow_events = 0 /\ submitted' = submitted + n /\ landed' = landed
      /\ Done' = Done /\ Done \in Nat /\ submitted \in Nat /\ n \in Nat
      /\ Done <= submitted
  <2>1. overflow_events = 0
    BY SubmitKeepsOrder
  <2>2. Done <= submitted
    BY <2>1, DoneType DEF OrderInv, Orderly
  <2> QED
    BY <2>1, <2>2, DoneType, DepthAssumption, XoutAssumption DEF Submit, Done
<1>2. /\ Outstanding \in Seq(Nat) /\ Len(Outstanding) = submitted - Done
      /\ \A i \in 1..(submitted - Done) : Outstanding[i] = Done + i
  BY <1>1 DEF Outstanding
<1> DEFINE added == [i \in 1..n |-> Done + Len(Outstanding) + 1 + i - 1]
<1>3. Outstanding' = [i \in 1..(submitted + n - Done) |-> Done + i]
  BY <1>1 DEF Outstanding
<1>4. /\ added \in Seq(Nat) /\ Len(added) = n
      /\ \A i \in 1..n : added[i] = submitted + i
  BY <1>1, <1>2
<1> HIDE DEF added
<1>5. Outstanding' = Outstanding \o added
  <2>1. /\ Len(Outstanding \o added) = submitted - Done + n
        /\ Outstanding \o added \in Seq(Nat)
        /\ \A i \in 1..(submitted - Done + n) :
              (Outstanding \o added)[i] = IF i <= submitted - Done THEN Outstanding[i]
                                          ELSE added[i - (submitted - Done)]
    <3>1. Outstanding \in Seq(Nat) /\ added \in Seq(Nat)
      BY <1>2, <1>4
    <3>2. /\ Len(Outstanding \o added) = Len(Outstanding) + Len(added)
          /\ Outstanding \o added \in Seq(Nat)
          /\ \A i \in 1..Len(Outstanding) + Len(added) :
                (Outstanding \o added)[i] = IF i <= Len(Outstanding) THEN Outstanding[i]
                                            ELSE added[i - Len(Outstanding)]
      BY ONLY <3>1, ConcatProperties, Zenon
    <3>3. Len(Outstanding) = submitted - Done /\ Len(added) = n
      BY <1>2, <1>4
    <3> QED
      BY ONLY <3>2, <3>3
  <2>2. \A i \in 1..(submitted - Done + n) : (Outstanding \o added)[i] = Done + i
    BY <1>1, <1>2, <1>4, <2>1
  <2>3. submitted + n - Done = submitted - Done + n
    BY <1>1
  <2> QED
    BY <1>1, <1>3, <2>1, <2>2, <2>3, LenProperties
<1> QED
  BY <1>1, <1>5 DEF Fifo!Enqueue, Fifo!NextId, Outstanding, Done, added

\* An ID is overwritten only when the queue and the new IDs exceed the depth.
LEMMA SubmitIsOverrun ==
  ASSUME TypeOK, OrderInv, NEW c \in 1..MaxElapsed, NEW n \in 1..MaxIdsPerXout,
         Submit(c, n), overflow_events = 0, overflow_events' > 0
  PROVE  Fifo!Overrun(n)
<1> DEFINE W == Written(n)
<1>1. /\ Done \in Nat /\ Latest \in Nat /\ submitted \in Nat /\ Done <= Latest
      /\ n \in Nat \ {0} /\ Latest <= submitted /\ unlatched \subseteq Slots
  BY DoneType, DepthAssumption, XoutAssumption DEF OrderInv, Orderly, TypeOK
<1>2. PICK s \in unlatched : s \in W
  <2> SUFFICES ASSUME unlatched \cap W = {} PROVE FALSE
    OBVIOUS
  <2>1. Cardinality(unlatched \cap W) = 0
    BY FS_EmptySet
  <2> QED
    BY <2>1 DEF Submit
<1>3. slots[s] \in Latest+1..submitted /\ s = (slots[s] - 1) % Depth
  BY DEF OrderInv, Orderly
<1>4. s \in Slots /\ fifo_wr = submitted % PtrModulus /\ Offset(s) < n
  BY <1>1, <1>2 DEF OrderInv, Orderly, Written
<1>5. submitted + n - Done > Depth
  <2> DEFINE x == slots[s] - 1
             y == submitted + Offset(s)
  <2>1. Offset(s) \in 0..Depth-1
    <3>1. fifo_wr \in Nat
      BY DepthFacts DEF TypeOK
    <3> QED
      BY <1>4, <3>1, OffsetIsBijection
  <2>2. x \in Nat /\ y \in Nat /\ x < y /\ x >= Latest
    BY <1>1, <1>3, <2>1
  <2>3. y - submitted \in 0..Depth-1
    BY <1>1, <2>1
  <2>4. (y % Depth) \in Slots
    BY <2>2, SlotOfPointer
  <2>5. Offset(y % Depth) = Offset(s)
    <3>1. ((y % Depth) - (submitted % PtrModulus)) % Depth = y - submitted
      BY <1>1, <2>2, <2>3, PointerOffset
    <3>2. y - submitted = Offset(s)
      BY <1>1, <2>1
    <3> HIDE DEF y
    <3> QED
      BY <1>4, <3>1, <3>2 DEF Offset
  <2> HIDE DEF y, x
  <2>6. y % Depth = s
    <3>1. fifo_wr \in Nat
      BY DepthFacts DEF TypeOK
    <3> QED
      BY <1>4, <2>4, <2>5, <3>1, OffsetIsBijection
  <2>7. x % Depth = s
    BY <1>3 DEF x
  <2>8. y - x >= Depth
    BY <2>2, <2>6, <2>7, DepthFacts, SharedSlot
  <2>9. y < submitted + n
    BY <1>1, <1>4, <2>1 DEF y
  <2> QED
    BY <1>1, <2>2, <2>8, <2>9, DepthFacts
<1>6. Len(Outstanding) = submitted - Done
  BY <1>1 DEF Outstanding
<1>7. Len(Outstanding) + n > Depth
  BY <1>1, <1>5, <1>6, DepthFacts
<1>8. Outstanding = [i \in 1..(submitted - Len(landed)) |-> Len(landed) + i]
  BY DEF Outstanding, Done
<1>9. ~(overflow_events > 0) /\ (overflow_events > 0)'
  OBVIOUS
<1>10. Len(IF overflow_events = 0
           THEN [i \in 1..(submitted - Len(landed)) |-> Len(landed) + i]
           ELSE <<>>) + n > Depth
  BY <1>7, <1>8
<1> QED
  BY ONLY <1>9, <1>10 DEF Fifo!Overrun

\* A copy that lands takes the head of the queue.
LEMMA LandIsDeliver ==
  ASSUME RingInv, OrderInv, Land, overflow_events = 0
  PROVE  Fifo!Deliver
<1>1. /\ landed' = Append(landed, Done + 1) /\ Done < submitted
      /\ submitted' = submitted /\ overflow_events' = 0
      /\ Done \in Nat /\ submitted \in Nat /\ landed \in Seq(Nat)
  BY LandKeepsOrder, DoneType DEF OrderInv, RingInv, TypeOK, Land
<1>2. Done' = Done + 1
  BY <1>1 DEF Done
<1>3. /\ Outstanding \in Seq(Nat) /\ Len(Outstanding) = submitted - Done
      /\ \A i \in 1..(submitted - Done) : Outstanding[i] = Done + i
  BY <1>1 DEF Outstanding
<1>4. Outstanding # <<>>
  BY <1>1, <1>3
<1>5. Head(Outstanding) = Done + 1
  BY <1>1, <1>3
<1>6. Outstanding' = Tail(Outstanding)
  <2>1. /\ Tail(Outstanding) \in Seq(Nat) /\ Len(Tail(Outstanding)) = submitted - Done - 1
        /\ \A i \in 1..(submitted - Done - 1) : Tail(Outstanding)[i] = Outstanding[i + 1]
    BY <1>1, <1>3, <1>4, HeadTailProperties
  <2>2. \A i \in 1..(submitted - Done - 1) : Tail(Outstanding)[i] = (Done + 1) + i
    BY <1>1, <1>3, <2>1
  <2>3. Outstanding' = [i \in 1..(submitted - Done - 1) |-> (Done + 1) + i]
    <3>1. submitted - (Done + 1) = submitted - Done - 1
      BY <1>1
    <3> QED
      BY <1>1, <1>2, <3>1 DEF Outstanding
  <2> QED
    BY <2>1, <2>2, <2>3, LenProperties
<1>7. landed' = Append(landed, Head(Outstanding))
  BY <1>1, <1>5
<1>8. ~(overflow_events > 0) /\ ~(overflow_events > 0)'
  BY <1>1
<1> QED
  BY <1>1, <1>4, <1>6, <1>7, <1>8 DEF Fifo!Deliver, Outstanding, Done

\* A reset, whatever was lost before.
LEMMA ResetIsClear == Reset => Fifo!Clear
<1> SUFFICES ASSUME Reset PROVE Fifo!Clear
  OBVIOUS
<1>1. submitted' = 0 /\ landed' = <<>> /\ overflow_events' = 0
  BY DEF Reset, RingReset
<1> QED
  BY <1>1 DEF Fifo!Clear

\* Steps that neither submit nor land are invisible.
LEMMA QuietIsStutter ==
  ASSUME UNCHANGED <<submitted, landed, overflow_events>>
  PROVE  UNCHANGED Fifo!fifoVars
  BY DEF Fifo!fifoVars

LEMMA FifoStep ==
  RingInv /\ RingInv' /\ OrderInv /\ [Next]_vars => [Fifo!FifoNext]_(Fifo!fifoVars)
<1> SUFFICES ASSUME RingInv, RingInv', OrderInv, [Next]_vars
             PROVE  [Fifo!FifoNext]_(Fifo!fifoVars)
  OBVIOUS
<1>0. /\ TypeOK /\ overflow_events \in Nat /\ overflow_events' \in Nat
  BY DEF RingInv, TypeOK
<1>1. CASE Reset
  BY <1>1, ResetIsClear DEF Fifo!FifoNext
<1>2. ASSUME NEW c \in 1..MaxElapsed, NEW n \in 1..MaxIdsPerXout, Submit(c, n)
      PROVE  [Fifo!FifoNext]_(Fifo!fifoVars)
  <2>1. CASE overflow_events' = 0
    BY <1>0, <1>2, <2>1, SubmitIsEnqueue DEF Fifo!FifoNext
  <2>2. CASE overflow_events = 0 /\ overflow_events' > 0
    BY <1>0, <1>2, <2>2, SubmitIsOverrun DEF Fifo!FifoNext
  <2>3. CASE overflow_events > 0 /\ overflow_events' > 0
    <3>1. (overflow_events > 0) /\ (overflow_events > 0)'
      BY <2>3
    <3> QED
      BY ONLY <3>1 DEF Fifo!FifoNext
  <2> QED
    BY <1>0, <2>1, <2>2, <2>3
<1>3. ASSUME NEW c \in 1..MaxElapsed,
             ConfigureSource(c) \/ ConfigureRing(c) \/ OtherInstruction(c) \/ Halt(c)
      PROVE  UNCHANGED Fifo!fifoVars
  BY <1>3, QuietIsStutter
  DEF ConfigureSource, ConfigureRing, OtherInstruction, Halt, fifo, history
<1>4. CASE HaltedStep \/ IdleCycle \/ CountDown \/ LandFails \/ StartComesDue
  BY <1>4, QuietIsStutter
  DEF HaltedStep, IdleCycle, CountDown, LandFails, StartComesDue, fifo, history
<1>5. CASE Land
  <2>1. CASE overflow_events = 0
    BY <1>5, <2>1, LandIsDeliver DEF Fifo!FifoNext
  <2>2. CASE overflow_events > 0
    <3>1. (overflow_events > 0) /\ (overflow_events > 0)'
      BY <1>5, <2>2 DEF Land
    <3> QED
      BY ONLY <3>1 DEF Fifo!FifoNext
  <2> QED
    BY <1>0, <2>1, <2>2
<1>6. CASE UNCHANGED vars
  BY <1>6, QuietIsStutter DEF vars, fifo, history
<1> QED
  BY <1>1, <1>2, <1>3, <1>4, <1>5, <1>6 DEF Next, Instruction, EngineCycle

\* "Landing order is submission order": for every depth, every copy time and
\* every length of instructions, the ring with its aliasing pointers and its
\* late copies is a FIFO of depth Depth, until firmware submits more than it holds.
THEOREM RingIsFifo == Spec => ImplementsFifo
<1>1. Init => OrderInv
  BY OrderlyAtFirst DEF OrderInv
<1>2. Init => Fifo!FifoInit
  BY DEF Init, Fifo!FifoInit
<1> QED
  BY RingInit, RingStep, <1>1, OrderStep, <1>2, FifoStep, PTL
  DEF Spec, ImplementsFifo, Fifo!FifoSpec
=============================================================================
