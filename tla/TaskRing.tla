------------------------------ MODULE TaskRing ------------------------------
(***************************************************************************)
(* The XFR2TR ring accelerator of an RTU_PRU core: the submit FIFO, the    *)
(* copy engine and the ring write index of class XFR2TRRing                *)
(* (xfr/task_ring_accelerator.py), driven by PRUCore.step                  *)
(* (core/pru_core.py).                                                     *)
(*                                                                         *)
(* A step of the core is one instruction action, which sets `owed' to the  *)
(* cycles the instruction took, followed by that many EngineCycle actions: *)
(* tick(cycles) is cycles times tick(1), because an idle engine whose busy *)
(* tail has run out no longer changes.                                     *)
(*                                                                         *)
(* A TR ID is abstracted to the ordinal of its submission since reset: the *)
(* engine uses the ID only to compute the source address.  Whether the     *)
(* addresses of the next copy lie inside a memory region is `mapped'.      *)
(***************************************************************************)
EXTENDS Integers, FiniteSets, Sequences

CONSTANTS
  Depth,          \* SUBMIT_FIFO_DEPTH, 8 in the code
  MaxIdsPerXout,  \* MAX_IDS_PER_XOUT, 8 in the code
  ShortCopy,      \* tr_copy_cycles(8), 7 in the code
  LongCopy,       \* tr_copy_cycles(64), 35 in the code
  RingNums,       \* the values of tr_rsrc_nums firmware configures
  MaxElapsed,     \* bound: cycles one instruction may take, stalls included
  MaxSubmitted    \* bound: IDs submitted between two resets

ASSUME DepthAssumption == Depth \in Nat /\ Depth >= 2
ASSUME XoutAssumption == MaxIdsPerXout \in 1..Depth
ASSUME CopyAssumption == ShortCopy \in Nat \ {0} /\ LongCopy \in Nat \ {0}
ASSUME NumsAssumption == RingNums \subseteq Nat /\ 0 \in RingNums
ASSUME BoundAssumption == MaxElapsed \in Nat \ {0} /\ MaxSubmitted \in Nat

VARIABLES
  tr_size_sel,      \* 0 for 8-byte, 1 for 64-byte TRs
  tr_rsrc_nums,     \* configured ring size
  mapped,           \* the configured lists lie in simulated memory
  wrt_index,        \* next ring entry to be written
  slots,            \* _slots: what each submit FIFO slot holds
  fifo_wr, fifo_rd, \* the 4-bit pointers
  unlatched,        \* slots holding an ID no copy has latched
  overflow_events,
  starting,         \* a first copy is due
  in_flight,        \* ID being copied, or NoTR
  cycles_left,
  busy_tail,
  halted,           \* the core executed HALT, faulted or ran off its program
  owed,             \* cycles of the current step the engine has not seen yet
  submitted,        \* history: IDs submitted since reset
  landed,           \* history: IDs copied since reset, in order
  abandoned         \* history: IDs the engine gave up when it stopped

config  == <<tr_size_sel, tr_rsrc_nums, mapped>>
fifo    == <<slots, fifo_wr, unlatched, overflow_events>>
engine  == <<starting, in_flight, cycles_left, busy_tail>>
history == <<submitted, landed, abandoned>>
vars == <<config, wrt_index, fifo, fifo_rd, engine, halted, owed, history>>

NoTR == -1                     \* None: no copy in flight
Slots == 0..Depth-1
PtrModulus == 2 * Depth        \* FIFO_PTR_MODULUS, 16 in the code
TR_START_CYCLES == 1
BUSY_TAIL_CYCLES == 1

tr_copy_cycles(sel) == IF sel = 0 THEN ShortCopy ELSE LongCopy
ring_entries == IF tr_rsrc_nums = 0 THEN 1 ELSE tr_rsrc_nums

Occupancy(wr, rd) == (wr - rd) % PtrModulus
fifo_occ == Occupancy(fifo_wr, fifo_rd)

\* Seeded fault: pointers as wide as a slot index, so that full looks empty.
SlotWide(ptr, n) == (ptr + n) % Depth
\* The pointers have one bit more than a slot index.
Advanced(ptr, n) == (ptr + n) % PtrModulus

engine_idle == in_flight = NoTR /\ ~starting
busy == \/ in_flight # NoTR
        \/ starting
        \/ fifo_occ # 0
        \/ busy_tail > 0
-----------------------------------------------------------------------------
RingReset ==
  /\ tr_size_sel' = 0 /\ tr_rsrc_nums' = 0 /\ mapped' = TRUE
  /\ wrt_index' = 0
  /\ slots' = [s \in Slots |-> 0] /\ fifo_wr' = 0 /\ fifo_rd' = 0
  /\ unlatched' = {} /\ overflow_events' = 0
  /\ starting' = FALSE /\ in_flight' = NoTR /\ cycles_left' = 0 /\ busy_tail' = 0
  /\ submitted' = 0 /\ landed' = <<>> /\ abandoned' = {}

Init ==
  /\ tr_size_sel = 0 /\ tr_rsrc_nums = 0 /\ mapped = TRUE
  /\ wrt_index = 0
  /\ slots = [s \in Slots |-> 0] /\ fifo_wr = 0 /\ fifo_rd = 0
  /\ unlatched = {} /\ overflow_events = 0
  /\ starting = FALSE /\ in_flight = NoTR /\ cycles_left = 0 /\ busy_tail = 0
  /\ halted = FALSE /\ owed = 0
  /\ submitted = 0 /\ landed = <<>> /\ abandoned = {}

\* PRUCore.reset(): between two steps, and again a running core.
Reset == owed = 0 /\ RingReset /\ halted' = FALSE /\ owed' = 0
-----------------------------------------------------------------------------
\* An instruction that takes c cycles is executed by a running core.
Executes(c) == owed = 0 /\ ~halted /\ owed' = c

\* 0x70 XOUT: R6 always, R7 (the TR size) when the transfer is 8 bytes long.
ConfigureSource(c) ==
  /\ Executes(c)
  /\ mapped' \in BOOLEAN
  /\ tr_size_sel' \in {0, 1}
  /\ UNCHANGED <<tr_rsrc_nums, wrt_index, fifo, fifo_rd, engine, halted, history>>

\* 0x71 XOUT: R7 carries the ring size and the reset bit, which returns the
\* write index to the base and leaves FIFO and engine alone.
ConfigureRing(c) ==
  /\ Executes(c)
  /\ mapped' \in BOOLEAN
  /\ \/ UNCHANGED <<tr_rsrc_nums, wrt_index>>
     \/ /\ tr_rsrc_nums' \in RingNums
        /\ wrt_index' \in {wrt_index, 0}
  /\ UNCHANGED <<tr_size_sel, fifo, fifo_rd, engine, halted, history>>

\* 0x72 XOUT of n IDs.  The write pointer never waits: a slot whose ID no copy
\* has latched is overwritten and counted.
Offset(s) == (s - fifo_wr) % Depth
Written(n) == {s \in Slots : Offset(s) < n}

\* Seeded fault: the busy flag, which lags the last landing, decides the start.
StartsWhenNotBusy(occ) == ~busy
StartsEngine(occ) == engine_idle /\ occ # 0

Submit(c, n) ==
  /\ Executes(c)
  /\ submitted + n <= MaxSubmitted
  /\ slots' = [s \in Slots |-> IF s \in Written(n) THEN submitted + 1 + Offset(s)
                                                   ELSE slots[s]]
  /\ unlatched' = unlatched \cup Written(n)
  /\ overflow_events' = overflow_events + Cardinality(unlatched \cap Written(n))
  /\ fifo_wr' = Advanced(fifo_wr, n)
  /\ submitted' = submitted + n
  /\ IF StartsEngine(Occupancy(fifo_wr', fifo_rd))
     THEN starting' = TRUE /\ busy_tail' = 0 /\ cycles_left' = TR_START_CYCLES
     ELSE UNCHANGED <<starting, busy_tail, cycles_left>>
  /\ UNCHANGED <<config, wrt_index, fifo_rd, in_flight, halted, landed, abandoned>>

\* Any other instruction, an XIN of the status among them.
OtherInstruction(c) ==
  /\ Executes(c)
  /\ UNCHANGED <<config, wrt_index, fifo, fifo_rd, engine, halted, history>>

\* HALT, SLP, a memory fault, or the last instruction of the program.
Halt(c) ==
  /\ Executes(c)
  /\ halted' = TRUE
  /\ UNCHANGED <<config, wrt_index, fifo, fifo_rd, engine, history>>

\* step() of a stopped core: one idle cycle as long as the ring is busy.
\* Seeded fault: the ring counts as drained once no copy is in flight.
IdlesWhileCopying == in_flight # NoTR
IdlesWhile == busy

HaltedStep ==
  /\ owed = 0 /\ halted /\ IdlesWhile
  /\ owed' = 1
  /\ UNCHANGED <<config, wrt_index, fifo, fifo_rd, engine, halted, history>>
-----------------------------------------------------------------------------
(***************************************************************************)
(* One cycle of tick().                                                    *)
(***************************************************************************)
CycleElapses == owed > 0 /\ owed' = owed - 1

\* Nothing due: only the busy tail runs out.
IdleCycle ==
  /\ CycleElapses /\ engine_idle
  /\ busy_tail' = IF busy_tail = 0 THEN 0 ELSE busy_tail - 1
  /\ UNCHANGED <<config, wrt_index, fifo, fifo_rd, starting, in_flight, cycles_left,
                 halted, history>>

CountDown ==
  /\ CycleElapses /\ ~engine_idle
  /\ cycles_left > 1
  /\ cycles_left' = cycles_left - 1
  /\ UNCHANGED <<config, wrt_index, fifo, fifo_rd, starting, in_flight, busy_tail,
                 halted, history>>

Due == owed > 0 /\ ~engine_idle /\ cycles_left <= 1

\* Seeded fault: the slot stays marked as waiting while its copy runs.
NotMarkedLatched(slot) == unlatched
Latched(slot) == unlatched \ {slot}

WaitingAfterStop == {}

\* The tail of tick() once a start or a copy is due, with rd the read pointer
\* after it: latch the next ID back to back, or stop.
NextCopyOrStop(rd) ==
  LET slot == rd % Depth IN
  IF Occupancy(fifo_wr, rd) # 0
  THEN /\ in_flight' = slots[slot]
       /\ unlatched' = Latched(slot)
       /\ cycles_left' = tr_copy_cycles(tr_size_sel)
       /\ UNCHANGED <<busy_tail, abandoned>>
  ELSE /\ in_flight' = NoTR
       /\ IF in_flight # NoTR
          THEN /\ unlatched' = WaitingAfterStop
               /\ abandoned' = abandoned \cup {slots[s] : s \in unlatched}
               /\ busy_tail' = BUSY_TAIL_CYCLES
          ELSE UNCHANGED <<unlatched, abandoned, busy_tail>>
       /\ cycles_left' = 0

StartComesDue ==
  /\ Due /\ starting
  /\ owed' = owed - 1
  /\ starting' = FALSE
  /\ fifo_rd' = fifo_rd
  /\ NextCopyOrStop(fifo_rd)
  /\ UNCHANGED <<config, wrt_index, slots, fifo_wr, overflow_events, halted,
                 submitted, landed>>

Land ==
  /\ Due /\ in_flight # NoTR /\ mapped
  /\ owed' = owed - 1
  /\ landed' = Append(landed, in_flight)
  /\ wrt_index' = (wrt_index + 1) % ring_entries
  /\ fifo_rd' = Advanced(fifo_rd, 1)
  /\ starting' = FALSE
  /\ NextCopyOrStop(fifo_rd')
  /\ UNCHANGED <<config, slots, fifo_wr, overflow_events, halted, submitted>>

\* _land() raises: the rest of the step is abandoned, the copy stays in flight
\* and the next cycle tries it again.
LandFails ==
  /\ Due /\ in_flight # NoTR /\ ~mapped
  /\ owed' = 0
  /\ cycles_left' = 0
  /\ UNCHANGED <<config, wrt_index, fifo, fifo_rd, starting, in_flight, busy_tail,
                 halted, history>>

EngineCycle == IdleCycle \/ CountDown \/ StartComesDue \/ Land \/ LandFails
-----------------------------------------------------------------------------
Instruction ==
  \E c \in 1..MaxElapsed :
     \/ ConfigureSource(c)
     \/ ConfigureRing(c)
     \/ \E n \in 1..MaxIdsPerXout : Submit(c, n)
     \/ OtherInstruction(c)
     \/ Halt(c)

Next == Reset \/ Instruction \/ HaltedStep \/ EngineCycle

\* PRUCore.run keeps stepping a stopped core while its ring is busy, and a step
\* ticks the ring through all of its cycles.
Fairness == WF_vars(HaltedStep) /\ WF_vars(EngineCycle)
Spec == Init /\ [][Next]_vars
FairSpec == Spec /\ Fairness
-----------------------------------------------------------------------------
(***************************************************************************)
(* Properties.                                                             *)
(***************************************************************************)
Ids == 1..submitted
LandedIds == {landed[i] : i \in DOMAIN landed}
LatchedIds == LandedIds \cup ({in_flight} \ {NoTR})
WaitingIds == {slots[s] : s \in unlatched}

\* Types of the variables.
FlagsOK == mapped \in BOOLEAN /\ starting \in BOOLEAN /\ halted \in BOOLEAN
TypeOK ==
  /\ FlagsOK
  /\ tr_size_sel \in {0, 1} /\ tr_rsrc_nums \in RingNums
  /\ wrt_index \in Nat
  /\ slots \in [Slots -> Nat]
  /\ fifo_wr \in 0..PtrModulus-1 /\ fifo_rd \in 0..PtrModulus-1
  /\ unlatched \subseteq Slots /\ overflow_events \in Nat
  /\ in_flight \in Nat \cup {NoTR} /\ cycles_left \in Nat
  /\ busy_tail \in 0..BUSY_TAIL_CYCLES
  /\ owed \in Nat
  /\ submitted \in Nat /\ landed \in Seq(Nat) /\ abandoned \subseteq Nat

\* "It will be busy until the FIFO is empty AND the last write completed": when
\* the status read by firmware says not busy, no ID waits for a copy.
NotBusyMeansDrained == ~busy => unlatched = {}

\* overflow_events counts exactly the IDs that were submitted, never copied and
\* not given up by a stop of the engine, whatever order submits, landings,
\* pointer aliasing and stops come in.
OverflowCountsLost ==
  Cardinality(Ids \ (LatchedIds \cup WaitingIds \cup abandoned)) = overflow_events

\* Firmware that never has more than Depth IDs outstanding sees a FIFO: the
\* engine implements TrFifo, its queue being the IDs not landed yet.
Fifo == INSTANCE TrFifo WITH
          queue     <- IF overflow_events = 0
                       THEN [i \in 1..(submitted - Len(landed)) |-> Len(landed) + i]
                       ELSE <<>>,
          delivered <- landed,
          broken    <- overflow_events > 0
ImplementsFifo == Fifo!FifoSpec

\* "queued TRs still land after HALT / end of program": a stopped core drains its
\* ring unless it is reset or the lists lie outside memory.
DrainsAfterHalt == (halted /\ mapped) ~> (~busy \/ ~halted)
=============================================================================
