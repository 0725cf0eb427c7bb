------------------------------ MODULE PruCore -------------------------------
(***************************************************************************)
(* Control of one core: PRUCore.step, reset, run and load of               *)
(* core/pru_core.py, with LoopState of core/branch.py and CycleCounters of *)
(* core/counters.py.  A program is a function from addresses to            *)
(* instructions; an instruction is abstracted to what it does to control:  *)
(* where it may go, whether it may stall, be held, wait, fault or stop.    *)
(* Register contents are left out: a condition, a status bit or a stall is *)
(* chosen freely.                                                          *)
(*                                                                         *)
(* Every unit with a clock of its own is told of the cycles a step took by *)
(* a separate call, in another form: behind[c] is what the core has        *)
(* counted and clock c has not been given.  Counting the lag instead of    *)
(* the cycles keeps the state space finite without a bound on time.  The   *)
(* sigma-delta filter is the exception among the clocks: it is not told of *)
(* cycles but ticked, once by every instruction that is executed.          *)
(***************************************************************************)
EXTENDS Integers

CONSTANTS
  Size,       \* length of the program: addresses 0..Size-1
  Programs,   \* the programs a core may be started with
  Reloads,    \* the programs load_asm may bring in later
  MaxStall,   \* bound: stall cycles of one memory access
  MaxRing,    \* bound: cycles the task ring stays busy after a submission
  MaxLag      \* bound: a clock further behind counts as this far behind

Ops == {"alu", "qb", "jmp", "loop", "mem", "xfr", "ring", "absent", "wait", "halt"}
Instruction == [op : Ops, target : Nat, count : Nat]

ASSUME SizeAssumption == Size \in Nat \ {0}
ASSUME ProgramAssumption == Programs \cup Reloads \subseteq [0..Size-1 -> Instruction]
ASSUME BoundAssumption == {MaxStall, MaxRing, MaxLag} \subseteq Nat

VARIABLES
  program,
  strict,     \* strict_unsupported_xfr
  pc, halted,
  fault,      \* address of the instruction that faulted, or NoFault
  loop,       \* loop_state: a record, or NoLoop
  noted,      \* unsupported_xfr holds a record
  ring_left,  \* cycles until the task ring is idle
  behind,     \* cycles counted by the core a clock has not been given
  aborted,    \* history: a task ring copy raised in the tail of a step
  stalled,    \* history: memory stalls and idle cycles since the last reset
  clean,      \* history: no program was loaded since the last reset
  asked,      \* history: the count of the last LOOP
  begun       \* history: times the first instruction of its body retired

setup   == <<program, strict>>
control == <<setup, pc, halted, fault, loop>>
history == <<clean, asked, begun>>
clocks  == <<ring_left, behind, aborted, stalled>>
vars == <<control, noted, clocks, history>>

NoFault == -1
NoLoop == [count |-> 0, start |-> 0, end |-> 0]
Clocks == {"filter", "perif", "accel", "device", "ring", "observer"}
InStep == [c \in Clocks |-> 0]
Capped(n) == IF n > MaxLag THEN MaxLag ELSE n

Running == ~halted /\ pc \in DOMAIN program
This == program[pc]
Active(l) == l.count > 0

TypeOK ==
  /\ program \in Programs \cup Reloads
  /\ strict \in BOOLEAN
  /\ pc \in Nat
  /\ halted \in BOOLEAN
  /\ fault \in {NoFault} \cup Nat
  /\ loop \in [count : Nat, start : Nat, end : Nat]
  /\ noted \in BOOLEAN
  /\ ring_left \in Nat
  /\ behind \in [Clocks -> Nat]
  /\ aborted \in BOOLEAN
  /\ stalled \in Nat
  /\ clean \in BOOLEAN
  /\ asked \in Nat
  /\ begun \in Nat

Init ==
  /\ program \in Programs
  /\ strict \in BOOLEAN
  /\ pc = 0
  /\ halted = FALSE
  /\ fault = NoFault
  /\ loop = NoLoop
  /\ noted = FALSE
  /\ ring_left = 0
  /\ behind = InStep
  /\ aborted = FALSE
  /\ stalled = 0
  /\ clean = TRUE
  /\ asked = 0
  /\ begun = 0
-----------------------------------------------------------------------------
\* Seeded fault: a loop whose counter has run out is armed for ever.
StuckLoopCheck(next, armed) ==
  IF Active(armed) /\ next = armed.end
  THEN [pc |-> armed.start, loop |-> armed]
  ELSE [pc |-> next, loop |-> armed]

\* The hardware loop check that follows every instruction: at the end
\* address the counter falls, and control goes back or leaves the loop.
LoopCheck(next, armed) ==
  IF Active(armed) /\ next = armed.end
  THEN IF armed.count > 1
       THEN [pc |-> armed.start,
             loop |-> [count |-> armed.count - 1, start |-> armed.start, end |-> armed.end]]
       ELSE [pc |-> next, loop |-> NoLoop]
  ELSE [pc |-> next, loop |-> armed]

\* Seeded fault: a stalled instruction gives the ring one cycle only.
PassOneCycle(spent, ticks, perifLag, ring) ==
  /\ behind' = [behind EXCEPT !["filter"] = Capped(@ + spent - ticks),
                              !["perif"] = perifLag,
                              !["ring"] = Capped(@ + spent - 1)]
  /\ ring_left' = IF ring > 1 THEN ring - 1 ELSE 0
  /\ UNCHANGED aborted

\* The clocks a step gives `spent' cycles to, in the order of the code.  The
\* filter gets `ticks', whatever was spent.  The Peripheral Interface is given
\* an absolute time before the instruction's own cycle is counted; the copy
\* of the ring may raise, and then neither the rest of its cycles nor the
\* cycle observer (the IEP) is reached.
PassTime(spent, ticks, perifLag, ring) ==
  \/ /\ behind' = [behind EXCEPT !["filter"] = Capped(@ + spent - ticks),
                                 !["perif"] = perifLag]
     /\ ring_left' = IF ring > spent THEN ring - spent ELSE 0
     /\ UNCHANGED aborted
  \/ /\ ring > 0
     /\ \E seen \in 0..spent-1 :
          behind' = [behind EXCEPT !["filter"] = Capped(@ + spent - ticks),
                                   !["perif"] = perifLag,
                                   !["ring"] = Capped(@ + spent - seen),
                                   !["observer"] = Capped(@ + spent)]
     /\ ring_left' = ring
     /\ aborted' = TRUE

\* The rest of step(): move, check the loop, let the cycles pass.
Finish(next, armed, stall, ring) ==
  /\ pc' = LoopCheck(next, armed).pc
  /\ loop' = LoopCheck(next, armed).loop
  /\ PassTime(stall + 1, 1, 1, ring)
  /\ stalled' = Capped(stalled + stall)

\* An instruction that is executed once and done with.
Counted ==
  /\ begun' = IF Active(loop) /\ pc = loop.start /\ begun <= asked
              THEN begun + 1 ELSE begun
  /\ UNCHANGED <<clean, asked>>
-----------------------------------------------------------------------------
\* Data movement, arithmetic, logic, shifts, ZERO, FILL, MVI, NOP.
Compute ==
  /\ Running /\ This.op = "alu"
  /\ Finish(pc + 1, loop, 0, ring_left)
  /\ Counted
  /\ UNCHANGED <<setup, halted, fault, noted>>

\* QBxx: taken or not, as the registers say.
ConditionalBranch ==
  /\ Running /\ This.op = "qb"
  /\ \E next \in {pc + 1, This.target} : Finish(next, loop, 0, ring_left)
  /\ Counted
  /\ UNCHANGED <<setup, halted, fault, noted>>

\* QBA, JMP, JAL.
Jump ==
  /\ Running /\ This.op = "jmp"
  /\ Finish(This.target, loop, 0, ring_left)
  /\ Counted
  /\ UNCHANGED <<setup, halted, fault, noted>>

\* LOOP replaces whatever loop was armed.
Loop ==
  /\ Running /\ This.op = "loop"
  /\ Finish(pc + 1, [count |-> This.count, start |-> pc + 1, end |-> This.target],
            0, ring_left)
  /\ asked' = This.count
  /\ begun' = 0
  /\ UNCHANGED <<setup, halted, fault, noted, clean>>

\* LBBO, LBCO, SBBO, SBCO.
Access ==
  /\ Running /\ This.op = "mem"
  /\ \E stall \in 0..MaxStall : Finish(pc + 1, loop, stall, ring_left)
  /\ Counted
  /\ UNCHANGED <<setup, halted, fault, noted>>

\* No region holds the address: the core stops at the instruction.
AccessFaults ==
  /\ Running /\ This.op = "mem"
  /\ halted' = TRUE
  /\ fault' = pc
  /\ Finish(pc, loop, 0, ring_left)
  /\ Counted
  /\ UNCHANGED <<setup, noted>>

\* A transfer the device completes.  One to the task ring may start it.
Transfer ==
  /\ Running /\ This.op \in {"xfr", "ring"}
  /\ \E ring \in IF This.op = "ring" THEN ring_left..MaxRing ELSE {ring_left} :
       Finish(pc + 1, loop, 0, ring)
  /\ Counted
  /\ UNCHANGED <<setup, halted, fault, noted>>

\* Seeded fault: a held transfer moves on when it is the end of a loop.
HeldSlips ==
  /\ Running /\ This.op = "xfr"
  /\ Finish(IF Active(loop) /\ pc + 1 = loop.end THEN pc + 1 ELSE pc, loop, 0, ring_left)
  /\ UNCHANGED <<setup, halted, fault, noted, history>>

\* A device that holds the core: the same instruction is executed again.
TransferHeld ==
  /\ Running /\ This.op = "xfr"
  /\ Finish(pc, loop, 0, ring_left)
  /\ UNCHANGED <<setup, halted, fault, noted, history>>

\* A device the target does not have: recorded, and in strict mode refused
\* before anything else changes.
TransferAbsent ==
  /\ Running /\ This.op = "absent"
  /\ noted' = TRUE
  /\ IF strict
     THEN UNCHANGED <<pc, loop, clocks, history>>
     ELSE Finish(pc + 1, loop, 0, ring_left) /\ Counted
  /\ UNCHANGED <<setup, halted, fault>>

\* WBS, WBC: the bit is there, or the instruction is executed again.
WaitOver ==
  /\ Running /\ This.op = "wait"
  /\ Finish(pc + 1, loop, 0, ring_left)
  /\ Counted
  /\ UNCHANGED <<setup, halted, fault, noted>>

WaitGoesOn ==
  /\ Running /\ This.op = "wait"
  /\ Finish(pc, loop, 0, ring_left)
  /\ UNCHANGED <<setup, halted, fault, noted, history>>

\* HALT and SLP stop at the instruction.
Halt ==
  /\ Running /\ This.op = "halt"
  /\ halted' = TRUE
  /\ Finish(pc, loop, 0, ring_left)
  /\ Counted
  /\ UNCHANGED <<setup, fault, noted>>

\* A stopped core is stepped on, one cycle at a time, until its ring is idle;
\* the Peripheral Interface is then up to date.  The filter is not ticked.
IdleCycle ==
  /\ ~Running
  /\ ring_left > 0
  /\ PassTime(1, 0, 0, ring_left)
  /\ stalled' = Capped(stalled + 1)
  /\ UNCHANGED <<control, noted, history>>

Step ==
  \/ Compute \/ ConditionalBranch \/ Jump \/ Loop \/ Access \/ AccessFaults
  \/ Transfer \/ TransferHeld \/ TransferAbsent \/ WaitOver \/ WaitGoesOn
  \/ Halt \/ IdleCycle

\* Seeded fault: reset() forgets the loop.
ResetKeepsLoop ==
  /\ pc' = 0
  /\ halted' = FALSE
  /\ fault' = NoFault
  /\ noted' = FALSE
  /\ ring_left' = 0
  /\ behind' = InStep
  /\ aborted' = FALSE
  /\ stalled' = 0
  /\ clean' = TRUE
  /\ asked' = 0
  /\ begun' = 0
  /\ UNCHANGED <<setup, loop>>

\* reset(): everything but the program; the ports, the accelerators and the
\* cycle observer are rebased with the counters.  The filter, which counts
\* ticks of its own, goes on where it was: its lag is that since the reset.
Reset ==
  /\ pc' = 0
  /\ halted' = FALSE
  /\ fault' = NoFault
  /\ loop' = NoLoop
  /\ noted' = FALSE
  /\ ring_left' = 0
  /\ behind' = InStep
  /\ aborted' = FALSE
  /\ stalled' = 0
  /\ clean' = TRUE
  /\ asked' = 0
  /\ begun' = 0
  /\ UNCHANGED setup

\* load_asm, load_binary: the program and the fault only.
Load ==
  /\ program' \in Reloads
  /\ fault' = NoFault
  /\ clean' = FALSE
  /\ UNCHANGED <<strict, pc, halted, loop, noted, clocks, asked, begun>>

Next == Step \/ Reset \/ Load

Spec == Init /\ [][Next]_vars

\* Simulator.run keeps stepping a core that is neither stopped nor drained.
FairSpec == Spec /\ WF_vars(Step)
-----------------------------------------------------------------------------
Body(p, i) == i + 1 .. p[i].target - 1
Jumps == {"qb", "jmp"}

\* Loops have a body, are not nested, and no branch leaves a body or returns
\* to its first instruction.
Structured(p) ==
  \A i \in DOMAIN p : p[i].op = "loop" =>
    /\ i + 1 < p[i].target
    /\ p[i].target <= Size
    /\ \A j \in Body(p, i) :
         /\ p[j].op # "loop"
         /\ p[j].op \in Jumps => p[j].target \in i + 2 .. p[i].target

\* Nothing in a body waits, is held or goes back.
Forward(p) ==
  \A i \in DOMAIN p : p[i].op = "loop" =>
    \A j \in Body(p, i) :
      /\ p[j].op \notin {"wait", "xfr", "absent"}
      /\ p[j].op \in Jumps => p[j].target > j

\* In a program whose branches respect the bodies, a counting loop means that
\* control is in the body of the LOOP that armed it: no held transfer, wait,
\* fault or reset leaves a loop armed behind the core's back, where a later
\* arrival at its end address would jump backwards.
LoopConfined ==
  clean /\ Structured(program) /\ Active(loop) =>
    /\ pc \in loop.start .. loop.end - 1
    /\ loop.start - 1 \in DOMAIN program
    /\ program[loop.start - 1].op = "loop"
    /\ program[loop.start - 1].target = loop.end

\* Such a loop that ends has run its body as often as LOOP asked, however
\* often an instruction of it was held, waited or was executed again.
LoopRunsCount ==
  [][clean /\ Structured(program) /\ Active(loop) /\ ~Active(loop') => begun' = asked']_vars

\* All clocks but the filter's see every cycle the core counts, stalls, held
\* transfers, faults and idle cycles included; the Peripheral Interface may be
\* one cycle late.  Only a copy of the ring that raises costs cycles, and costs
\* the IEP no fewer than the ring.  The filter misses the stalls of memory and
\* the idle cycles, all of them, and nothing else: not what a held transfer, a
\* wait, a fault or a step that raises in its tail takes.
ClocksAgree ==
  /\ behind["accel"] = 0
  /\ behind["device"] = 0
  /\ behind["perif"] \in {0, 1}
  /\ behind["ring"] <= behind["observer"]
  /\ ~aborted => behind["ring"] = 0 /\ behind["observer"] = 0
  /\ behind["filter"] = stalled

\* _advance_idle_cycle says of itself that it moves "The same clocks a retired
\* instruction moves at the end of step()": no clock falls back in an idle cycle
\* whose copy does not raise.
IdleMovesAllClocks ==
  [][IdleCycle /\ ~aborted' => \A c \in Clocks : behind'[c] <= behind[c]]_vars

\* A loop with nothing in it that waits or goes back ends or stops the core.
LoopEnds ==
  (Active(loop) /\ clean /\ Structured(program) /\ Forward(program))
    ~> (~Active(loop) \/ halted \/ ~clean)
=============================================================================
