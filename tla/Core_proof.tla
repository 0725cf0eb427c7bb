----------------------------- MODULE Core_proof ------------------------------
(***************************************************************************)
(* Proofs about a core, and about a UART line at one of its pins.          *)
(*                                                                         *)
(* Control: a loop stays armed only while control is in its body, ends     *)
(* after as many passes as LOOP asked, and the clocks of the units agree   *)
(* with the core's own.                                                    *)
(*                                                                         *)
(* UART line: every transition has a frame and a place in it, and lasts a  *)
(* bit or a gap, so the level in any cycle is that of one bit of one       *)
(* character, or idle.  UartInv says that the receiver waits on an idle    *)
(* line (SilentLine), or is in a character and has its bits so far         *)
(* (Reads), or that a broken stop bit is behind it (Spoilt).               *)
(***************************************************************************)
EXTENDS PruCore, UartLine, SequenceTheorems, Lemmas

-----------------------------------------------------------------------------
(* Control. *)

LoopRec == [count : Nat, start : Nat, end : Nat]

LEMMA ThisTyped ==
  ASSUME TypeOK, Running
  PROVE  /\ This \in Instruction
         /\ This.op \in Ops /\ This.target \in Nat /\ This.count \in Nat
         /\ pc \in 0..Size-1
BY ProgramAssumption, SizeAssumption DEF TypeOK, Running, This, Instruction

\* The loop check yields an address and a loop state, of the same loop.
LEMMA LoopCheckTyped ==
  ASSUME NEW n \in Nat, NEW l \in LoopRec
  PROVE  /\ LoopCheck(n, l).pc \in Nat
         /\ LoopCheck(n, l).loop \in LoopRec
         /\ ~Active(l) => LoopCheck(n, l).pc = n /\ LoopCheck(n, l).loop = l
BY DEF LoopCheck, LoopRec, NoLoop, Active

\* A lag that counts no further than the bound.
LEMMA CappedFacts ==
  ASSUME NEW n \in Nat
  PROVE  /\ Capped(n) \in Nat
         /\ \A m \in Nat : m <= n => Capped(m) <= Capped(n)
BY BoundAssumption DEF Capped

\* A step that spends s cycles and ticks the filter k times: either every
\* other clock is given all of them, or the copy raised in the ring's.
AllGiven(s, k, p) ==
  behind' = [behind EXCEPT !["filter"] = Capped(@ + s - k), !["perif"] = p]

LostFrom(s, k, p, seen) ==
  behind' = [behind EXCEPT !["filter"] = Capped(@ + s - k), !["perif"] = p,
                           !["ring"] = Capped(@ + s - seen),
                           !["observer"] = Capped(@ + s)]

LEMMA PassTimeTyped ==
  ASSUME TypeOK, NEW s \in Nat \ {0}, NEW k \in {0, 1}, NEW p \in {0, 1}, NEW r \in Nat,
         PassTime(s, k, p, r)
  PROVE  /\ ring_left' \in Nat
         /\ behind' \in [Clocks -> Nat]
         /\ aborted' \in BOOLEAN
<1>0. /\ behind \in [Clocks -> Nat] /\ aborted \in BOOLEAN
      /\ Capped(behind["filter"] + s - k) \in Nat
      /\ Capped(behind["observer"] + s) \in Nat
  <2>1. behind["filter"] + s - k \in Nat /\ behind["observer"] + s \in Nat
    BY DEF TypeOK, Clocks
  <2>2. QED
    BY <2>1, CappedFacts DEF TypeOK
<1>1. CASE AllGiven(s, k, p) /\ UNCHANGED aborted
           /\ ring_left' = IF r > s THEN r - s ELSE 0
  BY <1>0, <1>1 DEF AllGiven, Clocks
<1>2. ASSUME NEW seen \in 0..s-1, LostFrom(s, k, p, seen), ring_left' = r, aborted' = TRUE
      PROVE  behind' \in [Clocks -> Nat]
  <2>1. behind["ring"] + s - seen \in Nat
    BY <1>0 DEF Clocks
  <2>2. Capped(behind["ring"] + s - seen) \in Nat
    BY <2>1, CappedFacts
  <2>3. QED
    BY <1>0, <1>2, <2>2 DEF LostFrom, Clocks
<1>3. QED
  BY <1>1, <1>2 DEF PassTime, AllGiven, LostFrom

LEMMA StalledTyped ==
  ASSUME TypeOK, NEW s \in Nat
  PROVE  Capped(stalled + s) \in Nat
BY CappedFacts DEF TypeOK

\* What the end of a step does to the types, whatever the instruction was.
LEMMA FinishTyped ==
  ASSUME TypeOK, NEW n \in Nat, NEW l \in LoopRec, NEW s \in Nat, NEW r \in Nat,
         Finish(n, l, s, r)
  PROVE  /\ pc' \in Nat /\ loop' \in LoopRec
         /\ ring_left' \in Nat /\ behind' \in [Clocks -> Nat] /\ aborted' \in BOOLEAN
         /\ stalled' \in Nat
<1>1. s + 1 \in Nat \ {0}
  OBVIOUS
<1>2. PassTime(s + 1, 1, 1, r)
  BY DEF Finish
<1>3. QED
  BY <1>1, <1>2, PassTimeTyped, LoopCheckTyped, StalledTyped DEF Finish

LEMMA CountedTyped ==
  ASSUME TypeOK, Counted
  PROVE  begun' \in Nat /\ asked' \in Nat /\ clean' \in BOOLEAN
BY DEF Counted, TypeOK

(***************************************************************************)
(* Type correctness: the address, the loop state, the lags of the clocks   *)
(* and the histories stay in their types.                                  *)
(***************************************************************************)
THEOREM TypeCorrect == Spec => []TypeOK
<1>1. Init => TypeOK
  <2> SUFFICES ASSUME Init  PROVE TypeOK
    OBVIOUS
  <2>1. InStep \in [Clocks -> Nat]
    BY DEF InStep
  <2>2. NoLoop \in [count : Nat, start : Nat, end : Nat]
    BY DEF NoLoop
  <2>3. QED
    BY <2>1, <2>2 DEF Init, TypeOK
<1>2. TypeOK /\ [Next]_vars => TypeOK'
  <2> SUFFICES ASSUME TypeOK, [Next]_vars  PROVE TypeOK'
    OBVIOUS
  <2> USE DEF LoopRec
  <2>0. loop \in LoopRec /\ pc \in Nat /\ ring_left \in Nat /\ MaxStall \in Nat /\ MaxRing \in Nat
    BY BoundAssumption DEF TypeOK
  <2>1. ASSUME NEW n \in Nat, NEW s \in Nat, NEW r \in Nat, Finish(n, loop, s, r),
               history' = history \/ Counted, UNCHANGED <<setup, halted, fault>>,
               noted' \in BOOLEAN
        PROVE  TypeOK'
    BY <2>0, <2>1, FinishTyped, CountedTyped DEF TypeOK, setup, history
  <2>2. CASE Compute
    BY <2>0, <2>1, <2>2 DEF Compute, TypeOK
  <2>3. CASE ConditionalBranch
    BY <2>0, <2>1, <2>3, ThisTyped DEF ConditionalBranch, TypeOK
  <2>4. CASE Jump
    BY <2>0, <2>1, <2>4, ThisTyped DEF Jump, TypeOK
  <2>5. CASE Loop
    <3>1. [count |-> This.count, start |-> pc + 1, end |-> This.target] \in LoopRec /\ This.count \in Nat
      BY <2>0, <2>5, ThisTyped DEF Loop
    <3>2. QED
      BY <2>0, <2>5, <3>1, FinishTyped DEF Loop, TypeOK, setup
  <2>6. CASE Access
    <3>1. PICK stall \in 0..MaxStall : Finish(pc + 1, loop, stall, ring_left)
      BY <2>6 DEF Access
    <3>2. stall \in Nat
      BY <2>0, <3>1
    <3>3. QED
      BY <2>0, <2>1, <2>6, <3>1, <3>2 DEF Access, TypeOK
  <2>7. CASE AccessFaults
    BY <2>0, <2>7, FinishTyped, CountedTyped DEF AccessFaults, TypeOK, setup
  <2>8. CASE Transfer
    <3>1. PICK ring \in IF This.op = "ring" THEN ring_left..MaxRing ELSE {ring_left} :
            Finish(pc + 1, loop, 0, ring)
      BY <2>8 DEF Transfer
    <3>2. ring \in Nat
      BY <2>0, <3>1
    <3>3. QED
      BY <2>0, <2>1, <2>8, <3>1, <3>2 DEF Transfer, TypeOK
  <2>9. CASE TransferHeld
    BY <2>0, <2>1, <2>9 DEF TransferHeld, TypeOK
  <2>10. CASE TransferAbsent
    <3>1. CASE strict
      BY <2>10, <3>1 DEF TransferAbsent, TypeOK, setup, clocks, history
    <3>2. CASE ~strict
      BY <2>0, <2>1, <2>10, <3>2 DEF TransferAbsent
    <3>3. QED
      BY <3>1, <3>2
  <2>11. CASE WaitOver
    BY <2>0, <2>1, <2>11 DEF WaitOver, TypeOK
  <2>12. CASE WaitGoesOn
    BY <2>0, <2>1, <2>12 DEF WaitGoesOn, TypeOK
  <2>13. CASE Halt
    BY <2>0, <2>13, FinishTyped, CountedTyped DEF Halt, TypeOK, setup
  <2>14. CASE IdleCycle
    <3>1. stalled + 1 \in Nat
      BY DEF TypeOK
    <3>2. stalled' \in Nat
      BY <2>14, <3>1, CappedFacts DEF IdleCycle
    <3>3. QED
      BY <2>0, <2>14, <3>2, PassTimeTyped DEF IdleCycle, TypeOK, control, setup, history
  <2>15. CASE Reset
    BY <2>15 DEF Reset, TypeOK, setup, NoFault, NoLoop, InStep, Clocks
  <2>16. CASE Load
    BY <2>16 DEF Load, TypeOK, clocks, NoFault
  <2>17. CASE UNCHANGED vars
    BY <2>17 DEF vars, control, setup, clocks, history, TypeOK
  <2>18. QED
    BY <2>2, <2>3, <2>4, <2>5, <2>6, <2>7, <2>8, <2>9, <2>10, <2>11, <2>12, <2>13,
       <2>14, <2>15, <2>16, <2>17 DEF Next, Step
<1>3. QED
  BY <1>1, <1>2, PTL DEF Spec

(***************************************************************************)
(* The clocks.  Every step passes time through PassTime, but for those     *)
(* that pass none.                                                         *)
(***************************************************************************)
LEMMA PassTimeAgrees ==
  ASSUME TypeOK, ClocksAgree, NEW s \in Nat \ {0}, NEW k \in {0, 1}, NEW p \in {0, 1},
         NEW r \in Nat, PassTime(s, k, p, r), stalled' = Capped(stalled + (s - k))
  PROVE  ClocksAgree'
<1>0. /\ behind \in [Clocks -> Nat] /\ stalled \in Nat
      /\ Capped(behind["filter"] + s - k) = stalled'
  BY DEF TypeOK, ClocksAgree, Clocks
<1>1. CASE AllGiven(s, k, p) /\ UNCHANGED aborted
  BY <1>0, <1>1 DEF AllGiven, Clocks, ClocksAgree
<1>2. ASSUME NEW seen \in 0..s-1, LostFrom(s, k, p, seen), aborted' = TRUE
      PROVE  ClocksAgree'
  <2>1. /\ behind["ring"] + s - seen \in Nat /\ behind["observer"] + s \in Nat
        /\ behind["ring"] + s - seen <= behind["observer"] + s
    BY <1>0 DEF Clocks, ClocksAgree
  <2>2. Capped(behind["ring"] + s - seen) <= Capped(behind["observer"] + s)
    BY <2>1, CappedFacts
  <2>3. QED
    BY <1>0, <1>2, <2>2 DEF LostFrom, Clocks, ClocksAgree
<1>3. QED
  BY <1>1, <1>2 DEF PassTime, AllGiven, LostFrom

(***************************************************************************)
(* Every clock of the core's units but the filter's sees every cycle it    *)
(* counts, unless a copy of the ring raised; the filter misses the stalls  *)
(* of memory and the idle cycles, and only these.                          *)
(***************************************************************************)
THEOREM ClocksInStep == Spec => []ClocksAgree
<1>1. Init => ClocksAgree
  BY DEF Init, ClocksAgree, InStep, Clocks
<1>2. TypeOK /\ ClocksAgree /\ [Next]_vars => ClocksAgree'
  <2> SUFFICES ASSUME TypeOK, ClocksAgree, [Next]_vars  PROVE ClocksAgree'
    OBVIOUS
  <2>0. ring_left \in Nat /\ MaxStall \in Nat /\ MaxRing \in Nat
    BY BoundAssumption DEF TypeOK
  <2>1. ASSUME NEW n, NEW l, NEW s \in Nat, NEW r \in Nat, Finish(n, l, s, r)
        PROVE  ClocksAgree'
    <3>1. /\ s + 1 \in Nat \ {0} /\ PassTime(s + 1, 1, 1, r)
          /\ stalled' = Capped(stalled + ((s + 1) - 1))
      BY <2>1 DEF Finish
    <3>2. QED
      BY <3>1, PassTimeAgrees
  <2>2. CASE Access
    BY <2>0, <2>1, <2>2 DEF Access
  <2>3. CASE Transfer
    <3>1. PICK ring \in IF This.op = "ring" THEN ring_left..MaxRing ELSE {ring_left} :
            Finish(pc + 1, loop, 0, ring)
      BY <2>3 DEF Transfer
    <3>2. ring \in Nat
      BY <2>0, <3>1
    <3>3. QED
      BY <2>1, <3>1, <3>2
  <2>4. CASE TransferAbsent
    <3>1. CASE strict
      BY <2>4, <3>1 DEF TransferAbsent, clocks, ClocksAgree
    <3>2. CASE ~strict
      BY <2>0, <2>1, <2>4, <3>2 DEF TransferAbsent
    <3>3. QED
      BY <3>1, <3>2
  <2>5. CASE \/ Compute \/ ConditionalBranch \/ Jump \/ Loop \/ AccessFaults
             \/ TransferHeld \/ WaitOver \/ WaitGoesOn \/ Halt
    BY <2>0, <2>1, <2>5
       DEF Compute, ConditionalBranch, Jump, Loop, AccessFaults, TransferHeld,
           WaitOver, WaitGoesOn, Halt
  <2>6. CASE IdleCycle
    <3>1. PassTime(1, 0, 0, ring_left) /\ stalled' = Capped(stalled + (1 - 0))
      BY <2>6 DEF IdleCycle
    <3>2. QED
      BY <2>0, <3>1, PassTimeAgrees
  <2>7. CASE Reset
    BY <2>7 DEF Reset, ClocksAgree, InStep, Clocks
  <2>8. CASE Load \/ UNCHANGED vars
    BY <2>8 DEF Load, vars, clocks, ClocksAgree
  <2>9. QED
    BY <2>2, <2>3, <2>4, <2>5, <2>6, <2>7, <2>8 DEF Next, Step
<1>3. QED
  BY <1>1, <1>2, TypeCorrect, PTL DEF Spec

(***************************************************************************)
(* The loop.  LoopInv strengthens LoopConfined with the number of passes   *)
(* begun: one per count that is gone, and one more away from the start.    *)
(***************************************************************************)
Inside(l, p) ==
  /\ p \in l.start .. l.end - 1
  /\ l.start - 1 \in DOMAIN program
  /\ program[l.start - 1].op = "loop"
  /\ program[l.start - 1].target = l.end

Passes(l, p, b, n) ==
  /\ l.count <= n
  /\ b = n - l.count + (IF p = l.start THEN 0 ELSE 1)

LoopInv ==
  clean /\ Structured(program) /\ Active(loop) =>
    Inside(loop, pc) /\ (~halted => Passes(loop, pc, begun, asked))

\* A loop that ends ends with its last pass.
LoopStep == clean /\ Structured(program) /\ Active(loop) /\ ~Active(loop') => begun' = asked'

\* In the body of an armed loop nothing arms another, and a branch goes to
\* an address of the body behind its start, or to its end.
LEMMA BodyInstruction ==
  ASSUME TypeOK, Structured(program), Running, Inside(loop, pc)
  PROVE  /\ This.op # "loop"
         /\ This.op \in Jumps => This.target \in loop.start + 1 .. loop.end
         /\ pc + 1 \in loop.start + 1 .. loop.end
<1> DEFINE i == loop.start - 1
<1>1. i \in DOMAIN program /\ program[i].op = "loop" /\ program[i].target = loop.end
  BY DEF Inside
<1>2. loop.start \in Nat /\ loop.end \in Nat /\ pc \in Nat
  BY DEF TypeOK
<1>3. pc \in Body(program, i)
  BY <1>1, <1>2 DEF Inside, Body
<1>4. program[pc].op # "loop" /\ (program[pc].op \in Jumps => program[pc].target \in i + 2 .. loop.end)
  BY <1>1, <1>3 DEF Structured
<1>5. QED
  BY <1>2, <1>4 DEF This, Inside

\* An instruction that retires and goes on in the body, or to its end.
LEMMA RetireInLoop ==
  ASSUME TypeOK, LoopInv, ~halted, ~halted', UNCHANGED <<program, clean>>,
         NEW n \in Nat, NEW s, NEW r, Finish(n, loop, s, r), Counted,
         clean /\ Structured(program) /\ Active(loop) => n \in loop.start + 1 .. loop.end
  PROVE  LoopInv' /\ LoopStep
<1>1. CASE ~(clean /\ Structured(program) /\ Active(loop))
  <2>1. ~Active(loop) => ~Active(loop')
    BY LoopCheckTyped DEF Finish, LoopCheck, Active
  <2>2. QED
    BY <1>1, <2>1 DEF LoopInv, LoopStep
<1>2. CASE clean /\ Structured(program) /\ Active(loop)
  <2>1. /\ loop.count \in Nat \ {0} /\ loop.start \in Nat /\ loop.end \in Nat
        /\ pc \in Nat /\ begun \in Nat /\ asked \in Nat
    BY <1>2 DEF TypeOK, Active
  <2>2. Inside(loop, pc) /\ Passes(loop, pc, begun, asked)
    BY <1>2 DEF LoopInv
  <2>3. n \in loop.start + 1 .. loop.end
    BY <1>2
  <2>4. asked' = asked /\ begun' = asked - loop.count + 1
    BY <2>1, <2>2, <1>2 DEF Counted, Passes
  <2>5. CASE n # loop.end
    <3>1. pc' = n /\ loop' = loop
      BY <2>5 DEF Finish, LoopCheck
    <3>2. Inside(loop, n) /\ Passes(loop, n, begun', asked)
      BY <2>1, <2>2, <2>3, <2>4, <2>5 DEF Inside, Passes
    <3>3. QED
      BY <1>2, <2>4, <3>1, <3>2 DEF LoopInv, LoopStep, Inside
  <2>6. CASE n = loop.end /\ loop.count > 1
    <3>1. /\ pc' = loop.start
          /\ loop' = [count |-> loop.count - 1, start |-> loop.start, end |-> loop.end]
      BY <1>2, <2>6 DEF Finish, LoopCheck
    <3>2. /\ loop'.count = loop.count - 1 /\ loop'.start = loop.start /\ loop'.end = loop.end
          /\ Active(loop')
      BY <2>1, <2>6, <3>1 DEF Active
    <3>3. Inside(loop, loop.start) /\ begun' = asked - (loop.count - 1) + 0 /\ loop.count - 1 <= asked
      BY <2>1, <2>2, <2>4, <2>6 DEF Inside, Passes
    <3>4. Passes(loop', pc', begun', asked')
      BY <2>4, <3>1, <3>2, <3>3 DEF Passes
    <3>5. Inside(loop, loop.start)' 
      BY <3>1, <3>2, <3>3 DEF Inside
    <3>6. QED
      BY <1>2, <3>1, <3>2, <3>4, <3>5 DEF LoopInv, LoopStep, Inside
  <2>7. CASE n = loop.end /\ loop.count = 1
    <3>1. loop' = NoLoop
      BY <1>2, <2>7 DEF Finish, LoopCheck
    <3>2. ~Active(loop')
      BY <3>1 DEF Active, NoLoop
    <3>3. begun' = asked'
      BY <2>1, <2>4, <2>7
    <3>4. QED
      BY <3>2, <3>3 DEF LoopInv, LoopStep
  <2>8. QED
    BY <2>1, <2>5, <2>6, <2>7
<1>3. QED
  BY <1>1, <1>2

\* A step that leaves control where it is and the loop as it is.
LEMMA StayInLoop ==
  ASSUME TypeOK, LoopInv, UNCHANGED program, clean' = clean, NEW s, NEW r, Finish(pc, loop, s, r),
         halted' \/ (halted' = halted /\ UNCHANGED history)
  PROVE  LoopInv' /\ LoopStep
<1>1. CASE ~(clean /\ Structured(program) /\ Active(loop))
  <2>1. ~Active(loop) => ~Active(loop')
    BY LoopCheckTyped DEF Finish, LoopCheck, Active
  <2>2. QED
    BY <1>1, <2>1 DEF LoopInv, LoopStep
<1>2. CASE clean /\ Structured(program) /\ Active(loop)
  <2>1. Inside(loop, pc) /\ (~halted => Passes(loop, pc, begun, asked))
    BY <1>2 DEF LoopInv
  <2>2. loop.end \in Nat /\ loop.start \in Nat /\ pc \in Nat
    BY DEF TypeOK
  <2>3. pc # loop.end
    BY <2>1, <2>2 DEF Inside
  <2>4. pc' = pc /\ loop' = loop
    BY <2>3 DEF Finish, LoopCheck
  <2>5. QED
    BY <1>2, <2>1, <2>4 DEF LoopInv, LoopStep, Inside, Passes, history
<1>3. QED
  BY <1>1, <1>2

LEMMA LoopStepInv == TypeOK /\ LoopInv /\ [Next]_vars => LoopInv' /\ LoopStep
<1> SUFFICES ASSUME TypeOK, LoopInv, [Next]_vars  PROVE LoopInv' /\ LoopStep
  OBVIOUS
<1>0. pc \in Nat /\ (clean /\ Structured(program) /\ Active(loop) => Inside(loop, pc))
  BY DEF TypeOK, LoopInv
<1>1. ASSUME Running, NEW n \in Nat, NEW s, NEW r, Finish(n, loop, s, r), Counted,
             UNCHANGED <<setup, halted>>,
             n = pc + 1 \/ (n = This.target /\ This.op \in Jumps)
      PROVE  LoopInv' /\ LoopStep
  <2>1. clean /\ Structured(program) /\ Active(loop) => n \in loop.start + 1 .. loop.end
    BY <1>0, <1>1, BodyInstruction
  <2>2. ~halted /\ ~halted' /\ UNCHANGED <<program, clean>>
    BY <1>1 DEF Running, setup, Counted
  <2>3. QED
    BY <1>1, <2>1, <2>2, RetireInLoop
<1>2. CASE Compute
  BY <1>0, <1>1, <1>2 DEF Compute
<1>3. CASE ConditionalBranch
  BY <1>0, <1>1, <1>3, ThisTyped DEF ConditionalBranch, Jumps
<1>4. CASE Jump
  BY <1>0, <1>1, <1>4, ThisTyped DEF Jump, Jumps
<1>5. CASE Loop
  <2> DEFINE l == [count |-> This.count, start |-> pc + 1, end |-> This.target]
  <2>1. Finish(pc + 1, l, 0, ring_left) /\ Running /\ This.op = "loop"
    BY <1>5 DEF Loop
  <2>2. /\ pc \in 0..Size-1 /\ program[pc].op = "loop" /\ program[pc].target = This.target
        /\ This.target \in Nat /\ This.count \in Nat /\ pc \in DOMAIN program
    BY <2>1, ThisTyped DEF This, Running
  <2>3. LoopStep
    <3>1. clean /\ Structured(program) /\ Active(loop) => FALSE
      BY <1>0, <2>1, BodyInstruction
    <3>2. QED
      BY <3>1 DEF LoopStep
  <2>4. ASSUME clean', Structured(program)', Active(loop')
        PROVE  Inside(loop, pc)' /\ Passes(loop', pc', begun', asked')
    <3>1. program' = program /\ asked' = This.count /\ begun' = 0
      BY <1>5 DEF Loop, setup
    <3>2. pc + 1 < This.target
      BY <2>2, <2>4, <3>1 DEF Structured
    <3>3. pc' = pc + 1 /\ loop' = l
      BY <2>1, <2>2, <3>2 DEF Finish, LoopCheck
    <3>4. loop'.start = pc + 1 /\ loop'.end = This.target /\ loop'.count = This.count
      BY <3>3
    <3>5. pc + 1 - 1 = pc /\ pc + 1 \in pc + 1 .. This.target - 1
      BY <2>2, <3>2
    <3>6. QED
      BY <2>2, <3>1, <3>3, <3>4, <3>5 DEF Inside, Passes
  <2>5. QED
    BY <2>3, <2>4 DEF LoopInv
<1>6. CASE Access
  <2>1. PICK stall \in 0..MaxStall : Finish(pc + 1, loop, stall, ring_left)
    BY <1>6 DEF Access
  <2>2. QED
    BY <1>0, <1>1, <1>6, <2>1 DEF Access
<1>7. CASE Transfer
  <2>1. PICK ring \in IF This.op = "ring" THEN ring_left..MaxRing ELSE {ring_left} :
          Finish(pc + 1, loop, 0, ring)
    BY <1>7 DEF Transfer
  <2>2. QED
    BY <1>0, <1>1, <1>7, <2>1 DEF Transfer
<1>8. CASE WaitOver
  BY <1>0, <1>1, <1>8 DEF WaitOver
<1>9. CASE TransferAbsent
  <2>1. CASE strict
    BY <1>9, <2>1 DEF TransferAbsent, LoopInv, LoopStep, Inside, Passes, setup, clocks, history
  <2>2. CASE ~strict
    BY <1>0, <1>1, <1>9, <2>2 DEF TransferAbsent
  <2>3. QED
    BY <2>1, <2>2
<1>10. CASE AccessFaults \/ Halt
  <2>1. Finish(pc, loop, 0, ring_left) /\ halted' /\ UNCHANGED program /\ clean' = clean
    BY <1>10 DEF AccessFaults, Halt, setup, Counted
  <2>2. QED
    BY <2>1, StayInLoop
<1>11. CASE TransferHeld \/ WaitGoesOn
  <2>1. /\ Finish(pc, loop, 0, ring_left) /\ halted' = halted
        /\ UNCHANGED <<program, history>> /\ clean' = clean
    BY <1>11 DEF TransferHeld, WaitGoesOn, setup, history
  <2>2. QED
    BY <2>1, StayInLoop
<1>12. CASE IdleCycle \/ UNCHANGED vars
  BY <1>12 DEF IdleCycle, vars, control, setup, history, LoopInv, LoopStep, Inside, Passes
<1>13. CASE Reset
  BY <1>13 DEF Reset, LoopInv, LoopStep, Active, NoLoop
<1>14. CASE Load
  BY <1>14 DEF Load, LoopInv, LoopStep
<1>15. QED
  BY <1>2, <1>3, <1>4, <1>5, <1>6, <1>7, <1>8, <1>9, <1>10, <1>11, <1>12, <1>13, <1>14
     DEF Next, Step

LEMMA LoopInvHolds == Spec => []LoopInv
<1>1. Init => LoopInv
  BY DEF Init, LoopInv, Active, NoLoop
<1>2. QED
  BY <1>1, LoopStepInv, TypeCorrect, PTL DEF Spec

(***************************************************************************)
(* A counting loop means that control is in its body, for every program    *)
(* whose branches respect the bodies of its loops.                         *)
(***************************************************************************)
THEOREM LoopStaysConfined == Spec => []LoopConfined
<1>1. LoopInv => LoopConfined
  BY DEF LoopInv, LoopConfined, Inside
<1>2. QED
  BY <1>1, LoopInvHolds, PTL

(***************************************************************************)
(* A loop that ends has run its body as often as LOOP asked.               *)
(***************************************************************************)
THEOREM LoopCountsPasses == Spec => LoopRunsCount
<1>1. TypeOK /\ LoopInv /\ [Next]_vars =>
        [clean /\ Structured(program) /\ Active(loop) /\ ~Active(loop') => begun' = asked']_vars
  BY LoopStepInv DEF LoopStep
<1>2. QED
  BY <1>1, LoopInvHolds, TypeCorrect, PTL DEF Spec, LoopRunsCount
-----------------------------------------------------------------------------
(* A UART line and its receiver. *)

\* A sequence of pieces of one length, the last one aside: where each piece lies.
LiesIn(seqs, m, q, s) ==
  /\ Len(s) = (q - 1) * m + Len(seqs[q])
  /\ \A i \in 1..q : \A j \in 1..Len(seqs[i]) :
       (i - 1) * m + j \in 1..Len(s) /\ s[(i - 1) * m + j] = seqs[i][j]

\* A piece more behind them.
LEMMA LiesLonger ==
  ASSUME NEW S, NEW seqs \in Seq(Seq(S)), NEW m \in Nat, NEW q \in Nat \ {0}, q + 1 <= Len(seqs),
         Len(seqs[q]) = m, NEW s \in Seq(S), LiesIn(seqs, m, q, s)
  PROVE  LiesIn(seqs, m, q + 1, s \o seqs[q + 1])
<1> DEFINE t == seqs[q + 1]  r == s \o t
<1>1. q + 1 \in 1..Len(seqs) /\ t \in Seq(S) /\ Len(t) \in Nat /\ Len(s) \in Nat
  BY LenProperties
<1>2. Len(s) = q * m
  <2>1. Len(s) = (q - 1) * m + m
    BY DEF LiesIn
  <2>2. (q - 1) * m + m = q * m
    OBVIOUS
  <2> QED BY <2>1, <2>2
<1>3. /\ Len(r) = Len(s) + Len(t)
      /\ \A x \in 1..Len(s) : r[x] = s[x]
      /\ \A x \in 1..Len(t) : r[Len(s) + x] = t[x]
  <2> HIDE DEF t
  <2>1. /\ Len(s \o t) = Len(s) + Len(t)
        /\ \A i \in 1..Len(s) + Len(t) : (s \o t)[i] = IF i <= Len(s) THEN s[i] ELSE t[i - Len(s)]
    BY <1>1, ConcatProperties
  <2>2. ASSUME NEW x \in 1..Len(t)  PROVE (s \o t)[Len(s) + x] = t[x]
    <3>1. Len(s) + x \in 1..Len(s) + Len(t) /\ ~(Len(s) + x <= Len(s)) /\ (Len(s) + x) - Len(s) = x
      BY <1>1
    <3> QED BY <2>1, <3>1
  <2>3. ASSUME NEW x \in 1..Len(s)  PROVE (s \o t)[x] = s[x]
    <3>1. x \in 1..Len(s) + Len(t) /\ x <= Len(s)
      BY <1>1
    <3> QED BY <2>1, <3>1
  <2> QED BY <2>1, <2>2, <2>3
<1> HIDE DEF r
<1>4. ASSUME NEW i \in 1..q+1, NEW j \in 1..Len(seqs[i])
      PROVE  (i - 1) * m + j \in 1..Len(r) /\ r[(i - 1) * m + j] = seqs[i][j]
  <2>1. CASE i = q + 1
    <3>1. (i - 1) * m = Len(s) /\ j \in 1..Len(t)
      BY <1>2, <2>1
    <3> HIDE DEF t
    <3>2. Len(s) + j \in 1..Len(r) /\ r[Len(s) + j] = t[j]
      <4>1. r[Len(s) + j] = t[j]
        BY <1>3, <3>1, Zenon
      <4>2. PICK d \in Nat, e \in Nat, x \in Nat : d = Len(s) /\ e = Len(t) /\ x = j /\ 1 <= x /\ x <= e
        <5>1. Len(s) \in Nat /\ Len(t) \in Nat
          BY <1>1
        <5>2. j \in 1..Len(t)
          BY <3>1, Zenon
        <5>3. j \in Nat /\ 1 <= j /\ j <= Len(t)
          BY ONLY <5>1, <5>2
        <5> QED BY ONLY <5>1, <5>3
      <4>3. d + x \in 1..d + e
        BY <4>2
      <4>4. Len(r) = d + e
        BY <1>3, <4>2
      <4> QED BY <4>1, <4>2, <4>3, <4>4
    <3> QED BY <2>1, <3>1, <3>2 DEF t
  <2>2. CASE i # q + 1
    <3>1. i \in 1..q
      BY <2>2
    <3> DEFINE p == (i - 1) * m + j
    <3>2. p \in 1..Len(s) /\ s[p] = seqs[i][j]
      BY <3>1 DEF LiesIn
    <3> HIDE DEF p, t
    <3>3. p \in 1..Len(r) /\ r[p] = seqs[i][j]
      BY <1>1, <1>3, <3>2
    <3> QED BY <3>3 DEF p
  <2> QED BY <2>1, <2>2
<1>5. Len(r) = ((q + 1) - 1) * m + Len(seqs[q + 1])
  <2>1. ((q + 1) - 1) * m = q * m
    OBVIOUS
  <2> QED BY <1>2, <1>3, <2>1
<1>6. LiesIn(seqs, m, q + 1, r)
  BY <1>4, <1>5 DEF LiesIn
<1> QED BY <1>6 DEF r

\* Flattened, every piece lies where its number says.
LEMMA FlatParts ==
  ASSUME NEW S, NEW seqs \in Seq(Seq(S)), seqs # << >>, NEW m \in Nat,
         \A i \in 1..Len(seqs)-1 : Len(seqs[i]) = m
  PROVE  FlattenSeq(seqs) \in Seq(S) /\ LiesIn(seqs, m, Len(seqs), FlattenSeq(seqs))
<1> DEFINE n == Len(seqs)
<1>1. PICK h : Joins(seqs, h) /\ \A i \in 1..n : h[i] \in Seq(S)
  BY FlatTable
<1>2. n \in Nat \ {0} /\ h[1] = seqs[1] /\ \A i \in 2..n : h[i] = h[i-1] \o seqs[i]
  BY <1>1 DEF Joins
<1> DEFINE P == {q \in Nat : q + 1 <= n => LiesIn(seqs, m, q + 1, h[q + 1])}
<1>3. 0 \in P
  <2>1. LiesIn(seqs, m, 1, h[1])
    <3>1. seqs[1] \in Seq(S) /\ Len(seqs[1]) \in Nat
      BY <1>2, LenProperties
    <3>2. (1 - 1) * m = 0
      OBVIOUS
    <3>3. ASSUME NEW i \in 1..1, NEW j \in 1..Len(seqs[i])
          PROVE  (i - 1) * m + j \in 1..Len(h[1]) /\ h[1][(i - 1) * m + j] = seqs[i][j]
      <4>1. i = 1
        OBVIOUS
      <4>2. (i - 1) * m + j = j /\ j \in 1..Len(seqs[1])
        BY <3>2, <4>1
      <4> HIDE DEF n
      <4> QED BY <1>2, <4>1, <4>2
    <3>4. Len(h[1]) = (1 - 1) * m + Len(seqs[1])
      <4>1. h[1] = seqs[1] /\ Len(seqs[1]) \in Nat
        BY <1>2, <3>1
      <4>2. ASSUME NEW x \in Nat  PROVE (1 - 1) * m + x = x
        BY ONLY m \in Nat, x \in Nat
      <4>3. (1 - 1) * m + Len(seqs[1]) = Len(seqs[1])
        BY ONLY <4>1, <4>2
      <4> QED BY <4>1, <4>3, Zenon
    <3> HIDE DEF n
    <3> QED BY <3>3, <3>4 DEF LiesIn
  <2> QED BY <2>1
<1>4. ASSUME NEW p \in P  PROVE p + 1 \in P
  <2> DEFINE q == p + 1
  <2> SUFFICES ASSUME q + 1 <= n  PROVE LiesIn(seqs, m, q + 1, h[q + 1])
    OBVIOUS
  <2>1. q \in Nat \ {0} /\ q \in 1..n-1 /\ q \in 1..n /\ q + 1 \in 2..n /\ (q + 1) - 1 = q /\ q <= n
    BY <1>2
  <2>2. LiesIn(seqs, m, q, h[q])
    BY <2>1
  <2> HIDE DEF q
  <2>3. h[q + 1] = h[q] \o seqs[q + 1]
    BY <1>2, <2>1
  <2>4. LiesIn(seqs, m, q + 1, h[q] \o seqs[q + 1])
    BY <1>1, <2>1, <2>2, LiesLonger
  <2> QED BY <2>3, <2>4
<1>5. P = Nat
  <2> HIDE DEF P
  <2>1. P \in SUBSET Nat
    BY DEF P
  <2> QED BY <1>3, <1>4, <2>1, SetInduction
<1>6. LiesIn(seqs, m, n, h[n])
  <2>1. n - 1 \in P
    <3> HIDE DEF P
    <3> QED BY <1>2, <1>5
  <2>2. (n - 1) + 1 = n
    BY <1>2
  <2> QED BY <1>2, <2>1, <2>2
<1>7. FlattenSeq(seqs) = h[n] /\ n \in 1..n
  BY <1>1, <1>2, Flattened
<1> QED BY <1>1, <1>6, <1>7

\* Pieces of one length, all of them.
LEMMA FlatEven ==
  ASSUME NEW S, NEW seqs \in Seq(Seq(S)), NEW m \in Nat, \A i \in 1..Len(seqs) : Len(seqs[i]) = m
  PROVE  /\ FlattenSeq(seqs) \in Seq(S) /\ Len(FlattenSeq(seqs)) = Len(seqs) * m
         /\ \A i \in 1..Len(seqs), j \in 1..m :
              (i - 1) * m + j \in 1..Len(seqs) * m /\ FlattenSeq(seqs)[(i - 1) * m + j] = seqs[i][j]
<1>1. CASE seqs = << >>
  <2>1. FlattenSeq(seqs) = << >> /\ Len(seqs) = 0
    BY <1>1, EmptySeq DEF FlattenSeq
  <2>2. 0 * m = 0 /\ 1..0 = {}
    OBVIOUS
  <2> QED BY <2>1, <2>2, EmptySeq
<1>2. CASE seqs # << >>
  <2> DEFINE n == Len(seqs)  f == FlattenSeq(seqs)
  <2>1. n \in Nat \ {0} /\ n \in 1..n
    BY <1>2, EmptySeq, LenProperties
  <2>2. f \in Seq(S) /\ LiesIn(seqs, m, n, f)
    <3>1. \A i \in 1..n-1 : i \in 1..n
      BY <2>1
    <3>2. \A i \in 1..n-1 : Len(seqs[i]) = m
      BY <3>1
    <3> QED BY <1>2, <3>2, FlatParts
  <2>3. Len(f) = n * m
    <3> HIDE DEF n, f
    <3>1. Len(f) = (n - 1) * m + Len(seqs[n])
      BY <2>2 DEF LiesIn
    <3>2. Len(seqs[n]) = m
      BY <2>1 DEF n
    <3>3. (n - 1) * m + m = n * m
      BY <2>1
    <3> QED BY <3>1, <3>2, <3>3
  <2> HIDE DEF f
  <2>4. ASSUME NEW i \in 1..n, NEW j \in 1..m
        PROVE (i - 1) * m + j \in 1..n * m /\ f[(i - 1) * m + j] = seqs[i][j]
    <3>1. j \in 1..Len(seqs[i])
      OBVIOUS
    <3>2. (i - 1) * m + j \in 1..Len(f) /\ f[(i - 1) * m + j] = seqs[i][j]
      BY <2>2, <3>1 DEF LiesIn
    <3> QED BY <2>3, <3>2
  <2> QED BY <2>2, <2>3, <2>4 DEF f
<1> QED BY <1>1, <1>2

\* What the constants are.
LEMMA UartConstants ==
  /\ UartBits \in Nat \ {0} /\ CharTime \in Nat /\ CharTime = UartBits + 2
  /\ GapBits \subseteq Nat /\ Repeats \subseteq Nat \ {0} /\ Periods \subseteq Nat \ {0, 1}
  /\ \A p \in Payloads : p \in Seq(Characters)
  BY UartAssumption DEF CharTime, Characters

\* A character on the line.
LEMMA CharacterLevels ==
  ASSUME NEW char \in Characters
  PROVE  /\ LevelsOf(char) \in Seq({0, 1}) /\ Len(LevelsOf(char)) = CharTime
         /\ LevelsOf(char)[1] = 0 /\ LevelsOf(char)[CharTime] = 1
         /\ \A b \in 1..UartBits : LevelsOf(char)[b + 1] = char[b]
<1>1. char \in Seq({0, 1}) /\ Len(char) = UartBits /\ UartBits \in Nat \ {0}
  BY UartConstants DEF Characters
<1> DEFINE s == << 0 >> \o char
<1>2. /\ s \in Seq({0, 1}) /\ Len(s) = UartBits + 1 /\ s[1] = 0
      /\ \A b \in 1..UartBits : s[b + 1] = char[b]
  BY <1>1
<1> HIDE DEF s
<1>3. /\ s \o << 1 >> \in Seq({0, 1}) /\ Len(s \o << 1 >>) = UartBits + 2
      /\ \A b \in 1..UartBits + 1 : (s \o << 1 >>)[b] = s[b]
      /\ (s \o << 1 >>)[UartBits + 2] = 1
  BY <1>1, <1>2
<1>4. LevelsOf(char) = s \o << 1 >>
  BY DEF LevelsOf, s
<1>5. 1 \in 1..UartBits + 1 /\ \A b \in 1..UartBits : b + 1 \in 1..UartBits + 1
  BY <1>1
<1> QED BY <1>2, <1>3, <1>4, <1>5, UartConstants

\* A payload on the line.
LEMMA PayloadLevels ==
  ASSUME NEW payload \in Payloads
  PROVE  /\ Len(payload) \in Nat /\ \A i \in 1..Len(payload) : payload[i] \in Characters
         /\ Levels(payload) \in Seq({0, 1}) /\ Len(Levels(payload)) = Len(payload) * CharTime
         /\ \A i \in 1..Len(payload), b \in 1..CharTime :
              /\ (i - 1) * CharTime + b \in 1..Len(payload) * CharTime
              /\ Levels(payload)[(i - 1) * CharTime + b] = LevelsOf(payload[i])[b]
<1>1. /\ payload \in Seq(Characters) /\ Len(payload) \in Nat /\ DOMAIN payload = 1..Len(payload)
      /\ \A i \in 1..Len(payload) : payload[i] \in Characters
  BY UartConstants
<1> DEFINE seqs == [i \in DOMAIN payload |-> LevelsOf(payload[i])]
<1>2. ASSUME NEW i \in 1..Len(payload)
      PROVE  seqs[i] = LevelsOf(payload[i]) /\ seqs[i] \in Seq({0, 1}) /\ Len(seqs[i]) = CharTime
  BY <1>1, CharacterLevels
<1>3. seqs \in Seq(Seq({0, 1})) /\ Len(seqs) = Len(payload)
  BY <1>1, <1>2
<1>4. Levels(payload) = FlattenSeq(seqs)
  BY DEF Levels
<1> HIDE DEF seqs
<1>5. /\ FlattenSeq(seqs) \in Seq({0, 1}) /\ Len(FlattenSeq(seqs)) = Len(seqs) * CharTime
      /\ \A i \in 1..Len(seqs), j \in 1..CharTime :
           /\ (i - 1) * CharTime + j \in 1..Len(seqs) * CharTime
           /\ FlattenSeq(seqs)[(i - 1) * CharTime + j] = seqs[i][j]
  <2>1. CharTime \in Nat /\ \A i \in 1..Len(seqs) : Len(seqs[i]) = CharTime
    BY <1>2, <1>3, UartConstants
  <2> QED BY ONLY <1>3, <2>1, FlatEven
<1> QED BY <1>1, <1>2, <1>3, <1>4, <1>5

\* The transitions of one frame; a gap behind all but the last.
BitCount(payload) == Len(payload) * CharTime
FrameTime(payload, cycles, gap) == BitCount(payload) * cycles + Gap(gap, cycles)
TimeOf(payload, trigger, cycles, gap, k, j) ==
  trigger + (k - 1) * FrameTime(payload, cycles, gap) + (j - 1) * cycles

\* The transitions of a frame and their times.
LEMMA FrameIs ==
  ASSUME NEW payload \in Payloads, NEW trigger \in Nat, NEW cycles \in Periods,
         NEW repeats \in Repeats, NEW gap \in GapBits, NEW k \in 1..repeats,
         NEW f, f = Frame(k, payload, trigger, cycles, repeats, gap)
  PROVE  /\ f \in Seq(Transition) /\ Len(f) = (IF k < repeats THEN BitCount(payload) + 1 ELSE BitCount(payload))
         /\ \A j \in 1..BitCount(payload) : /\ f[j].at = TimeOf(payload, trigger, cycles, gap, k, j)
                                        /\ f[j].level = Levels(payload)[j]
         /\ k < repeats => /\ f[BitCount(payload) + 1].at = TimeOf(payload, trigger, cycles, gap, k, BitCount(payload) + 1)
                           /\ f[BitCount(payload) + 1].level = 1
<1> DEFINE M == BitCount(payload)  D == FrameTime(payload, cycles, gap)
           from == trigger + (k - 1) * D
           levels == Levels(payload)
           p == PayloadAt(payload, from, cycles)
           rest == IF k < repeats THEN << [at |-> from + M * cycles, level |-> 1] >> ELSE << >>
<1>1. M \in Nat /\ levels \in Seq({0, 1}) /\ Len(levels) = M /\ DOMAIN levels = 1..M
  BY PayloadLevels, UartConstants DEF BitCount
<1>2. cycles \in Nat /\ gap \in Nat /\ repeats \in Nat /\ k \in Nat \ {0}
  BY UartConstants
<1>3. f = p \o rest
  <2>1. Len(payload) * CharTime * cycles = M * cycles
    BY DEF BitCount
  <2> QED BY <2>1 DEF Frame, FrameTime, BitCount
<1>4. D \in Nat
  <2> HIDE DEF M
  <2>1. M * cycles \in Nat /\ gap * cycles \in Nat
    BY <1>1, <1>2
  <2> QED BY <2>1 DEF FrameTime, Gap, M
<1> HIDE DEF D, M
<1>5. from \in Nat
  <2>1. (k - 1) * D \in Nat
    BY <1>2, <1>4
  <2> QED BY <2>1
<1>6. \A j \in 1..M+1 : TimeOf(payload, trigger, cycles, gap, k, j) = from + (j - 1) * cycles
  BY DEF TimeOf, D
<1> HIDE DEF from, levels
<1>7. /\ p \in Seq(Transition) /\ Len(p) = M
      /\ \A j \in 1..M : p[j].at = from + (j - 1) * cycles /\ p[j].level = levels[j]
  <2>1. p = [i \in 1..M |-> [at |-> from + (i - 1) * cycles, level |-> levels[i]]]
    BY <1>1 DEF PayloadAt, levels
  <2>2. ASSUME NEW j \in 1..M  PROVE from + (j - 1) * cycles \in Nat /\ levels[j] \in {0, 1}
    <3>1. (j - 1) * cycles \in Nat
      BY <1>1, <1>2
    <3> QED BY <1>1, <1>5, <3>1
  <2> HIDE DEF p
  <2>3. ASSUME NEW j \in 1..M
        PROVE p[j] \in Transition /\ p[j].at = from + (j - 1) * cycles /\ p[j].level = levels[j]
    BY <2>1, <2>2 DEF Transition
  <2>4. p \in [1..M -> Transition]
    BY <2>1, <2>3
  <2> QED BY <1>1, <2>3, <2>4
<1>8. M * cycles \in Nat
  BY <1>1, <1>2
<1>9. rest \in Seq(Transition) /\ Len(rest) = IF k < repeats THEN 1 ELSE 0
  <2>1. from + M * cycles \in Nat
    BY <1>5, <1>8
  <2>2. [at |-> from + M * cycles, level |-> 1] \in Transition
    BY <2>1 DEF Transition
  <2>3. PICK t : t = [at |-> from + M * cycles, level |-> 1]
    OBVIOUS
  <2>4. << t >> \in Seq(Transition) /\ Len(<< t >>) = 1 /\ << >> \in Seq(Transition) /\ Len(<< >>) = 0
    BY <2>2, <2>3
  <2> QED BY <2>3, <2>4
<1>10. k < repeats => rest[1].at = from + M * cycles /\ rest[1].level = 1
  OBVIOUS
<1> HIDE DEF p, rest
<1>11. /\ f \in Seq(Transition) /\ Len(f) = M + Len(rest)
       /\ \A j \in 1..M : f[j] = p[j]
       /\ k < repeats => f[M + 1] = rest[1]
  <2>1. /\ Len(p \o rest) = M + Len(rest)
        /\ \A i \in 1..M + Len(rest) : (p \o rest)[i] = IF i <= M THEN p[i] ELSE rest[i - M]
        /\ p \o rest \in Seq(Transition)
    BY <1>7, <1>9, ConcatProperties
  <2>2. ASSUME NEW j \in 1..M  PROVE j \in 1..M + Len(rest) /\ j <= M
    BY <1>1, <1>9
  <2>3. k < repeats => M + 1 \in 1..M + Len(rest) /\ ~(M + 1 <= M) /\ (M + 1) - M = 1
    BY <1>1, <1>9
  <2> QED BY <1>3, <2>1, <2>2, <2>3
<1>12. k < repeats => f[M + 1].at = TimeOf(payload, trigger, cycles, gap, k, M + 1)
  <2>1. ((M + 1) - 1) * cycles = M * cycles /\ M + 1 \in 1..M+1
    BY <1>1
  <2> QED BY <1>6, <1>10, <1>11, <2>1
<1>13. \A j \in 1..M : j \in 1..M+1
  BY <1>1
<1> QED BY <1>6, <1>7, <1>9, <1>10, <1>11, <1>12, <1>13 DEF M, levels

\* Where transition j of frame k is in the timeline.
PlaceIn(payload, k, j) == (k - 1) * (BitCount(payload) + 1) + j

\* Every transition of the timeline, by frame and place.
LEMMA TimelineIs ==
  ASSUME NEW payload \in Payloads, NEW trigger \in Nat, NEW cycles \in Periods,
         NEW repeats \in Repeats, NEW gap \in GapBits,
         NEW T, T = Timeline(payload, trigger, cycles, repeats, gap)
  PROVE  /\ T \in Seq(Transition) /\ Len(T) = (repeats - 1) * (BitCount(payload) + 1) + BitCount(payload)
         /\ \A k \in 1..repeats, j \in 1..BitCount(payload) + 1 :
              k < repeats \/ j <= BitCount(payload) =>
                /\ PlaceIn(payload, k, j) \in 1..Len(T)
                /\ T[PlaceIn(payload, k, j)].at = TimeOf(payload, trigger, cycles, gap, k, j)
                /\ T[PlaceIn(payload, k, j)].level = IF j = BitCount(payload) + 1 THEN 1 ELSE Levels(payload)[j]
<1> DEFINE M == BitCount(payload)
           seqs == [k \in 1..repeats |-> Frame(k, payload, trigger, cycles, repeats, gap)]
<1>1. M \in Nat /\ repeats \in Nat \ {0}
  BY PayloadLevels, UartConstants DEF BitCount
<1>2. ASSUME NEW k \in 1..repeats
      PROVE  /\ seqs[k] \in Seq(Transition) /\ Len(seqs[k]) = (IF k < repeats THEN M + 1 ELSE M)
             /\ \A j \in 1..M : /\ seqs[k][j].at = TimeOf(payload, trigger, cycles, gap, k, j)
                                /\ seqs[k][j].level = Levels(payload)[j]
             /\ k < repeats => /\ seqs[k][M + 1].at = TimeOf(payload, trigger, cycles, gap, k, M + 1)
                               /\ seqs[k][M + 1].level = 1
  <2>1. PICK f : f = Frame(k, payload, trigger, cycles, repeats, gap)
    OBVIOUS
  <2>2. seqs[k] = f
    BY <2>1
  <2> HIDE DEF seqs
  <2> QED BY <2>1, <2>2, FrameIs
<1>3. seqs \in Seq(Seq(Transition)) /\ Len(seqs) = repeats
  <2>1. seqs \in [1..repeats -> Seq(Transition)]
    BY <1>2
  <2> HIDE DEF seqs
  <2>2. DOMAIN seqs = 1..repeats
    BY <2>1
  <2>3. seqs \in Seq(Seq(Transition))
    BY <1>1, <2>1
  <2> QED BY <1>1, <2>2, <2>3
<1>4. T = FlattenSeq(seqs)
  BY DEF Timeline
<1> HIDE DEF seqs, M
<1>5. T \in Seq(Transition) /\ LiesIn(seqs, M + 1, repeats, T)
  <2>1. M + 1 \in Nat /\ seqs # << >> /\ \A i \in 1..Len(seqs)-1 : Len(seqs[i]) = M + 1
    <3>1. ASSUME NEW i \in 1..repeats-1  PROVE i \in 1..repeats /\ i < repeats
      BY <1>1
    <3>2. Len(seqs) # 0
      BY <1>1, <1>3
    <3>3. seqs # << >>
      BY <1>3, <3>2, EmptySeq
    <3>4. ASSUME NEW i \in 1..Len(seqs)-1  PROVE Len(seqs[i]) = M + 1
      <4>1. i \in 1..repeats /\ i < repeats
        BY <1>3, <3>1
      <4> QED BY <1>2, <4>1
    <3> QED BY <1>1, <3>3, <3>4
  <2> QED BY <1>3, <1>4, <2>1, FlatParts
<1>6. Len(T) = (repeats - 1) * (M + 1) + M
  <2>1. repeats \in 1..repeats /\ ~(repeats < repeats)
    BY <1>1
  <2>2. Len(seqs[repeats]) = M
    BY <1>2, <2>1
  <2> QED BY <1>5, <2>2 DEF LiesIn
<1>7. ASSUME NEW k \in 1..repeats, NEW j \in 1..M + 1, k < repeats \/ j <= M
      PROVE  /\ PlaceIn(payload, k, j) \in 1..Len(T)
             /\ T[PlaceIn(payload, k, j)].at = TimeOf(payload, trigger, cycles, gap, k, j)
             /\ T[PlaceIn(payload, k, j)].level = IF j = M + 1 THEN 1 ELSE Levels(payload)[j]
  <2>1. j \in 1..Len(seqs[k])
    BY <1>1, <1>2, <1>7
  <2>2. (k - 1) * (M + 1) + j \in 1..Len(T) /\ T[(k - 1) * (M + 1) + j] = seqs[k][j]
    BY <1>5, <2>1 DEF LiesIn
  <2>3. PlaceIn(payload, k, j) = (k - 1) * (M + 1) + j
    BY DEF PlaceIn, M
  <2>4. CASE j = M + 1
    <3>1. k < repeats
      BY <1>1, <1>7, <2>4
    <3> QED BY <1>2, <2>2, <2>3, <2>4, <3>1
  <2>5. CASE j # M + 1
    <3>1. j \in 1..M
      BY <1>1, <2>5
    <3> QED BY <1>2, <2>2, <2>3, <2>5, <3>1
  <2> QED BY <2>4, <2>5
<1> QED BY <1>5, <1>6, <1>7 DEF M

\* The line as it is laid: what was armed, with the stop bits low that were broken.
NumberOf(payload, k, i) == (k - 1) * Len(payload) + i
BitOf(l, k, i, b) ==
  IF b = CharTime /\ NumberOf(l.payload, k, i) \in l.broken THEN 0 ELSE LevelsOf(l.payload[i])[b]

UartLines ==
  [transitions : Seq(Transition), stops : Seq(Nat), trigger : Nat, end : Nat, period : Nat,
   payload : Seq(Characters), repeats : Nat, broken : SUBSET Nat]

Laid(l, gap) ==
  /\ l \in UartLines
  /\ l.payload \in Payloads /\ l.trigger \in Nat /\ l.period \in Periods /\ l.repeats \in Repeats
  /\ gap \in GapBits
  /\ l.transitions \in Seq(Transition)
  /\ Len(l.transitions) = (l.repeats - 1) * (BitCount(l.payload) + 1) + BitCount(l.payload)
  /\ \A k \in 1..l.repeats, j \in 1..BitCount(l.payload) + 1 :
       k < l.repeats \/ j <= BitCount(l.payload) =>
         /\ PlaceIn(l.payload, k, j) \in 1..Len(l.transitions)
         /\ l.transitions[PlaceIn(l.payload, k, j)].at = TimeOf(l.payload, l.trigger, l.period, gap, k, j)
  /\ \A k \in 1..l.repeats, i \in 1..Len(l.payload), b \in 1..CharTime :
       l.transitions[PlaceIn(l.payload, k, (i - 1) * CharTime + b)].level = BitOf(l, k, i, b)
  /\ \A k \in 1..l.repeats : k < l.repeats => l.transitions[PlaceIn(l.payload, k, BitCount(l.payload) + 1)].level = 1
  /\ l.stops \in Seq(Nat) /\ Len(l.stops) = l.repeats * Len(l.payload)
  /\ \A k \in 1..l.repeats, i \in 1..Len(l.payload) :
       /\ NumberOf(l.payload, k, i) \in 1..l.repeats * Len(l.payload)
       /\ l.stops[NumberOf(l.payload, k, i)] = PlaceIn(l.payload, k, i * CharTime)
  /\ l.end = l.trigger + (l.repeats - 1) * FrameTime(l.payload, l.period, gap) + BitCount(l.payload) * l.period
  /\ l.broken \subseteq 1..l.repeats * Len(l.payload)

\* Characters are numbered through all frames.
LEMMA NumberIs ==
  ASSUME NEW payload \in Payloads, NEW repeats \in Repeats,
         NEW k \in 1..repeats, NEW i \in 1..Len(payload)
  PROVE  /\ NumberOf(payload, k, i) \in 1..repeats * Len(payload)
         /\ (NumberOf(payload, k, i) - 1) \div Len(payload) = k - 1
<1> DEFINE L == Len(payload)
<1>1. L \in Nat \ {0} /\ repeats \in Nat \ {0} /\ i \in 1..L /\ k \in Nat \ {0} /\ k - 1 \in Nat /\ i - 1 \in 0..L-1
  BY PayloadLevels, UartConstants
<1>2. NumberOf(payload, k, i) = (k - 1) * L + i
  BY DEF NumberOf
<1> HIDE DEF L
<1>3. (k - 1) * L \in Nat /\ (k - 1) * L + L <= repeats * L
  <2>1. (k - 1) * L + L = k * L
    BY <1>1
  <2>2. k * L <= repeats * L
    BY <1>1
  <2>3. (k - 1) * L \in Nat
    BY <1>1
  <2> QED BY <2>1, <2>2, <2>3
<1>4. (k - 1) * L + i \in 1..repeats * L
  <2>1. repeats * L \in Nat
    BY <1>1
  <2> QED BY <1>1, <1>3, <2>1
<1>5. ((k - 1) * L + i - 1) \div L = k - 1
  <2>1. (k - 1) * L + i - 1 = (k - 1) * L + (i - 1)
    BY <1>1, <1>3
  <2>2. PICK n : n = (k - 1) * L + i - 1
    OBVIOUS
  <2>3. n = (k - 1) * L + (i - 1)
    BY <2>1, <2>2
  <2>4. n \div L = k - 1
    <3>1. PICK q \in Nat, r \in 0..L-1 : q = k - 1 /\ r = i - 1
      BY <1>1
    <3>2. n = q * L + r
      BY <2>3, <3>1
    <3>3. n \div L = q
      BY <1>1, <3>2, Quotient
    <3> QED BY <3>1, <3>3
  <2> QED BY <2>2, <2>4
<1> QED BY <1>2, <1>4, <1>5 DEF L

\* What is armed is laid.
LEMMA ArmedIsLaid ==
  ASSUME NEW payload \in Payloads, NEW trigger \in Nat, NEW cycles \in Periods,
         NEW repeats \in Repeats, NEW gap \in GapBits,
         NEW l, l = Armed(payload, trigger, cycles, repeats, gap)
  PROVE  Laid(l, gap) /\ l.broken = {}
<1> DEFINE L == Len(payload)  M == BitCount(payload)  D == FrameTime(payload, cycles, gap)
<1>1. /\ L \in Nat /\ M \in Nat /\ M = L * CharTime /\ CharTime \in Nat \ {0} /\ repeats \in Nat \ {0}
      /\ cycles \in Nat /\ gap \in Nat
  BY PayloadLevels, UartConstants DEF BitCount
<1>2. /\ l.payload = payload /\ l.trigger = trigger /\ l.period = cycles /\ l.repeats = repeats
      /\ l.broken = {} /\ l.transitions = Timeline(payload, trigger, cycles, repeats, gap)
      /\ l.stops = [n \in 1..repeats * L |-> StopIndex(n, payload)]
      /\ l.end = trigger + repeats * L * CharTime * cycles + (repeats - 1) * Gap(gap, cycles)
  BY DEF Armed
<1> HIDE DEF L, M
<1>3. /\ l.transitions \in Seq(Transition) /\ Len(l.transitions) = (repeats - 1) * (M + 1) + M
      /\ \A k \in 1..repeats, j \in 1..M + 1 :
           k < repeats \/ j <= M =>
             /\ PlaceIn(payload, k, j) \in 1..Len(l.transitions)
             /\ l.transitions[PlaceIn(payload, k, j)].at = TimeOf(payload, trigger, cycles, gap, k, j)
             /\ l.transitions[PlaceIn(payload, k, j)].level = IF j = M + 1 THEN 1 ELSE Levels(payload)[j]
  <2>1. PICK T : T = Timeline(payload, trigger, cycles, repeats, gap)
    OBVIOUS
  <2>2. l.transitions = T
    BY <1>2, <2>1
  <2> QED BY <2>1, <2>2, TimelineIs DEF M
<1>4. ASSUME NEW k \in 1..repeats, NEW i \in 1..L, NEW b \in 1..CharTime
      PROVE  l.transitions[PlaceIn(payload, k, (i - 1) * CharTime + b)].level = LevelsOf(payload[i])[b]
  <2> DEFINE j == (i - 1) * CharTime + b
  <2>1. j \in 1..M /\ Levels(payload)[j] = LevelsOf(payload[i])[b]
    BY <1>1, PayloadLevels DEF L
  <2> HIDE DEF j
  <2>2. j \in 1..M + 1 /\ j <= M /\ j # M + 1
    BY <1>1, <2>1
  <2> QED BY <1>3, <2>1, <2>2 DEF j
<1>5. ASSUME NEW k \in 1..repeats, k < repeats
      PROVE  l.transitions[PlaceIn(payload, k, M + 1)].level = 1
  <2>1. M + 1 \in 1..M + 1
    BY <1>1
  <2> QED BY <1>3, <1>5, <2>1
<1>6. l.end = trigger + (repeats - 1) * D + M * cycles
  <2>1. PICK g : g = Gap(gap, cycles)
    OBVIOUS
  <2>2. g \in Nat /\ D = M * cycles + g
    <3>1. g = gap * cycles
      BY <2>1 DEF Gap
    <3>2. gap * cycles \in Nat
      BY <1>1
    <3> QED BY <2>1, <3>1, <3>2 DEF FrameTime, M
  <2>3. repeats * L * CharTime * cycles = repeats * (M * cycles)
    <3>1. PICK c : c = CharTime
      OBVIOUS
    <3>2. c \in Nat /\ M = L * c
      BY <1>1, <3>1
    <3>3. ASSUME NEW a \in Nat, NEW n \in Nat, NEW t \in Nat, NEW p \in Nat
          PROVE  a * n * t * p = a * ((n * t) * p)
      BY ONLY a \in Nat, n \in Nat, t \in Nat, p \in Nat
    <3>4. repeats * L * c * cycles = repeats * ((L * c) * cycles)
      BY ONLY <1>1, <3>2, <3>3
    <3> QED BY <3>1, <3>2, <3>4
  <2>4. PICK x : x = M * cycles
    OBVIOUS
  <2>5. x \in Nat
    BY <1>1, <2>4
  <2>6. repeats * x + (repeats - 1) * g = (repeats - 1) * (x + g) + x
    BY ONLY <1>1, <2>2, <2>5
  <2>7. repeats * x \in Nat /\ (repeats - 1) * g \in Nat /\ (repeats - 1) * (x + g) \in Nat
    BY <1>1, <2>2, <2>5
  <2>8. l.end = trigger + repeats * x + (repeats - 1) * g
    BY <1>2, <2>1, <2>3, <2>4
  <2>9. D = x + g
    BY <2>2, <2>4
  <2> HIDE DEF D
  <2>10. l.end = trigger + (repeats - 1) * (x + g) + x
    BY ONLY <2>5, <2>6, <2>7, <2>8, trigger \in Nat
  <2> QED BY <2>4, <2>9, <2>10
<1>7. ASSUME NEW k \in 1..repeats, NEW i \in 1..L
      PROVE  /\ NumberOf(payload, k, i) \in 1..repeats * L
             /\ l.stops[NumberOf(payload, k, i)] = PlaceIn(payload, k, i * CharTime)
  <2>1. NumberOf(payload, k, i) \in 1..repeats * L /\ (NumberOf(payload, k, i) - 1) \div L = k - 1
    BY NumberIs DEF L
  <2>2. StopIndex(NumberOf(payload, k, i), payload) = NumberOf(payload, k, i) * CharTime + (k - 1)
    BY <2>1 DEF StopIndex, L
  <2>3. NumberOf(payload, k, i) * CharTime + (k - 1) = PlaceIn(payload, k, i * CharTime)
    <3>1. ((k - 1) * L + i) * CharTime + (k - 1) = (k - 1) * (L * CharTime + 1) + i * CharTime
      <4>1. ASSUME NEW a \in Nat, NEW c \in Nat, NEW n \in Nat, NEW t \in Nat
            PROVE  (a * n + t) * c + a = a * (n * c + 1) + t * c
        BY ONLY a \in Nat, c \in Nat, n \in Nat, t \in Nat
      <4>2. k - 1 \in Nat /\ i \in Nat
        BY <1>1
      <4> QED BY <1>1, <4>1, <4>2
    <3> QED BY <1>1, <3>1 DEF NumberOf, PlaceIn, L, M
  <2> QED BY <1>2, <2>1, <2>2, <2>3
<1>8. l.stops \in Seq(Nat) /\ Len(l.stops) = repeats * L
  <2>1. repeats * L \in Nat
    BY <1>1
  <2>2. ASSUME NEW n \in 1..repeats * L  PROVE StopIndex(n, payload) \in Nat
    <3>1. L # 0
      <4>1. ASSUME L = 0  PROVE FALSE
        <5>1. repeats * L = 0
          BY <1>1, <4>1
        <5> QED BY <5>1
      <4> QED BY <4>1
    <3>2. (n - 1) \div L \in Nat
      <4>1. PICK x \in Nat : x = n - 1
        BY <2>1
      <4>2. x \div L \in Nat
        BY <1>1, <3>1, DivModParts
      <4> QED BY <4>1, <4>2
    <3>3. n * CharTime \in Nat
      BY <1>1, <2>1
    <3> QED BY <3>2, <3>3 DEF StopIndex, L
  <2> QED BY <1>2, <2>1, <2>2
<1>9. \A k \in 1..repeats, i \in 1..L, b \in 1..CharTime : BitOf(l, k, i, b) = LevelsOf(payload[i])[b]
  BY <1>2 DEF BitOf
<1>10. BitCount(l.payload) = M /\ Len(l.payload) = L /\ FrameTime(l.payload, l.period, gap) = D
  BY <1>2 DEF M, L
<1> HIDE DEF D
<1>11. /\ l.transitions \in Seq(Transition)
       /\ Len(l.transitions) = (l.repeats - 1) * (BitCount(l.payload) + 1) + BitCount(l.payload)
       /\ \A k \in 1..l.repeats, j \in 1..BitCount(l.payload) + 1 :
            k < l.repeats \/ j <= BitCount(l.payload) =>
              /\ PlaceIn(l.payload, k, j) \in 1..Len(l.transitions)
              /\ l.transitions[PlaceIn(l.payload, k, j)].at = TimeOf(l.payload, l.trigger, l.period, gap, k, j)
  BY ONLY <1>2, <1>3, <1>10
<1>12. /\ \A k \in 1..l.repeats, i \in 1..Len(l.payload), b \in 1..CharTime :
            l.transitions[PlaceIn(l.payload, k, (i - 1) * CharTime + b)].level = BitOf(l, k, i, b)
       /\ \A k \in 1..l.repeats : k < l.repeats => l.transitions[PlaceIn(l.payload, k, BitCount(l.payload) + 1)].level = 1
  BY <1>2, <1>4, <1>5, <1>9, <1>10
<1>13. /\ l.stops \in Seq(Nat) /\ Len(l.stops) = l.repeats * Len(l.payload)
       /\ \A k \in 1..l.repeats, i \in 1..Len(l.payload) :
            /\ NumberOf(l.payload, k, i) \in 1..l.repeats * Len(l.payload)
            /\ l.stops[NumberOf(l.payload, k, i)] = PlaceIn(l.payload, k, i * CharTime)
  <2>1. l.stops \in Seq(Nat) /\ Len(l.stops) = l.repeats * Len(l.payload)
    BY ONLY <1>2, <1>8, <1>10
  <2>2. ASSUME NEW k \in 1..l.repeats, NEW i \in 1..Len(l.payload)
        PROVE  /\ NumberOf(l.payload, k, i) \in 1..l.repeats * Len(l.payload)
               /\ l.stops[NumberOf(l.payload, k, i)] = PlaceIn(l.payload, k, i * CharTime)
    <3>1. k \in 1..repeats /\ i \in 1..L
      BY ONLY k \in 1..l.repeats, i \in 1..Len(l.payload), <1>2, <1>10
    <3>2. /\ NumberOf(payload, k, i) \in 1..repeats * L
          /\ l.stops[NumberOf(payload, k, i)] = PlaceIn(payload, k, i * CharTime)
      BY <1>7, <3>1
    <3> QED BY ONLY <1>2, <1>10, <3>2
  <2> QED BY <2>1, <2>2
<1>14. /\ l.end = l.trigger + (l.repeats - 1) * FrameTime(l.payload, l.period, gap) + BitCount(l.payload) * l.period
       /\ l.broken \subseteq 1..l.repeats * Len(l.payload)
  BY <1>2, <1>6, <1>10
<1>15. l.payload \in Payloads /\ l.trigger \in Nat /\ l.period \in Periods /\ l.repeats \in Repeats /\ gap \in GapBits
  BY <1>2
<1>16. l \in UartLines
  <2>1. l.payload \in Seq(Characters) /\ l.period \in Nat /\ l.repeats \in Nat /\ l.broken \in SUBSET Nat
    BY <1>1, <1>2, UartConstants
  <2>2. (repeats - 1) * D \in Nat /\ M * cycles \in Nat
    <3>1. M * cycles \in Nat /\ gap * cycles \in Nat
      BY <1>1
    <3>2. D \in Nat
      BY <3>1 DEF D, FrameTime, Gap, M
    <3>3. PICK r \in Nat : r = repeats - 1
      BY <1>1
    <3>4. r * D \in Nat
      BY <3>2
    <3> QED BY <3>1, <3>3, <3>4
  <2>3. l.end \in Nat
    BY <1>6, <2>2
  <2>4. l = [transitions |-> l.transitions, stops |-> l.stops, trigger |-> l.trigger, end |-> l.end,
             period |-> l.period, payload |-> l.payload, repeats |-> l.repeats, broken |-> l.broken]
    BY DEF Armed
  <2>5. PICK f1, f2, f3, f4, f5, f6, f7, f8 :
          /\ f1 = l.transitions /\ f2 = l.stops /\ f3 = l.trigger /\ f4 = l.end
          /\ f5 = l.period /\ f6 = l.payload /\ f7 = l.repeats /\ f8 = l.broken
    OBVIOUS
  <2>6. /\ f1 \in Seq(Transition) /\ f2 \in Seq(Nat) /\ f3 \in Nat /\ f4 \in Nat /\ f5 \in Nat
        /\ f6 \in Seq(Characters) /\ f7 \in Nat /\ f8 \in SUBSET Nat
    BY ONLY <1>2, <1>3, <1>8, <2>1, <2>3, <2>5, trigger \in Nat
  <2>7. l = [transitions |-> f1, stops |-> f2, trigger |-> f3, end |-> f4,
             period |-> f5, payload |-> f6, repeats |-> f7, broken |-> f8]
    BY ONLY <2>4, <2>5
  <2> QED BY ONLY <2>6, <2>7 DEF UartLines
<1> QED BY <1>2, <1>11, <1>12, <1>13, <1>14, <1>15, <1>16 DEF Laid

\* Every transition is one of a frame.
LEMMA PlaceOf ==
  ASSUME NEW payload \in Payloads, NEW repeats \in Repeats,
         NEW p \in 1..(repeats - 1) * (BitCount(payload) + 1) + BitCount(payload)
  PROVE  \E k \in 1..repeats, j \in 1..BitCount(payload) + 1 :
           (k < repeats \/ j <= BitCount(payload)) /\ p = PlaceIn(payload, k, j)
<1> DEFINE M == BitCount(payload)  d == M + 1
<1>1. M \in Nat /\ repeats \in Nat \ {0} /\ d \in Nat \ {0}
  BY PayloadLevels, UartConstants DEF BitCount
<1>2. PICK x \in Nat : x = p - 1
  BY UartConstants
<1> DEFINE q == x \div d  r == x % d
           k == q + 1  j == r + 1
<1>3. x < (repeats - 1) * d + M
  <2>1. (repeats - 1) * d \in Nat
    BY <1>1
  <2> QED BY <1>1, <1>2, <2>1
<1>4. k = q + 1 /\ j = r + 1
  OBVIOUS
<1>5. q \in Nat /\ r \in 0..M /\ x = q * d + r
  <2> HIDE DEF d
  <2>1. x \div d \in Nat /\ x % d \in 0..d-1 /\ x = (x \div d) * d + (x % d)
    BY <1>1, DivModParts
  <2> HIDE DEF q, r
  <2>2. q \in Nat /\ r \in 0..d-1 /\ x = q * d + r
    BY <2>1 DEF q, r
  <2> QED BY <1>1, <2>2 DEF d
<1> HIDE DEF q, r, d, k, j
<1>6. q <= repeats - 1
  <2>1. ASSUME q >= repeats  PROVE FALSE
    <3>1. q * d >= repeats * d
      BY <1>1, <1>5, <2>1
    <3>2. repeats * d = (repeats - 1) * d + d
      BY <1>1
    <3>3. (repeats - 1) * d \in Nat /\ q * d \in Nat /\ d = M + 1
      BY <1>1, <1>5 DEF d
    <3> QED BY <1>1, <1>3, <1>5, <3>1, <3>2, <3>3
  <2> QED BY <1>1, <1>5, <2>1
<1>7. q = repeats - 1 => r < M
  <2>1. (repeats - 1) * d \in Nat
    BY <1>1
  <2> QED BY <1>1, <1>3, <1>5, <2>1
<1>8. p = PlaceIn(payload, k, j)
  <2>1. q * d \in Nat /\ (k - 1) = q
    BY <1>1, <1>4, <1>5
  <2>2. p = q * d + j
    BY <1>1, <1>2, <1>4, <1>5, <2>1
  <2>3. PlaceIn(payload, k, j) = (k - 1) * d + j
    BY DEF PlaceIn, d, M
  <2> QED BY <2>1, <2>2, <2>3
<1>9. k \in 1..repeats /\ j \in 1..M + 1 /\ (k < repeats \/ j <= M)
  BY <1>1, <1>4, <1>5, <1>6, <1>7
<1> QED BY <1>8, <1>9 DEF M

\* The numbers of a line.
LEMMA LaidNumbers ==
  ASSUME NEW l, NEW gap, Laid(l, gap)
  PROVE  /\ BitCount(l.payload) \in Nat /\ Len(l.payload) \in Nat /\ BitCount(l.payload) = Len(l.payload) * CharTime
         /\ l.trigger \in Nat /\ l.period \in Nat \ {0, 1} /\ l.repeats \in Nat \ {0} /\ gap \in Nat
         /\ Gap(gap, l.period) \in Nat /\ BitCount(l.payload) * l.period \in Nat
         /\ FrameTime(l.payload, l.period, gap) = BitCount(l.payload) * l.period + Gap(gap, l.period)
         /\ FrameTime(l.payload, l.period, gap) \in Nat
<1>1. l.payload \in Payloads /\ l.trigger \in Nat /\ l.period \in Periods /\ l.repeats \in Repeats /\ gap \in GapBits
  BY DEF Laid
<1>2. Len(l.payload) \in Nat /\ CharTime \in Nat /\ l.period \in Nat \ {0, 1} /\ l.repeats \in Nat \ {0} /\ gap \in Nat
  BY <1>1, PayloadLevels, UartConstants
<1>3. BitCount(l.payload) = Len(l.payload) * CharTime /\ BitCount(l.payload) \in Nat
  BY <1>2 DEF BitCount
<1>4. Gap(gap, l.period) \in Nat
  BY <1>2 DEF Gap
<1>5. BitCount(l.payload) * l.period \in Nat
  <2>1. PICK m \in Nat : m = BitCount(l.payload)
    BY <1>3
  <2>2. m * l.period \in Nat
    BY <1>2, <2>1
  <2> QED BY <2>1, <2>2
<1> QED BY <1>1, <1>2, <1>3, <1>4, <1>5 DEF FrameTime

\* Times of transitions: a later one is a bit later at least, one behind a gap a gap.
Lasts(l, gap, j) == IF j = BitCount(l.payload) + 1 THEN Gap(gap, l.period) ELSE l.period
StartsAt(l, gap, k, j) == TimeOf(l.payload, l.trigger, l.period, gap, k, j)
InLine(l, k, j) ==
  /\ k \in 1..l.repeats /\ j \in 1..BitCount(l.payload) + 1
  /\ k < l.repeats \/ j <= BitCount(l.payload)

\* Later transitions begin when the earlier ones have lasted.
LEMMA LaterTime ==
  ASSUME NEW l, NEW gap, Laid(l, gap), NEW k, NEW j, InLine(l, k, j), NEW kk, NEW jj, InLine(l, kk, jj),
         PlaceIn(l.payload, k, j) < PlaceIn(l.payload, kk, jj)
  PROVE  StartsAt(l, gap, k, j) + Lasts(l, gap, j) <= StartsAt(l, gap, kk, jj)
<1> DEFINE M == BitCount(l.payload)  P == l.period  G == Gap(gap, l.period)
           D == FrameTime(l.payload, l.period, gap)
<1>1. /\ M \in Nat /\ P \in Nat /\ G \in Nat /\ M * P \in Nat /\ D = M * P + G /\ D \in Nat
      /\ l.repeats \in Nat /\ l.trigger \in Nat
  BY LaidNumbers
<1>2. /\ k \in 1..l.repeats /\ j \in 1..M + 1 /\ kk \in 1..l.repeats /\ jj \in 1..M + 1
  BY DEF InLine
<1>3. /\ (k - 1) * (M + 1) + j < (kk - 1) * (M + 1) + jj
  BY DEF PlaceIn
<1>4. /\ StartsAt(l, gap, k, j) = l.trigger + (k - 1) * D + (j - 1) * P
      /\ StartsAt(l, gap, kk, jj) = l.trigger + (kk - 1) * D + (jj - 1) * P
      /\ Lasts(l, gap, j) = IF j = M + 1 THEN G ELSE P
  BY DEF StartsAt, TimeOf, Lasts
<1> HIDE DEF M, P, G, D
<1>5. /\ (k - 1) * D \in Nat /\ (kk - 1) * D \in Nat /\ (j - 1) * P \in Nat /\ (jj - 1) * P \in Nat
      /\ (k - 1) * (M + 1) \in Nat /\ (kk - 1) * (M + 1) \in Nat
  BY <1>1, <1>2
<1>6. k <= kk
  <2>1. ASSUME kk < k  PROVE FALSE
    <3>1. (kk - 1) * (M + 1) + (M + 1) = kk * (M + 1)
      BY <1>1, <1>2
    <3>2. kk * (M + 1) <= (k - 1) * (M + 1)
      <4>1. kk <= k - 1 /\ kk \in Nat /\ k - 1 \in Nat /\ M + 1 \in Nat
        BY <1>1, <1>2, <2>1
      <4>2. \A x \in Nat, y \in Nat, z \in Nat : x <= y => x * z <= y * z
        OBVIOUS
      <4> QED BY <4>1, <4>2
    <3> QED BY <1>1, <1>2, <1>3, <1>5, <3>1, <3>2
  <2> QED BY <1>2, <2>1
<1>7. CASE k = kk
  <2>1. j < jj /\ j # M + 1
    BY <1>1, <1>2, <1>3, <1>5, <1>7
  <2>2. (j - 1) * P + P = j * P
    BY <1>1, <1>2
  <2>3. j * P <= (jj - 1) * P
    <3>1. j <= jj - 1 /\ j \in Nat /\ jj - 1 \in Nat
      BY <1>2, <2>1
    <3>2. \A x \in Nat, y \in Nat, z \in Nat : x <= y => x * z <= y * z
      OBVIOUS
    <3> QED BY <1>1, <3>1, <3>2
  <2>4. j * P \in Nat
    BY <1>1, <1>2
  <2>5. (j - 1) * P + P <= (jj - 1) * P
    BY <1>5, <2>2, <2>3, <2>4
  <2> QED BY <1>1, <1>4, <1>5, <1>7, <2>1, <2>5
<1>8. CASE k # kk
  <2>1. (k - 1) * D + D = k * D
    BY <1>1, <1>2
  <2>2. k * D <= (kk - 1) * D
    <3>1. k <= kk - 1 /\ k \in Nat /\ kk - 1 \in Nat
      BY <1>2, <1>6, <1>8
    <3>2. \A x \in Nat, y \in Nat, z \in Nat : x <= y => x * z <= y * z
      OBVIOUS
    <3> QED BY <1>1, <3>1, <3>2
  <2>3. k * D \in Nat
    BY <1>1, <1>2
  <2>4. (k - 1) * D + (M * P + G) <= (kk - 1) * D
    BY <1>1, <1>5, <2>1, <2>2, <2>3
  <2>5. CASE j = M + 1
    <3>1. (j - 1) * P = M * P
      BY <1>1, <2>5
    <3> QED BY <1>1, <1>4, <1>5, <2>4, <2>5, <3>1
  <2>6. CASE j # M + 1
    <3>1. (j - 1) * P + P = j * P /\ j * P \in Nat
      BY <1>1, <1>2
    <3>2. j * P <= M * P
      <4>1. j <= M /\ j \in Nat
        BY <1>1, <1>2, <2>6
      <4>2. \A x \in Nat, y \in Nat, z \in Nat : x <= y => x * z <= y * z
        OBVIOUS
      <4> QED BY <1>1, <4>1, <4>2
    <3> QED BY <1>1, <1>4, <1>5, <2>4, <2>6, <3>1, <3>2
  <2> QED BY <2>5, <2>6
<1> QED BY <1>7, <1>8

\* Every transition is one of these.
LEMMA InLineAll ==
  ASSUME NEW l, NEW gap, Laid(l, gap), NEW p \in DOMAIN l.transitions
  PROVE  \E k, j : /\ InLine(l, k, j) /\ p = PlaceIn(l.payload, k, j)
                   /\ l.transitions[p].at = StartsAt(l, gap, k, j)
<1>1. /\ l.payload \in Payloads /\ l.repeats \in Repeats /\ l.transitions \in Seq(Transition)
      /\ Len(l.transitions) = (l.repeats - 1) * (BitCount(l.payload) + 1) + BitCount(l.payload)
  BY DEF Laid
<1>2. p \in 1..(l.repeats - 1) * (BitCount(l.payload) + 1) + BitCount(l.payload)
  BY <1>1
<1>3. PICK k \in 1..l.repeats, j \in 1..BitCount(l.payload) + 1 :
         (k < l.repeats \/ j <= BitCount(l.payload)) /\ p = PlaceIn(l.payload, k, j)
  BY <1>1, <1>2, PlaceOf
<1>4. l.transitions[p].at = StartsAt(l, gap, k, j)
  BY <1>3 DEF Laid, StartsAt
<1>5. InLine(l, k, j)
  BY <1>3 DEF InLine
<1> QED BY <1>3, <1>4, <1>5

\* Each of them is a transition of the line.
LEMMA InLinePlace ==
  ASSUME NEW l, NEW gap, Laid(l, gap), NEW k, NEW j, InLine(l, k, j)
  PROVE  /\ PlaceIn(l.payload, k, j) \in DOMAIN l.transitions
         /\ l.transitions[PlaceIn(l.payload, k, j)].at = StartsAt(l, gap, k, j)
<1>1. l.transitions \in Seq(Transition)
  BY DEF Laid
<1>2. PlaceIn(l.payload, k, j) \in 1..Len(l.transitions)
  BY DEF Laid, InLine
<1>3. l.transitions[PlaceIn(l.payload, k, j)].at = StartsAt(l, gap, k, j)
  BY DEF Laid, InLine, StartsAt
<1> QED BY <1>1, <1>2, <1>3

\* While a transition lasts, the line has its level.
LEMMA LevelOfPlace ==
  ASSUME NEW l, NEW gap, Laid(l, gap), NEW k, NEW j, InLine(l, k, j), NEW c \in Nat,
         l.trigger <= c, c < l.end,
         StartsAt(l, gap, k, j) <= c, c < StartsAt(l, gap, k, j) + Lasts(l, gap, j)
  PROVE  LevelAt(l, c) = l.transitions[PlaceIn(l.payload, k, j)].level
<1> DEFINE past == {i \in DOMAIN l.transitions : l.transitions[i].at <= c}
           p == PlaceIn(l.payload, k, j)
<1>0. l.transitions \in Seq(Transition) /\ l.trigger \in Nat
  BY DEF Laid
<1>1. p \in past
  BY InLinePlace
<1>2. ASSUME NEW q \in past  PROVE q <= p
  <2>1. PICK kk, jj : /\ InLine(l, kk, jj) /\ q = PlaceIn(l.payload, kk, jj)
                      /\ l.transitions[q].at = StartsAt(l, gap, kk, jj)
    BY InLineAll
  <2>2. ASSUME p < q  PROVE FALSE
    <3>1. StartsAt(l, gap, k, j) + Lasts(l, gap, j) <= StartsAt(l, gap, kk, jj)
      BY <2>1, <2>2, LaterTime
    <3>2. l.transitions[q].at \in Nat /\ l.transitions[p].at \in Nat
      <4>1. l.transitions[q] \in Transition /\ l.transitions[p] \in Transition
        BY <1>0, <1>1
      <4> HIDE DEF p, past
      <4> QED BY <4>1 DEF Transition
    <3>3. StartsAt(l, gap, k, j) \in Nat /\ StartsAt(l, gap, kk, jj) \in Nat
      BY <2>1, <3>2, InLinePlace
    <3>4. Lasts(l, gap, j) \in Nat
      BY LaidNumbers DEF Lasts
    <3>5. StartsAt(l, gap, kk, jj) <= c
      BY <2>1
    <3> QED BY <3>1, <3>3, <3>4, <3>5
  <2>3. p \in Nat /\ q \in Nat
    BY <1>0, <1>1
  <2> QED BY <2>2, <2>3
<1>3. past # {} /\ past \subseteq Nat
  BY <1>0, <1>1
<1> HIDE DEF past, p
<1>4. (CHOOSE i \in past : \A jj \in past : jj <= i) = p
  <2>1. \A i \in past : (\A jj \in past : jj <= i) => i = p
    BY <1>1, <1>2, <1>3
  <2> QED BY <1>1, <1>2, <2>1
<1>5. LevelAt(l, c) = l.transitions[CHOOSE i \in past : \A jj \in past : jj <= i].level
  <2>1. ~(c < l.trigger \/ c >= l.end)
    <3>1. ~(c < l.trigger)
      BY <1>0
    <3>2. l.end \in Nat
      <4>1. l.end = l.trigger + (l.repeats - 1) * FrameTime(l.payload, l.period, gap) + BitCount(l.payload) * l.period
        BY DEF Laid
      <4>2. (l.repeats - 1) * FrameTime(l.payload, l.period, gap) \in Nat
        <5>1. PICK r \in Nat, d \in Nat : r = l.repeats - 1 /\ d = FrameTime(l.payload, l.period, gap)
          BY LaidNumbers, SMTT(30)
        <5>2. r * d \in Nat
          OBVIOUS
        <5> QED BY <5>1, <5>2
      <4>3. l.trigger \in Nat /\ BitCount(l.payload) * l.period \in Nat
        BY LaidNumbers
      <4> QED BY ONLY <4>1, <4>2, <4>3
    <3> QED BY <3>1, <3>2
  <2> QED BY <1>3, <2>1 DEF LevelAt, past
<1> QED BY <1>4, <1>5 DEF p

\* Products keep their order.
LEMMA MultiplesOrdered ==
  ASSUME NEW x \in Nat, NEW y \in Nat, NEW z \in Nat, x <= y  PROVE x * z <= y * z
  OBVIOUS

\* Products of natural numbers.
LEMMA MultipleNat ==
  ASSUME NEW x \in Nat, NEW z \in Nat  PROVE x * z \in Nat
  OBVIOUS

\* Where characters begin, and end.
Begins(l, gap, k, i) == StartsAt(l, gap, k, (i - 1) * CharTime + 1)
CharLasts(l) == CharTime * l.period

\* A character ends where the next one, the gap or the end of the line is.
LEMMA BeginsAre ==
  ASSUME NEW l, NEW gap, Laid(l, gap), NEW k \in 1..l.repeats, NEW i \in 1..Len(l.payload)
  PROVE  /\ Begins(l, gap, k, i) \in Nat /\ l.trigger <= Begins(l, gap, k, i) /\ CharLasts(l) \in Nat
         /\ l.end \in Nat /\ Begins(l, gap, k, i) + CharLasts(l) <= l.end
         /\ i < Len(l.payload) => Begins(l, gap, k, i + 1) = Begins(l, gap, k, i) + CharLasts(l)
         /\ i = Len(l.payload) =>
              /\ StartsAt(l, gap, k, BitCount(l.payload) + 1) = Begins(l, gap, k, i) + CharLasts(l)
              /\ k < l.repeats => Begins(l, gap, k + 1, 1) = Begins(l, gap, k, i) + CharLasts(l) + Gap(gap, l.period)
              /\ k = l.repeats => l.end = Begins(l, gap, k, i) + CharLasts(l)
         /\ \A b \in 1..CharTime :
              /\ StartsAt(l, gap, k, (i - 1) * CharTime + b) = Begins(l, gap, k, i) + (b - 1) * l.period
              /\ (i - 1) * CharTime + b \in 1..BitCount(l.payload)
<1> DEFINE L == Len(l.payload)  C == CharTime  P == l.period  M == BitCount(l.payload)
           G == Gap(gap, l.period)  D == FrameTime(l.payload, l.period, gap)
           R == l.repeats  T == l.trigger  B == Begins(l, gap, k, i)
<1>1. /\ L \in Nat /\ C \in Nat \ {0} /\ P \in Nat /\ M \in Nat /\ M = L * C /\ G \in Nat /\ D \in Nat
      /\ M * P \in Nat /\ D = M * P + G /\ R \in Nat /\ T \in Nat /\ k \in 1..R /\ i \in 1..L
  <2>1. /\ L \in Nat /\ P \in Nat /\ M \in Nat /\ M = L * C /\ G \in Nat /\ D \in Nat
        /\ M * P \in Nat /\ D = M * P + G /\ R \in Nat /\ T \in Nat
    BY LaidNumbers
  <2>2. C \in Nat \ {0}
    BY UartConstants
  <2> QED BY <2>1, <2>2
<1>2. \A x, y : StartsAt(l, gap, x, y) = T + (x - 1) * D + (y - 1) * P
  BY DEF StartsAt, TimeOf
<1>3. l.end = T + (R - 1) * D + M * P
  BY DEF Laid
<1>4. \A x, y : Begins(l, gap, x, y) = T + (x - 1) * D + (((y - 1) * C + 1) - 1) * P
  BY <1>2 DEF Begins
<1>5. CharLasts(l) = C * P
  BY DEF CharLasts
<1> HIDE DEF L, C, P, M, G, D, R, T, B
<1>6. PICK a \in Nat : a = (k - 1) * D
  BY <1>1, MultipleNat
<1>7. PICK u \in Nat : u = (i - 1) * C
  <2>1. i - 1 \in Nat
    BY <1>1
  <2> QED BY <1>1, <2>1, MultipleNat
<1>8. PICK v \in Nat : v = u * P
  BY <1>1, <1>7, MultipleNat
<1>9. PICK w \in Nat : w = C * P
  BY <1>1, MultipleNat
<1>10. B = T + a + v
  <2>1. ((i - 1) * C + 1) - 1 = u
    BY <1>7
  <2> QED BY <1>4, <1>6, <1>8, <2>1 DEF B
<1>11. u + C = i * C /\ i * C <= M /\ i * C \in Nat
  <2>1. (i - 1) * C + C = i * C
    BY <1>1
  <2>2. i * C <= L * C
    BY <1>1, MultiplesOrdered
  <2> QED BY <1>1, <1>7, <2>1, <2>2, MultipleNat
<1>12. (u + C) * P = v + w
  BY <1>1, <1>7, <1>8, <1>9
<1>13. v + w <= M * P
  BY <1>1, <1>7, <1>11, <1>12, MultiplesOrdered
<1>14. a <= (R - 1) * D /\ (R - 1) * D \in Nat
  <2>1. k - 1 \in Nat /\ R - 1 \in Nat /\ k - 1 <= R - 1
    BY <1>1
  <2> QED BY <1>1, <1>6, <2>1, MultiplesOrdered, MultipleNat
<1>15. /\ B \in Nat /\ T <= B /\ CharLasts(l) = w /\ l.end \in Nat /\ B + w <= l.end
  BY <1>1, <1>3, <1>5, <1>9, <1>10, <1>13, <1>14
<1>16. ASSUME i < L  PROVE Begins(l, gap, k, i + 1) = B + w
  <2>1. (((i + 1) - 1) * C + 1) - 1 = u + C
    BY <1>1, <1>11
  <2>2. Begins(l, gap, k, i + 1) = T + a + (u + C) * P
    BY <1>4, <1>6, <2>1
  <2> QED BY <1>1, <1>10, <1>12, <2>2
<1>17. ASSUME i = L
       PROVE  /\ StartsAt(l, gap, k, M + 1) = B + w
              /\ k < R => Begins(l, gap, k + 1, 1) = B + w + G
              /\ k = R => l.end = B + w
  <2>1. M = u + C /\ M * P = v + w
    BY <1>1, <1>11, <1>12, <1>17
  <2>2. StartsAt(l, gap, k, M + 1) = T + a + M * P
    <3>1. (M + 1) - 1 = M
      BY <1>1
    <3> QED BY <1>2, <1>6, <3>1
  <2>3. k < R => Begins(l, gap, k + 1, 1) = T + (a + D)
    <3>1. ((k + 1) - 1) * D = a + D
      BY <1>1, <1>6
    <3>2. (((1 - 1) * C + 1) - 1) * P = 0
      <4>1. ASSUME NEW x \in Nat, NEW y \in Nat  PROVE (((1 - 1) * x + 1) - 1) * y = 0
        BY ONLY x \in Nat, y \in Nat
      <4> QED BY <1>1, <4>1
    <3>3. Begins(l, gap, k + 1, 1) = T + ((k + 1) - 1) * D + (((1 - 1) * C + 1) - 1) * P
      BY <1>4
    <3> QED BY <1>1, <1>6, <3>1, <3>2, <3>3
  <2>4. k = R => l.end = T + a + M * P
    BY <1>3, <1>6
  <2> QED BY <1>1, <1>6, <1>8, <1>9, <1>10, <2>1, <2>2, <2>3, <2>4
<1>18. ASSUME NEW b \in 1..C
       PROVE  /\ StartsAt(l, gap, k, (i - 1) * C + b) = B + (b - 1) * P
              /\ (i - 1) * C + b \in 1..M
  <2>1. StartsAt(l, gap, k, u + b) = T + a + (u + b - 1) * P
    BY <1>2, <1>6
  <2>2. PICK d \in Nat : d = b - 1
    BY <1>1
  <2>3. u + b - 1 = u + d
    BY <1>1, <2>2
  <2>4. (u + d) * P = v + d * P /\ d * P \in Nat
    BY <1>1, <1>8, <2>2
  <2>5. StartsAt(l, gap, k, u + b) = B + d * P
    BY <1>1, <1>6, <1>8, <1>10, <2>1, <2>3, <2>4
  <2>6. u + b \in 1..M
    BY <1>1, <1>7, <1>11
  <2> QED BY <1>7, <2>2, <2>5, <2>6
<1> QED BY <1>5, <1>9, <1>15, <1>16, <1>17, <1>18 DEF L, C, P, M, G, R, T, B

\* What the line shows: bits, gaps, and nothing before and behind.
LEMMA BitSeen ==
  ASSUME NEW l, NEW gap, Laid(l, gap), NEW k \in 1..l.repeats, NEW i \in 1..Len(l.payload),
         NEW b \in 1..CharTime, NEW c \in Nat,
         Begins(l, gap, k, i) + (b - 1) * l.period <= c, c < Begins(l, gap, k, i) + b * l.period
  PROVE  LevelAt(l, c) = BitOf(l, k, i, b)
<1> DEFINE j == (i - 1) * CharTime + b
<1>1. /\ Begins(l, gap, k, i) \in Nat /\ l.trigger <= Begins(l, gap, k, i) /\ CharLasts(l) \in Nat
      /\ l.end \in Nat /\ Begins(l, gap, k, i) + CharLasts(l) <= l.end
      /\ StartsAt(l, gap, k, j) = Begins(l, gap, k, i) + (b - 1) * l.period /\ j \in 1..BitCount(l.payload)
  BY BeginsAre
<1>2. l.trigger \in Nat /\ BitCount(l.payload) \in Nat /\ l.period \in Nat /\ CharTime \in Nat
  BY LaidNumbers, UartConstants
<1> HIDE DEF j
<1>3. (b - 1) * l.period \in Nat /\ (b - 1) * l.period + l.period = b * l.period /\ b * l.period <= CharLasts(l)
  <2>1. b \in Nat /\ b - 1 \in Nat /\ b <= CharTime
    BY <1>2
  <2>2. b * l.period <= CharTime * l.period
    BY <1>2, <2>1, MultiplesOrdered
  <2>3. (b - 1) * l.period + l.period = b * l.period
    BY <1>2, <2>1
  <2> QED BY <1>2, <2>1, <2>2, <2>3, MultipleNat DEF CharLasts
<1>4. InLine(l, k, j) /\ Lasts(l, gap, j) = l.period
  <2>1. PICK x \in Nat : x = BitCount(l.payload)
    BY <1>2
  <2>2. j \in 1..x /\ j # x + 1 /\ j \in 1..x+1
    <3>1. j \in 1..x
      BY <1>1, <2>1, Zenon
    <3> QED BY ONLY <3>1, x \in Nat
  <2> QED BY <2>1, <2>2 DEF InLine, Lasts
<1>5. PICK s : s = StartsAt(l, gap, k, j)
  OBVIOUS
<1>6. PICK x \in Nat, y \in Nat : x = (b - 1) * l.period /\ y = b * l.period /\ x + l.period = y
  BY <1>2, <1>3
<1>7. /\ l.trigger <= c /\ c < l.end /\ StartsAt(l, gap, k, j) <= c
      /\ c < StartsAt(l, gap, k, j) + Lasts(l, gap, j)
  <2>1. Begins(l, gap, k, i) + x <= c /\ c < Begins(l, gap, k, i) + y /\ y <= CharLasts(l)
    BY <1>3, <1>6
  <2>2. s = Begins(l, gap, k, i) + x
    BY <1>1, <1>5, <1>6
  <2>3. ASSUME NEW t \in Nat, NEW e \in Nat, NEW z \in Nat, NEW w \in Nat, NEW p \in Nat, y = x + p,
               t <= z, z + w <= e, z + x <= c, c < z + y, y <= w
        PROVE  t <= c /\ c < e /\ z + x <= c /\ c < (z + x) + p
    BY ONLY <2>3, x \in Nat, y \in Nat, c \in Nat
  <2>4. l.trigger <= c /\ c < l.end /\ s <= c /\ c < s + l.period
    <3>1. PICK z \in Nat, w \in Nat, t \in Nat, e \in Nat, p \in Nat :
            z = Begins(l, gap, k, i) /\ w = CharLasts(l) /\ t = l.trigger /\ e = l.end /\ p = l.period
      BY <1>1, <1>2
    <3>2. y = x + p /\ t <= z /\ z + w <= e /\ z + x <= c /\ c < z + y /\ y <= w
      BY <1>1, <1>6, <2>1, <3>1
    <3> QED BY <2>2, <2>3, <3>1, <3>2, ZenonT(40)
  <2> QED BY <1>4, <1>5, <2>4
<1>8. LevelAt(l, c) = l.transitions[PlaceIn(l.payload, k, j)].level
  BY <1>4, <1>7, LevelOfPlace
<1> QED BY <1>8 DEF Laid, j

\* A gap is idle.
LEMMA GapSeen ==
  ASSUME NEW l, NEW gap, Laid(l, gap), NEW k \in 1..l.repeats, k < l.repeats, Len(l.payload) # 0, NEW c \in Nat,
         Begins(l, gap, k, Len(l.payload)) + CharLasts(l) <= c, c < Begins(l, gap, k + 1, 1)
  PROVE  LevelAt(l, c) = 1
<1> DEFINE j == BitCount(l.payload) + 1  L == Len(l.payload)
<1>1. L \in Nat /\ L \in 1..L /\ 1 \in 1..L /\ k + 1 \in 1..l.repeats /\ l.trigger \in Nat /\ BitCount(l.payload) \in Nat
      /\ Gap(gap, l.period) \in Nat
  BY LaidNumbers, SMTT(30)
<1>2. /\ Begins(l, gap, k, L) \in Nat /\ l.trigger <= Begins(l, gap, k, L) /\ CharLasts(l) \in Nat
      /\ StartsAt(l, gap, k, j) = Begins(l, gap, k, L) + CharLasts(l)
      /\ Begins(l, gap, k + 1, 1) = Begins(l, gap, k, L) + CharLasts(l) + Gap(gap, l.period)
  BY <1>1, BeginsAre
<1>3. Begins(l, gap, k + 1, 1) + CharLasts(l) <= l.end /\ l.end \in Nat
  BY <1>1, BeginsAre
<1>4. InLine(l, k, j) /\ Lasts(l, gap, j) = Gap(gap, l.period)
  BY <1>1 DEF InLine, Lasts
<1>5. l.transitions[PlaceIn(l.payload, k, j)].level = 1
  BY DEF Laid
<1> HIDE DEF j, L
<1>6. /\ l.trigger <= c /\ c < l.end /\ StartsAt(l, gap, k, j) <= c
      /\ c < StartsAt(l, gap, k, j) + Lasts(l, gap, j)
  <2>1. Begins(l, gap, k, L) + CharLasts(l) <= c
    BY DEF L
  <2> QED BY <1>1, <1>2, <1>3, <1>4, <2>1, SMTT(30)
<1> QED BY <1>4, <1>5, <1>6, LevelOfPlace

\* Before the trigger and behind the end the line is idle.
LEMMA NothingSeen ==
  ASSUME NEW l, NEW c, c < l.trigger \/ c >= l.end
  PROVE  LevelAt(l, c) = 1
  BY DEF LevelAt

\* The line is one of the transitions, or idle.
LEMMA LevelIsOne ==
  ASSUME NEW l, NEW gap, Laid(l, gap), NEW c
  PROVE  LevelAt(l, c) = 1 \/ \E p \in DOMAIN l.transitions : LevelAt(l, c) = l.transitions[p].level
<1> DEFINE past == {i \in DOMAIN l.transitions : l.transitions[i].at <= c}
<1>1. l.transitions \in Seq(Transition) /\ Len(l.transitions) \in Nat /\ DOMAIN l.transitions = 1..Len(l.transitions)
  BY DEF Laid
<1>2. CASE c < l.trigger \/ c >= l.end \/ past = {}
  BY <1>2 DEF LevelAt
<1>3. CASE ~(c < l.trigger \/ c >= l.end \/ past = {})
  <2>1. past \in SUBSET (1..Len(l.transitions)) /\ past # {}
    BY <1>1, <1>3
  <2>2. LevelAt(l, c) = l.transitions[CHOOSE i \in past : \A jj \in past : jj <= i].level
    BY <1>3 DEF LevelAt
  <2> HIDE DEF past
  <2>3. Max(past) \in past /\ \A y \in past : Max(past) >= y
    BY <1>1, <2>1, LastOne
  <2>4. \A y \in past : y <= Max(past)
    BY <1>1, <2>1, <2>3
  <2>5. \E i \in past : \A jj \in past : jj <= i
    BY <2>3, <2>4
  <2>6. (CHOOSE i \in past : \A jj \in past : jj <= i) \in past
    BY <2>5
  <2> QED BY <1>1, <2>1, <2>2, <2>6
<1> QED BY <1>2, <1>3

\* A level is a bit.
LEMMA LevelIsBit ==
  ASSUME NEW l, NEW gap, Laid(l, gap), NEW c
  PROVE  LevelAt(l, c) \in {0, 1}
<1>1. l.transitions \in Seq(Transition)
  BY DEF Laid
<1>2. ASSUME NEW p \in DOMAIN l.transitions  PROVE l.transitions[p].level \in {0, 1}
  <2>1. l.transitions[p] \in Transition
    BY <1>1
  <2> QED BY <2>1 DEF Transition
<1> QED BY <1>2, LevelIsOne

\* Without characters the line stays idle.
LEMMA EmptySeen ==
  ASSUME NEW l, NEW gap, Laid(l, gap), Len(l.payload) = 0, NEW c
  PROVE  LevelAt(l, c) = 1
<1>1. BitCount(l.payload) = 0
  <2>1. BitCount(l.payload) = 0 * CharTime
    BY LaidNumbers
  <2> QED BY <2>1, UartConstants
<1>2. ASSUME NEW p \in DOMAIN l.transitions  PROVE l.transitions[p].level = 1
  <2>1. PICK k, j : InLine(l, k, j) /\ p = PlaceIn(l.payload, k, j)
    BY InLineAll
  <2>2. j = 1 /\ k \in 1..l.repeats /\ k < l.repeats
    BY <1>1, <2>1, LaidNumbers DEF InLine
  <2>3. l.transitions[PlaceIn(l.payload, k, BitCount(l.payload) + 1)].level = 1
    BY <2>2 DEF Laid
  <2> QED BY <1>1, <2>1, <2>2, <2>3
<1> QED BY <1>2, LevelIsOne

\* A place is one transition of one frame.
LEMMA OnePlace ==
  ASSUME NEW l, NEW gap, Laid(l, gap), NEW k \in Nat \ {0}, NEW kk \in Nat \ {0},
         NEW j \in 1..BitCount(l.payload) + 1, NEW jj \in 1..BitCount(l.payload) + 1,
         PlaceIn(l.payload, k, j) = PlaceIn(l.payload, kk, jj)
  PROVE  k = kk /\ j = jj
<1> DEFINE M == BitCount(l.payload)
<1>1. M \in Nat
  BY LaidNumbers
<1>2. (k - 1) * (M + 1) + j = (kk - 1) * (M + 1) + jj
  BY DEF PlaceIn
<1> HIDE DEF M
<1>3. PICK d \in Nat \ {0}, p \in Nat, q \in Nat, r \in 0..M, s \in 0..M :
        d = M + 1 /\ p = k - 1 /\ q = kk - 1 /\ r = j - 1 /\ s = jj - 1
  BY <1>1 DEF M
<1>4. p * d + r = q * d + s /\ r \in 0..d-1 /\ s \in 0..d-1
  <2>1. p * d \in Nat /\ q * d \in Nat
    BY <1>3
  <2>2. p * d + (r + 1) = q * d + (s + 1)
    <3>1. r + 1 = j /\ s + 1 = jj
      BY <1>1, <1>3 DEF M
    <3> QED BY <1>2, <1>3, <3>1
  <2> QED BY <1>1, <1>3, <2>1, <2>2
<1>5. p = q /\ r = s
  BY <1>3, <1>4, OneQuotient
<1> QED BY <1>1, <1>3, <1>5 DEF M

\* A number is that of one character.
LEMMA OneNumber ==
  ASSUME NEW l, NEW gap, Laid(l, gap), NEW k \in Nat \ {0}, NEW kk \in Nat \ {0},
         NEW i \in 1..Len(l.payload), NEW ii \in 1..Len(l.payload),
         NumberOf(l.payload, k, i) = NumberOf(l.payload, kk, ii)
  PROVE  k = kk /\ i = ii
<1> DEFINE L == Len(l.payload)
<1>1. L \in Nat \ {0}
  BY LaidNumbers
<1>2. (k - 1) * L + i = (kk - 1) * L + ii
  BY DEF NumberOf
<1> HIDE DEF L
<1>3. PICK p \in Nat, q \in Nat, r \in 0..L-1, s \in 0..L-1 : p = k - 1 /\ q = kk - 1 /\ r = i - 1 /\ s = ii - 1
  BY <1>1 DEF L
<1>4. p * L + r = q * L + s
  <2>1. p * L \in Nat /\ q * L \in Nat
    BY <1>1, <1>3
  <2>2. r + 1 = i /\ s + 1 = ii
    BY <1>1, <1>3 DEF L
  <2>3. p * L + (r + 1) = q * L + (s + 1)
    BY <1>2, <1>3, <2>2
  <2> QED BY <1>1, <1>3, <2>1, <2>3
<1>5. p = q /\ r = s
  BY <1>1, <1>3, <1>4, OneQuotient
<1> QED BY <1>1, <1>3, <1>5 DEF L

\* Every number is one of a character.
LEMMA NumberAll ==
  ASSUME NEW l, NEW gap, Laid(l, gap), NEW n \in 1..l.repeats * Len(l.payload)
  PROVE  \E k \in 1..l.repeats, i \in 1..Len(l.payload) : n = NumberOf(l.payload, k, i)
<1> DEFINE L == Len(l.payload)  R == l.repeats
<1>1. L \in Nat /\ R \in Nat /\ n \in 1..R * L
  BY LaidNumbers
<1>2. \A k, i : NumberOf(l.payload, k, i) = (k - 1) * L + i
  BY DEF NumberOf
<1> HIDE DEF L, R
<1>3. R * L \in Nat
  BY <1>1, MultipleNat
<1>4. L # 0
  <2>1. ASSUME L = 0  PROVE FALSE
    <3>1. R * L = 0
      BY <1>1, <2>1
    <3> QED BY <1>1, <3>1
  <2> QED BY <2>1
<1>5. PICK x \in Nat : x = n - 1 /\ x < R * L
  BY <1>1, <1>3
<1>6. PICK q \in Nat, r \in 0..L-1 : x = q * L + r
  <2>1. x \div L \in Nat /\ x % L \in 0..L-1 /\ x = (x \div L) * L + (x % L)
    BY <1>1, <1>4, DivModParts
  <2> QED BY <2>1
<1>7. q < R
  <2>1. ASSUME R <= q  PROVE FALSE
    <3>1. R * L <= q * L /\ q * L \in Nat
      BY <1>1, <2>1, MultiplesOrdered, MultipleNat
    <3> QED BY <1>1, <1>3, <1>5, <1>6, <3>1
  <2> QED BY <1>1, <2>1
<1>8. q + 1 \in 1..R /\ r + 1 \in 1..L /\ n = NumberOf(l.payload, q + 1, r + 1)
  <2>1. q * L \in Nat
    BY <1>1, MultipleNat
  <2>2. (q + 1) - 1 = q
    OBVIOUS
  <2>3. n = q * L + (r + 1)
    BY <1>1, <1>3, <1>5, <1>6, <2>1
  <2>4. NumberOf(l.payload, q + 1, r + 1) = q * L + (r + 1)
    BY <1>2, <2>2
  <2> QED BY <1>1, <1>7, <2>3, <2>4
<1> QED BY <1>8 DEF L, R

\* A broken stop bit: one transition has another level.
Breaks(l, m, n) ==
  /\ m \in UartLines /\ m.stops = l.stops /\ m.trigger = l.trigger /\ m.end = l.end /\ m.period = l.period
  /\ m.payload = l.payload /\ m.repeats = l.repeats /\ m.broken = l.broken \cup {n}
  /\ Len(m.transitions) = Len(l.transitions)
  /\ \A q \in 1..Len(l.transitions) :
       /\ m.transitions[q].at = l.transitions[q].at
       /\ m.transitions[q].level = IF q = l.stops[n] THEN 0 ELSE l.transitions[q].level

\* What breaking a stop bit leaves as it was.
LEMMA BreakIs ==
  ASSUME NEW l \in UartLines, NEW n \in Nat, l.stops[n] \in DOMAIN l.transitions, NEW m,
         m = [l EXCEPT !.transitions[l.stops[n]].level = 0, !.broken = @ \cup {n}]
  PROVE  Breaks(l, m, n)
<1>1. PICK T \in Seq(Transition) : T = l.transitions
  BY DEF UartLines
<1>2. PICK p \in DOMAIN T : p = l.stops[n]
  BY <1>1
<1>3. PICK U : U = [T EXCEPT ![p].level = 0]
  OBVIOUS
<1>4. T \in [1..Len(T) -> Transition] /\ Len(T) \in Nat /\ DOMAIN T = 1..Len(T)
  BY <1>1
<1>5. U = [T EXCEPT ![p] = [T[p] EXCEPT !.level = 0]]
  BY <1>3
<1>6. [T[p] EXCEPT !.level = 0] \in Transition /\ [T[p] EXCEPT !.level = 0].at = T[p].at
      /\ [T[p] EXCEPT !.level = 0].level = 0
  <2>1. T[p] \in Transition
    BY <1>2, <1>4
  <2> QED BY <2>1 DEF Transition
<1>7. PICK t : t = [T[p] EXCEPT !.level = 0]
  OBVIOUS
<1>8. U = [T EXCEPT ![p] = t] /\ t \in Transition /\ t.at = T[p].at /\ t.level = 0
  BY <1>5, <1>6, <1>7
<1>9. U \in [1..Len(T) -> Transition] /\ \A q \in 1..Len(T) : U[q] = IF q = p THEN t ELSE T[q]
  BY <1>2, <1>4, <1>8
<1>10. U \in Seq(Transition) /\ Len(U) = Len(T)
  BY <1>4, <1>9
<1>11. /\ DOMAIN m = DOMAIN l /\ m.transitions = U /\ m.stops = l.stops /\ m.trigger = l.trigger /\ m.end = l.end
       /\ m.period = l.period /\ m.payload = l.payload /\ m.repeats = l.repeats /\ m.broken = l.broken \cup {n}
       /\ m = [x \in DOMAIN m |-> m[x]]
  BY <1>1, <1>2, <1>3 DEF UartLines
<1>12. m \in UartLines
  <2>1. m = [transitions |-> m.transitions, stops |-> m.stops, trigger |-> m.trigger, end |-> m.end,
             period |-> m.period, payload |-> m.payload, repeats |-> m.repeats, broken |-> m.broken]
    BY <1>11 DEF UartLines
  <2>2. PICK f1, f2, f3, f4, f5, f6, f7, f8 :
          /\ f1 = m.transitions /\ f2 = m.stops /\ f3 = m.trigger /\ f4 = m.end
          /\ f5 = m.period /\ f6 = m.payload /\ f7 = m.repeats /\ f8 = m.broken
    OBVIOUS
  <2>3. /\ l.stops \in Seq(Nat) /\ l.trigger \in Nat /\ l.end \in Nat /\ l.period \in Nat
        /\ l.payload \in Seq(Characters) /\ l.repeats \in Nat /\ l.broken \in SUBSET Nat
    BY DEF UartLines
  <2>4. /\ f1 \in Seq(Transition) /\ f2 \in Seq(Nat) /\ f3 \in Nat /\ f4 \in Nat /\ f5 \in Nat
        /\ f6 \in Seq(Characters) /\ f7 \in Nat /\ f8 \in SUBSET Nat
    BY <1>10, <1>11, <2>2, <2>3
  <2>5. m = [transitions |-> f1, stops |-> f2, trigger |-> f3, end |-> f4,
             period |-> f5, payload |-> f6, repeats |-> f7, broken |-> f8]
    BY ONLY <2>1, <2>2
  <2> QED BY ONLY <2>4, <2>5 DEF UartLines
<1>13. m.transitions = U /\ l.transitions = T /\ l.stops[n] = p
  BY <1>1, <1>2, <1>11
<1>14. ASSUME NEW q \in 1..Len(T)
       PROVE  U[q].at = T[q].at /\ U[q].level = IF q = p THEN 0 ELSE T[q].level
  BY <1>8, <1>9
<1>15. /\ Len(m.transitions) = Len(l.transitions)
       /\ \A q \in 1..Len(l.transitions) :
            /\ m.transitions[q].at = l.transitions[q].at
            /\ m.transitions[q].level = IF q = l.stops[n] THEN 0 ELSE l.transitions[q].level
  BY <1>10, <1>13, <1>14
<1> QED BY <1>11, <1>12, <1>15, Zenon DEF Breaks

\* A line with a broken stop bit is laid as before.
LEMMA BreakIsLaid ==
  ASSUME NEW l, NEW gap, Laid(l, gap), NEW n \in DOMAIN l.stops, NEW m, Breaks(l, m, n)
  PROVE  Laid(m, gap)
<1> DEFINE M == BitCount(l.payload)  L == Len(l.payload)  C == CharTime
<1>1. /\ L \in Nat /\ M \in Nat /\ M = L * C /\ C \in Nat \ {0} /\ l.repeats \in Nat \ {0} /\ l.payload \in Payloads
  <2>1. L \in Nat /\ M \in Nat /\ M = L * C /\ l.repeats \in Nat \ {0}
    BY LaidNumbers
  <2>2. C \in Nat \ {0}
    BY UartConstants
  <2>3. l.payload \in Payloads
    BY DEF Laid
  <2> QED BY <2>1, <2>2, <2>3
<1>2. n \in 1..l.repeats * L
  BY DEF Laid
<1>3. PICK k \in 1..l.repeats, i \in 1..L : n = NumberOf(l.payload, k, i)
  BY <1>2, NumberAll
<1>4. l.stops[n] = PlaceIn(l.payload, k, i * C) /\ i * C \in 1..M
  <2>1. l.stops[n] = PlaceIn(l.payload, k, i * C)
    BY <1>3 DEF Laid
  <2>2. C \in 1..C /\ (i - 1) * C + C \in 1..M
    <3>1. C \in 1..C
      <4> HIDE DEF C
      <4> QED BY <1>1
    <3>2. \A b \in 1..C : (i - 1) * C + b \in 1..M
      BY BeginsAre
    <3> QED BY <3>1, <3>2
  <2>3. (i - 1) * C + C = i * C
    <3> HIDE DEF C
    <3> QED BY <1>1
  <2> QED BY <2>1, <2>2, <2>3
<1>5. ASSUME NEW kk \in 1..l.repeats, NEW ii \in 1..L, NEW b \in 1..C
      PROVE  m.transitions[PlaceIn(l.payload, kk, (ii - 1) * C + b)].level = BitOf(m, kk, ii, b)
  <2> DEFINE j == (ii - 1) * C + b
  <2>1. j \in 1..M
    BY BeginsAre
  <2>2. j \in 1..M + 1 /\ i * C \in 1..M + 1 /\ j <= M
    <3> HIDE DEF j, M, C
    <3> QED BY <1>1, <1>4, <2>1
  <2>3. PlaceIn(l.payload, kk, j) \in 1..Len(l.transitions)
    BY <2>2 DEF Laid
  <2>4. l.transitions[PlaceIn(l.payload, kk, j)].level = BitOf(l, kk, ii, b)
    BY DEF Laid
  <2>5. PlaceIn(l.payload, kk, j) = l.stops[n] <=> b = C /\ NumberOf(l.payload, kk, ii) = n
    <3>1. ASSUME PlaceIn(l.payload, kk, j) = l.stops[n]  PROVE b = C /\ NumberOf(l.payload, kk, ii) = n
      <4>1. kk = k /\ j = i * C
        <5>1. k \in Nat \ {0} /\ kk \in Nat \ {0}
          BY <1>1
        <5> HIDE DEF j, C
        <5> QED BY <1>4, <2>2, <3>1, <5>1, OnePlace DEF M
      <4>2. ii = i /\ b = C
        <5> HIDE DEF C
        <5>1. PICK p \in Nat, q \in Nat, r \in 0..C-1, s \in 0..C-1 :
                p = ii - 1 /\ q = i - 1 /\ r = b - 1 /\ s = C - 1
          BY <1>1
        <5>2. p * C + r = q * C + s
          <6>1. i * C = q * C + C /\ q * C \in Nat /\ p * C \in Nat
            BY <1>1, <5>1
          <6>2. p * C + b = i * C
            BY <4>1, <5>1
          <6> QED BY <1>1, <5>1, <6>1, <6>2
        <5>3. p = q /\ r = s
          BY <1>1, <5>1, <5>2, OneQuotient
        <5> QED BY <1>1, <5>1, <5>3
      <4> QED BY <1>3, <4>1, <4>2
    <3>2. ASSUME b = C, NumberOf(l.payload, kk, ii) = n  PROVE PlaceIn(l.payload, kk, j) = l.stops[n]
      <4>1. kk = k /\ ii = i
        <5>1. k \in Nat \ {0} /\ kk \in Nat \ {0}
          BY <1>1
        <5> QED BY <1>3, <3>2, <5>1, OneNumber
      <4>2. j = i * C
        <5> HIDE DEF C
        <5> QED BY <1>1, <3>2, <4>1
      <4> QED BY <1>4, <4>1, <4>2
    <3> QED BY <3>1, <3>2
  <2>6. m.transitions[PlaceIn(l.payload, kk, j)].level = IF b = C /\ NumberOf(l.payload, kk, ii) = n THEN 0 ELSE BitOf(l, kk, ii, b)
    <3> HIDE DEF j
    <3> QED BY <2>3, <2>4, <2>5 DEF Breaks
  <2>7. BitOf(m, kk, ii, b) = IF b = C /\ NumberOf(l.payload, kk, ii) = n THEN 0 ELSE BitOf(l, kk, ii, b)
    <3>1. m.payload = l.payload /\ m.broken = l.broken \cup {n}
      BY DEF Breaks
    <3> QED BY <3>1 DEF BitOf
  <2> QED BY <2>6, <2>7
<1>6. ASSUME NEW kk \in 1..l.repeats, kk < l.repeats
      PROVE  m.transitions[PlaceIn(l.payload, kk, M + 1)].level = 1
  <2>1. M + 1 \in 1..M + 1 /\ i * C \in 1..M + 1 /\ i * C # M + 1
    <3> HIDE DEF M, C
    <3> QED BY <1>1, <1>4
  <2>2. PlaceIn(l.payload, kk, M + 1) \in 1..Len(l.transitions) /\ l.transitions[PlaceIn(l.payload, kk, M + 1)].level = 1
    BY <1>6, <2>1 DEF Laid
  <2>3. PlaceIn(l.payload, kk, M + 1) # l.stops[n]
    <3>1. k \in Nat \ {0} /\ kk \in Nat \ {0}
      BY <1>1
    <3> QED BY <1>4, <2>1, <3>1, OnePlace
  <2> QED BY <2>2, <2>3 DEF Breaks
<1>7. /\ m \in UartLines /\ m.stops = l.stops /\ m.trigger = l.trigger /\ m.end = l.end /\ m.period = l.period
      /\ m.payload = l.payload /\ m.repeats = l.repeats /\ m.broken = l.broken \cup {n}
      /\ Len(m.transitions) = Len(l.transitions)
      /\ \A q \in 1..Len(l.transitions) : m.transitions[q].at = l.transitions[q].at
  BY DEF Breaks
<1>8. m.transitions \in Seq(Transition)
  BY <1>7 DEF UartLines
<1>9. \A x \in 1..l.repeats, j \in 1..M + 1 :
        x < l.repeats \/ j <= M =>
          /\ PlaceIn(l.payload, x, j) \in 1..Len(m.transitions)
          /\ m.transitions[PlaceIn(l.payload, x, j)].at = TimeOf(l.payload, l.trigger, l.period, gap, x, j)
  BY <1>7 DEF Laid
<1>10. m.broken \subseteq 1..l.repeats * L
  BY <1>2, <1>7 DEF Laid
<1>11. /\ l.trigger \in Nat /\ l.period \in Periods /\ l.repeats \in Repeats /\ gap \in GapBits
       /\ Len(l.transitions) = (l.repeats - 1) * (M + 1) + M
       /\ l.stops \in Seq(Nat) /\ Len(l.stops) = l.repeats * L
       /\ \A x \in 1..l.repeats, y \in 1..L :
            /\ NumberOf(l.payload, x, y) \in 1..l.repeats * L
            /\ l.stops[NumberOf(l.payload, x, y)] = PlaceIn(l.payload, x, y * C)
       /\ l.end = l.trigger + (l.repeats - 1) * FrameTime(l.payload, l.period, gap) + M * l.period
  BY DEF Laid
<1>12. BitCount(m.payload) = M /\ Len(m.payload) = L /\ FrameTime(m.payload, m.period, gap) = FrameTime(l.payload, l.period, gap)
  BY <1>7
<1> HIDE DEF M, L, C
<1>13. /\ m \in UartLines
       /\ m.payload \in Payloads /\ m.trigger \in Nat /\ m.period \in Periods /\ m.repeats \in Repeats
       /\ gap \in GapBits
       /\ m.transitions \in Seq(Transition)
       /\ Len(m.transitions) = (m.repeats - 1) * (BitCount(m.payload) + 1) + BitCount(m.payload)
  BY ONLY <1>1, <1>7, <1>8, <1>11, <1>12
<1>14. \A x \in 1..m.repeats, j \in 1..BitCount(m.payload) + 1 :
        x < m.repeats \/ j <= BitCount(m.payload) =>
          /\ PlaceIn(m.payload, x, j) \in 1..Len(m.transitions)
          /\ m.transitions[PlaceIn(m.payload, x, j)].at = TimeOf(m.payload, m.trigger, m.period, gap, x, j)
  BY ONLY <1>7, <1>9, <1>12
<1>15. /\ \A x \in 1..m.repeats, y \in 1..Len(m.payload), b \in 1..CharTime :
            m.transitions[PlaceIn(m.payload, x, (y - 1) * CharTime + b)].level = BitOf(m, x, y, b)
       /\ \A x \in 1..m.repeats : x < m.repeats => m.transitions[PlaceIn(m.payload, x, BitCount(m.payload) + 1)].level = 1
  BY ONLY <1>5, <1>6, <1>7, <1>12 DEF C
<1>16. /\ m.stops \in Seq(Nat) /\ Len(m.stops) = m.repeats * Len(m.payload)
       /\ \A x \in 1..m.repeats, y \in 1..Len(m.payload) :
            /\ NumberOf(m.payload, x, y) \in 1..m.repeats * Len(m.payload)
            /\ m.stops[NumberOf(m.payload, x, y)] = PlaceIn(m.payload, x, y * CharTime)
  BY ONLY <1>7, <1>11, <1>12 DEF C
<1>17. /\ m.end = m.trigger + (m.repeats - 1) * FrameTime(m.payload, m.period, gap) + BitCount(m.payload) * m.period
       /\ m.broken \subseteq 1..m.repeats * Len(m.payload)
  BY ONLY <1>7, <1>10, <1>11, <1>12
<1> QED BY ONLY <1>13, <1>14, <1>15, <1>16, <1>17 DEF Laid

\* What the receiver makes of a level.
MiddleOf(p, n) == n * p + p \div 2
Receivers == [age : Nat \cup {-1}, bits : Seq({0, 1}), last : {0, 1}]
GotChars == Seq([char : Characters, framed : BOOLEAN])

HearsLevel(p, r, g, v, rr, gg) ==
  \/ /\ r.age = -1 /\ gg = g
     /\ rr = [age |-> IF r.last = 1 /\ v = 0 THEN 0 ELSE -1, bits |-> << >>, last |-> v]
  \/ /\ r.age # -1 /\ r.age + 1 # MiddleOf(p, Len(r.bits) + 1) /\ gg = g
     /\ rr = [age |-> r.age + 1, bits |-> r.bits, last |-> v]
  \/ /\ r.age # -1 /\ r.age + 1 = MiddleOf(p, Len(r.bits) + 1) /\ Len(r.bits) < UartBits /\ gg = g
     /\ rr = [age |-> r.age + 1, bits |-> Append(r.bits, v), last |-> v]
  \/ /\ r.age # -1 /\ r.age + 1 = MiddleOf(p, Len(r.bits) + 1) /\ ~(Len(r.bits) < UartBits)
     /\ rr = [age |-> -1, bits |-> << >>, last |-> v]
     /\ gg = Append(g, [char |-> r.bits, framed |-> v = 1])

\* The receiver of the model is this one.
LEMMA ReceivedIs ==
  ASSUME receiver \in Receivers, NEW v, Received(v)
  PROVE  HearsLevel(line.period, receiver, got, v, receiver', got')
<1> DEFINE n == Len(receiver.bits)  m == Middle(n + 1)
<1>1. receiver.age \in Nat \cup {-1} /\ receiver = [age |-> receiver.age, bits |-> receiver.bits, last |-> receiver.last]
  BY DEF Receivers
<1>2. m = MiddleOf(line.period, n + 1)
  BY DEF Middle, MiddleOf
<1>3. CASE receiver.age = -1
  <2>1. /\ receiver' = [Waiting EXCEPT !.last = v, !.age = IF receiver.last = 1 /\ v = 0 THEN 0 ELSE -1]
        /\ got' = got
    BY <1>3 DEF Received
  <2>2. PICK a : a = IF receiver.last = 1 /\ v = 0 THEN 0 ELSE -1
    OBVIOUS
  <2>3. [Waiting EXCEPT !.last = v, !.age = a] = [age |-> a, bits |-> << >>, last |-> v]
    <3>1. PICK w, e, o, z : w = Waiting /\ e = << >> /\ o = 1 /\ z = -1
      OBVIOUS
    <3>2. w = [age |-> z, bits |-> e, last |-> o]
      BY <3>1 DEF Waiting
    <3>3. [w EXCEPT !.last = v, !.age = a] = [age |-> a, bits |-> e, last |-> v]
      <4>1. PICK d : d = [w EXCEPT !.last = v, !.age = a]
        OBVIOUS
      <4>2. DOMAIN d = {"age", "bits", "last"} /\ d = [x \in DOMAIN d |-> d[x]]
        BY ONLY <3>2, <4>1
      <4>3. d.age = a /\ d.bits = e /\ d.last = v
        BY ONLY <3>2, <4>1
      <4>4. d = [age |-> a, bits |-> e, last |-> v]
        BY ONLY <4>2, <4>3
      <4> QED BY <4>1, <4>4
    <3> QED BY <3>1, <3>3
  <2> QED BY <1>3, <2>1, <2>2, <2>3 DEF HearsLevel
<1>4. CASE receiver.age # -1 /\ receiver.age + 1 # m
  <2>1. receiver' = [receiver EXCEPT !.age = receiver.age + 1, !.last = v] /\ got' = got
    BY <1>4 DEF Received
  <2>2. receiver' = [age |-> receiver.age + 1, bits |-> receiver.bits, last |-> v]
    BY <1>1, <2>1
  <2> QED BY <1>2, <1>4, <2>1, <2>2 DEF HearsLevel
<1>5. CASE receiver.age # -1 /\ receiver.age + 1 = m /\ n < UartBits
  <2>1. receiver' = [age |-> receiver.age + 1, bits |-> Append(receiver.bits, v), last |-> v] /\ got' = got
    BY <1>5 DEF Received
  <2> QED BY <1>2, <1>5, <2>1 DEF HearsLevel
<1>6. CASE receiver.age # -1 /\ receiver.age + 1 = m /\ ~(n < UartBits)
  <2>1. /\ receiver' = [Waiting EXCEPT !.last = v]
        /\ got' = Append(got, [char |-> receiver.bits, framed |-> v = 1])
    BY <1>6 DEF Received
  <2>2. [Waiting EXCEPT !.last = v] = [age |-> -1, bits |-> << >>, last |-> v]
    BY DEF Waiting
  <2> QED BY <1>2, <1>6, <2>1, <2>2 DEF HearsLevel
<1> QED BY <1>3, <1>4, <1>5, <1>6

\* The types of what it has; a character more or none.
Grows(g, gg) == gg = g \/ (Len(gg) = Len(g) + 1 /\ \A n \in 1..Len(g) : gg[n] = g[n])
TypedReceiver(r) == r \in Receivers /\ Len(r.bits) <= UartBits
LEMMA HearsTyped ==
  ASSUME NEW p, NEW r, TypedReceiver(r), NEW g, g \in GotChars, NEW v, v \in {0, 1}, NEW rr, NEW gg,
         HearsLevel(p, r, g, v, rr, gg)
  PROVE  TypedReceiver(rr) /\ gg \in GotChars /\ Grows(g, gg)
<1>0. r \in Receivers /\ Len(r.bits) <= UartBits
  BY DEF TypedReceiver
<1>1. r.age \in Nat \cup {-1} /\ r.bits \in Seq({0, 1}) /\ Len(r.bits) \in Nat /\ UartBits \in Nat \ {0}
  BY <1>0, UartConstants DEF Receivers
<1>2. << >> \in Seq({0, 1}) /\ Len(<< >>) = 0 /\ Append(r.bits, v) \in Seq({0, 1}) /\ Len(Append(r.bits, v)) = Len(r.bits) + 1
  BY <1>1
<1>3. CASE r.age = -1 /\ gg = g /\ rr = [age |-> IF r.last = 1 /\ v = 0 THEN 0 ELSE -1, bits |-> << >>, last |-> v]
  BY <1>0, <1>1, <1>2, <1>3 DEF Receivers, TypedReceiver, Grows
<1>4. CASE r.age # -1 /\ gg = g /\ rr = [age |-> r.age + 1, bits |-> r.bits, last |-> v]
  BY <1>0, <1>1, <1>4 DEF Receivers, TypedReceiver, Grows
<1>5. CASE r.age # -1 /\ Len(r.bits) < UartBits /\ gg = g /\ rr = [age |-> r.age + 1, bits |-> Append(r.bits, v), last |-> v]
  <2>1. PICK s \in Seq({0, 1}) : s = Append(r.bits, v) /\ Len(s) <= UartBits
    <3>1. Len(r.bits) + 1 <= UartBits
      BY <1>1, <1>5
    <3> QED BY <1>2, <3>1, Zenon
  <2>2. rr = [age |-> r.age + 1, bits |-> s, last |-> v] /\ r.age + 1 \in Nat
    BY <1>1, <1>5, <2>1
  <2> QED BY <1>5, <2>1, <2>2 DEF Receivers, TypedReceiver, Grows
<1>6. CASE /\ ~(Len(r.bits) < UartBits) /\ rr = [age |-> -1, bits |-> << >>, last |-> v]
           /\ gg = Append(g, [char |-> r.bits, framed |-> v = 1])
  <2>1. r.bits \in Characters
    <3>1. Len(r.bits) = UartBits
      BY <1>0, <1>1, <1>6
    <3> QED BY <1>1, <3>1 DEF Characters
  <2>2. PICK f \in BOOLEAN : f = (v = 1)
    OBVIOUS
  <2>3. PICK x \in [char : Characters, framed : BOOLEAN] : x = [char |-> r.bits, framed |-> f]
    BY <2>1
  <2>4. gg = Append(g, x)
    BY <1>6, <2>2, <2>3, Zenon
  <2>5. gg \in GotChars /\ Len(gg) = Len(g) + 1 /\ \A n \in 1..Len(g) : gg[n] = g[n]
    BY <2>4, AppendProperties DEF GotChars
  <2>6. rr \in Receivers /\ Len(rr.bits) <= UartBits
    BY <1>1, <1>2, <1>6 DEF Receivers
  <2> QED BY <2>5, <2>6 DEF TypedReceiver, Grows
<1> QED BY <1>3, <1>4, <1>5, <1>6 DEF HearsLevel

\* Nothing has been spoiled so far; something has.
Unspoilt(l, n) == \A b \in l.broken : n < b
Spoilt(l, n) == \E b \in l.broken : b <= n

\* The line is idle until the next character, if there is one.
IdleUntil(l, c, e) == \A d \in Nat : c <= d /\ d < e => LevelAt(l, d) = 1
SilentLine(l, gap, c, r, n) ==
  /\ r.age = -1 /\ r.bits = << >> /\ r.last = 1 /\ Unspoilt(l, n)
  /\ \/ n = l.repeats * Len(l.payload) /\ \A d \in Nat : c <= d => LevelAt(l, d) = 1
     \/ \E k \in 1..l.repeats, i \in 1..Len(l.payload) :
          /\ n + 1 = NumberOf(l.payload, k, i)
          /\ c <= Begins(l, gap, k, i) /\ IdleUntil(l, c, Begins(l, gap, k, i))

\* The receiver is in the middle of a character, and has its bits so far.
Reads(l, gap, c, r, n) ==
  /\ Unspoilt(l, n)
  /\ \E k \in 1..l.repeats, i \in 1..Len(l.payload) :
       /\ n + 1 = NumberOf(l.payload, k, i)
       /\ r.age \in Nat /\ c = Begins(l, gap, k, i) + r.age + 1
       /\ Len(r.bits) <= UartBits /\ r.age < MiddleOf(l.period, Len(r.bits) + 1)
       /\ \A b \in 1..Len(r.bits) : r.bits[b] = l.payload[i][b]

\* The characters are those of the payload, the first broken one included.
Faithful(l, g) ==
  \A k \in 1..l.repeats, i \in 1..Len(l.payload) :
    LET n == NumberOf(l.payload, k, i)
    IN  n <= Len(g) /\ (\A b \in l.broken : n <= b) =>
          g[n].char = l.payload[i] /\ (g[n].framed <=> n \notin l.broken)

\* The first character begins at the trigger.
LEMMA FirstBegins ==
  ASSUME NEW l, NEW gap, Laid(l, gap), Len(l.payload) # 0
  PROVE  1 \in 1..l.repeats /\ 1 \in 1..Len(l.payload) /\ NumberOf(l.payload, 1, 1) = 1
         /\ Begins(l, gap, 1, 1) = l.trigger
<1>1. /\ Len(l.payload) \in Nat /\ l.repeats \in Nat \ {0} /\ l.trigger \in Nat /\ l.period \in Nat
      /\ FrameTime(l.payload, l.period, gap) \in Nat /\ CharTime \in Nat
  BY LaidNumbers, UartConstants
<1>2. NumberOf(l.payload, 1, 1) = 1
  <2>1. PICK x \in Nat : x = Len(l.payload)
    BY <1>1
  <2>2. (1 - 1) * x + 1 = 1
    OBVIOUS
  <2> QED BY <2>1, <2>2 DEF NumberOf
<1>3. Begins(l, gap, 1, 1) = l.trigger
  <2>1. ASSUME NEW t \in Nat, NEW x \in Nat, NEW y \in Nat, NEW z \in Nat
        PROVE  t + (1 - 1) * x + (((1 - 1) * y + 1) - 1) * z = t
    BY ONLY t \in Nat, x \in Nat, y \in Nat, z \in Nat
  <2> QED BY <1>1, <2>1 DEF Begins, StartsAt, TimeOf
<1> QED BY <1>1, <1>2, <1>3

\* A line that has just been laid.
LEMMA FreshLine ==
  ASSUME NEW l, NEW gap, Laid(l, gap), NEW r, r.age = -1, r.bits = << >>, r.last = 1
  PROVE  SilentLine(l, gap, 0, r, 0) /\ Faithful(l, << >>)
<1>1. Unspoilt(l, 0)
  BY DEF Unspoilt, Laid
<1>2. Faithful(l, << >>)
  <2>1. ASSUME NEW k \in 1..l.repeats, NEW i \in 1..Len(l.payload)
        PROVE  ~(NumberOf(l.payload, k, i) <= Len(<< >>))
    <3>1. NumberOf(l.payload, k, i) \in 1..l.repeats * Len(l.payload)
      BY DEF Laid
    <3>2. NumberOf(l.payload, k, i) >= 1 /\ NumberOf(l.payload, k, i) \in Int /\ Len(<< >>) = 0
      BY <3>1
    <3> QED BY <3>2
  <2> QED BY <2>1 DEF Faithful
<1>3. CASE Len(l.payload) = 0
  <2>1. l.repeats * Len(l.payload) = 0
    BY <1>3, LaidNumbers
  <2>2. \A d \in Nat : LevelAt(l, d) = 1
    BY <1>3, EmptySeen
  <2> QED BY <1>1, <1>2, <2>1, <2>2 DEF SilentLine
<1>4. CASE Len(l.payload) # 0
  <2>1. 1 \in 1..l.repeats /\ 1 \in 1..Len(l.payload) /\ NumberOf(l.payload, 1, 1) = 1 /\ Begins(l, gap, 1, 1) = l.trigger
    BY <1>4, FirstBegins
  <2>2. l.trigger \in Nat /\ IdleUntil(l, 0, l.trigger)
    BY NothingSeen, LaidNumbers DEF IdleUntil
  <2> QED BY <1>1, <1>2, <2>1, <2>2 DEF SilentLine
<1> QED BY <1>3, <1>4

\* The middle of a bit is within it.
LEMMA MiddleIs ==
  ASSUME NEW p \in Nat \ {0, 1}, NEW n \in Nat
  PROVE  /\ MiddleOf(p, n) \in Nat /\ n * p \in Nat /\ n * p <= MiddleOf(p, n) /\ MiddleOf(p, n) + 1 <= (n + 1) * p
         /\ MiddleOf(p, n) < MiddleOf(p, n + 1) /\ (n + 1) * p = n * p + p
<1>1. PICK h \in Nat : h = p \div 2 /\ h + 1 <= p
  <2>1. p \div 2 \in Nat /\ p \div 2 + 1 <= p
    OBVIOUS
  <2> QED BY <2>1
<1>2. PICK m \in Nat : m = n * p
  BY MultipleNat
<1>3. (n + 1) * p = m + p
  BY <1>2
<1>4. MiddleOf(p, n) = m + h /\ MiddleOf(p, n + 1) = m + p + h
  BY <1>1, <1>2, <1>3 DEF MiddleOf
<1> QED BY <1>1, <1>2, <1>3, <1>4

\* While the line is idle the receiver waits, and sees a character begin.
LEMMA SilentStep ==
  ASSUME NEW l, NEW gap, Laid(l, gap), NEW c \in Nat, NEW r \in Receivers, NEW g \in GotChars,
         SilentLine(l, gap, c, r, Len(g)), NEW rr, NEW gg, HearsLevel(l.period, r, g, LevelAt(l, c), rr, gg)
  PROVE  /\ gg = g
         /\ SilentLine(l, gap, c + 1, rr, Len(g)) \/ Reads(l, gap, c + 1, rr, Len(g))
<1> DEFINE n == Len(g)  v == LevelAt(l, c)
<1>1. r.age = -1 /\ r.last = 1 /\ Unspoilt(l, n) /\ n \in Nat
  BY LenProperties DEF SilentLine, GotChars
<1>2. gg = g /\ rr = [age |-> IF v = 0 THEN 0 ELSE -1, bits |-> << >>, last |-> v]
  BY <1>1 DEF HearsLevel
<1>3. v = 1 => rr.age = -1 /\ rr.bits = << >> /\ rr.last = 1
  BY <1>2
<1> HIDE DEF n, v
<1>4. CASE n = l.repeats * Len(l.payload) /\ \A d \in Nat : c <= d => LevelAt(l, d) = 1
  <2>1. v = 1
    BY <1>4 DEF v
  <2>2. \A d \in Nat : c + 1 <= d => LevelAt(l, d) = 1
    BY <1>4
  <2> QED BY <1>1, <1>2, <1>3, <1>4, <2>1, <2>2 DEF SilentLine, n
<1>5. ASSUME NEW k \in 1..l.repeats, NEW i \in 1..Len(l.payload),
             n + 1 = NumberOf(l.payload, k, i),
             c <= Begins(l, gap, k, i), IdleUntil(l, c, Begins(l, gap, k, i))
      PROVE  SilentLine(l, gap, c + 1, rr, n) \/ Reads(l, gap, c + 1, rr, n)
  <2>1. PICK b \in Nat : b = Begins(l, gap, k, i)
    BY BeginsAre
  <2>2. CASE c < b
    <3>1. v = 1
      BY <1>5, <2>1, <2>2 DEF v, IdleUntil
    <3>2. c + 1 <= b /\ IdleUntil(l, c + 1, b)
      BY <1>5, <2>1, <2>2 DEF IdleUntil
    <3> QED BY <1>1, <1>3, <1>5, <2>1, <3>1, <3>2 DEF SilentLine
  <2>3. CASE c = b
    <3>1. l.period \in Nat \ {0, 1} /\ 1 \in 1..CharTime /\ l.payload[i] \in Characters /\ UartBits \in Nat \ {0} /\ CharTime # 1
      <4>1. l.payload[i] \in Characters
        BY PayloadLevels DEF Laid
      <4>2. l.period \in Nat \ {0, 1}
        BY LaidNumbers
      <4>3. UartBits \in Nat \ {0} /\ CharTime = UartBits + 2
        BY UartConstants
      <4> QED BY ONLY <4>1, <4>2, <4>3
    <3>2. v = BitOf(l, k, i, 1)
      <4>1. (1 - 1) * l.period = 0 /\ 1 * l.period = l.period
        BY <3>1
      <4>2. b + (1 - 1) * l.period <= c /\ c < b + 1 * l.period
        BY <2>3, <3>1, <4>1
      <4> QED BY <2>1, <3>1, <4>2, BitSeen DEF v
    <3>3. BitOf(l, k, i, 1) = 0
      BY <3>1, CharacterLevels DEF BitOf
    <3>4. rr.age = 0 /\ rr.bits = << >>
      BY <1>2, <3>2, <3>3
    <3>5. Len(rr.bits) = 0 /\ 0 < MiddleOf(l.period, 1) /\ 0 <= UartBits
      <4>1. MiddleOf(l.period, 0) \in Nat /\ MiddleOf(l.period, 0) < MiddleOf(l.period, 0 + 1) /\ 0 + 1 = 1 /\ MiddleOf(l.period, 0 + 1) \in Nat
        <5>1. PICK z \in Nat : z = 0
          OBVIOUS
        <5>2. MiddleOf(l.period, z) \in Nat /\ MiddleOf(l.period, z) < MiddleOf(l.period, z + 1) /\ MiddleOf(l.period, z + 1) \in Nat
          <6>1. z + 1 \in Nat
            OBVIOUS
          <6> QED BY <3>1, <6>1, MiddleIs
        <5>3. z + 1 = 1
          BY <5>1
        <5> QED BY <5>1, <5>2, <5>3
      <4> QED BY <3>1, <3>4, <4>1
    <3>6. c + 1 = Begins(l, gap, k, i) + rr.age + 1
      BY <2>1, <2>3, <3>4
    <3>7. rr.age < MiddleOf(l.period, Len(rr.bits) + 1) /\ Len(rr.bits) <= UartBits
      BY <3>4, <3>5
    <3>8. \A x \in 1..Len(rr.bits) : rr.bits[x] = l.payload[i][x]
      BY <3>5
    <3>9. rr.age \in Nat
      BY <3>4
    <3> QED BY <1>1, <1>5, <3>6, <3>7, <3>8, <3>9 DEF Reads
  <2> QED BY <1>5, <2>1, <2>2, <2>3
<1> QED BY <1>2, <1>4, <1>5 DEF SilentLine, n

\* Behind a character the line is idle until the next one.
LEMMA IdleBehind ==
  ASSUME NEW l, NEW gap, Laid(l, gap), NEW k \in 1..l.repeats, NEW i \in 1..Len(l.payload),
         NumberOf(l.payload, k, i) \notin l.broken, NEW c \in Nat,
         Begins(l, gap, k, i) + (CharTime - 1) * l.period <= c, c <= Begins(l, gap, k, i) + CharLasts(l)
  PROVE  \/ NumberOf(l.payload, k, i) = l.repeats * Len(l.payload) /\ \A d \in Nat : c <= d => LevelAt(l, d) = 1
         \/ \E kk \in 1..l.repeats, ii \in 1..Len(l.payload) :
              /\ NumberOf(l.payload, k, i) + 1 = NumberOf(l.payload, kk, ii)
              /\ c <= Begins(l, gap, kk, ii) /\ IdleUntil(l, c, Begins(l, gap, kk, ii))
<1> DEFINE L == Len(l.payload)  R == l.repeats
<1>1. L \in Nat \ {0} /\ R \in Nat \ {0} /\ CharTime \in Nat \ {0} /\ l.period \in Nat \ {0, 1} /\ Gap(gap, l.period) \in Nat
  <2>1. L \in Nat /\ R \in Nat \ {0} /\ l.period \in Nat \ {0, 1} /\ Gap(gap, l.period) \in Nat
    BY LaidNumbers
  <2>2. CharTime \in Nat \ {0}
    BY UartConstants
  <2> QED BY <2>1, <2>2
<1>2. \A x, y : NumberOf(l.payload, x, y) = (x - 1) * L + y
  BY DEF NumberOf
<1>3. PICK b \in Nat, w \in Nat : b = Begins(l, gap, k, i) /\ w = CharLasts(l)
  BY BeginsAre
<1>9. /\ i < L => Begins(l, gap, k, i + 1) = b + w
      /\ i = L => /\ k < R => Begins(l, gap, k + 1, 1) = b + w + Gap(gap, l.period)
                  /\ k = R => l.end = b + w
  <2>1. /\ i < L => Begins(l, gap, k, i + 1) = Begins(l, gap, k, i) + CharLasts(l)
        /\ i = L => /\ k < R => Begins(l, gap, k + 1, 1) = Begins(l, gap, k, i) + CharLasts(l) + Gap(gap, l.period)
                    /\ k = R => l.end = Begins(l, gap, k, i) + CharLasts(l)
    BY BeginsAre
  <2> QED BY <1>3, <2>1
<1>4. ASSUME NEW d \in Nat, c <= d, d < b + w  PROVE LevelAt(l, d) = 1
  <2>1. b + (CharTime - 1) * l.period <= d /\ d < b + CharTime * l.period
    <3>1. PICK z \in Nat : z = (CharTime - 1) * l.period
      <4>1. CharTime - 1 \in Nat
        BY <1>1
      <4> QED BY <1>1, <4>1, MultipleNat
    <3>2. b + z <= c
      BY <1>3, <3>1
    <3>3. w = CharTime * l.period
      BY <1>3 DEF CharLasts
    <3> QED BY <1>4, <3>1, <3>2, <3>3
  <2>2. CharTime \in 1..CharTime
    BY <1>1
  <2>3. LevelAt(l, d) = BitOf(l, k, i, CharTime)
    BY <1>3, <2>1, <2>2, BitSeen
  <2>4. BitOf(l, k, i, CharTime) = 1
    <3>1. l.payload[i] \in Characters
      BY PayloadLevels DEF Laid
    <3> QED BY <3>1, CharacterLevels DEF BitOf
  <2> QED BY <2>3, <2>4
<1>5. CASE i < L
  <2>1. Begins(l, gap, k, i + 1) = b + w /\ i + 1 \in 1..L
    BY <1>1, <1>5, <1>9
  <2>2. NumberOf(l.payload, k, i) + 1 = NumberOf(l.payload, k, i + 1)
    <3> HIDE DEF L
    <3>1. PICK z \in Nat : z = (k - 1) * L
      <4>1. k - 1 \in Nat
        BY <1>1
      <4> QED BY <1>1, <4>1, MultipleNat
    <3>2. NumberOf(l.payload, k, i) = z + i /\ NumberOf(l.payload, k, i + 1) = z + (i + 1)
      BY <1>2, <3>1
    <3>3. i \in Nat
      BY <1>1 DEF L
    <3> QED BY <3>1, <3>2, <3>3
  <2>3. c <= b + w /\ IdleUntil(l, c, b + w)
    BY <1>3, <1>4 DEF IdleUntil
  <2> QED BY <2>1, <2>2, <2>3
<1>6. CASE i = L /\ k < R
  <2>1. Begins(l, gap, k + 1, 1) = b + w + Gap(gap, l.period) /\ k + 1 \in 1..R /\ 1 \in 1..L
    BY <1>1, <1>6, <1>9
  <2>2. NumberOf(l.payload, k, i) + 1 = NumberOf(l.payload, k + 1, 1)
    <3> HIDE DEF L
    <3>1. NumberOf(l.payload, k, i) = (k - 1) * L + L /\ NumberOf(l.payload, k + 1, 1) = ((k + 1) - 1) * L + 1
      BY <1>2, <1>6
    <3>2. (k - 1) * L + L = ((k + 1) - 1) * L /\ (k - 1) * L + L \in Nat
      <4>1. PICK z \in Nat : z = k - 1
        BY <1>1
      <4>2. (k + 1) - 1 = z + 1 /\ k - 1 = z
        BY <4>1
      <4>3. z * L + L = (z + 1) * L /\ z * L + L \in Nat
        BY <1>1
      <4> QED BY <4>2, <4>3
    <3> QED BY <3>1, <3>2
  <2>3. ASSUME NEW d \in Nat, c <= d, d < Begins(l, gap, k + 1, 1)  PROVE LevelAt(l, d) = 1
    <3>1. CASE d < b + w
      BY <1>4, <2>3, <3>1
    <3>2. CASE b + w <= d
      BY <1>1, <1>3, <1>6, <2>3, <3>2, GapSeen
    <3> QED BY <3>1, <3>2
  <2>4. c <= Begins(l, gap, k + 1, 1)
    BY <1>1, <1>3, <2>1
  <2> QED BY <2>1, <2>2, <2>3, <2>4 DEF IdleUntil
<1>7. CASE i = L /\ k = R
  <2>1. l.end = b + w
    BY <1>7, <1>9
  <2>2. NumberOf(l.payload, k, i) = R * L
    <3> HIDE DEF L, R
    <3>1. (R - 1) * L + L = R * L
      BY <1>1
    <3> QED BY <1>2, <1>7, <3>1
  <2>3. ASSUME NEW d \in Nat, c <= d  PROVE LevelAt(l, d) = 1
    <3>1. CASE d < b + w
      BY <1>4, <2>3, <3>1
    <3>2. CASE d >= b + w
      BY <2>1, <3>2, NothingSeen
    <3> QED BY <3>1, <3>2
  <2> QED BY <2>2, <2>3
<1>8. i < L \/ (i = L /\ k < R) \/ (i = L /\ k = R)
  BY <1>1
<1> QED BY <1>5, <1>6, <1>7, <1>8

\* In the middle of a character the receiver takes its bits one by one.
LEMMA ReadsStep ==
  ASSUME NEW l, NEW gap, Laid(l, gap), NEW c \in Nat, NEW r \in Receivers, NEW g \in GotChars,
         Reads(l, gap, c, r, Len(g)), Faithful(l, g), NEW rr, NEW gg,
         HearsLevel(l.period, r, g, LevelAt(l, c), rr, gg)
  PROVE  /\ Faithful(l, gg)
         /\ Spoilt(l, Len(gg)) \/ SilentLine(l, gap, c + 1, rr, Len(gg)) \/ Reads(l, gap, c + 1, rr, Len(gg))
<1> DEFINE m == Len(g)  v == LevelAt(l, c)
<1>1. PICK k \in 1..l.repeats, i \in 1..Len(l.payload) :
         /\ m + 1 = NumberOf(l.payload, k, i)
         /\ r.age \in Nat /\ c = Begins(l, gap, k, i) + r.age + 1
         /\ Len(r.bits) <= UartBits /\ r.age < MiddleOf(l.period, Len(r.bits) + 1)
         /\ \A b \in 1..Len(r.bits) : r.bits[b] = l.payload[i][b]
  BY DEF Reads
<1> DEFINE n == Len(r.bits)
<1>2. /\ Unspoilt(l, m) /\ m \in Nat /\ n \in Nat /\ r.bits \in Seq({0, 1}) /\ l.period \in Nat \ {0, 1}
      /\ UartBits \in Nat \ {0} /\ CharTime = UartBits + 2 /\ l.broken \in SUBSET Nat
      /\ l.payload[i] \in Characters
  <2>1. l.broken \in SUBSET Nat /\ l.payload \in Payloads
    BY DEF Laid, UartLines
  <2>2. Unspoilt(l, m) /\ m \in Nat /\ n \in Nat /\ r.bits \in Seq({0, 1})
    BY DEF Reads, Receivers, GotChars
  <2> QED BY <2>1, <2>2, LaidNumbers, UartConstants, PayloadLevels
<1>3. PICK b \in Nat, w \in Nat : b = Begins(l, gap, k, i) /\ w = CharLasts(l)
  BY BeginsAre
<1> HIDE DEF m, v, n
<1>4. r.age \in Nat /\ c = b + r.age + 1 /\ n <= UartBits /\ r.age < MiddleOf(l.period, n + 1)
      /\ r.age # -1 /\ m + 1 = NumberOf(l.payload, k, i)
  BY <1>1, <1>3 DEF n
<1>5. PICK q \in Nat, y \in Nat, z \in Nat :
         /\ q = MiddleOf(l.period, n + 1) /\ y = (n + 1) * l.period /\ z = (n + 2) * l.period
         /\ y <= q /\ q + 1 <= z /\ MiddleOf(l.period, n + 2) \in Nat /\ q < MiddleOf(l.period, n + 2)
  <2>1. PICK x \in Nat : x = n + 1
    BY <1>2
  <2>2. PICK p \in Nat \ {0, 1} : p = l.period
    BY <1>2
  <2>3. PICK u \in Nat : u = x + 1
    OBVIOUS
  <2>5. /\ MiddleOf(p, x) \in Nat /\ x * p \in Nat /\ x * p <= MiddleOf(p, x)
        /\ MiddleOf(p, x) + 1 <= (x + 1) * p /\ MiddleOf(p, x) < MiddleOf(p, x + 1)
    BY MiddleIs
  <2>6. MiddleOf(p, u) \in Nat /\ u * p \in Nat
    BY MiddleIs
  <2>7. u = n + 2
    BY <1>2, <2>1, <2>3
  <2>8. PICK q \in Nat, y \in Nat, z \in Nat : q = MiddleOf(p, x) /\ y = x * p /\ z = u * p
    BY <2>5, <2>6
  <2>9. y <= q /\ q + 1 <= z /\ q < MiddleOf(p, u)
    BY ONLY <2>3, <2>5, <2>8
  <2> QED BY <2>1, <2>2, <2>6, <2>7, <2>8, <2>9
<1>6. ASSUME r.age + 1 = q
      PROVE  v = BitOf(l, k, i, n + 2) /\ c = b + q
  <2>1. c = b + q
    <3>1. PICK a \in Nat : a = r.age
      BY <1>4
    <3>2. c = b + a + 1 /\ a + 1 = q
      BY <1>4, <1>6, <3>1
    <3> QED BY ONLY <3>2, a \in Nat, b \in Nat, q \in Nat
  <2>2. PICK t \in 1..CharTime : t = n + 2 /\ t - 1 = n + 1
    <3>1. n \in Nat /\ UartBits \in Nat /\ n <= UartBits /\ CharTime = UartBits + 2
      BY <1>2, <1>4
    <3>2. n + 2 \in 1..CharTime /\ (n + 2) - 1 = n + 1
      BY ONLY <3>1
    <3> QED BY <3>2
  <2>3. b + (t - 1) * l.period <= c /\ c < b + t * l.period
    <3>1. (t - 1) * l.period = y /\ t * l.period = z
      BY <1>5, <2>2
    <3>2. b + y <= c /\ c < b + z
      BY <1>5, <2>1, SMTT(30)
    <3> QED BY <3>1, <3>2, Zenon
  <2>4. v = BitOf(l, k, i, t)
    BY <1>3, <2>3, BitSeen DEF v
  <2> QED BY <2>1, <2>2, <2>4
<1>7. CASE r.age + 1 # q
  <2>1. gg = g /\ rr = [age |-> r.age + 1, bits |-> r.bits, last |-> v]
    BY <1>4, <1>5, <1>7 DEF HearsLevel, n, v
  <2>2. rr.age = r.age + 1 /\ rr.bits = r.bits
    BY <2>1
  <2>3. rr.age \in Nat /\ c + 1 = b + rr.age + 1 /\ rr.age < q
    <3>1. PICK a \in Nat : a = r.age
      BY <1>4
    <3>2. a < q /\ a + 1 # q /\ c = b + a + 1 /\ rr.age = a + 1
      BY <1>4, <1>5, <1>7, <2>2, <3>1
    <3> QED BY ONLY <3>2, a \in Nat, q \in Nat, b \in Nat
  <2>4. Reads(l, gap, c + 1, rr, m)
    <3>1. rr.bits = r.bits /\ Len(rr.bits) <= UartBits /\ \A x \in 1..Len(rr.bits) : rr.bits[x] = l.payload[i][x]
      BY <1>1, <2>2
    <3>2. rr.age < MiddleOf(l.period, Len(rr.bits) + 1)
      BY <1>5, <2>2, <2>3 DEF n
    <3> QED BY <1>2, <1>3, <1>4, <2>3, <3>1, <3>2 DEF Reads
  <2> QED BY <2>1, <2>4 DEF m
<1>8. CASE r.age + 1 = q /\ n < UartBits
  <2>1. gg = g /\ rr = [age |-> r.age + 1, bits |-> Append(r.bits, v), last |-> v]
    BY <1>4, <1>5, <1>8 DEF HearsLevel, n, v
  <2>2. rr.age = q /\ rr.bits = Append(r.bits, v) /\ c + 1 = b + q + 1
    BY <1>6, <1>8, <2>1
  <2>3. v = l.payload[i][n + 1]
    <3>1. v = LevelsOf(l.payload[i])[n + 2]
      BY <1>2, <1>6, <1>8 DEF BitOf
    <3>2. PICK t \in 1..UartBits : t = n + 1 /\ t + 1 = n + 2
      BY <1>2, <1>8
    <3>3. LevelsOf(l.payload[i])[t + 1] = l.payload[i][t]
      BY <1>2, CharacterLevels
    <3> QED BY <3>1, <3>2, <3>3
  <2>4. v \in {0, 1}
    BY LevelIsBit DEF v
  <2>5. Len(rr.bits) = n + 1 /\ rr.bits[n + 1] = v /\ \A x \in 1..n : rr.bits[x] = r.bits[x]
    <3>1. PICK s \in Seq({0, 1}), e \in {0, 1} : s = r.bits /\ e = v
      BY <1>2, <2>4
    <3>2. /\ Len(Append(s, e)) = Len(s) + 1 /\ Append(s, e)[Len(s) + 1] = e
          /\ \A x \in 1..Len(s) : Append(s, e)[x] = s[x]
      BY AppendProperties
    <3>3. rr.bits = Append(s, e) /\ n = Len(s)
      BY <2>2, <3>1 DEF n
    <3> QED BY <3>1, <3>2, <3>3, Zenon
  <2>6. \A x \in 1..Len(rr.bits) : rr.bits[x] = l.payload[i][x]
    <3>1. ASSUME NEW x \in 1..Len(rr.bits)  PROVE rr.bits[x] = l.payload[i][x]
      <4>1. x = n + 1 \/ x \in 1..n
        BY <1>2, <2>5
      <4> QED BY <1>1, <2>3, <2>5, <4>1 DEF n
    <3> QED BY <3>1
  <2>7. rr.age < MiddleOf(l.period, Len(rr.bits) + 1) /\ Len(rr.bits) <= UartBits /\ rr.age \in Nat
    <3>1. Len(rr.bits) + 1 = n + 2 /\ n + 1 <= UartBits
      BY <1>2, <1>8, <2>5
    <3> QED BY <1>5, <2>2, <2>5, <3>1
  <2>8. Reads(l, gap, c + 1, rr, m)
    BY <1>2, <1>3, <1>4, <2>2, <2>6, <2>7 DEF Reads
  <2> QED BY <2>1, <2>8 DEF m
<1>9. CASE r.age + 1 = q /\ ~(n < UartBits)
  <2>0. n = UartBits /\ n + 2 = CharTime
    BY <1>2, <1>4, <1>9
  <2>1. /\ gg = Append(g, [char |-> r.bits, framed |-> v = 1])
        /\ rr = [age |-> -1, bits |-> << >>, last |-> v]
    BY <1>4, <1>5, <1>9 DEF HearsLevel, n, v
  <2>2. r.bits = l.payload[i] /\ r.bits \in Characters
    <3>1. r.bits \in [1..UartBits -> {0, 1}] /\ l.payload[i] \in [1..UartBits -> {0, 1}]
      <4>1. Len(r.bits) = UartBits
        BY <2>0 DEF n
      <4>2. r.bits \in Seq({0, 1})
        BY <1>2
      <4>3. r.bits \in [1..UartBits -> {0, 1}]
        BY ONLY <4>1, <4>2
      <4>4. l.payload[i] \in [1..UartBits -> {0, 1}]
        BY <1>2 DEF Characters
      <4> QED BY <4>3, <4>4
    <3>2. \A x \in 1..UartBits : r.bits[x] = l.payload[i][x]
      BY <1>1, <2>0 DEF n
    <3>3. PICK s \in [1..UartBits -> {0, 1}], t \in [1..UartBits -> {0, 1}] : s = r.bits /\ t = l.payload[i]
      BY <3>1
    <3>4. s = t
      <4>1. s = [x \in 1..UartBits |-> s[x]] /\ t = [x \in 1..UartBits |-> t[x]]
        OBVIOUS
      <4>2. \A x \in 1..UartBits : s[x] = t[x]
        BY <3>2, <3>3
      <4> QED BY ONLY <4>1, <4>2
    <3> QED BY <3>1, <3>3, <3>4 DEF Characters
  <2>3. v = (IF m + 1 \in l.broken THEN 0 ELSE 1)
    <3>1. v = BitOf(l, k, i, CharTime)
      BY <1>6, <1>9, <2>0
    <3> QED BY <1>2, <1>4, <3>1, CharacterLevels DEF BitOf
  <2>4. PICK f \in BOOLEAN : f = (v = 1)
    OBVIOUS
  <2>5. PICK x \in [char : Characters, framed : BOOLEAN] : x = [char |-> r.bits, framed |-> f]
    BY <2>2
  <2>6. gg = Append(g, x)
    BY <2>1, <2>4, <2>5, Zenon
  <2>7. Len(gg) = m + 1 /\ gg[m + 1] = x /\ \A y2 \in 1..m : gg[y2] = g[y2]
    BY <2>6, AppendProperties DEF GotChars, m
  <2>8. x.char = l.payload[i] /\ (x.framed <=> m + 1 \notin l.broken)
    <3>1. x.char = r.bits /\ x.framed = f
      BY <2>5
    <3>2. f <=> m + 1 \notin l.broken
      <4>1. v = 1 <=> m + 1 \notin l.broken
        BY <2>3
      <4> QED BY <2>4, <4>1, Zenon
    <3> QED BY <2>2, <3>1, <3>2
  <2>9. Faithful(l, gg)
    <3>1. ASSUME NEW kk \in 1..l.repeats, NEW ii \in 1..Len(l.payload),
                 NumberOf(l.payload, kk, ii) <= Len(gg),
                 \A b2 \in l.broken : NumberOf(l.payload, kk, ii) <= b2
          PROVE  /\ gg[NumberOf(l.payload, kk, ii)].char = l.payload[ii]
                 /\ gg[NumberOf(l.payload, kk, ii)].framed <=> NumberOf(l.payload, kk, ii) \notin l.broken
      <4>1. PICK o \in Nat : o = NumberOf(l.payload, kk, ii) /\ o >= 1
        BY DEF Laid
      <4>2. CASE o <= m
        <5>1. gg[o] = g[o]
          BY <1>2, <2>7, <4>1, <4>2
        <5>2. g[o].char = l.payload[ii] /\ (g[o].framed <=> o \notin l.broken)
          BY <3>1, <4>1, <4>2 DEF Faithful, m
        <5> QED BY <4>1, <5>1, <5>2
      <4>3. CASE o = m + 1
        <5>1. k \in Nat \ {0} /\ kk \in Nat \ {0}
          BY LaidNumbers, SMTT(30)
        <5>2. kk = k /\ ii = i
          BY <1>4, <4>1, <4>3, <5>1, OneNumber
        <5> QED BY <2>7, <2>8, <4>1, <4>3, <5>2
      <4> QED BY <1>2, <2>7, <3>1, <4>1, <4>2, <4>3
    <3> QED BY <3>1 DEF Faithful
  <2>10. CASE m + 1 \in l.broken
    <3>1. Spoilt(l, m + 1)
      BY <1>2, <2>10 DEF Spoilt
    <3> QED BY <2>7, <2>9, <3>1
  <2>11. CASE m + 1 \notin l.broken
    <3>1. Unspoilt(l, m + 1)
      BY <1>2, <2>11 DEF Unspoilt
    <3>2. rr.age = -1 /\ rr.bits = << >> /\ rr.last = 1
      BY <2>1, <2>3, <2>11
    <3>3. b + (CharTime - 1) * l.period <= c + 1 /\ c + 1 <= b + w /\ c + 1 \in Nat
      <4>1. CharTime - 1 = n + 1 /\ CharTime = n + 2
        BY <1>2, <2>0
      <4>2. w = z /\ (CharTime - 1) * l.period = y
        BY <1>3, <1>5, <4>1 DEF CharLasts
      <4>3. c = b + q
        BY <1>6, <1>9
      <4>4. y <= q /\ q + 1 <= z
        BY <1>5
      <4>5. b + y <= c + 1 /\ c + 1 <= b + z /\ c + 1 \in Nat
        BY ONLY <4>3, <4>4, b \in Nat, c \in Nat, q \in Nat, y \in Nat, z \in Nat
      <4> QED BY <4>2, <4>5, Zenon
    <3>4. \/ m + 1 = l.repeats * Len(l.payload) /\ \A d \in Nat : c + 1 <= d => LevelAt(l, d) = 1
          \/ \E kk \in 1..l.repeats, ii \in 1..Len(l.payload) :
               /\ (m + 1) + 1 = NumberOf(l.payload, kk, ii)
               /\ c + 1 <= Begins(l, gap, kk, ii) /\ IdleUntil(l, c + 1, Begins(l, gap, kk, ii))
      <4>1. PICK e \in Nat : e = c + 1
        OBVIOUS
      <4>2. PICK o : o = m + 1 /\ o = NumberOf(l.payload, k, i)
        BY <1>4
      <4>3. \/ o = l.repeats * Len(l.payload) /\ \A d \in Nat : e <= d => LevelAt(l, d) = 1
            \/ \E kk \in 1..l.repeats, ii \in 1..Len(l.payload) :
                 /\ o + 1 = NumberOf(l.payload, kk, ii)
                 /\ e <= Begins(l, gap, kk, ii) /\ IdleUntil(l, e, Begins(l, gap, kk, ii))
        BY <1>3, <2>11, <3>3, <4>1, <4>2, IdleBehind, SMTT(30)
      <4> QED BY <4>1, <4>2, <4>3
    <3>5. SilentLine(l, gap, c + 1, rr, m + 1)
      BY <3>1, <3>2, <3>4 DEF SilentLine
    <3> QED BY <2>7, <2>9, <3>5
  <2> QED BY <2>10, <2>11
<1> QED BY <1>7, <1>8, <1>9

\* Behind a broken character nothing is said of what is received.
LEMMA LostStep ==
  ASSUME NEW l, NEW gap, Laid(l, gap), NEW g \in GotChars, NEW gg \in GotChars, Spoilt(l, Len(g)), Faithful(l, g),
         gg = g \/ (Len(gg) = Len(g) + 1 /\ \A n \in 1..Len(g) : gg[n] = g[n])
  PROVE  Spoilt(l, Len(gg)) /\ Faithful(l, gg)
<1>1. CASE gg = g
  BY <1>1
<1>2. CASE Len(gg) = Len(g) + 1 /\ \A n \in 1..Len(g) : gg[n] = g[n]
  <2>1. Len(g) \in Nat /\ l.broken \in SUBSET Nat
    BY DEF GotChars, Laid, UartLines
  <2>2. PICK b \in l.broken : b <= Len(g)
    BY DEF Spoilt
  <2>3. Spoilt(l, Len(gg))
    BY <1>2, <2>1, <2>2 DEF Spoilt
  <2>4. ASSUME NEW k \in 1..l.repeats, NEW i \in 1..Len(l.payload),
               NumberOf(l.payload, k, i) <= Len(gg), \A x \in l.broken : NumberOf(l.payload, k, i) <= x
        PROVE  /\ gg[NumberOf(l.payload, k, i)].char = l.payload[i]
               /\ gg[NumberOf(l.payload, k, i)].framed <=> NumberOf(l.payload, k, i) \notin l.broken
    <3>1. PICK o \in Nat : o = NumberOf(l.payload, k, i) /\ o >= 1
      BY DEF Laid
    <3>2. o <= Len(g) /\ o \in 1..Len(g)
      BY <2>1, <2>2, <2>4, <3>1
    <3>3. gg[o] = g[o]
      BY <1>2, <3>2
    <3>4. g[o].char = l.payload[i] /\ (g[o].framed <=> o \notin l.broken)
      BY <2>4, <3>1, <3>2 DEF Faithful
    <3> QED BY <3>1, <3>3, <3>4
  <2> QED BY <2>3, <2>4 DEF Faithful
<1> QED BY <1>1, <1>2

\* The payload, once for each frame.
LEMMA SentIs ==
  ASSUME NEW gap, Laid(line, gap)
  PROVE  /\ Sent \in Seq(Characters) /\ Len(Sent) = line.repeats * Len(line.payload)
         /\ \A k \in 1..line.repeats, i \in 1..Len(line.payload) :
              Sent[NumberOf(line.payload, k, i)] = line.payload[i]
<1> DEFINE seqs == [k \in 1..line.repeats |-> line.payload]  L == Len(line.payload)
<1>1. line.payload \in Seq(Characters) /\ L \in Nat /\ line.repeats \in Nat
  BY UartConstants, LaidNumbers DEF Laid
<1>2. seqs \in Seq(Seq(Characters)) /\ Len(seqs) = line.repeats /\ \A k \in 1..line.repeats : seqs[k] = line.payload
  BY <1>1
<1>3. Sent = FlattenSeq(seqs)
  BY DEF Sent
<1> HIDE DEF seqs
<1>4. \A k \in 1..Len(seqs) : Len(seqs[k]) = L
  BY <1>2
<1>5. /\ FlattenSeq(seqs) \in Seq(Characters) /\ Len(FlattenSeq(seqs)) = Len(seqs) * L
      /\ \A k \in 1..Len(seqs), i \in 1..L :
           /\ (k - 1) * L + i \in 1..Len(seqs) * L
           /\ FlattenSeq(seqs)[(k - 1) * L + i] = seqs[k][i]
  BY <1>1, <1>2, <1>4, FlatEven, ZenonT(40)
<1> QED BY <1>2, <1>3, <1>5, ZenonT(40) DEF NumberOf

\* What is true of generator and receiver.
UartTypes ==
  /\ line \in UartLines /\ cycle \in Nat /\ pin \in {0, 1}
  /\ receiver \in Receivers /\ Len(receiver.bits) <= UartBits /\ got \in GotChars
  /\ injections \in Nat

\* The receiver is in step with the line, until a broken character.
OnTheLine(l, c, r, g) ==
  \E gap \in GapBits :
    /\ Laid(l, gap) /\ Faithful(l, g)
    /\ Spoilt(l, Len(g)) \/ SilentLine(l, gap, c, r, Len(g)) \/ Reads(l, gap, c, r, Len(g))

\* The inductive invariant.
UartInv ==
  /\ UartTypes
  /\ cycle = 0 => receiver = Waiting /\ got = << >>
  /\ injections = 0 => got = << >> /\ line.period = 2
  /\ injections # 0 => OnTheLine(line, cycle, receiver, got)

\* The types of a receiver that waits.
LEMMA WaitingIs ==
  /\ Waiting \in Receivers /\ Waiting.age = -1 /\ Waiting.bits = << >> /\ Waiting.last = 1
  /\ Len(Waiting.bits) <= UartBits /\ << >> \in GotChars /\ Len(<< >>) = 0
<1>1. << >> \in Seq({0, 1}) /\ << >> \in GotChars /\ Len(<< >>) = 0 /\ 0 <= UartBits
  BY UartConstants DEF GotChars
<1>2. Waiting.age = -1 /\ Waiting.bits = << >> /\ Waiting.last = 1
  BY DEF Waiting
<1>3. Waiting \in Receivers
  <2>1. PICK e, z : e = << >> /\ z = -1
    OBVIOUS
  <2>2. Waiting = [age |-> z, bits |-> e, last |-> 1]
    BY <2>1 DEF Waiting
  <2>3. e \in Seq({0, 1}) /\ z \in Nat \cup {-1}
    BY <1>1, <2>1
  <2> QED BY <2>2, <2>3 DEF Receivers
<1> QED BY <1>1, <1>2, <1>3

\* Before an injection nothing is received.
LEMMA UartStart == UartInit => UartInv
<1> SUFFICES ASSUME UartInit PROVE UartInv
  OBVIOUS
<1>1. line = NoLine /\ cycle = 0 /\ pin = 1 /\ receiver = Waiting /\ got = << >> /\ injections = 0
  BY DEF UartInit
<1>2. NoLine \in UartLines
  <2>1. PICK e, o : e = << >> /\ o = {}
    OBVIOUS
  <2>2. NoLine = [transitions |-> e, stops |-> e, trigger |-> 0, end |-> 0, period |-> 2,
                  payload |-> e, repeats |-> 1, broken |-> o]
    BY <2>1 DEF NoLine
  <2>3. e \in Seq(Transition) /\ e \in Seq(Nat) /\ e \in Seq(Characters) /\ o \in SUBSET Nat
    BY <2>1, EmptySeq
  <2> QED BY <2>2, <2>3 DEF UartLines
<1>3. NoLine.period = 2
  BY DEF NoLine
<1> QED BY <1>1, <1>2, <1>3, WaitingIs DEF UartInv, UartTypes

\* A line that has just been laid, or had a stop bit broken before it began.
LEMMA FreshHolds ==
  ASSUME NEW l, NEW gap, Laid(l, gap)
  PROVE  l \in UartLines /\ OnTheLine(l, 0, Waiting, << >>)
<1>1. gap \in GapBits /\ l \in UartLines
  BY DEF Laid
<1>2. SilentLine(l, gap, 0, Waiting, 0) /\ Faithful(l, << >>)
  BY FreshLine, WaitingIs
<1> QED BY <1>1, <1>2, WaitingIs DEF OnTheLine

\* UartInv survives an injection.
LEMMA InjectStep == UartInv /\ Inject => UartInv'
<1> SUFFICES ASSUME UartInv, Inject PROVE UartInv'
  OBVIOUS
<1>1. /\ injections' = injections + 1 /\ cycle' = 0 /\ pin' = 1 /\ receiver' = Waiting /\ got' = << >>
  BY DEF Inject
<1>2. PICK payload \in Payloads, cycles \in Periods, repeats \in Repeats, gap \in GapBits, trigger \in 0..MaxTrigger :
        line' = Armed(payload, trigger, cycles, repeats, gap)
  BY DEF Inject
<1>3. PICK l : l = line'
  OBVIOUS
<1>4. Laid(l, gap)
  <2>1. trigger \in Nat
    OBVIOUS
  <2> QED BY <1>2, <1>3, <2>1, ArmedIsLaid
<1>5. l \in UartLines /\ OnTheLine(l, 0, Waiting, << >>)
  BY <1>4, FreshHolds
<1>6. injections' \in Nat /\ injections' # 0
  BY <1>1 DEF UartInv, UartTypes
<1> QED BY <1>1, <1>3, <1>5, <1>6, WaitingIs DEF UartInv, UartTypes

\* A broken stop bit.
LEMMA BreakStep == UartInv /\ InjectFramingError => UartInv'
<1> SUFFICES ASSUME UartInv, InjectFramingError PROVE UartInv'
  OBVIOUS
<1>1. /\ injections > 0 /\ cycle = 0
      /\ UNCHANGED <<cycle, pin, receiver, got, injections>>
  BY DEF InjectFramingError
<1>2. PICK n \in DOMAIN line.stops \ line.broken :
        line' = [line EXCEPT !.transitions[line.stops[n]].level = 0, !.broken = @ \cup {n}]
  BY DEF InjectFramingError
<1>3. line \in UartLines /\ injections # 0 /\ receiver = Waiting /\ got = << >>
  BY <1>1 DEF UartInv, UartTypes
<1>4. PICK gap \in GapBits : Laid(line, gap)
  BY <1>3 DEF UartInv, OnTheLine
<1>5. PICK l : l = line'
  OBVIOUS
<1>6. n \in Nat /\ line.stops[n] \in DOMAIN line.transitions
  <2>1. n \in 1..line.repeats * Len(line.payload)
    BY <1>4 DEF Laid
  <2>2. PICK k \in 1..line.repeats, i \in 1..Len(line.payload) : n = NumberOf(line.payload, k, i)
    BY <1>4, <2>1, NumberAll
  <2>3. line.stops[n] = PlaceIn(line.payload, k, i * CharTime)
    BY <1>4, <2>2 DEF Laid
  <2>4. i * CharTime \in 1..BitCount(line.payload)
    <3>1. CharTime \in 1..CharTime /\ CharTime \in Nat
      BY UartConstants
    <3>2. (i - 1) * CharTime + CharTime \in 1..BitCount(line.payload)
      BY <1>4, <3>1, BeginsAre
    <3>3. (i - 1) * CharTime + CharTime = i * CharTime
      BY <3>1, <1>4, LaidNumbers
    <3> QED BY <3>2, <3>3
  <2>5. BitCount(line.payload) \in Nat
    BY <1>4, LaidNumbers
  <2>6. InLine(line, k, i * CharTime)
    BY <2>4, <2>5 DEF InLine
  <2>7. PlaceIn(line.payload, k, i * CharTime) \in DOMAIN line.transitions
    BY <1>4, <2>6, InLinePlace
  <2> QED BY <2>1, <2>3, <2>7
<1>7. Breaks(line, l, n)
  BY <1>2, <1>3, <1>5, <1>6, BreakIs
<1>8. Laid(l, gap)
  BY <1>2, <1>4, <1>7, BreakIsLaid
<1>9. l \in UartLines /\ OnTheLine(l, 0, Waiting, << >>)
  BY <1>8, FreshHolds
<1> QED BY <1>1, <1>3, <1>5, <1>9 DEF UartInv, UartTypes

\* A cycle.
LEMMA CycleStep == UartInv /\ UartCycle => UartInv'
<1> SUFFICES ASSUME UartInv, UartCycle PROVE UartInv'
  OBVIOUS
<1>1. /\ injections # 0 /\ pin' = LevelAt(line, cycle) /\ Received(pin') /\ cycle' = cycle + 1
      /\ line' = line /\ injections' = injections
  BY DEF UartCycle, UartInv, UartTypes
<1>2. /\ line \in UartLines /\ cycle \in Nat /\ receiver \in Receivers /\ Len(receiver.bits) <= UartBits /\ got \in GotChars
      /\ injections \in Nat
  BY DEF UartInv, UartTypes
<1>3. PICK gap \in GapBits :
        /\ Laid(line, gap) /\ Faithful(line, got)
        /\ Spoilt(line, Len(got)) \/ SilentLine(line, gap, cycle, receiver, Len(got))
           \/ Reads(line, gap, cycle, receiver, Len(got))
  BY <1>1 DEF UartInv, OnTheLine
<1>4. PICK v : v = LevelAt(line, cycle)
  OBVIOUS
<1>5. PICK rr, gg : rr = receiver' /\ gg = got'
  OBVIOUS
<1>6. v \in {0, 1}
  BY <1>3, <1>4, LevelIsBit
<1>7. HearsLevel(line.period, receiver, got, v, rr, gg)
  BY <1>1, <1>2, <1>4, <1>5, ReceivedIs
<1>8. /\ rr \in Receivers /\ Len(rr.bits) <= UartBits /\ gg \in GotChars
      /\ gg = got \/ (Len(gg) = Len(got) + 1 /\ \A n \in 1..Len(got) : gg[n] = got[n])
  <2>1. TypedReceiver(receiver)
    BY <1>2 DEF TypedReceiver
  <2>2. TypedReceiver(rr) /\ gg \in GotChars /\ Grows(got, gg)
    BY <1>2, <1>6, <1>7, <2>1, HearsTyped
  <2> QED BY <2>2 DEF TypedReceiver, Grows
<1>9. /\ Faithful(line, gg)
      /\ Spoilt(line, Len(gg)) \/ SilentLine(line, gap, cycle + 1, rr, Len(gg)) \/ Reads(line, gap, cycle + 1, rr, Len(gg))
  <2>1. CASE Spoilt(line, Len(got))
    BY <1>2, <1>3, <1>8, <2>1, LostStep
  <2>2. CASE SilentLine(line, gap, cycle, receiver, Len(got))
    <3>1. HearsLevel(line.period, receiver, got, LevelAt(line, cycle), rr, gg)
      BY <1>4, <1>7
    <3>2. gg = got /\ (SilentLine(line, gap, cycle + 1, rr, Len(got)) \/ Reads(line, gap, cycle + 1, rr, Len(got)))
      BY <1>2, <1>3, <2>2, <3>1, SilentStep
    <3> QED BY <1>3, <3>2
  <2>3. CASE Reads(line, gap, cycle, receiver, Len(got))
    BY <1>2, <1>3, <1>4, <1>7, <2>3, ReadsStep
  <2> QED BY <1>3, <2>1, <2>2, <2>3
<1>10. OnTheLine(line, cycle + 1, rr, gg)
  BY <1>3, <1>9 DEF OnTheLine
<1>11. cycle' \in Nat /\ cycle' # 0 /\ pin' \in {0, 1}
  BY <1>1, <1>2, <1>4, <1>6
<1> QED BY <1>1, <1>2, <1>5, <1>8, <1>10, <1>11 DEF UartInv, UartTypes

\* UartInv is inductive.
LEMMA UartInductive == UartSpec => []UartInv
<1>1. UartInv /\ [Uart]_uartVars => UartInv'
  <2>1. UartInv /\ UNCHANGED uartVars => UartInv'
    BY DEF UartInv, UartTypes, uartVars
  <2> QED BY <2>1, InjectStep, BreakStep, CycleStep DEF Uart
<1> QED BY <1>1, UartStart, PTL DEF UartSpec

\* Generator, receiver and what was received keep their types.
THEOREM UartTyped == UartSpec => []UartTypeOK
<1>1. UartInv => UartTypeOK
  <2> SUFFICES ASSUME UartInv PROVE UartTypeOK
    OBVIOUS
  <2>1. /\ line.transitions \in Seq(Transition) /\ line.stops \in Seq(Nat)
        /\ line.trigger \in Nat /\ line.end \in Nat
    BY DEF UartInv, UartTypes, UartLines
  <2>3. line.period \in Periods \cup {2}
    BY DEF UartInv, OnTheLine, Laid
  <2>2. receiver.age \in Int
    BY DEF UartInv, UartTypes, Receivers
  <2> QED BY <2>1, <2>2, <2>3 DEF UartInv, UartTypes, UartTypeOK, GotChars
<1> QED BY <1>1, UartInductive, PTL

\* A receiver that samples the middle of the bits gets every payload, frame after
\* frame, for characters of every length, all periods and gaps, and notices the
\* first stop bit that was broken.
THEOREM PayloadIsReceived == UartSpec => []ReceiverGetsPayload
<1>1. UartInv => ReceiverGetsPayload
  <2> SUFFICES ASSUME UartInv PROVE ReceiverGetsPayload
    OBVIOUS
  <2>0. /\ line \in UartLines /\ cycle \in Nat /\ receiver \in Receivers /\ got \in GotChars /\ injections \in Nat
        /\ Len(got) \in Nat /\ DOMAIN got = 1..Len(got)
    BY DEF UartInv, UartTypes, GotChars
  <2>1. CASE injections = 0
    <3>1. got = << >>
      BY <2>1 DEF UartInv
    <3>2. DOMAIN got = {}
      BY <3>1
    <3> QED BY <2>0, <2>1, <3>2 DEF ReceiverGetsPayload
  <2>2. CASE injections # 0
    <3>1. PICK gap \in GapBits :
            /\ Laid(line, gap) /\ Faithful(line, got)
            /\ Spoilt(line, Len(got)) \/ SilentLine(line, gap, cycle, receiver, Len(got))
               \/ Reads(line, gap, cycle, receiver, Len(got))
      BY <2>2 DEF UartInv, OnTheLine
    <3>2. /\ Sent \in Seq(Characters) /\ Len(Sent) = line.repeats * Len(line.payload)
          /\ \A k \in 1..line.repeats, i \in 1..Len(line.payload) :
               Sent[NumberOf(line.payload, k, i)] = line.payload[i]
      BY <3>1, SentIs
    <3>3. ASSUME NEW n \in DOMAIN got \cap Intact
          PROVE  got[n].char = Sent[n] /\ (got[n].framed <=> n \notin line.broken)
      <4>1. n \in 1..line.repeats * Len(line.payload) /\ n <= Len(got) /\ \A b \in line.broken : n <= b
        BY <2>0, <3>2 DEF Intact
      <4>2. PICK k \in 1..line.repeats, i \in 1..Len(line.payload) : n = NumberOf(line.payload, k, i)
        BY <3>1, <4>1, NumberAll
      <4> QED BY <3>1, <3>2, <4>1, <4>2 DEF Faithful
    <3>4. ASSUME cycle > line.end, line.broken = {}  PROVE Len(got) = Len(Sent)
      <4>1. ~Spoilt(line, Len(got))
        BY <3>4 DEF Spoilt
      <4>2. line.end \in Nat
        BY <2>0 DEF UartLines
      <4>3. ASSUME NEW k \in 1..line.repeats, NEW i \in 1..Len(line.payload), cycle <= Begins(line, gap, k, i)
            PROVE  FALSE
        <5>1. /\ Begins(line, gap, k, i) \in Nat /\ CharLasts(line) \in Nat
              /\ Begins(line, gap, k, i) + CharLasts(line) <= line.end
          BY <3>1, BeginsAre
        <5> QED BY <2>0, <3>4, <4>2, <4>3, <5>1
      <4>4. ~Reads(line, gap, cycle, receiver, Len(got))
        <5>1. ASSUME NEW k \in 1..line.repeats, NEW i \in 1..Len(line.payload),
                     receiver.age \in Nat, cycle = Begins(line, gap, k, i) + receiver.age + 1,
                     Len(receiver.bits) <= UartBits, receiver.age < MiddleOf(line.period, Len(receiver.bits) + 1)
              PROVE  FALSE
          <6>1. /\ Begins(line, gap, k, i) \in Nat /\ CharLasts(line) \in Nat
                /\ Begins(line, gap, k, i) + CharLasts(line) <= line.end
            BY <3>1, BeginsAre
          <6>2. PICK n \in Nat : n = Len(receiver.bits) + 1 /\ n + 1 <= CharTime
            BY <2>0, <5>1, UartConstants DEF Receivers
          <6>3. MiddleOf(line.period, n) \in Nat /\ MiddleOf(line.period, n) + 1 <= (n + 1) * line.period
            BY <3>1, MiddleIs, LaidNumbers
          <6>4. (n + 1) * line.period <= CharLasts(line) /\ (n + 1) * line.period \in Nat
            <7>1. CharTime \in Nat
              BY UartConstants
            <7>2. line.period \in Nat
              BY <3>1, LaidNumbers
            <7>3. PICK u \in Nat : u = n + 1
              BY <6>2
            <7> QED BY <6>2, <7>1, <7>2, <7>3, MultiplesOrdered, MultipleNat DEF CharLasts
          <6>5. PICK b \in Nat, w \in Nat, e \in Nat, a \in Nat, m \in Nat, z \in Nat :
                  /\ b = Begins(line, gap, k, i) /\ w = CharLasts(line) /\ e = line.end
                  /\ a = receiver.age /\ m = MiddleOf(line.period, n) /\ z = (n + 1) * line.period
            BY <4>2, <5>1, <6>1, <6>3, <6>4
          <6>6. b + w <= e /\ z <= w /\ m + 1 <= z /\ a < m
            BY <5>1, <6>1, <6>2, <6>3, <6>4, <6>5
          <6>7. cycle = b + a + 1 /\ cycle > e
            BY <3>4, <5>1, <6>5
          <6> QED BY ONLY <6>6, <6>7, b \in Nat, w \in Nat, e \in Nat, a \in Nat, m \in Nat, z \in Nat
        <5> QED BY <5>1 DEF Reads
      <4>5. Len(got) = line.repeats * Len(line.payload)
        BY <3>1, <4>1, <4>3, <4>4 DEF SilentLine
      <4> QED BY <3>2, <4>5
    <3> QED BY <3>3, <3>4 DEF ReceiverGetsPayload
  <2> QED BY <2>1, <2>2
<1> QED BY <1>1, UartInductive, PTL
=============================================================================
