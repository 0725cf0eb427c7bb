------------------------------ MODULE HostRuns ------------------------------
(***************************************************************************)
(* Runs of a core on behalf of a host: pru_run_until, pru_step, pru_reset, *)
(* pru_breakpoint and pru_elf_load of mcp_server/server.py, the waveform   *)
(* run of mcp_server/vcd_export.py and the loop of                         *)
(* tools/headless_runner.py.  Each pass of a loop is an action, so that    *)
(* the states between the instructions of a call are visible.              *)
(*                                                                         *)
(* The core is what a run can tell apart: where it is, how many cycles an  *)
(* instruction takes, whether it stops, and what goes on behind its back   *)
(* (a copy of the task ring that lands later).  PruCore models the rest.   *)
(***************************************************************************)
EXTENDS Integers, Sequences

CONSTANTS
  Programs,     \* what may be loaded, see Op
  ReadStall,    \* deterministic stall of the "load" instruction
  WriteStall,   \* stall of a write to GPCFG
  Draws,        \* what random.randint yields, over and over
  Jitter,       \* the region's jitter, the largest draw
  RingTime,     \* cycles the copy of a submitted TR takes
  Target,       \* N of the condition cycles>N
  StepLimits,   \* values of max_steps, count
  CycleLimits,  \* values of max_cycles, NoBudget among them
  MaxCycles     \* bound: a call starts only up to this cycle count

Op == {"plain", "load", "perif", "gpio", "submit", "again", "halt", "fault"}
NoBudget == 0

ASSUME HostAssumption ==
  /\ Programs \subseteq Seq(Op)
  /\ ReadStall \in Nat /\ WriteStall \in Nat /\ RingTime \in Nat \ {0}
  /\ Jitter \in Nat /\ Draws # << >> /\ Draws \in Seq(0..Jitter)
  /\ StepLimits \subseteq Nat /\ CycleLimits \subseteq Nat
  /\ Target \in Nat /\ MaxCycles \in Nat

VARIABLES
  program,
  machine,      \* the core and what it acts on, see Machine
  breakpoints,  \* addresses
  route,        \* perif.enabled: the pins are those of the Peripheral Interface
  rng,          \* how many numbers the module's generator has drawn
  call,         \* the call under way
  report,       \* the reason the last one returned
  plain         \* history: machine and rng, had no call been given a budget

hostVars == <<program, machine, breakpoints, route, rng, call, report, plain>>

Machine ==
  [pc : Nat, cycles : Nat, halted : BOOLEAN, faulted : BOOLEAN,
   ring : Nat,        \* cycles until the queued TR lands
   landed : BOOLEAN,  \* it has, in memory
   mux : BOOLEAN]     \* GPCFG selects the Peripheral Interface
Kinds == {"until", "step", "waveform", "headless"}
Conditions == {"halt", "cycles", "landed"}
Reasons == {"none", "halted", "condition_met", "breakpoint", "budget_exceeded", "max_steps",
            "condition_unmet", "end_of_program", "internal_error"}
Idle == [kind |-> "none", until |-> "halt", steps |-> 0, budget |-> 0, start |-> 0]
Exited == [Idle EXCEPT !.kind = "exited"]   \* the headless runner's process has ended

HostTypeOK ==
  /\ program \in Programs
  /\ machine \in Machine
  /\ breakpoints \subseteq Nat
  /\ route \in BOOLEAN
  /\ rng \in 0..Len(Draws)-1
  /\ call \in [kind : Kinds \cup {"none", "exited"}, until : Conditions, steps : Nat,
               budget : CycleLimits \cup {NoBudget}, start : Nat]
  /\ report \in Reasons
  /\ plain \in [machine : Machine, rng : 0..Len(Draws)-1]

Fresh == [pc |-> 0, cycles |-> 0, halted |-> FALSE, faulted |-> FALSE, ring |-> 0,
          landed |-> FALSE, mux |-> FALSE]

HostInit ==
  /\ program \in Programs
  /\ machine = Fresh
  /\ breakpoints = {}
  /\ route = FALSE
  /\ rng = 0
  /\ call = Idle
  /\ report = "none"
  /\ plain = [machine |-> Fresh, rng |-> 0]
-----------------------------------------------------------------------------
(* One PRUCore.step of a simulator in state m, the draw being the next one. *)

Running(m) == ~m.halted /\ m.pc < Len(program)
This(m) == program[m.pc + 1]

\* The ring copies on while cycles pass, also behind the end of the program.
Elapsed(m, n) ==
  [m EXCEPT !.cycles = @ + n, !.ring = IF @ > n THEN @ - n ELSE 0,
            !.landed = @ \/ (m.ring > 0 /\ m.ring <= n)]

Cost(op, draw) ==
  CASE op = "load" -> 1 + ReadStall + draw
    [] op \in {"perif", "gpio"} -> 1 + WriteStall
    [] OTHER -> 1

Stepped(m, draw) ==
  IF Running(m)
  THEN LET op == This(m)
           done == [m EXCEPT
             !.pc = IF op \in {"again", "halt", "fault"} THEN @ ELSE @ + 1,
             !.halted = op \in {"halt", "fault"},
             !.faulted = op = "fault",
             !.ring = IF op = "submit" THEN RingTime ELSE @,
             !.mux = IF op \in {"perif", "gpio"} THEN op = "perif" ELSE @]
       IN  Elapsed(done, Cost(op, draw))
  ELSE IF m.ring > 0 THEN Elapsed(m, 1) ELSE m

Draws1(m) == IF Running(m) /\ This(m) = "load" THEN 1 ELSE 0
Drawn(m, r) == (r + Draws1(m)) % Len(Draws)
Draw(r) == Draws[r + 1]

\* The store that writes GPCFG calls back, and the route follows.
Rerouted(m, old) ==
  IF Running(m) /\ This(m) \in {"perif", "gpio"} THEN This(m) = "perif" ELSE old

\* core.step() of the live simulator.
Execute ==
  /\ machine' = Stepped(machine, Draw(rng))
  /\ rng' = Drawn(machine, rng)
  /\ route' = Rerouted(machine, route)
  /\ plain' = [machine |-> Stepped(plain.machine, Draw(plain.rng)),
               rng |-> Drawn(plain.machine, plain.rng)]

\* condition_met
Holds(m, until) ==
  CASE until = "halt" -> m.halted
    [] until = "cycles" -> m.cycles > Target
    [] until = "landed" -> m.landed
Met(until) == Holds(machine, until)
MetReason(until) == IF until = "halt" THEN "halted" ELSE "condition_met"

Returns(reason) ==
  /\ call' = IF call.kind = "headless" THEN Exited ELSE Idle
  /\ report' = reason
Goes == call' = [call EXCEPT !.steps = @ - 1] /\ UNCHANGED report
-----------------------------------------------------------------------------
Begins(kind, until, steps, budget) ==
  /\ call = Idle /\ machine.cycles <= MaxCycles
  /\ call' = [kind |-> kind, until |-> until, steps |-> steps, budget |-> budget,
              start |-> machine.cycles]
  /\ report' = "none"
  /\ UNCHANGED <<program, machine, breakpoints, route, rng, plain>>

RunUntil == \E u \in Conditions, s \in StepLimits, b \in CycleLimits : Begins("until", u, s, b)
StepSome == \E s \in StepLimits : Begins("step", "halt", s, NoBudget)
ExportWaveform == \E s \in StepLimits : Begins("waveform", "halt", s, NoBudget)

\* The runner has a process of its own, and refuses limits of zero.
RunHeadless ==
  /\ machine = Fresh /\ breakpoints = {} /\ route = FALSE
  /\ \E u \in Conditions, s \in StepLimits \ {0}, b \in CycleLimits : Begins("headless", u, s, b)

Stops(until) == Met(until) \/ machine.pc \in breakpoints

\* Seeded fault: the generator is left where the projection took it.
KeepsDrawing == rng' = Drawn(machine, rng)

\* random.setstate: the live step draws what the projected one drew.
Restored == UNCHANGED rng

\* Seeded fault: only the deterministic part of the stall is predicted.
WithoutJitter == Stepped(machine, 0).cycles

\* projected_core.counters.cycles.  The copy has registers and memory of its
\* own, but the callbacks of the copied memory are those of the live simulator.
Projected == Stepped(machine, Draw(rng)).cycles

\* One pass of pru_run_until.
UntilStops ==
  /\ call.kind = "until" /\ call.steps > 0 /\ Stops(call.until)
  /\ Returns(IF Met(call.until) THEN MetReason(call.until) ELSE "breakpoint")
  /\ UNCHANGED <<program, machine, breakpoints, route, rng, plain>>

UntilSteps ==
  /\ call.kind = "until" /\ call.steps > 0 /\ ~Stops(call.until)
  /\ call.budget # NoBudget => Projected - call.start <= call.budget
  /\ Execute /\ Goes
  /\ UNCHANGED <<program, breakpoints>>

UntilRefuses ==
  /\ call.kind = "until" /\ call.steps > 0 /\ ~Stops(call.until)
  /\ call.budget # NoBudget /\ Projected - call.start > call.budget
  /\ route' = Rerouted(machine, route)
  /\ Restored
  /\ Returns("budget_exceeded")
  /\ UNCHANGED <<program, machine, breakpoints, plain>>

\* Seeded fault: the condition is not looked at behind the last step.
NeverLooksBack == Returns("max_steps")

LooksBack == Returns(IF Met(call.until) THEN MetReason(call.until) ELSE "max_steps")

UntilEnds ==
  /\ call.kind = "until" /\ call.steps = 0
  /\ LooksBack
  /\ UNCHANGED <<program, machine, breakpoints, route, rng, plain>>

\* pru_step
StepGoes ==
  /\ call.kind = "step" /\ call.steps > 0
  /\ Execute /\ Goes
  /\ UNCHANGED <<program, breakpoints>>

StepEnds ==
  /\ call.kind = "step" /\ call.steps = 0
  /\ Returns("none")
  /\ UNCHANGED <<program, machine, breakpoints, route, rng, plain>>

\* export_pin_waveform: breakpoints do not stop it, nor does the ring go on.
WaveformGoes ==
  /\ call.kind = "waveform" /\ call.steps > 0 /\ Running(machine)
  /\ Execute /\ Goes
  /\ UNCHANGED <<program, breakpoints>>

WaveformEnds ==
  /\ call.kind = "waveform" /\ (call.steps = 0 \/ ~Running(machine))
  /\ Returns(IF machine.halted THEN "halted"
             ELSE IF Running(machine) THEN "max_steps" ELSE "end_of_program")
  /\ UNCHANGED <<program, machine, breakpoints, route, rng, plain>>

\* _next_instruction_cycle_bounds, its maximum.
Bound == IF ~Running(machine) THEN 0 ELSE Cost(This(machine), Jitter)
Remaining == call.budget - machine.cycles

\* Seeded fault: a step that leaves the pc where it is has changed nothing.
SamePlace(m) == m.pc = machine.pc

\* Not even the cycle counter has moved.
NothingChanged(m) == m = machine

\* One pass of run; the condition is first looked at before any step.
HeadlessGoes ==
  LET next == Stepped(machine, Draw(rng)) IN
  /\ call.kind = "headless" /\ call.steps > 0 /\ ~Met(call.until)
  /\ ~machine.halted
  /\ call.budget # NoBudget => /\ Bound <= Remaining
                               /\ ~(Running(machine) /\ This(machine) = "fault")
  /\ Execute
  /\ IF NothingChanged(next) /\ ~next.halted
     THEN Returns("condition_unmet")
     ELSE Goes
  /\ UNCHANGED <<program, breakpoints>>

\* Asking for the bounds of an access outside every region raises.
HeadlessStops ==
  /\ call.kind = "headless"
  /\ \/ Met(call.until) /\ Returns(MetReason(call.until))
     \/ ~Met(call.until) /\ machine.halted /\ Returns("condition_unmet")
     \/ ~Met(call.until) /\ ~machine.halted /\ call.steps = 0 /\ Returns("max_steps")
     \/ /\ ~Met(call.until) /\ ~machine.halted /\ call.steps > 0 /\ call.budget # NoBudget
        /\ IF Running(machine) /\ This(machine) = "fault" THEN Returns("internal_error")
           ELSE Bound > Remaining /\ Returns("budget_exceeded")
  /\ UNCHANGED <<program, machine, breakpoints, route, rng, plain>>
-----------------------------------------------------------------------------
\* pru_breakpoint
AddBreakpoint ==
  /\ call = Idle
  /\ \E a \in 0..Len(program)-1 : breakpoints' = breakpoints \cup {a}
  /\ UNCHANGED <<program, machine, route, rng, call, report, plain>>

\* pru_reset: the registers of the other units and memory stay.
AfterReset(m) == [Fresh EXCEPT !.landed = m.landed, !.mux = m.mux]
Reset ==
  /\ call = Idle
  /\ machine' = AfterReset(machine)
  /\ plain' = [plain EXCEPT !.machine = AfterReset(@)]
  /\ UNCHANGED <<program, breakpoints, route, rng, call, report>>

\* pru_elf_load: everything is new but the random numbers; a load that fails
\* has built nothing but a simulator nobody keeps.
ElfLoad ==
  /\ call = Idle
  /\ program' \in Programs
  /\ machine' = Fresh /\ breakpoints' = {} /\ route' = FALSE
  /\ plain' = [plain EXCEPT !.machine = Fresh]
  /\ UNCHANGED <<rng, call, report>>

\* The next process.
NewProcess ==
  /\ call = Exited
  /\ program' \in Programs
  /\ machine' = Fresh /\ breakpoints' = {} /\ route' = FALSE /\ rng' = 0
  /\ plain' = [machine |-> Fresh, rng |-> 0]
  /\ call' = Idle /\ report' = "none"

HostNext ==
  \/ RunUntil \/ StepSome \/ ExportWaveform \/ RunHeadless
  \/ UntilStops \/ UntilSteps \/ UntilRefuses \/ UntilEnds
  \/ StepGoes \/ StepEnds \/ WaveformGoes \/ WaveformEnds
  \/ HeadlessGoes \/ HeadlessStops
  \/ AddBreakpoint \/ Reset \/ ElfLoad \/ NewProcess

HostSpec == HostInit /\ [][HostNext]_hostVars
-----------------------------------------------------------------------------
\* A call with a cycle budget executes what it would have executed without,
\* draw for draw: what a projection did leaves no trace in the machine, nor in
\* any later call.
BudgetLeavesNoTrace == plain = [machine |-> machine, rng |-> rng]

\* No call takes more cycles than it was given, in the middle of it or after,
\* whatever the stalls and the jitter.  One idle cycle behind the end of the
\* program is not counted by the headless runner.
BudgetKept ==
  call.budget # NoBudget =>
    machine.cycles - call.start <=
      call.budget + (IF call.kind = "headless" /\ ~Running(machine) THEN 1 ELSE 0)

\* What a call that has returned says of the core is true of the core: a
\* condition that is met is never reported as missed, by a limit that was
\* reached in the same step.
ReportsOfCalls ==
  [][call.kind \in Kinds /\ call'.kind \notin Kinds =>
       /\ report' \in {"halted", "condition_met"} =>
            IF call.kind = "waveform" THEN machine'.halted ELSE Holds(machine', call.until)
       /\ report' \in {"breakpoint", "budget_exceeded", "condition_unmet", "max_steps"} =>
            IF call.kind = "waveform" THEN Running(machine') ELSE ~Holds(machine', call.until)
       /\ report' = "end_of_program" => ~Running(machine')]_hostVars

\* The headless runner gives up only on a machine in which no further step
\* changes anything; a core that has halted it gives up on all the same,
\* though its task ring may still be copying.
UnmetIsFinal ==
  report = "condition_unmet"
    => machine.halted \/ Stepped(machine, 0) = machine

\* Both: what a host is told it may rely on.
ReportsAreTrue == ReportsOfCalls /\ [][UnmetIsFinal']_hostVars

\* The pins are routed as the register of the live core says.
RouteFollowsRegister == route = machine.mux
=============================================================================
