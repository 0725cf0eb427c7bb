# TLA+ models of the PRU simulator

This directory holds a verification project for the PRU-ICSSG simulator: TLA+
modules translated from the Python sources, TLC configurations that check them
on small instances, and proofs that TLAPS checks for every value of the
constants.  `PROJECT.json` maps each definition to the source lines it models
and lists the runs, hazards, findings and theorems.

## 1. The system and its parts

The simulator executes PRU firmware instruction by instruction.  One Python
object (`Simulator`) owns up to four cores, the memory bus and all devices; it is
single-threaded.  The dashboard server drives one shared `Simulator` from an
asyncio loop with one handler per browser view; the MCP server and the headless
runner drive their own.

| Component | State | Operations | Interacts with |
|---|---|---|---|
| PRU core (`core/pru_core.py`, `branch.py`, `counters.py`) | registers, pc, halted, loop state, cycle counters | `step`, `run`, `reset`, `load_*` | ticks its accelerators, ring, devices and Peripheral Interface; tells the IEP of its cycles, in a fixed order at the end of a step |
| Task ring XFR2TR (`xfr/task_ring_accelerator.py`) | submit FIFO with two 4-bit pointers, copy engine, ring write index | XOUT 0x70/0x71/0x72, XIN status, `tick` | memory; runs on after HALT |
| Other broadside accelerators (`xfr/`) | XFR2VBUS channels, XFRDMA threads, MAC, CRC, scratchpads | XIN/XOUT/XCHG, `advance`, `begin_step` | VBUS memory; may hold the core |
| Paced execution (`simulator.py`) | core times, frozen catch-up targets of each selection | `step`, `step_paced_many`, `reset`, `hard_reset` | cores, IEP timelines, route enables of the Peripheral Interface |
| IEP timer (`perif/iep.py`) | 64-bit counter, compares, captures, shared time, remainder | `observe_core_cycles`, register reads and writes, `capture_event` | all cores, SSI and Peripheral Interface timing |
| Peripheral Interface (`perif/perif_channel.py`) | TX/RX FIFOs and state machines, line history | R30/R31 strobes, `advance_cycles` | loopback between PRU0 and PRU1 |
| Device bus (`pru_io/device_model.py`, `io_port.py`) | drives, nets, wires, leases, contention | `settle`, `advance_cycles`, attach, detach, wire, direction, reset | GPIO of all cores, every device model |
| Devices (`pru_io/ssi_*`, `tca9538*`) | encoder frame, mailbox, expander registers | edges of their pins, `tick` | device bus, firmware, host |
| Sigma-delta filter, UART generator (`pru_io/sd_*.py`, `uart_frame_generator.py`) | integrators and latches; transitions to come | `tick`, R30/R31 commands, inject | R30/R31 of one core |
| Step history (`ui/server.py`) | one list of snapshots per core, one shared order | record, step back, clear | every other part of the simulator, through snapshots |
| Browser connection (`ui/live_sessions.py`) | bounded queue, writer task, futures of awaited replies | `publish`, `send_json`, `close` | the WebSocket and the request handler |
| Dashboard requests (`ui/server.py`) | connections, execution owner, throttle, trailing timer | WebSocket actions, `PUT /config` | simulator, history, connections |
| MCP server, headless runner (`mcp_server/`, `tools/headless_runner.py`) | breakpoints, the call under way, its limits | run until, step, reset, ELF load, waveform | a simulator of their own, the `random` module |
| Memory map, assembler, disassembler, ELF loader, browser code | | | see section 7 |

What is hard, and what has to be right:

* *Autonomous hardware.*  The ring drains while the core runs on, faults or
  halts; its pointers alias when firmware submits too much.  Nothing may be
  lost uncounted, copied twice or left behind, and the status that firmware
  polls must be honest.
* *Several clocks, one time.*  Each core counts its own cycles; the IEP keeps the
  furthest.  Calls run out of budget, instructions raise in the middle of a
  step, cores are reset while others run.  Time must not go back, and a lead
  must not run away from a follower.
* *Exact arithmetic.*  The IEP advances millions of ticks in closed form and
  carries fractions of a tick; both have to agree with the hardware's
  tick-by-tick definition without drift.
* *Edges between instructions.*  A Peripheral Interface channel learns of time only
  after each instruction, which may have taken many clock edges: bits and samples
  must stay on their grids, and the transmitter, the receiver that arms itself and
  the clock that the receiver stops meet in one and the same advance.
* *Instructions executed again.*  A held transfer, a waiting instruction and one
  that raises are repeated; a loop counts passes all the same, and no repetition
  may queue or consume twice.
* *Wires.*  Devices and cores drive the same pins, react to each other's edges
  within one operation and lease directions from each other; levels must settle,
  an edge must not come back as its own echo, and what was leased is given back.
* *Two sides of a protocol.*  Encoder and firmware, firmware and host, master and
  expander, generator and receiver each keep half of a protocol with times of
  their own; what arrives must be what was sent, or be marked as spoiled.
* *Looking ahead.*  A cycle budget is kept by executing the next instruction on a
  copy, or by bounding it; neither may leave a trace.
* *Undo across shared state.*  Cores share memory and time, so stepping one
  back must undo its peers' later steps.
* *Concurrency on the event loop.*  Other handlers run during every await, and
  awaits fail: queues overflow, sends time out, views disappear at any point.
  Every view must get an ordered stream and, in the end, the newest state.

## 2. Modules

| Module | Models | State and actions |
|---|---|---|
| `PruCore` | `PRUCore.step`, `reset`, `run`, `load`, with `LoopState` and `CycleCounters` | A program is a function from addresses to instructions, an instruction what it does to control.  `Step` is one whole step: held, absent and waiting instructions, branches, LOOP, faults, HALT, idle cycles, the loop check behind it, and the calls that tell each clock of the cycles.  `behind[c]` is what clock `c` has not been told.  The sigma-delta filter is a clock too, but one that is ticked: once by every instruction executed, never in an idle cycle; `stalled` counts what it should have missed by that. |
| `TaskRing` | `XFR2TRRing` and how `PRUCore.step` drives it | One step of the core is an instruction action (`ConfigureSource`, `ConfigureRing`, `Submit`, `OtherInstruction`, `Halt`, or `HaltedStep` for a stopped core), which sets `owed` to the cycles it took, followed by that many engine cycles (`IdleCycle`, `CountDown`, `StartComesDue`, `Land`, `LandFails`), one for each iteration of the loop in `tick`. |
| `TrFifo` | the promise: a FIFO that may overrun, after which it promises no more | abstract specification, implemented by `TaskRing` (`ImplementsFifo`) |
| `VbusChannels` | the read and write channels of XFR2VBUS over the memory behind them | One action per instruction, each with the `advance` of its step.  An address counts words and has a low and a high part. |
| `XfrDma` | XFRDMA threads, and the hold of a transfer in `PRUCore.step` | An instruction under way is state, because a held one is executed again until it retires.  Received bytes and sent payloads are numbered. |
| `CrcEngine`, `MacUnit` | the CRC16/32 and multiply-accumulate units | Registers as sets of bit positions; sums in base `Base` with wrap and sticky carry.  The reference of each is a history of all it was fed. |
| `Scratchpads` | XIN, XOUT, XCHG with byte strobes, the register rotation, banks and IPC pad | Registers and pads as functions of the byte position. |
| `PacedRun` | `Simulator.step_paced_many`, `step`, `load`, `reset`, `hard_reset` over the core timelines of `IepTimer` | A call is split at its instructions: `BeginCall`, `LeadTurn`, `FollowerStep`, `NextFollower`, `Incomplete`, `CaughtUp`, `EndCall`, `Raises`.  Nothing else runs during a call, as in the code.  Between calls: `SingleStep`, `Load`, `SetMux`, `Reset`, `HardReset`. |
| `IepTimer` | the registers and the rational tick rate of `IepTimer` | `Observe` is the advance by elapsed time with the closed form of `_advance_ticks`; the other actions are register and host writes and captures.  `TickByTick` is the reference, `IepTimer.tick`. |
| `PerifChannel` | one channel of the Peripheral Interface, with `process_r30`, `process_r31_command` and `reset` | `Advance` is the whole of `advance()`: state machine and serializer, free-running clock, auto-arm, sampling; the others are what firmware and host do in between.  Times are kept relative to the last advance. |
| `DeviceBus` | the shared resolver `DeviceBus` and the GPIO part of each core's port | Attach, detach, wires, leases, direction changes, outputs of the core, ticks of time-driven devices, reset; each action ends with the settling `_settle` of the code, phase by phase.  What a device drives is any of its responses. |
| `SsiReader` | `ssi_encoder_model.py`, the reader firmware of `source/ssi_generic_reader/`, and the mailbox of `ssi_runtime.py` | Each cycle the firmware goes on and the encoder ticks behind it; the host reads the mailbox a word at a time in between. |
| `I2cExpander` | `tca9538.py` behind its bus adapter, and a bit-banging master | One action per edge or condition of the bus. |
| `SdFilter` | `sd_filter.py`, `sd_channel.py` | The cascade, decimation and latches; R31 commands and status with the echo between them. |
| `UartLine` | `uart_frame_generator.py` with `uart_inject`, and a receiver at the pin | One action per core cycle. |
| `StepHistory` | `_history`, `_history_order`, `_snapshot`, `_restore` | The machine is a function from parts to stamps of their last change; steps, edits and undo change it.  Which parts a snapshot holds is a constant. |
| `ViewStream` | `DashboardConnection` with its writer task, its handler and the socket | The writer's and the handler's suspension points are states; overflow, timeout, cancellation and disconnection are actions of their own. |
| `Dashboard` | `websocket_endpoint`, `_publish_updates`, the trailing timer | A request is a change with its reply queued, then an await, then `Announce`.  A view shows panels: one for each core, and its windows into memory.  A publication carries all of them to all views but its origin; a reply carries one core (`OneCore`), those that ran (`SomeCores`), the windows, an acknowledgement only, or there is none (`SetLoopback`).  A panel is current, due, or marked with why an older state stays in it.  The queue is `ViewStream`'s ordered stream, so a panel is current once its newest state is queued. |
| `HostRuns` | `pru_run_until`, `pru_step`, `pru_reset`, `pru_breakpoint`, `pru_elf_load`, the waveform run, the loop of the headless runner | A call is state, each pass of its loop an action; the projection of a budget is the same step of a core on a copy, whose draws are given back.  `plain` is the machine that was never asked to look ahead. |

How they fit together.  `PruCore` has the order of a step and abstracts the units
to their clocks; `TaskRing`, `XfrDma` and `VbusChannels` are the units that hold,
raise or run on, seen from their own side.  `TaskRing` gives `PacedRun` the steps
that raise after counting cycles (`LandFails` and `Raises`) and the stopped cores
that count on (`RingCores`), and `HostRuns` the ring that lands behind the end of
a program; `PacedRun` gives `IepTimer` the elapsed units and `PerifChannel` the
durations it is advanced by; `DeviceBus` gives the device modules pins that
settle before the core's next instruction.  `ViewStream` gives `Dashboard` that
an awaited reply always ends, which is the fairness `Dashboard` assumes of
`Announce` and `ReplyFails`.

`MCBroadside` composes the five accelerator modules and `MCDevices` the bus and
the four devices.  Their parts share no state in the code either, so a behaviour
exercises one of them (the variable `unit` or `device`): interleaving them would
multiply the states and show nothing new.  Each other `MC` module extends one
module with the values its `.cfg` files use.  A `_proof` module extends the module of
its name with its theorems; `Server_proof` extends `Dashboard` and `StepHistory`,
`Hosts_proof` extends `ViewStream` and `HostRuns`, `Core_proof` extends `PruCore` and
`UartLine`, the line at a pin of the core, `Devices_proof` the IEP timer, the bus and the other
devices, `Broadside_proof` extends `MCBroadside`, `Timelines_proof` extends `PacedRun` and
`PerifChannel`.  `Lemmas` holds facts of numbers and folds that the last four share.

Definitions commented as seeded faults are not used by the specifications: each
is a plausible bug that is put in the place of the definition next to it, to
see that a property notices.  `PROJECT.json` lists one for each property of each
run.  Seven more were tried by hand, and each broke the property in brackets:
`AccumulateForgets` of `MacUnit` (`ResultsAreExact`), `SplitWord` of `Scratchpads`
(`PadsAreExact`), `HoldQueues` of `XfrDma` (`DmaIsExact`), `ExpiresEarly` of `SsiReader`
(`MailboxCanBeTrusted`), `AddsOld` of `SdFilter` (`ShadowIsFilter`), `OnlyStopsWriter` of
`ViewStream` (`NoViewHangs`), `SamePlace` of `HostRuns` (`ReportsAreTrue`).

## 3. Runs

| Run | Asks | Instance, and why it is enough |
|---|---|---|
| `core` | Does a loop run its body as often as asked and end, is every clock but the filter's given the cycles counted, and does the filter miss the memory stalls and idle cycles and nothing else? | Every program of three instructions from a set in which a loop can be empty, reach behind the end, be left, entered, repeated from inside, held, faulted and replaced; counts 0 to 2, stalls to 2, one more program to load.  A lag of `MaxLag = 3` and more counts as 3, no step is disabled by it: a stalled access and an idle cycle, or two stalled accesses, fill it, and every smaller disagreement shows. |
| `task_ring` | Is any TR lost, repeated or invented uncounted, is `busy` honest, is the ring a FIFO below the overflow, does a halted core drain it? | FIFO depth 2, up to 2 IDs per XOUT, 7 submissions between resets: the write pointer laps the FIFO more than once, so overwriting, the pointers becoming equal with slots waiting (16 outstanding at depth 8, 4 here) and reuse of the slots afterwards all happen.  Copies take 3 or 4 cycles, longer than an instruction (1 or 2), so submissions arrive at every phase of a copy. |
| `broadside` | Does a read stream have no gap, do held transfers take effect once, are CRCs, sums and scratchpad transfers exact? | Reads of one and two words over four addresses of which the last is a hole, so that streams carry into the high address and run into the hole; two DMA threads with FIFOs of two and three injected bytes, so that they are held and drained; CRC with the true widths and polynomials, four bytes at most; MAC operands of base 3 and sums that wrap four times; three registers of two bytes, a bank of two, an IPC pad of one. |
| `paced` | Is shared time the furthest and monotone, are frozen targets honoured? | Three cores, one of them with a ring, two selections that share cores, budget 1 so that every call may run out, different clocks.  A lead may take a turn up to time 3 (a single step up to 2), so that a selection whose followers were left a whole call behind can be asked for another turn: at 2 a lead that forgets its targets is out of time before it shows. |
| `iep` | Does the closed form equal the ticks, is there no drift, are captures held? | A counter of four values with increments 2 (not invertible) and 3, two compares with and without CMP0 reset, batches of 1 and 5 ticks: the least, and more than a full period.  Clock sources of 5/3 and 5/4 ticks per unit, neither whole, with every retiming between two observations. |
| `perif_channel` | Are the bits sent those given, the bytes received those on the line, the clocks without drift, is the clock stopped by the right event? | Bytes of two bits, FIFOs of two, one setting in continuous mode with auto-arm and one with a frame of three bits, swapped and after both delays.  A bit lasts two units, an RX sample two, an advance one or three: it ends before, at and beyond an edge.  The receiver listens for three samples of any level, a start bit and a byte; modes 0, 1 and 3. |
| `devices` | Do wired pins settle on one level, without echoes, with directions given back and contention noted; does what a device sends arrive? | Two ports of one pin that a wire may join, three devices of which two may be attached, two owners of a lease; an encoder of two position bits and an error bit in both encodings, firmware delays within and beyond the encoder's times; expander bytes of two bits, in which every byte and pointer is possible, transfers of up to four; three samples in two instructions at a decimation of 2 and 3, a second channel that must not take the commands; UART characters of two bits of 2 and 3 cycles, two frames, one gap bit, a second injection during the first. |
| `history` | Is undo consistent? | Two cores, two shared parts of which one is not captured, a history of two steps so that trimming happens, four changes. |
| `view_stream` | Is the stream ordered, do replies tell the truth, does every view that hangs get its socket closed? | A queue of 3 and 7 messages, enough to overflow it while the writer sends and a reply waits; every race of overflow, timeout, cancellation and disconnection. |
| `dashboard` | Is a panel with an old state always owed a publication, and does it come without anyone's request? | Three views (owner, requester, observer are different ones).  Marks take the place of versions, so the number of changes has no bound.  One panel, which a request may change and its reply carry or not: a publication treats all panels alike and no guard looks at them, so what becomes of one does not depend on the others.  (By hand TLC was also given two views with the panels of two cores, both properties, and three views with a core and the memory windows, the invariant; the theorem holds for any panels.) |
| `host_runs` | Does a budget leave no trace, is it kept, are reports true? | Programs of up to three instructions with jitter, stalls, a switch of the pins, a fault, an endless loop and a TR that lands behind HALT or the end; budgets and step limits at, below and above what they need; calls of every kind one after another up to cycle 8, so that what one leaves shows in the next. |
| `host_route` | the finding of section 5 | as `host_runs` |

Bounds are constants named `Max...` and stand in the guards of the actions that
would count without end (`MaxLag` alone saturates instead).  `view_stream` and `devices` set `CHECK_DEADLOCK FALSE`: a
connection ends for good, and a device whose bound of samples or injections is
used up stops; every other model can always go on.

The type invariants are in no configuration, to leave the runs to what could be
wrong.  TLC was given each of them by hand, with the configurations here; those
of `PruCore`, `TaskRing`, `PacedRun`, `HostRuns`, `VbusChannels`, `CrcEngine`, `DeviceBus` and
`SdFilter` are proved.

### Fairness

* `PruCore`: a core that is told to run is stepped again, so `Step` is weakly
  fair; resets and loads need not happen.  `LoopEnds` is claimed of loops in which
  nothing waits or goes back.
* `TaskRing`: a step ticks the ring through all its cycles, and `PRUCore.run`
  keeps stepping a stopped core while its ring is busy, so `EngineCycle` and
  `HaltedStep` are weakly fair.  A running core need not execute anything.
* `ViewStream`: tasks that can run do run, the two-second timeout of a send fires,
  and a closing socket closes.  The browser need do nothing.
* `Dashboard`: awaited replies end, the interval passes, a due callback runs.  No
  view needs to send anything.
* All others: none, and no liveness is claimed.  Whether frozen targets are ever
  finished depends on a caller who calls again after `pacing_incomplete`, which
  nothing in the code makes happen; whether a frame is read depends on firmware.

## 4. What is proved

All proofs hold for every value of the constants, under the assumptions named
next to the constants in each module (`DepthAssumption`, `UnitsAssumption`,
`HostAssumption`, ...), which TLC also evaluates on each run.

* `Core_proof`, of `PruCore`: `TypeCorrect`; `ClocksInStep`, by what every kind of step tells
  each clock, the filter's lag being the memory stalls and idle cycles and the others' none; `LoopStaysConfined` and `LoopCountsPasses`, for every program whose
  branches respect the bodies of its loops (`Structured`), unless another program
  was loaded since the last reset (`clean`).  `LoopInv` is needed for both: an armed loop has
  control in its body, and the passes begun are those asked less the count left.
  Of `UartLine`: `UartTyped` and `PayloadIsReceived`, for characters of every length, all
  payloads (the empty one included), periods of two cycles and more, repeats and gaps.
  The timeline is a sequence of sequences, flattened; each of its transitions has a frame
  and a place in it, and lasts a bit or a gap (`LaterTime`), so the level in any cycle is
  that of one bit of one character (`BitSeen`) or idle (`GapSeen`, `NothingSeen`), also
  after stop bits have been broken (`BreakIsLaid`).  `UartInv` says of the receiver that it
  waits while the line is idle until the next character begins (`SilentLine`), or is in
  that character, before the middle of the bit it is to take, and has the bits up to there
  (`Reads`), or that a broken stop bit is behind it (`Spoilt`).  What it has received up to
  and including the first broken one stays the payload (`Faithful`).
* `TaskRing_proof`: `RingInvariant`, then `RingTypeOK`, `StatusIsHonest`,
  `OverflowIsCounted` and `RingIsFifo`.
  `NotBusyMeansDrained` is not inductive: `EngineInv` adds that an idle engine
  has equal pointers and no waiting slot (so that clearing the marks at a stop
  loses nothing it could start again), and that a start that is due has nothing
  in flight, something to copy and falls in the submitting step.
  `OverflowIsCounted` proves `OverflowCountsLost` from `PlacesInv`: a waiting ID was
  never latched and waits in one slot only, and a slot without a waiting ID holds one
  that is gone, so that a copy repeated by aliasing pointers changes no set.
  `RingIsFifo` proves the refinement `ImplementsFifo` step by step: while nothing was
  overwritten, `Orderly` holds (landed IDs are 1, 2, ...; the one in flight is the
  next; those behind it, at most `Depth`, wait in the slots of their positions), a
  submission that overwrites nothing is `Enqueue`, one that does is `Overrun`, a landing
  is `Deliver`.  It needs `Depth >= 2` and at most `Depth` IDs in a submission: positions
  up to `Depth + 1` apart must differ modulo `2 * Depth`.
* `Timelines_proof`, of `PacedRun`: two inductive invariants.  `TimeInv` (no core was told to the
  IEP further than its count, the shared time covers all that was told) gives
  `IepIsNeverBehind` and, with one more step argument, `NoRewind`.  `DueInv` ties
  the three places that hold targets together: the pending table, the call under
  way and what was last reported; it gives `TargetsAreReached` and
  `LeadIsHeldBack`.  It is needed because the lead's guard reads the call's phase
  while the property speaks of what an earlier call reported.
  Of `PerifChannel`: `FramesInOrder`, `GridKept` (`NoDrift`), `BytesOfTheLine`, `PerifTypes`
  and `ClockStops`, for any sizes of bytes and FIFOs, any clocks, settings, frame sizes
  and delays, and any pattern of advances.  `PerifInv` has two halves.  `TxLine`: what the
  transmitter owes is what it has put on the line followed by what is to come (`Coming`:
  the rest of the frame and, in continuous mode, the FIFO), and the time since the first
  bit is that of the bits sent plus how late in a period it is.  `RxLine`: the time since
  the receiver was armed is that of the levels sampled plus the time to the next edge, and
  what was captured is what those levels make (`Captured`): the shift register holds the
  last of them, there was no start bit before it started, and the bytes lie at equal
  distances behind the first one.  An advance runs two loops of unknown length, written
  as functions over the edges.  The proof first shows that such a function is its rounds
  and then, by induction over the rounds, that half a period puts on the line what came
  next or nothing (`Sends`), and that the levels so far have been captured (`SoFar`).
  `BitsInOrder` and `BytesFromLine` are not inductive: what was sent says nothing of what
  is queued, nor do the bytes of where in the next byte the receiver is.
* `Server_proof`, of `Dashboard`: `NoSilentStaleness` and `LockIsNeverOrphaned`, for any
  number of views and panels, from the invariant that a trailing timer runs only for a
  withheld state and that only connected views are in the middle of a request.  Of
  `StepHistory`: `UndoIsConsistent`, from the invariant that every snapshot in the order
  is a state on the path, that no entry lies later on it than a younger one, and that
  the present state is the end of the path.
* `Hosts_proof`, of `ViewStream`: `OneOrderedStream`, from the invariant that what was
  sent, what is in the writer's hands and what is queued are consecutive numbers;
  `RepliesAreAnswered` proves `RepliesAreTrue` from the same invariant and from a reply
  that is awaited being a real message.  Of `HostRuns`: `HostTypeCorrect`;
  `LookingAheadIsFree`, inductive as it stands; `CyclesAreBounded`, which needs that
  only two kinds of call have a budget, that the headless runner counts from a new
  core, and that what `random` yields is at most the jitter its bound allows for
  (`SteppedTyped`); `ReportsHold`, from `UnmetInv`: only the headless runner gives up on a
  condition, in a state that no step changes, and nothing runs behind it.
* `Devices_proof`, of `IepTimer`: `NoDrift`, from the invariant that ticks, remainder and
  elapsed time satisfy the division equation whenever the timer counts, and that a rate
  is never changed without starting a new phase; `CapturesAreHeld`, by what each action
  does to the capture registers; `IepTyped`; and `BatchIsExact`, for every increment,
  register size, compare set-up and number of ticks.  `HitIs` says that `hit_distance` is
  the first tick at which the counter equals the value, or that there is none: with the
  common divisor of increment and modulus taken out the increment has an inverse (from
  Bezout's identity, in `Lemmas`), and the ticks that reach a value leave one remainder.
  `HitsMore` and `ResetIs` make that the hits and the resets of one tick more, and
  `BatchStep` a batch of `n + 1` ticks a batch of `n` and a tick; the single ticks agree
  with it by induction.  Compares that share a value, a reset at zero, increments that
  have no inverse and an increment of zero are all in it.
  Of `DeviceBus`: `BusInductive` is the invariant behind every operation.  What the bus
  has written to the ports is what it resolves from the drives as they are (`Written`),
  what is on record of a net is the contention it has, and a leased pin remembers the
  direction the firmware chose for it.  Settling is two phases, so the proof says once what a phase
  does to ports and devices, for any answers, and what is left when the devices come to
  rest.  It gives `BusTyped`, `InputsAlwaysCurrent`, `DirectionsAlwaysReturn`,
  `ConflictsAlwaysNoted` and `NeverAnEcho`.  The last assumes `NoLoops`, that no wire joins
  two pins of one port: over such a wire a device does see the edge it makes, which TLC
  shows when `MCDevices` is given one.  The invariant corrected the model: what the
  others alone put on a device's pins (`bus.peers`) may change in the second phase of an
  operation, and the next comparison is then with no levels at all (`AtRest`).
  Of `SdFilter`: `SdTyped` and `FiltersAreExact`.  The accumulators wrap and the
  reference is a fold over the stream; `SdInv` says that each is a weighted sum of the
  stream modulo the width, with the binomial weights of its place in the cascade.
  Of `I2cExpander`: `WritesAlwaysStored`, for every length of byte, every address and
  every pointer.  `I2cInv` has a `Moment` for each step of the firmware, which says what
  the chip has made of the transfer so far and what both sides have seen of the lines;
  TLC checked it with bytes of three bits before it was proved.
  Of `SsiReader`: `GoodReadersNeverBlamed` and `MailboxIsTrusted`, for any delays, monoflop,
  shortest period, encoding and fields.  `FirmwareInv` says how far each step of the
  firmware has come, and `EncoderInv` that the encoder's monoflop measures the time since
  the firmware's last fall.  From these, `FrameInv`: a frame whose clock is faster than the
  monoflop is in step with the encoder (`Synced`), or the encoder is ahead of it, because
  it was still busy when the frame began, and will report that (`Ahead`), or has been
  blamed; a frame that is slower is blamed by its third bit.  `MailInv` says that the words
  of the mailbox are written between two flips of its sequence, and `GoodInv` follows a
  reader that keeps to its times bit by bit.  That the mailbox then decodes to the
  fields rests on the parity of a Gray code's prefix being the bit of the position.
  The first low phase of a frame is assumed no longer than the others, as it has no
  delay loop.  `MailboxCanBeTrusted` needs `Resolution >= 3`, a hypothesis of the theorem:
  with shorter words it is false (section 5).
* `Broadside_proof`, of `VbusChannels`: `VbusTyped` and `StreamsHaveNoGap`, for every
  window and latency, from where the word behind the buffered ones comes from and
  whether a reissue or a latched request fits the window.  Of `XfrDma`:
  `DmaAlwaysExact`, from what the queue holds of the payloads sent, flattened.  Of
  `MacUnit`: `SumIsExact`, from what sum, carry and accumulator are to each other.
  Of `CrcEngine`: `CrcTyped` and `CrcsAreExact`; the register and the long division of the
  reference run side by side, and after `k` bits what is left of the dividend is the
  register at the top with the bits to come under it.  `ResultsAlwaysExact` is the
  property the run checks, of the units together.
  Of `Scratchpads`: `PadTyped`, `TransfersAreExact` and `PadsAlwaysExact`.  Both properties
  speak of what a transfer would do to the state at hand, so the invariant is only that
  registers and pads keep their sizes; the work is in the transfer, which goes register by
  register and reads R0 again for each.  `SentUpTo` and `BackUpTo` say what has arrived
  after so many registers; the shift stays what it was because the R0 received is the one
  that was sent.  The banks a transfer reaches are different ones as long as it is no
  longer than the pad.  An exchange keeps the number of times each byte occurs, because
  positions of registers and pad trade places.
* `Lemmas` has what several of these need.  The library's induction theorems take an
  operator and cannot be instantiated here; `SetInduction` says the same of a set of
  numbers, and follows from the well-foundedness of `<` on them.  `FoldTable`, `FoldRuns`
  and `FoldEnds` turn the library's `FoldLeft`, a function chosen by its recursion, into a
  sequence of intermediate values over which an induction can go.  `Congruent`, `Bezout`,
  `InverseExists` and `Solutions` are the arithmetic of congruences that the timer needs.

Only model-checked: every liveness property (the prover has no rule for fairness here).
Every safety property of the passing runs, invariant or action property, is a theorem.

## 5. Findings

`host_route`: a cycle budget makes `pru_run_until` execute the next instruction on
`copy.deepcopy(self.sim)`.  Python copies functions by reference, and the callback
that a store to GPCFG fires (`simulator.py`:286) is a closure over the live
simulator.  When the projected store is refused for the budget, the live
Peripheral Interface has been switched although the live core has not executed it,
against the comment at `mcp_server/server.py`:329.  (If the store does fit, the live
step switches it again, so only a refusal shows it.)

Other places where the code does not do what a text beside it says are in the
modules as properties that no run checks.  Each fails at once when put
into a configuration of its module:

| Property | Configuration | What happens |
|---|---|---|
| `PacedRun.FollowerNeverLeads` | `MCPacedRun` with `SPECIFICATION CallsOnly`, the cores `pru0` and `pru1`, `RingCores = {}`, `Units <- SameClock`, `Guard = 4`, `Budget = 1000`, `Costs = {1, 6}`, `Selections <- LeadOnly`, `MaxCount = 2`, `MaxTime = 9`, `MaxStepTime = 9` | the catch-up loop runs an instruction whenever the follower is short of its target and overshoots by up to that instruction; the design notes say it never leads |
| `PerifChannel.ClockKeepsRate` | `MCPerifChannel` | when the transmitter has run out of data and only the clock goes on, its pin toggles once a period, half the rate of the data phase; the comment above the data loop describes just this error |
| `IepTimer.WriteOneToClear` | `MCIepTimer` | a byte write to a status register clears the flags of its other bytes, because they are read back and written |
| `Dashboard.FailedRepliesAreSeen` | `MCDashboard` | when a requester disconnects before it took its reply, its change is not published until something else is |
| `Dashboard.WithheldStatesAreSent` | `MCDashboard` | a publication cancels the timer, forgets what was withheld (`ui/server.py`:1286-1290) and leaves out its origin (1275), whose reply need not carry the core that ran: `set_loopback` has none, `write_memory` an acknowledgement, an edit of another core only that core.  The documentation says "All views receive its updates", `_publish_trailing` "observers get the newest state anyway" |
| `PruCore.IdleMovesAllClocks` | `MCPruCore` | the docstring of `_advance_idle_cycle` says "The same clocks a retired instruction moves at the end of ``step()``"; `step()` ticks the sigma-delta filter (711), the idle cycle does not.  For the same reason a stall of several cycles is one tick for the filter, "one PRU clock tick" in `pru_io/sd_filter.py`:93; `ClocksAgree` says exactly what it misses |
| `DeviceBus.ContentionRecorded` | `MCDevices` | removing a wire can bring back, unrecorded, the very conflict that was recorded before it was laid |

`StaleViewsArePending` and `ViewsCatchUp` exempt two cases, each by the mark it leaves in
a panel, until the next publication that reaches the view: "failure", of a request that
ended before its publication with no timer running, and "origin", of a publication that
left the view out although its reply did not carry the panel.  The second is wider than
`WithheldStatesAreSent`: with no run going on, an edit of one core or of memory that
changes what another panel shows (a shared pin, a register window) leaves that panel of
the requester old.  The mark is set also while another handler has still to publish,
which then clears it.  This repository's
browser makes up for one of these: after `set_loopback` it asks for the state of the
core it has selected (`ui/static/app.js`:2793), of that core only.

Observations that no run claims:

* A headless run with `--until` reports `condition_unmet` at a HALT although the
  ring still copies and a queued TR would have met the condition.  With
  `--max-cycles` an access outside every region ends in `internal_error`, without it
  the fault halts the core and `--until halt` succeeds; the MCP call reports "halted"
  for a fault too.  The runner may pass its budget by one idle cycle behind the
  end of a program, which `BudgetKept` allows.
* A run from an address with a breakpoint never advances.
* A reset of the core alone restarts the SSI firmware, which clears the sequence
  word and then the data: until its next publication the host may find a
  coherent mailbox of mixed content.  `MailboxCanBeTrusted` speaks of firmware
  that is not reset.
* The code accepts SSI words of one or two bits.  With those a mistimed reader can publish
  a wrong frame without a fault: the monoflop runs out in the guard time behind the last
  clock, before the firmware looks at the line, and the bit is read as 1.  (`SsiReader`
  with `PositionBits = 2`, `ErrorBits = 0`, `Monoflop = 8`, `MinPeriod = 4`, delays 6 high
  and 3 low, `FirstLow = 1`.)  From three bits on such a reader is always reported.
* The expander commits a byte at the eighth rise of SCL, also when that rise is
  the clock of a STOP; the master of `I2cExpander` does not break off there
  (`Breakable`).  Its fault checker reports a legal STOP or repeated START right
  after the acknowledge of an address or pointer.
* The R31 command that initialises a sigma-delta channel is lost when the status
  it echoes has data bit 24 set; `SdFilter` models it (`obeyed`).
* A UART injection takes the clock of all cores from one setting, and its trigger
  is an absolute cycle.
* A receiver of the Peripheral Interface that arms itself takes its first
  samples from the last advance on, which lie before its deadline when the
  instruction was longer than the rest of the delay; `NoDrift` counts from there.
  With the host's `rx_auto_shutoff` a frame that ends in `advance()` clears the next
  edge, to which that loop then adds a period, a `TypeError`; no firmware can turn
  it on.  `tx_reinit` in the middle of a bit leaves the line history alone.
* A register edit that overlaps a captured run chunk may be recorded twice by a
  recording tab (`ui/server.py`:1239).
* Before Python 3.12 `asyncio.wait_for` can swallow a cancellation that arrives
  just as the send has completed; then the writer of a connection waits for its
  next message and `DashboardConnection.close` for the writer.  `ViewStream` lets
  the completed send win, and claims for that reason that replies resolve and
  that the socket closes, not that the handler returns.

## 6. Plan

Done, in this order: `TaskRing`, `PacedRun`, `IepTimer`, `StepHistory`, `ViewStream`,
`Dashboard`, `PerifChannel`, `PruCore`, the accelerators, the bus and the devices,
`HostRuns`.  What is left, in the order of importance:

1. `PerifLink`: two instances of `PerifChannel` with the line histories through which
   the loopback of `perif/loopback.py` connects them, advanced at different times as
   `PacedRun` allows.  Properties: each sample is the level the peer's line finally
   has at that time, if the peer leads; what is sent is received.
2. `SSIEmulatorRuntime`: profiles that replace each other while its timer runs.
3. Snapshots of the devices and channels, as parts of `StepHistory`.
4. Capture samples in `Dashboard`: no sample is missing or recorded twice.
5. `MVI` and the burst loads of `PruCore`, whose addresses come from registers.

## 7. What is not modelled

* The assembler, the parser, the disassembler and the ELF loader: translations of
  text and bytes without behaviour over time; their tests compare with recorded
  encodings.  `HostRuns` and `PruCore` start where a program has been loaded.
* The results of ALU instructions, which are functions of their operands:
  `PruCore` keeps where control may go.  BSWAP has no state.
* The constant table and the regions of the peripherals as such; a transfer finds
  all of its words or an error (`VbusChannels`), a cost (`HostRuns`), or nothing
  mapped (`TaskRing`).
* The line history, loopback and status words of the Peripheral Interface, and
  its register layout; RXIPG and GLOBAL_STATUS of the IEP, which are storage.
* Snapshots of single units.  The step history models that a snapshot leaves the
  accelerators' queues alone, which `readme.md` documents, not what is in them.
* On the bus: the host's stimuli of inputs, the limit of 256 on recorded
  conflicts, sigma-delta mode, the legacy `i2c_device`, presets, profiles and
  scenarios, which build configurations.  Of the devices: event and fault lists,
  encoder layouts beyond position and error, the modulator, fast detect.
* Layout and rendering in the browser, the contents of messages, and files.
