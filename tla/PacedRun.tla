------------------------------ MODULE PacedRun ------------------------------
(***************************************************************************)
(* Paced execution of several cores and the virtual time they share:       *)
(* Simulator.step_paced_many, step, reset and hard_reset (simulator.py)    *)
(* over the core timelines of the IEP (perif/iep.py).                      *)
(*                                                                         *)
(* Times are in the integer time units of the IEP; one cycle of core c     *)
(* lasts Units[c] of them.  A call of step_paced_many is split into the    *)
(* instructions it executes; nothing else runs while it is under way.      *)
(* An instruction may raise after it has counted cycles the IEP has not    *)
(* been told of, so a core can be further than its last observation.       *)
(* base_cycles is left out: counters restart at zero with the timeline.    *)
(* The exit for a running core whose step took no cycle                    *)
(* (pacing_catchup_failed) is left out: step() counts at least one.        *)
(***************************************************************************)
EXTENDS Integers, Sequences, Functions

CONSTANTS
  Cores,
  PerifCores,   \* cores with a Peripheral Interface
  RingCores,    \* cores whose task ring keeps them counting once stopped
  Units,        \* cycle_units of each core
  Guard,        \* guard_ns in time units
  Budget,       \* _MAX_CATCHUP_STEPS, 1000 in the code
  Costs,        \* cycles an instruction may take, memory stalls included
  Selections,   \* the <<lead, followers>> pairs callers use
  MaxCount,     \* bound: the count argument of a call
  MaxTime,      \* bound: no lead steps at or after it
  MaxStepTime   \* bound: no single step at or after it

ASSUME UnitsAssumption == Units \in [Cores -> Nat \ {0}]
ASSUME PerifAssumption == PerifCores \subseteq Cores /\ RingCores \subseteq Cores
ASSUME CostsAssumption == Costs \subseteq Nat \ {0} /\ 1 \in Costs
ASSUME NumbersAssumption == Guard \in Nat /\ Budget \in Nat \ {0} /\ MaxCount \in Nat
ASSUME SelectionsAssumption == Selections \subseteq Cores \X Seq(Cores)

VARIABLES
  cycles,    \* counters.cycles of each core
  observed,  \* last_cycles: the count last given to the IEP
  base,      \* base_time_units: shared time when the core was last reset
  shared,    \* _global_time_units
  running,   \* cores neither halted nor past the end of their program
  enabled,   \* Peripheral Interfaces the GPCFG mux routes
  pending,   \* _paced_pending: frozen targets of each selection
  call,      \* the call of step_paced_many under way
  reported   \* history: targets last reported incomplete, until that
             \* selection's next complete call

times == <<cycles, observed, base, shared>>
vars == <<times, running, enabled, pending, call, reported>>

\* The dictionary key: the order of the followers does not matter.
Key(sel) == <<sel[1], Range(sel[2])>>
Keys == {Key(sel) : sel \in Selections}
None == <<>>
Idle == [phase |-> "idle"]

core_time(c) == base[c] + cycles[c] * Units[c]
observed_time(c) == base[c] + observed[c] * Units[c]
-----------------------------------------------------------------------------
Init ==
  /\ cycles = [c \in Cores |-> 0] /\ observed = [c \in Cores |-> 0]
  /\ base = [c \in Cores |-> 0] /\ shared = 0
  /\ running \in SUBSET Cores
  /\ enabled \in SUBSET PerifCores
  /\ pending = [k \in Keys |-> None]
  /\ call = Idle
  /\ reported = [k \in Keys |-> None]

\* observe_core_cycles: the IEP advances to the furthest core time.
FurthestTime(t) == IF t <= shared THEN shared ELSE t

\* n cycles pass on core c and its cycle observer tells the IEP.
Elapse(c, n) ==
  /\ cycles' = [cycles EXCEPT ![c] = @ + n]
  /\ observed' = [observed EXCEPT ![c] = cycles[c] + n]
  /\ shared' = FurthestTime(core_time(c) + n * Units[c])
  /\ UNCHANGED base

\* An instruction may stop its core, and its stores may switch the muxes.
Effects(c) ==
  /\ running' \in {running, running \ {c}}
  /\ enabled' \in SUBSET PerifCores

\* PRUCore.step of a running core.
Execute(c) ==
  /\ c \in running
  /\ \E n \in Costs : Elapse(c, n)
  /\ Effects(c)

\* PRUCore.step raising: at the instruction, before anything is counted, or in
\* a device it ticks, after the cycles are counted and before they are observed.
Fail(c) ==
  /\ c \in running
  /\ \E n \in Costs \cup {0} : cycles' = [cycles EXCEPT ![c] = @ + n]
  /\ UNCHANGED <<observed, base, shared>>
  /\ Effects(c)
-----------------------------------------------------------------------------
(***************************************************************************)
(* A call of step_paced_many.                                              *)
(***************************************************************************)
BeginCall(sel, count) ==
  /\ call = Idle
  /\ count > 0 => core_time(sel[1]) < MaxTime
  /\ call' = [phase   |-> IF pending[Key(sel)] = None THEN "turn" ELSE "resume",
              sel     |-> sel,
              left    |-> count,
              targets |-> pending[Key(sel)],
              next    |-> 1,
              steps   |-> 0]
  /\ UNCHANGED <<times, running, enabled, pending, reported>>

\* The guard applies only while both routes are active.
Target(lead, follower) ==
  core_time(lead) - IF {lead, follower} \subseteq enabled THEN Guard ELSE 0
Targets(sel) == [f \in Range(sel[2]) |-> Target(sel[1], f)]

\* One turn of the lead, which selects the targets of all followers.
LeadTurn(sel) ==
  /\ call.phase = "turn" /\ call.left > 0 /\ call.sel = sel
  /\ IF sel[1] \in running
     THEN Execute(sel[1])
     ELSE UNCHANGED <<times, running, enabled>>
  /\ call' = [call EXCEPT !.phase = "catch", !.targets = Targets(sel)',
                          !.next = 1, !.steps = 0]
  /\ reported' = [reported EXCEPT ![Key(sel)] = None]
  /\ UNCHANGED pending

CatchingUp == call.phase \in {"resume", "catch"}
Follower == call.sel[2][call.next]
FollowersLeft == CatchingUp /\ call.next <= Len(call.sel[2])
Behind(f) == f \in running /\ core_time(f) < call.targets[f]

Spent == call.steps >= Budget

FollowerStep ==
  /\ FollowersLeft /\ Behind(Follower) /\ ~Spent
  /\ Execute(Follower)
  /\ call' = [call EXCEPT !.steps = @ + 1]
  /\ UNCHANGED <<pending, reported>>

\* Seeded fault: the loop moves on once the follower is within one cycle.
NearlyDone(f) == f \in running => core_time(f) + Units[f] >= call.targets[f]
Done(f) == ~Behind(f)

NextFollower ==
  /\ FollowersLeft /\ Done(Follower)
  /\ call' = [call EXCEPT !.next = @ + 1, !.steps = 0]
  /\ UNCHANGED <<times, running, enabled, pending, reported>>

\* Seeded fault: nothing is kept, the next call starts with a turn of the lead.
ParkNothing == None
Park == call.targets

\* pacing_incomplete: the frozen targets are kept for the next call.
Incomplete ==
  /\ FollowersLeft /\ Behind(Follower) /\ Spent
  /\ pending' = [pending EXCEPT ![Key(call.sel)] = Park]
  /\ reported' = [reported EXCEPT ![Key(call.sel)] = call.targets]
  /\ call' = Idle
  /\ UNCHANGED <<times, running, enabled>>

CaughtUp ==
  /\ CatchingUp /\ ~FollowersLeft
  /\ pending' = IF call.phase = "resume"
                THEN [pending EXCEPT ![Key(call.sel)] = None] ELSE pending
  /\ call' = [call EXCEPT !.phase = "turn",
                          !.left = IF call.phase = "catch" THEN @ - 1 ELSE @]
  /\ UNCHANGED <<times, running, enabled, reported>>

EndCall ==
  /\ call.phase = "turn" /\ call.left = 0
  /\ call' = Idle
  /\ reported' = [reported EXCEPT ![Key(call.sel)] = None]
  /\ UNCHANGED <<times, running, enabled, pending>>

\* An instruction raises out of the call: targets chosen by this call are lost,
\* those a previous call left pending are kept.
Raises ==
  /\ \/ /\ call.phase = "turn" /\ call.left > 0
        /\ Fail(call.sel[1])
        /\ reported' = [reported EXCEPT ![Key(call.sel)] = None]
     \/ /\ FollowersLeft /\ Behind(Follower) /\ ~Spent
        /\ Fail(Follower)
        /\ UNCHANGED reported
  /\ call' = Idle
  /\ UNCHANGED pending
-----------------------------------------------------------------------------
(***************************************************************************)
(* What else the host does between two calls.                              *)
(***************************************************************************)
\* Simulator.step; a stopped RTU core still idles while its task ring drains.
SingleStep(c) ==
  /\ call = Idle /\ core_time(c) < MaxStepTime
  /\ \/ Execute(c)
     \/ Fail(c)
     \/ c \in RingCores \ running /\ Elapse(c, 1) /\ UNCHANGED <<running, enabled>>
  /\ UNCHANGED <<pending, call, reported>>

\* load_asm, load_elf keep the program counter: it may now lie inside the
\* program or past its end.
Load(c) ==
  /\ call = Idle
  /\ running' \in {running \cup {c}, running \ {c}}
  /\ UNCHANGED <<times, enabled, pending, call, reported>>

SetMux ==
  /\ call = Idle
  /\ enabled' \in SUBSET PerifCores
  /\ UNCHANGED <<times, running, pending, call, reported>>

\* Seeded fault: a reset core starts over at time zero.
RebasedAtZero(c) == [base EXCEPT ![c] = 0]
Rebased(c) == [base EXCEPT ![c] = shared]

Reset(c) ==
  /\ call = Idle
  /\ cycles' = [cycles EXCEPT ![c] = 0] /\ observed' = [observed EXCEPT ![c] = 0]
  /\ base' = Rebased(c)
  /\ running' \in {running \cup {c}, running \ {c}}
  /\ pending' = [k \in Keys |-> None] /\ reported' = [k \in Keys |-> None]
  /\ UNCHANGED <<shared, enabled, call>>

HardReset ==
  /\ call = Idle
  /\ cycles' = [c \in Cores |-> 0] /\ observed' = [c \in Cores |-> 0]
  /\ base' = [c \in Cores |-> 0] /\ shared' = 0
  /\ running' \in SUBSET Cores
  /\ pending' = [k \in Keys |-> None] /\ reported' = [k \in Keys |-> None]
  /\ UNCHANGED <<enabled, call>>

CallStep ==
  \/ \E sel \in Selections : LeadTurn(sel)
  \/ FollowerStep \/ NextFollower \/ Incomplete \/ CaughtUp \/ EndCall

Next ==
  \/ \E sel \in Selections, count \in 0..MaxCount : BeginCall(sel, count)
  \/ CallStep \/ Raises
  \/ \E c \in Cores : SingleStep(c) \/ Load(c) \/ Reset(c)
  \/ SetMux \/ HardReset

Spec == Init /\ [][Next]_vars

\* The host does nothing but paced calls, with every route active throughout.
CallsOnly ==
  /\ Init /\ enabled = PerifCores
  /\ [][/\ (\E sel \in Selections, count \in 0..MaxCount : BeginCall(sel, count)) \/ CallStep
        /\ enabled' = enabled]_vars
-----------------------------------------------------------------------------
TargetMaps(sel) == {None} \cup [Range(sel[2]) -> Int]

CallsOf(sel) ==
  [phase : {"turn", "resume", "catch"}, sel : {sel}, left : 0..MaxCount,
   targets : TargetMaps(sel), next : 1..(Len(sel[2]) + 1), steps : 0..Budget]

TypeOK ==
  /\ cycles \in [Cores -> Nat] /\ observed \in [Cores -> Nat]
  /\ base \in [Cores -> Nat] /\ shared \in Nat
  /\ running \in SUBSET Cores /\ enabled \in SUBSET PerifCores
  /\ DOMAIN pending = Keys /\ DOMAIN reported = Keys
  /\ \A sel \in Selections : {pending[Key(sel)], reported[Key(sel)]} \subseteq TargetMaps(sel)
  /\ call = Idle \/ \E sel \in Selections : call \in CallsOf(sel)
  /\ call.phase = "catch" => call.left > 0

\* The IEP is never behind a time a core has reported to it, whichever core is
\* stepped, however far, and whatever is reset in between (observe_core_cycles).
SharedTimeIsFurthest == \A c \in Cores : observed_time(c) <= shared

\* Only a hardware reset turns time back: the shared clock never decreases, and
\* a core placed at the shared time by its own reset (rebase_core) is not thrown
\* back behind a time it reported before.
TimeNeverRewinds ==
  [][HardReset \/ /\ shared' >= shared
                  /\ \A c \in Cores : observed_time(c)' >= observed_time(c)]_vars

Reached(f, target) == f \in running => core_time(f) >= target

\* Once a call has reported pacing_incomplete, the lead of that selection does
\* not execute again until every follower has reached the target reported for it
\* or has stopped -- whatever other selections run, single steps, loads and
\* instructions that raise come in between.
LeadWaits ==
  [][\A sel \in Selections : LeadTurn(sel) =>
       \A f \in DOMAIN reported[Key(sel)] : Reached(f, reported[Key(sel)][f])]_vars

\* When a call has done with its followers, none that still runs is short of its
\* target, the ones served first included.
FollowersReachTargets ==
  call.phase = "turn" =>
    \A f \in DOMAIN call.targets : Reached(f, call.targets[f])

\* As the pacing design states it: the follower "never leads".  At rest no
\* follower with an active route is later than its lead.
FollowerNeverLeads ==
  call = Idle => \A sel \in Selections : \A f \in Range(sel[2]) :
    {sel[1], f} \subseteq enabled => core_time(f) <= core_time(sel[1])
=============================================================================
