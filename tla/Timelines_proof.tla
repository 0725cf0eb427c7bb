-------------------------- MODULE Timelines_proof --------------------------
(***************************************************************************)
(* Proofs about what runs on the time line of a core.                      *)
(*                                                                         *)
(* Paced execution, for any number of cores, any clock ratios and any      *)
(* budget.  TimeInv strengthens SharedTimeIsFurthest so that it is         *)
(* inductive; DueInv says where the targets of an unfinished call are kept *)
(* in every phase of a call.                                               *)
(*                                                                         *)
(* A channel of the Peripheral Interface, for any sizes, clocks, settings  *)
(* and writes.  PerifInv says of the transmitter (TxLine) that what it     *)
(* owes is what it has put on the line and what is to come of the frame    *)
(* and the FIFO, at the time since the first bit; and of the receiver      *)
(* (RxLine) where on its grid it is and what it has made of the levels.    *)
(* The data loop of an advance and its sampling loop are functions: they   *)
(* are shown to be their rounds, and Sends and SoFar to hold round by      *)
(* round.                                                                  *)
(***************************************************************************)
EXTENDS PacedRun, PerifChannel, Lemmas

TimeInv ==
  /\ \A c \in Cores : observed[c] <= cycles[c]
  /\ SharedTimeIsFurthest

\* How the clocks of a step move, seen from the outside.
Counted(c) ==
  /\ \E n \in Nat : cycles' = [cycles EXCEPT ![c] = @ + n]
  /\ UNCHANGED <<observed, base, shared>>

Zeroed(c) ==
  /\ cycles' = [cycles EXCEPT ![c] = 0] /\ observed' = [observed EXCEPT ![c] = 0]
  /\ base' = Rebased(c)
  /\ UNCHANGED shared

ClockStep ==
  \/ UNCHANGED times
  \/ \E c \in Cores : (\E n \in Nat : Elapse(c, n)) \/ Counted(c) \/ Zeroed(c)
  \/ HardReset

TimesOK ==
  /\ cycles \in [Cores -> Nat] /\ observed \in [Cores -> Nat]
  /\ base \in [Cores -> Nat] /\ shared \in Nat

-----------------------------------------------------------------------------
\* Elapsed cycles add to a time the way core_time_units counts them.
LEMMA AddCycles ==
  ASSUME NEW b \in Nat, NEW a \in Nat, NEW n \in Nat, NEW u \in Nat
  PROVE  /\ b + a * u \in Nat
         /\ b + a * u + n * u = b + (a + n) * u
         /\ b + a * u + n * u \in Nat
  OBVIOUS

LEMMA MoreCycles ==
  ASSUME NEW b \in Nat, NEW a \in Nat, NEW d \in Nat, NEW u \in Nat, a <= d
  PROVE  b + a * u <= b + d * u
<1>1. PICK n \in Nat : d = a + n  BY d = a + (d - a), d - a \in Nat
<1>2. b + d * u = b + a * u + n * u  BY <1>1, AddCycles
<1>3. n * u \in Nat /\ b + a * u \in Nat  OBVIOUS
<1> QED BY <1>2, <1>3

\* Whatever a clock step is, the invariant about times survives it and no time
\* a core has reported is taken back.
LEMMA ClockStepKeepsInv ==
  ASSUME TimesOK, TimeInv, ClockStep
  PROVE  /\ TimesOK' /\ TimeInv'
         /\ HardReset \/ /\ shared' >= shared
                         /\ \A c \in Cores : observed_time(c)' >= observed_time(c)
<1> USE UnitsAssumption DEF TimesOK, TimeInv, SharedTimeIsFurthest, observed_time
<1>0. \A c \in Cores : Units[c] \in Nat /\ observed_time(c) \in Nat
  BY AddCycles
<1>1. CASE UNCHANGED times
  BY <1>0, <1>1 DEF times
<1>2. ASSUME NEW c \in Cores, NEW n \in Nat, Elapse(c, n)
      PROVE  /\ TimesOK' /\ TimeInv'
             /\ shared' >= shared
             /\ \A d \in Cores : observed_time(d)' >= observed_time(d)
  <2>1. /\ core_time(c) + n * Units[c] = base[c] + (cycles[c] + n) * Units[c]
        /\ core_time(c) + n * Units[c] \in Nat
    BY AddCycles DEF core_time
  <2>2. shared' \in Nat /\ shared' >= shared /\ shared' >= core_time(c) + n * Units[c]
    BY <1>2, <2>1 DEF Elapse, FurthestTime
  <2>3. /\ cycles' = [cycles EXCEPT ![c] = cycles[c] + n]
        /\ observed' = [observed EXCEPT ![c] = cycles[c] + n]
        /\ base' = base
    BY <1>2 DEF Elapse
  <2>4. TimesOK' /\ \A d \in Cores : observed'[d] <= cycles'[d]
    BY <2>2, <2>3
  <2>5. \A d \in Cores : observed_time(d)' >= observed_time(d) /\ observed_time(d)' <= shared'
    <3> TAKE d \in Cores
    <3>1. CASE d # c
      BY <1>0, <2>2, <2>3, <3>1
    <3>2. CASE d = c
      <4>1. observed_time(c)' = base[c] + (cycles[c] + n) * Units[c]
        BY <2>3
      <4>2. observed[c] <= cycles[c] + n /\ cycles[c] + n \in Nat
        OBVIOUS
      <4>3. observed_time(c) <= base[c] + (cycles[c] + n) * Units[c]
        BY <1>0, <4>2, MoreCycles
      <4> QED BY <1>0, <2>1, <2>2, <3>2, <4>1, <4>3
    <3> QED BY <3>1, <3>2
  <2> QED BY <2>2, <2>4, <2>5
<1>3. ASSUME NEW c \in Cores, Counted(c)
      PROVE  /\ TimesOK' /\ TimeInv'
             /\ shared' = shared
             /\ \A d \in Cores : observed_time(d)' = observed_time(d)
  <2>1. PICK n \in Nat : cycles' = [cycles EXCEPT ![c] = cycles[c] + n]
    BY <1>3 DEF Counted
  <2>2. observed' = observed /\ base' = base /\ shared' = shared
    BY <1>3 DEF Counted
  <2> QED BY <2>1, <2>2
<1>4. ASSUME NEW c \in Cores, Zeroed(c)
      PROVE  /\ TimesOK' /\ TimeInv'
             /\ shared' = shared
             /\ \A d \in Cores : observed_time(d)' >= observed_time(d)
  <2>1. /\ cycles' = [cycles EXCEPT ![c] = 0] /\ observed' = [observed EXCEPT ![c] = 0]
        /\ base' = [base EXCEPT ![c] = shared] /\ shared' = shared
    BY <1>4 DEF Zeroed, Rebased
  <2>2. TimesOK' /\ \A d \in Cores : observed'[d] <= cycles'[d]
    BY <2>1
  <2>3. \A d \in Cores : observed_time(d)' >= observed_time(d) /\ observed_time(d)' <= shared'
    <3> TAKE d \in Cores
    <3>1. CASE d # c
      BY <1>0, <2>1, <3>1
    <3>2. CASE d = c
      <4>1. observed_time(c)' = shared + 0 * Units[c]
        BY <2>1
      <4> QED BY <1>0, <2>1, <3>2, <4>1
    <3> QED BY <3>1, <3>2
  <2> QED BY <2>1, <2>2, <2>3
<1>5. CASE HardReset
  <2>1. /\ cycles' = [c \in Cores |-> 0] /\ observed' = [c \in Cores |-> 0]
        /\ base' = [c \in Cores |-> 0] /\ shared' = 0
    BY <1>5 DEF HardReset
  <2>2. \A c \in Cores : 0 + 0 * Units[c] <= 0
    BY <1>0
  <2> QED BY <1>5, <2>1, <2>2
<1> QED
  <2>1. ASSUME NEW c \in Cores, (\E n \in Nat : Elapse(c, n)) \/ Counted(c) \/ Zeroed(c)
        PROVE  /\ TimesOK' /\ TimeInv' /\ shared' >= shared
               /\ \A d \in Cores : observed_time(d)' >= observed_time(d)
    <3>1. CASE \E n \in Nat : Elapse(c, n)  BY <1>2, <3>1
    <3>2. CASE Counted(c)  BY <1>0, <1>3, <3>2
    <3>3. CASE Zeroed(c)  BY <1>4, <3>3
    <3> QED BY <2>1, <3>1, <3>2, <3>3
  <2>2. CASE UNCHANGED times  BY <1>0, <1>1, <2>2 DEF times
  <2> QED BY <1>5, <2>1, <2>2 DEF ClockStep
-----------------------------------------------------------------------------
\* Cores a selection names are cores, and a call in progress names one.
LEMMA ActingCores ==
  ASSUME TypeOK
  PROVE  /\ \A sel \in Selections : sel[1] \in Cores /\ sel[2] \in Seq(Cores)
         /\ call # Idle => call \in CallsOf(call.sel) /\ call.sel \in Selections
         /\ call.phase # "idle" => call # Idle
         /\ FollowersLeft => /\ Follower \in Cores
                             /\ call # Idle /\ call.next \in 1..Len(call.sel[2])
<1>1. \A sel \in Selections : sel[1] \in Cores /\ sel[2] \in Seq(Cores)
  BY SelectionsAssumption
<1>2. call # Idle => call \in CallsOf(call.sel) /\ call.sel \in Selections
  BY DEF TypeOK, CallsOf
<1>3. call.phase # "idle" => call # Idle
  BY DEF Idle
<1>4. ASSUME FollowersLeft
      PROVE  Follower \in Cores /\ call # Idle /\ call.next \in 1..Len(call.sel[2])
  <2>1. call.phase # "idle" /\ call.next <= Len(call.sel[2])
    BY <1>4 DEF FollowersLeft, CatchingUp
  <2>2. call.sel[2] \in Seq(Cores) /\ call.next \in 1..(Len(call.sel[2]) + 1)
    BY <1>1, <1>2, <1>3, <2>1 DEF CallsOf
  <2>3. call.next \in 1..Len(call.sel[2])
    BY <2>1, <2>2
  <2> QED BY <1>3, <2>1, <2>2, <2>3 DEF Follower
<1> QED BY <1>1, <1>2, <1>3, <1>4

\* Two selections with one key have the same followers.
LEMMA SameKey ==
  ASSUME NEW s \in Selections, NEW t \in Selections, Key(s) = Key(t)
  PROVE  Range(s[2]) = Range(t[2]) /\ TargetMaps(s) = TargetMaps(t)
  BY DEF Key, TargetMaps

\* Every step of the specification moves the clocks in one of the four ways.
LEMMA StepMovesClocks ==
  ASSUME TypeOK, [Next]_vars
  PROVE  ClockStep
<1>1. ASSUME NEW c \in Cores, Execute(c)  PROVE ClockStep
  BY <1>1, CostsAssumption DEF Execute, ClockStep
<1>2. ASSUME NEW c \in Cores, Fail(c)  PROVE ClockStep
  <2>1. Counted(c)
    BY <1>2, CostsAssumption DEF Fail, Counted
  <2> QED BY <2>1 DEF ClockStep
<1>3. CASE \E sel \in Selections : LeadTurn(sel)
  BY <1>1, <1>3, ActingCores DEF LeadTurn, ClockStep
<1>4. CASE FollowerStep
  BY <1>1, <1>4, ActingCores DEF FollowerStep
<1>5. CASE Raises
  <2>1. CASE FollowersLeft /\ Fail(Follower)
    BY <1>2, <2>1, ActingCores
  <2>2. CASE call.phase = "turn" /\ Fail(call.sel[1])
    BY <1>2, <2>2, ActingCores
  <2> QED BY <1>5, <2>1, <2>2 DEF Raises
<1>6. CASE \E c \in Cores : SingleStep(c)
  BY <1>1, <1>2, <1>6 DEF SingleStep, ClockStep
<1>7. CASE \E c \in Cores : Reset(c)
  BY <1>7 DEF Reset, Zeroed, ClockStep
<1>8. CASE \/ \E sel \in Selections, count \in 0..MaxCount : BeginCall(sel, count)
           \/ NextFollower \/ Incomplete \/ CaughtUp \/ EndCall
           \/ \E c \in Cores : Load(c)
           \/ SetMux \/ UNCHANGED vars
  BY <1>8 DEF BeginCall, NextFollower, Incomplete, CaughtUp, EndCall, Load, SetMux, vars, ClockStep
<1>9. CASE HardReset
  BY <1>9 DEF ClockStep
<1> QED BY <1>3, <1>4, <1>5, <1>6, <1>7, <1>8, <1>9 DEF Next, CallStep

\* The bookkeeping of a call keeps its types.
LEMMA StepKeepsType ==
  ASSUME TypeOK, TimesOK', [Next]_vars
  PROVE  TypeOK'
<1> USE NumbersAssumption
<1> DEFINE Flags == running \in SUBSET Cores /\ enabled \in SUBSET PerifCores
           Map(m) == /\ DOMAIN m = Keys
                     /\ \A sel \in Selections : m[Key(sel)] \in TargetMaps(sel)
           CallOK == /\ call = Idle \/ \E sel \in Selections : call \in CallsOf(sel)
                     /\ call.phase = "catch" => call.left > 0
<1>1. Flags /\ Map(pending) /\ Map(reported) /\ CallOK  BY DEF TypeOK
<1>2. Flags' /\ Map(pending') /\ Map(reported') /\ CallOK' => TypeOK'
  BY DEF TypeOK, TimesOK
<1>3. \A sel \in Selections : None \in TargetMaps(sel) /\ Key(sel) \in Keys
  BY DEF TargetMaps, Keys
<1>4. ASSUME NEW m, NEW sel \in Selections, NEW t \in TargetMaps(sel), Map(m)
      PROVE  Map([m EXCEPT ![Key(sel)] = t])
  <2> DEFINE new == [m EXCEPT ![Key(sel)] = t]
  <2>1. DOMAIN new = Keys
    BY <1>4
  <2>2. ASSUME NEW s \in Selections  PROVE new[Key(s)] \in TargetMaps(s)
    <3>1. CASE Key(s) = Key(sel)  BY <1>3, <1>4, <3>1, SameKey
    <3>2. CASE Key(s) # Key(sel)  BY <1>3, <1>4, <3>2
    <3> QED BY <3>1, <3>2
  <2> QED BY <2>1, <2>2
<1>5. Map([k \in Keys |-> None])
  BY <1>3
<1>6. ASSUME NEW c \in Cores, Effects(c)  PROVE Flags'
  BY <1>1, <1>6 DEF Effects
<1>7. call' = Idle => CallOK'
  BY DEF Idle
<1>8. \A sel \in Selections : Len(sel[2]) \in Nat
  BY ActingCores
<1>9. ASSUME NEW sel \in Selections, NEW count \in 0..MaxCount, BeginCall(sel, count)
      PROVE TypeOK'
  <2>1. pending[Key(sel)] \in TargetMaps(sel) /\ 1 \in 1..(Len(sel[2]) + 1) /\ 0 \in 0..Budget
    BY <1>1, <1>8
  <2>2. call' \in CallsOf(sel) /\ call'.phase # "catch"
    BY <1>9, <2>1 DEF BeginCall, CallsOf
  <2> QED BY <1>1, <1>2, <1>9, <2>2 DEF BeginCall
<1>10. ASSUME NEW sel \in Selections, LeadTurn(sel)  PROVE TypeOK'
  <2>1. call \in CallsOf(sel) /\ call.left > 0
    BY <1>10, ActingCores DEF LeadTurn
  <2>2. Targets(sel)' \in TargetMaps(sel)
    <3>1. sel[1] \in Cores /\ \A f \in Range(sel[2]) : f \in Cores
      BY ActingCores DEF Range
    <3>2. \A c \in Cores : core_time(c)' \in Nat
      BY UnitsAssumption, AddCycles DEF TimesOK, core_time
    <3>3. \A f \in Range(sel[2]) : Target(sel[1], f)' \in Int
      BY <3>1, <3>2 DEF Target
    <3> QED BY <3>3 DEF Targets, TargetMaps
  <2>3. call' = [call EXCEPT !.phase = "catch", !.targets = Targets(sel)',
                             !.next = 1, !.steps = 0]
    BY <1>10 DEF LeadTurn
  <2>4. 1 \in 1..(Len(sel[2]) + 1) /\ 0 \in 0..Budget
    BY <1>8
  <2>5. call' \in CallsOf(sel)
    BY <2>1, <2>2, <2>3, <2>4 DEF CallsOf
  <2>6. call'.left > 0
    BY <2>1, <2>3 DEF CallsOf
  <2>7. Map(pending') /\ Map(reported')
    BY <1>1, <1>3, <1>4, <1>10 DEF LeadTurn
  <2>8. Flags'
    BY <1>1, <1>6, <1>10, ActingCores DEF LeadTurn, Execute
  <2> QED BY <1>2, <2>5, <2>6, <2>7, <2>8
<1>11. CASE FollowerStep
  <2>1. /\ call \in CallsOf(call.sel) /\ call.sel \in Selections /\ call.steps < Budget
        /\ call' = [call EXCEPT !.steps = call.steps + 1]
    BY <1>11, ActingCores DEF FollowerStep, Spent, CallsOf
  <2>2. call.steps + 1 \in 0..Budget
    BY <2>1 DEF CallsOf
  <2>3. call' \in CallsOf(call.sel)
    BY <2>1, <2>2 DEF CallsOf
  <2>4. call'.left = call.left /\ call'.phase = call.phase
    BY <2>1 DEF CallsOf
  <2>5. Flags'
    BY <1>6, <1>11, ActingCores DEF FollowerStep, Execute
  <2> QED BY <1>1, <1>2, <1>11, <2>1, <2>3, <2>4, <2>5 DEF FollowerStep
<1>12. CASE NextFollower
  <2>1. /\ call \in CallsOf(call.sel) /\ call.sel \in Selections
        /\ call.next \in 1..Len(call.sel[2])
        /\ call' = [call EXCEPT !.next = call.next + 1, !.steps = 0]
    BY <1>12, ActingCores DEF NextFollower
  <2>2. call.next + 1 \in 1..(Len(call.sel[2]) + 1) /\ 0 \in 0..Budget
    BY <1>8, <2>1
  <2>3. call' \in CallsOf(call.sel)
    BY <2>1, <2>2 DEF CallsOf
  <2>4. call'.left = call.left /\ call'.phase = call.phase
    BY <2>1 DEF CallsOf
  <2> QED BY <1>1, <1>2, <1>12, <2>1, <2>3, <2>4 DEF NextFollower
<1>13. CASE Incomplete
  <2>1. call.targets \in TargetMaps(call.sel) /\ call.sel \in Selections
    BY <1>13, ActingCores DEF Incomplete, CallsOf
  <2>2. Map(pending') /\ Map(reported')
    BY <1>1, <1>4, <1>13, <2>1 DEF Incomplete, Park
  <2> QED BY <1>1, <1>2, <1>7, <1>13, <2>2 DEF Incomplete
<1>14. CASE CaughtUp
  <2>1. call \in CallsOf(call.sel) /\ call.sel \in Selections
    BY <1>14, ActingCores DEF CaughtUp, CatchingUp
  <2> DEFINE left == IF call.phase = "catch" THEN call.left - 1 ELSE call.left
  <2>2. call' = [call EXCEPT !.phase = "turn", !.left = left]
    BY <1>14 DEF CaughtUp
  <2>3. left \in 0..MaxCount
    BY <1>1, <2>1 DEF CallsOf
  <2>4. call' \in CallsOf(call.sel) /\ call'.phase = "turn"
    BY <2>1, <2>2, <2>3 DEF CallsOf
  <2>5. Map(pending')
    BY <1>1, <1>3, <1>4, <1>14, <2>1 DEF CaughtUp
  <2> QED BY <1>1, <1>2, <1>14, <2>1, <2>4, <2>5 DEF CaughtUp
<1>15. CASE EndCall
  <2>1. Map(reported')
    BY <1>1, <1>3, <1>4, <1>15, ActingCores DEF EndCall
  <2> QED BY <1>1, <1>2, <1>7, <1>15, <2>1 DEF EndCall
<1>16. CASE Raises
  <2>1. Map(reported')
    BY <1>1, <1>3, <1>4, <1>16, ActingCores DEF Raises
  <2>2. Flags'
    <3>1. CASE FollowersLeft /\ Fail(Follower)
      BY <1>6, <3>1, ActingCores DEF Fail
    <3>2. CASE call.phase = "turn" /\ Fail(call.sel[1])
      BY <1>6, <3>2, ActingCores DEF Fail
    <3> QED BY <1>16, <3>1, <3>2 DEF Raises
  <2> QED BY <1>1, <1>2, <1>7, <1>16, <2>1, <2>2 DEF Raises
<1>17. ASSUME NEW c \in Cores, SingleStep(c) \/ Load(c) \/ Reset(c)  PROVE TypeOK'
  <2>1. Flags'
    BY <1>1, <1>6, <1>17 DEF SingleStep, Load, Reset, Execute, Fail
  <2>2. Map(pending') /\ Map(reported') /\ call' = call
    BY <1>1, <1>5, <1>17 DEF SingleStep, Load, Reset
  <2> QED BY <1>1, <1>2, <2>1, <2>2
<1>18. CASE SetMux \/ HardReset
  BY <1>1, <1>2, <1>5, <1>18 DEF SetMux, HardReset
<1>19. CASE UNCHANGED vars
  BY <1>1, <1>2, <1>19 DEF vars
<1> QED
  BY <1>9, <1>10, <1>11, <1>12, <1>13, <1>14, <1>15, <1>16, <1>17, <1>18, <1>19
  DEF Next, CallStep

LEMMA PacedInit == Init => TypeOK /\ TimeInv
<1> SUFFICES ASSUME Init  PROVE TypeOK /\ TimeInv
  OBVIOUS
<1>1. \A c \in Cores : 0 + 0 * Units[c] <= 0
  BY UnitsAssumption
<1>2. TimeInv
  BY <1>1 DEF Init, TimeInv, SharedTimeIsFurthest, observed_time
<1>3. \A sel \in Selections : None \in TargetMaps(sel) /\ Key(sel) \in Keys
  BY DEF TargetMaps, Keys
<1>4. /\ DOMAIN pending = Keys /\ DOMAIN reported = Keys
      /\ \A sel \in Selections : {pending[Key(sel)], reported[Key(sel)]} \subseteq TargetMaps(sel)
  BY <1>3 DEF Init
<1> QED BY <1>2, <1>4 DEF Init, TypeOK, Idle

LEMMA PacedStep ==
  ASSUME TypeOK, TimeInv, [Next]_vars
  PROVE  TypeOK' /\ TimeInv' /\ TimesOK /\ TimesOK' /\ ClockStep
<1>1. TimesOK  BY DEF TypeOK, TimesOK
<1>2. ClockStep  BY StepMovesClocks
<1>3. TimesOK' /\ TimeInv'  BY <1>1, <1>2, ClockStepKeepsInv
<1> QED BY <1>1, <1>2, <1>3, StepKeepsType

\* Type correctness, and with it every target kept for a later call is a map
\* over the followers of some selection.
THEOREM PacedInvariant == Spec => [](TypeOK /\ TimeInv)
<1>1. TypeOK /\ TimeInv /\ [Next]_vars => (TypeOK /\ TimeInv)'
  BY PacedStep
<1> QED BY <1>1, PacedInit, PTL DEF Spec

\* For any cores and clock ratios: the shared IEP time is never behind a time a
\* core has reported, across single steps, paced calls, raising instructions
\* and resets of single cores.
THEOREM IepIsNeverBehind == Spec => []SharedTimeIsFurthest
<1>1. TimeInv => SharedTimeIsFurthest  BY DEF TimeInv
<1> QED BY <1>1, PacedInvariant, PTL

\* For any cores and clock ratios: apart from a hardware reset no step turns
\* back the shared clock or the reported time of a core.
THEOREM NoRewind == Spec => TimeNeverRewinds
<1>1. ASSUME TypeOK /\ TimeInv, [Next]_vars
      PROVE  [HardReset \/ /\ shared' >= shared
                           /\ \A c \in Cores : observed_time(c)' >= observed_time(c)]_vars
  BY <1>1, PacedStep, ClockStepKeepsInv
<1> QED BY <1>1, PacedInvariant, PTL DEF Spec, TimeNeverRewinds
-----------------------------------------------------------------------------
(***************************************************************************)
(* Where the targets of an unfinished call are, in each phase of a call.   *)
(***************************************************************************)
Served == \A i \in 1..Len(call.sel[2]) :
            i < call.next => Reached(call.sel[2][i], call.targets[call.sel[2][i]])

ResumeInv ==
  call.phase = "resume" =>
    /\ reported[Key(call.sel)] = call.targets /\ pending[Key(call.sel)] = call.targets
    /\ DOMAIN call.targets = Range(call.sel[2]) /\ Served

CatchInv ==
  call.phase = "catch" =>
    /\ reported[Key(call.sel)] = None /\ pending[Key(call.sel)] = None
    /\ DOMAIN call.targets = Range(call.sel[2]) /\ Served

TurnInv ==
  call.phase = "turn" =>
    /\ pending[Key(call.sel)] = None
    /\ reported[Key(call.sel)] \in {None, call.targets}

\* The selections no call is working on.
RestInv ==
  \A k \in Keys : call = Idle \/ k # Key(call.sel) => reported[k] = pending[k]

DueInv == ResumeInv /\ CatchInv /\ TurnInv /\ RestInv /\ FollowersReachTargets

\* A core that has reached a target stays there while any core executes.
LEMMA ReachedStays ==
  ASSUME TimesOK, TimesOK', NEW c \in Cores, Execute(c),
         NEW g \in Cores, NEW t \in Int, Reached(g, t)
  PROVE  Reached(g, t)'
<1>1. PICK n \in Nat : Elapse(c, n)
  BY CostsAssumption DEF Execute
<1>2. cycles[g] <= cycles'[g] /\ base' = base
  BY <1>1 DEF Elapse, TimesOK
<1>3. core_time(g) <= core_time(g)'
  BY <1>2, UnitsAssumption, MoreCycles DEF TimesOK, core_time
<1>4. core_time(g) \in Nat /\ core_time(g)' \in Nat
  BY UnitsAssumption, AddCycles DEF TimesOK, core_time
<1>5. running' \subseteq running
  BY DEF Execute, Effects
<1> QED BY <1>3, <1>4, <1>5 DEF Reached

\* Between calls only the rest of the invariant says anything.
LEMMA RestKept ==
  ASSUME call' = Idle, \A k \in Keys : reported'[k] = pending'[k]
  PROVE  DueInv'
  BY DEF DueInv, ResumeInv, CatchInv, TurnInv, RestInv, FollowersReachTargets, Idle

LEMMA StepKeepsDue ==
  ASSUME TypeOK, TimesOK, TimesOK', DueInv, [Next]_vars
  PROVE  DueInv'
<1> USE DEF DueInv
<1>0. DOMAIN pending = Keys /\ DOMAIN reported = Keys /\ \A sel \in Selections : Key(sel) \in Keys
  BY DEF TypeOK, Keys
<1>1. ASSUME NEW sel \in Selections, NEW count \in 0..MaxCount, BeginCall(sel, count)
      PROVE DueInv'
  <2>1. /\ call' = [phase |-> IF pending[Key(sel)] = None THEN "turn" ELSE "resume",
                    sel |-> sel, left |-> count, targets |-> pending[Key(sel)],
                    next |-> 1, steps |-> 0]
        /\ pending' = pending /\ reported' = reported
        /\ \A k \in Keys : reported[k] = pending[k]
    BY <1>1 DEF BeginCall, RestInv
  <2>2. RestInv' /\ CatchInv'
    BY <2>1 DEF RestInv, CatchInv
  <2>3. DOMAIN None = {}
    BY DEF None
  <2>4. TurnInv' /\ FollowersReachTargets'
    BY <1>0, <2>1, <2>3 DEF TurnInv, FollowersReachTargets
  <2>5. Len(sel[2]) \in Nat /\ pending[Key(sel)] \in TargetMaps(sel)
    BY ActingCores DEF TypeOK
  <2>6. ResumeInv'
    BY <1>0, <2>1, <2>5 DEF ResumeInv, Served, TargetMaps
  <2> QED BY <2>2, <2>4, <2>6
<1>2. ASSUME NEW sel \in Selections, LeadTurn(sel)  PROVE DueInv'
  <2>1. /\ call \in CallsOf(sel) /\ call.sel = sel /\ call.phase = "turn" /\ call # Idle
        /\ call' = [call EXCEPT !.phase = "catch", !.targets = Targets(sel)',
                                !.next = 1, !.steps = 0]
        /\ pending' = pending /\ reported' = [reported EXCEPT ![Key(sel)] = None]
    BY <1>2, ActingCores DEF LeadTurn
  <2>2. /\ call'.phase = "catch" /\ call'.sel = sel /\ call'.next = 1 /\ call' # Idle
        /\ DOMAIN call'.targets = Range(sel[2])
    BY <2>1 DEF CallsOf, Targets, Idle
  <2>3. Len(sel[2]) \in Nat
    BY ActingCores
  <2>4. pending'[Key(sel)] = None /\ reported'[Key(sel)] = None
    BY <1>0, <2>1 DEF TurnInv
  <2>5. CatchInv'
    BY <2>2, <2>3, <2>4 DEF CatchInv, Served
  <2>6. RestInv'
    BY <1>0, <2>1, <2>2 DEF RestInv
  <2> QED BY <2>2, <2>5, <2>6 DEF ResumeInv, TurnInv, FollowersReachTargets
<1>3. CASE FollowerStep
  <2>1. /\ call \in CallsOf(call.sel) /\ call.sel \in Selections /\ call # Idle
        /\ Follower \in Cores /\ Execute(Follower)
        /\ call.phase \in {"resume", "catch"}
        /\ call' = [call EXCEPT !.steps = call.steps + 1]
        /\ pending' = pending /\ reported' = reported
    BY <1>3, ActingCores DEF FollowerStep, FollowersLeft, CatchingUp
  <2>2. /\ call'.phase = call.phase /\ call'.sel = call.sel /\ call'.next = call.next
        /\ call'.targets = call.targets /\ call' # Idle
    BY <2>1 DEF CallsOf, Idle
  <2>3. Served /\ DOMAIN call.targets = Range(call.sel[2])
    BY <2>1 DEF ResumeInv, CatchInv
  <2>4. Served'
    <3> SUFFICES ASSUME NEW i \in 1..Len(call.sel[2]), i < call.next
                 PROVE  Reached(call.sel[2][i], call.targets[call.sel[2][i]])'
      BY <2>2 DEF Served
    <3> DEFINE g == call.sel[2][i]
    <3>1. g \in Cores /\ g \in Range(call.sel[2])
      BY <2>1, ActingCores DEF Range
    <3>2. call.targets \in [Range(call.sel[2]) -> Int]
      BY <2>1, <2>3, <3>1 DEF CallsOf, TargetMaps, None
    <3>3. call.targets[g] \in Int
      BY <3>1, <3>2
    <3>4. Reached(g, call.targets[g])
      BY <2>3 DEF Served
    <3>5. running' \subseteq running /\ \A t \in Int : Reached(g, t) => Reached(g, t)'
      BY <2>1, <3>1, ReachedStays DEF Execute, Effects
    <3>6. \A t \in Int : Reached(g, t)' <=> (g \in running' => base'[g] + cycles'[g] * Units[g] >= t)
      BY <2>2 DEF Reached, core_time
    <3> QED BY <2>2, <3>3, <3>4, <3>5, <3>6 DEF Reached, core_time
  <2> QED BY <2>1, <2>2, <2>4 DEF ResumeInv, CatchInv, TurnInv, RestInv, FollowersReachTargets
<1>4. CASE NextFollower
  <2>1. /\ call \in CallsOf(call.sel) /\ call # Idle /\ call.next \in 1..Len(call.sel[2])
        /\ Done(Follower) /\ call.phase \in {"resume", "catch"}
        /\ call' = [call EXCEPT !.next = call.next + 1, !.steps = 0]
        /\ UNCHANGED <<cycles, base, running, pending, reported>>
    BY <1>4, ActingCores DEF NextFollower, FollowersLeft, CatchingUp, times
  <2>2. /\ call'.phase = call.phase /\ call'.sel = call.sel /\ call'.next = call.next + 1
        /\ call'.targets = call.targets /\ call' # Idle
    BY <2>1 DEF CallsOf, Idle
  <2>3. Served
    BY <2>1 DEF ResumeInv, CatchInv
  <2>4. Follower \in Cores /\ Follower \in Range(call.sel[2])
    BY <2>1, <1>4, ActingCores DEF NextFollower, Follower, Range
  <2>5. call.targets[Follower] \in Int
    BY <2>1, <2>4 DEF CallsOf, TargetMaps, None, ResumeInv, CatchInv
  <2>6. core_time(Follower) \in Int
    BY <2>4, UnitsAssumption, AddCycles DEF TimesOK, core_time
  <2>7. Reached(Follower, call.targets[Follower])
    BY <2>1, <2>5, <2>6 DEF Done, Behind, Reached
  <2>8. Served'
    <3> SUFFICES ASSUME NEW i \in 1..Len(call.sel[2]), i < call.next + 1
                 PROVE  Reached(call.sel[2][i], call.targets[call.sel[2][i]])
      BY <2>1, <2>2 DEF Served, Reached, core_time
    <3>1. CASE i < call.next  BY <2>3, <3>1 DEF Served
    <3>2. CASE i = call.next  BY <2>7, <3>2 DEF Follower
    <3> QED BY <2>1, <3>1, <3>2
  <2> QED BY <2>1, <2>2, <2>8 DEF ResumeInv, CatchInv, TurnInv, RestInv, FollowersReachTargets
<1>5. CASE Incomplete
  <2>1. /\ call.sel \in Selections /\ call # Idle /\ call' = Idle
        /\ pending' = [pending EXCEPT ![Key(call.sel)] = call.targets]
        /\ reported' = [reported EXCEPT ![Key(call.sel)] = call.targets]
    BY <1>5, ActingCores DEF Incomplete, Park
  <2>2. \A k \in Keys : reported'[k] = pending'[k]
    BY <1>0, <2>1 DEF RestInv
  <2> QED BY <2>1, <2>2, RestKept
<1>6. CASE CaughtUp
  <2> DEFINE left == IF call.phase = "catch" THEN call.left - 1 ELSE call.left
             new == IF call.phase = "resume"
                    THEN [pending EXCEPT ![Key(call.sel)] = None] ELSE pending
  <2>1. /\ call \in CallsOf(call.sel) /\ call.sel \in Selections /\ call # Idle
        /\ call.phase \in {"resume", "catch"} /\ ~FollowersLeft
        /\ call' = [call EXCEPT !.phase = "turn", !.left = left]
        /\ pending' = new
        /\ UNCHANGED <<cycles, base, running, reported>>
    BY <1>6, ActingCores DEF CaughtUp, CatchingUp, times
  <2>2. /\ call'.phase = "turn" /\ call'.sel = call.sel
        /\ call'.targets = call.targets /\ call' # Idle
    BY <2>1 DEF CallsOf, Idle
  <2>3. Served /\ DOMAIN call.targets = Range(call.sel[2])
    BY <2>1 DEF ResumeInv, CatchInv
  <2>4. \A i \in 1..Len(call.sel[2]) : i < call.next
    BY <2>1, ActingCores DEF FollowersLeft, CatchingUp, CallsOf
  <2>5. FollowersReachTargets'
    <3> SUFFICES ASSUME NEW f \in DOMAIN call.targets
                 PROVE  Reached(f, call.targets[f])
      BY <2>1, <2>2 DEF FollowersReachTargets, Reached, core_time
    <3>1. PICK i \in 1..Len(call.sel[2]) : f = call.sel[2][i]
      BY <2>1, <2>3, ActingCores DEF Range
    <3> QED BY <2>3, <2>4, <3>1 DEF Served
  <2>6. TurnInv'
    BY <1>0, <2>1, <2>2 DEF TurnInv, ResumeInv, CatchInv
  <2>7. RestInv'
    BY <1>0, <2>1, <2>2 DEF RestInv
  <2> QED BY <2>2, <2>5, <2>6, <2>7 DEF ResumeInv, CatchInv
<1>7. CASE EndCall
  <2>1. /\ call.phase = "turn" /\ call # Idle /\ call.sel \in Selections /\ call' = Idle
        /\ pending' = pending /\ reported' = [reported EXCEPT ![Key(call.sel)] = None]
    BY <1>7, ActingCores DEF EndCall
  <2>2. \A k \in Keys : reported'[k] = pending'[k]
    BY <1>0, <2>1 DEF RestInv, TurnInv
  <2> QED BY <2>1, <2>2, RestKept
<1>8. CASE Raises
  <2>1. call' = Idle /\ pending' = pending
    BY <1>8 DEF Raises
  <2>2. CASE call.phase = "turn" /\ reported' = [reported EXCEPT ![Key(call.sel)] = None]
    <3>1. call.sel \in Selections /\ call # Idle  BY <2>2, ActingCores
    <3>2. \A k \in Keys : reported'[k] = pending'[k]
      BY <1>0, <2>1, <2>2, <3>1 DEF RestInv, TurnInv
    <3> QED BY <2>1, <3>2, RestKept
  <2>3. CASE FollowersLeft /\ reported' = reported
    <3>1. call.sel \in Selections /\ call # Idle /\ call.phase \in {"resume", "catch"}
      BY <2>3, ActingCores DEF FollowersLeft, CatchingUp
    <3>2. \A k \in Keys : reported'[k] = pending'[k]
      BY <1>0, <2>1, <2>3, <3>1 DEF RestInv, ResumeInv, CatchInv
    <3> QED BY <2>1, <3>2, RestKept
  <2> QED BY <1>8, <2>2, <2>3 DEF Raises
<1>9. CASE (\E c \in Cores : SingleStep(c) \/ Load(c)) \/ SetMux
  <2>1. call = Idle /\ call' = Idle /\ pending' = pending /\ reported' = reported
    BY <1>9 DEF SingleStep, Load, SetMux
  <2> QED BY <2>1, RestKept DEF RestInv
<1>10. CASE (\E c \in Cores : Reset(c)) \/ HardReset
  <2>1. call' = Idle /\ \A k \in Keys : reported'[k] = pending'[k]
    BY <1>10 DEF Reset, HardReset
  <2> QED BY <2>1, RestKept
<1>11. CASE UNCHANGED vars
  BY <1>11 DEF vars, times, ResumeInv, CatchInv, TurnInv, RestInv, FollowersReachTargets,
               Served, Reached, core_time
<1> QED
  BY <1>1, <1>2, <1>3, <1>4, <1>5, <1>6, <1>7, <1>8, <1>9, <1>10, <1>11 DEF Next, CallStep

THEOREM DueInvariant == Spec => []DueInv
<1>1. Init => DueInv
  BY DEF Init, DueInv, ResumeInv, CatchInv, TurnInv, RestInv, FollowersReachTargets, Idle
<1>2. TypeOK /\ TimeInv /\ DueInv /\ [Next]_vars => DueInv'
  BY PacedStep, StepKeepsDue
<1> QED BY <1>1, <1>2, PacedInvariant, PTL DEF Spec

\* For any cores, selections and budget: when a call is through with its
\* followers, none that still runs is short of its target.
THEOREM TargetsAreReached == Spec => []FollowersReachTargets
<1>1. DueInv => FollowersReachTargets  BY DEF DueInv
<1> QED BY <1>1, DueInvariant, PTL

\* For any cores, selections and budget: the lead of a call reported incomplete
\* executes again only after every follower has reached the reported target or
\* has stopped.
THEOREM LeadIsHeldBack == Spec => LeadWaits
<1>1. ASSUME DueInv, NEW sel \in Selections, LeadTurn(sel)
      PROVE  \A f \in DOMAIN reported[Key(sel)] : Reached(f, reported[Key(sel)][f])
  <2>1. reported[Key(sel)] \in {None, call.targets}
    BY <1>1 DEF DueInv, TurnInv, LeadTurn
  <2>2. DOMAIN None = {}
    BY DEF None
  <2> QED BY <1>1, <2>1, <2>2 DEF DueInv, FollowersReachTargets, LeadTurn
<1>2. DueInv => [\A sel \in Selections : LeadTurn(sel) =>
                   \A f \in DOMAIN reported[Key(sel)] : Reached(f, reported[Key(sel)][f])]_vars
  BY <1>1
<1> QED BY <1>2, DueInvariant, PTL DEF LeadWaits

-----------------------------------------------------------------------------
\* The bytes as the transmitter has them, in the order they go out.
Ordered(swap, byte) == IF swap THEN Reverse(byte) ELSE byte
Row(swap, bytes) == FlattenSeq([i \in DOMAIN bytes |-> Ordered(swap, bytes[i])])

\* The bits of a byte in the order of the line.
LEMMA OrderedTyped ==
  ASSUME NEW swap \in BOOLEAN, NEW byte \in Bytes
  PROVE  Ordered(swap, byte) \in Seq(Bit) /\ Ordered(swap, byte) # << >>
<1>1. byte \in Seq(Bit) /\ byte # << >>
  BY ByteAssumption
<1>2. Len(byte) \in Nat \ {0} /\ \A i \in 1..Len(byte) : byte[i] \in Bit
  BY <1>1, EmptySeq, ElementOfSeq
<1> DEFINE n == Len(byte)  r == [i \in 1..n |-> byte[(n - i) + 1]]
<1>3. r \in Seq(Bit) /\ Len(r) = n
  <2>1. \A i \in 1..n : (n - i) + 1 \in 1..n
    BY <1>2
  <2> HIDE DEF n
  <2>2. n \in Nat /\ \A i \in 1..n : byte[(n - i) + 1] \in Bit
    BY <1>2, <2>1 DEF n
  <2> QED BY <2>2
<1>4. r # << >>
  <2> HIDE DEF r
  <2> QED BY <1>2, <1>3, EmptySeq
<1>5. Reverse(byte) = r
  BY DEF Reverse
<1> HIDE DEF r
<1> QED BY <1>1, <1>3, <1>4, <1>5 DEF Ordered

\* The parts a row of bytes is made of.
Parts(swap, bytes) == [i \in DOMAIN bytes |-> Ordered(swap, bytes[i])]

\* Bytes and their bits, one by one.
LEMMA PartsTyped ==
  ASSUME NEW swap \in BOOLEAN, NEW bytes \in Seq(Bytes)
  PROVE  /\ Parts(swap, bytes) \in Seq(Seq(Bit)) /\ Len(Parts(swap, bytes)) = Len(bytes)
         /\ \A i \in 1..Len(bytes) : Parts(swap, bytes)[i] = Ordered(swap, bytes[i])
         /\ Row(swap, bytes) = FlattenSeq(Parts(swap, bytes))
<1> DEFINE n == Len(bytes)
<1>1. n \in Nat /\ DOMAIN bytes = 1..n /\ \A i \in 1..n : bytes[i] \in Bytes
  BY LenProperties, ElementOfSeq
<1>2. \A i \in 1..n : Ordered(swap, bytes[i]) \in Seq(Bit)
  BY <1>1, OrderedTyped
<1> HIDE DEF n
<1>3. Parts(swap, bytes) = [i \in 1..n |-> Ordered(swap, bytes[i])]
  BY <1>1 DEF Parts
<1>4. Parts(swap, bytes) \in Seq(Seq(Bit)) /\ Len(Parts(swap, bytes)) = n
  BY <1>1, <1>2, <1>3
<1> QED BY <1>3, <1>4 DEF Row, Parts, n

\* The bits of a row of bytes.
LEMMA RowTyped ==
  ASSUME NEW swap \in BOOLEAN, NEW bytes \in Seq(Bytes)
  PROVE  Row(swap, bytes) \in Seq(Bit)
<1>1. Parts(swap, bytes) \in Seq(Seq(Bit)) /\ Row(swap, bytes) = FlattenSeq(Parts(swap, bytes))
  BY PartsTyped
<1> QED BY <1>1, FlatTyped

\* The first byte goes first, a new one last.
LEMMA RowHead ==
  ASSUME NEW swap \in BOOLEAN, NEW bytes \in Seq(Bytes), bytes # << >>
  PROVE  /\ Head(bytes) \in Bytes /\ Tail(bytes) \in Seq(Bytes)
         /\ Row(swap, bytes) = Ordered(swap, Head(bytes)) \o Row(swap, Tail(bytes))
<1> DEFINE p == Parts(swap, bytes)  rest == Tail(bytes)  q == Parts(swap, rest)  n == Len(bytes)
<1>1. /\ n \in Nat \ {0} /\ Head(bytes) = bytes[1] /\ rest \in Seq(Bytes) /\ Len(rest) = n - 1
      /\ bytes[1] \in Bytes /\ \A i \in 1..n-1 : rest[i] = bytes[i+1]
  BY HeadTailProperties, EmptySeq, ElementOfSeq
<1>2. /\ p \in Seq(Seq(Bit)) /\ Len(p) = n /\ Row(swap, bytes) = FlattenSeq(p)
      /\ \A i \in 1..n : p[i] = Ordered(swap, bytes[i])
  BY PartsTyped
<1>3. /\ q \in Seq(Seq(Bit)) /\ Len(q) = n - 1 /\ Row(swap, rest) = FlattenSeq(q)
      /\ \A i \in 1..n-1 : q[i] = Ordered(swap, rest[i])
  BY <1>1, PartsTyped
<1> HIDE DEF p, q, n, rest
<1>4. p # << >>
  BY <1>1, <1>2, EmptySeq
<1>5. /\ Head(p) = p[1] /\ Tail(p) \in Seq(Seq(Bit)) /\ Len(Tail(p)) = n - 1
      /\ \A i \in 1..n-1 : Tail(p)[i] = p[i+1]
  BY <1>2, <1>4, HeadTailProperties
<1>6. \A i \in 1..n-1 : Tail(p)[i] = q[i]
  <2>1. \A i \in 1..n-1 : i + 1 \in 1..n
    BY <1>1
  <2> QED BY <1>1, <1>2, <1>3, <1>5, <2>1
<1>7. Tail(p) = q
  BY <1>3, <1>5, <1>6, SeqEqual
<1>8. FlattenSeq(p) = Head(p) \o FlattenSeq(Tail(p))
  BY <1>2, <1>4, FlatHead
<1>9. Head(p) = Ordered(swap, Head(bytes))
  BY <1>1, <1>2, <1>5
<1> QED BY <1>1, <1>2, <1>3, <1>7, <1>8, <1>9 DEF rest

\* The last byte added.
LEMMA RowAppend ==
  ASSUME NEW swap \in BOOLEAN, NEW bytes \in Seq(Bytes), NEW byte \in Bytes
  PROVE  Row(swap, Append(bytes, byte)) = Row(swap, bytes) \o Ordered(swap, byte)
<1> DEFINE p == Parts(swap, bytes)  more == Append(bytes, byte)  q == Parts(swap, more)
           n == Len(bytes)  b == Ordered(swap, byte)
<1>1. /\ n \in Nat /\ more \in Seq(Bytes) /\ Len(more) = n + 1
      /\ more[n+1] = byte /\ \A i \in 1..n : more[i] = bytes[i]
  BY AppendProperties
<1>2. /\ p \in Seq(Seq(Bit)) /\ Len(p) = n /\ Row(swap, bytes) = FlattenSeq(p)
      /\ \A i \in 1..n : p[i] = Ordered(swap, bytes[i])
  BY PartsTyped
<1>3. /\ q \in Seq(Seq(Bit)) /\ Len(q) = n + 1 /\ Row(swap, more) = FlattenSeq(q)
      /\ \A i \in 1..n+1 : q[i] = Ordered(swap, more[i])
  BY <1>1, PartsTyped
<1>4. b \in Seq(Bit)
  BY OrderedTyped
<1>5. q[n+1] = b
  <2>1. n + 1 \in 1..n+1
    BY <1>1
  <2> QED BY <1>1, <1>3, <2>1
<1> HIDE DEF p, q, n, more, b
<1>6. /\ Append(p, b) \in Seq(Seq(Bit)) /\ Len(Append(p, b)) = n + 1
      /\ Append(p, b)[n+1] = b /\ \A i \in 1..n : Append(p, b)[i] = p[i]
  BY <1>2, <1>4, AppendProperties
<1>7. \A i \in 1..n+1 : Append(p, b)[i] = q[i]
  <2>1. \A i \in 1..n+1 : i = n + 1 \/ i \in 1..n
    BY <1>1
  <2>2. \A i \in 1..n : Append(p, b)[i] = q[i]
    <3>1. \A i \in 1..n : i \in 1..n+1
      BY <1>1
    <3> QED BY <1>1, <1>2, <1>3, <1>6, <3>1
  <2> QED BY <1>5, <1>6, <2>1, <2>2
<1>8. Append(p, b) = q
  BY <1>3, <1>6, <1>7, SeqEqual
<1>9. FlattenSeq(Append(p, b)) = FlattenSeq(p) \o b
  BY <1>2, <1>4, FlatAppend
<1> QED BY <1>2, <1>3, <1>8, <1>9 DEF more, b

\* Bytes have bits.
LEMMA RowNotEmpty ==
  ASSUME NEW swap \in BOOLEAN, NEW bytes \in Seq(Bytes), bytes # << >>
  PROVE  Row(swap, bytes) # << >>
<1>1. /\ Head(bytes) \in Bytes /\ Tail(bytes) \in Seq(Bytes)
      /\ Row(swap, bytes) = Ordered(swap, Head(bytes)) \o Row(swap, Tail(bytes))
  BY RowHead
<1>2. Ordered(swap, Head(bytes)) \in Seq(Bit) /\ Ordered(swap, Head(bytes)) # << >>
  BY <1>1, OrderedTyped
<1>3. Row(swap, Tail(bytes)) \in Seq(Bit)
  BY <1>1, RowTyped
<1> DEFINE a == Ordered(swap, Head(bytes))  b == Row(swap, Tail(bytes))
<1>4. a \in Seq(Bit) /\ a # << >> /\ b \in Seq(Bit) /\ Row(swap, bytes) = a \o b
  BY <1>1, <1>2, <1>3
<1> HIDE DEF a, b
<1> QED BY <1>4, ConcatEqualIffEmpty

\* The operators of the channel, with the bit order as a parameter.
LEMMA InUse ==
  /\ \A byte : Swapped(byte) = Ordered(cfg.swap, byte)
  /\ \A bytes : Flat(bytes) = Row(cfg.swap, bytes)
BY DEF Swapped, Ordered, Flat, Row

TxRecord ==
  [fifo : Seq(Bytes), overrun : BOOLEAN, underrun : BOOLEAN, busy : BOOLEAN,
   fsm : {"IDLE", "WIRE", "TST", "TRANSMIT", "CLKRUN"}, clk_mode : 0..3, clk_pin : Bit,
   data_pin : Bit, out_en : Bit, frame : Seq(Bit), index : Nat, phase : Int,
   odd : BOOLEAN]

\* A transmitter, whatever the time: what its fields mean together.
TxShape(t) ==
  /\ t \in TxRecord /\ Len(t.fifo) <= Depth
  /\ t.busy <=> t.fsm \in {"WIRE", "TST", "TRANSMIT"}
  /\ t.busy <=> t.out_en = 1
  /\ t.busy <=> t.frame # << >>
  /\ t.index \in 1 .. Len(t.frame) \/ ~t.busy

\* The bits that are not on the line yet.
Queued(t) == IF Continuous THEN Row(cfg.swap, t.fifo) ELSE << >>
Left(t) == SubSeq(t.frame, IF t.fsm = "TRANSMIT" THEN t.index + 1 ELSE 1, Len(t.frame))
Coming(t) == Left(t) \o Queued(t)

CfgOK ==
  /\ cfg.swap \in BOOLEAN /\ cfg.frame_size \in Nat /\ cfg.rx_frame_size \in Nat
  /\ cfg.wire \in Nat /\ cfg.tst \in Nat /\ cfg.arm \in Nat

\* The bits of the FIFO that belong to the transmission.
LEMMA QueuedTyped ==
  ASSUME CfgOK, NEW t, TxShape(t)
  PROVE  Queued(t) \in Seq(Bit)
<1>1. t.fifo \in Seq(Bytes)
  BY DEF TxShape, TxRecord
<1>2. Row(cfg.swap, t.fifo) \in Seq(Bit)
  BY <1>1, RowTyped DEF CfgOK
<1> QED BY <1>2, EmptySeq DEF Queued

\* What is left of a sequence from a position on.
LEMMA RestOf ==
  ASSUME NEW S, NEW s \in Seq(S), NEW i \in 1..Len(s)
  PROVE  /\ SubSeq(s, i, Len(s)) \in Seq(S)
         /\ SubSeq(s, i, Len(s)) = << s[i] >> \o SubSeq(s, i + 1, Len(s))
         /\ SubSeq(s, i + 1, Len(s)) \in Seq(S)
         /\ s[i] \in S
<1> DEFINE n == Len(s)
<1>1. n \in Nat /\ \A j \in 1..n : s[j] \in S
  BY LenProperties, ElementOfSeq
<1>2. n \in i..n
  BY <1>1
<1>3. SubSeq(s, i, n) = << s[i] >> \o SubSeq(s, i + 1, n)
  BY <1>2, SubSeqRecursiveFirst
<1> HIDE DEF n
<1>4. i \in Int /\ i + 1 \in Int /\ n \in Int /\ i \in 1..n
  BY <1>1 DEF n
<1>5. (\A j \in i..n : s[j] \in S) /\ (\A j \in i+1..n : s[j] \in S)
  BY <1>1, <1>4
<1>6. SubSeq(s, i, n) \in Seq(S)
  BY <1>4, <1>5, SubSeqProperties
<1>7. SubSeq(s, i + 1, n) \in Seq(S)
  BY <1>4, <1>5, SubSeqProperties
<1> QED BY <1>1, <1>3, <1>4, <1>6, <1>7 DEF n

\* What is left of the frame.
LEMMA LeftTyped ==
  ASSUME NEW t, TxShape(t)
  PROVE  Left(t) \in Seq(Bit)
<1>1. t.frame \in Seq(Bit) /\ t.index \in Nat
  BY DEF TxShape, TxRecord
<1> DEFINE s == t.frame  n == Len(s)
<1>2. n \in Nat /\ \A j \in 1..n : s[j] \in Bit
  BY <1>1, LenProperties, ElementOfSeq
<1> HIDE DEF s, n
<1>3. ASSUME NEW i \in Nat \ {0}  PROVE SubSeq(s, i, n) \in Seq(Bit)
  <2>1. \A j \in i..n : s[j] \in Bit
    BY <1>2
  <2> QED BY <1>2, <2>1, SubSeqProperties
<1> QED BY <1>1, <1>3 DEF Left, s, n

\* All that is to come.
LEMMA ComingTyped ==
  ASSUME CfgOK, NEW t, TxShape(t)
  PROVE  Coming(t) \in Seq(Bit)
<1>1. Left(t) \in Seq(Bit) /\ Queued(t) \in Seq(Bit)
  BY LeftTyped, QueuedTyped
<1> HIDE DEF Left, Queued
<1> QED BY <1>1 DEF Coming

\* The first bit of a sequence goes before the rest of a row.
LEMMA FirstOut ==
  ASSUME NEW S, NEW s \in Seq(S), NEW i \in 1..Len(s), NEW r \in Seq(S)
  PROVE  SubSeq(s, i, Len(s)) \o r = << s[i] >> \o (SubSeq(s, i + 1, Len(s)) \o r)
<1> DEFINE a == << s[i] >>  b == SubSeq(s, i + 1, Len(s))  x == SubSeq(s, i, Len(s))
<1>1. x = a \o b /\ b \in Seq(S) /\ s[i] \in S
  BY RestOf
<1>2. a \in Seq(S)
  BY <1>1
<1> HIDE DEF a, b, x
<1>3. ASSUME NEW p, p = a, NEW q, q = b, NEW u, u = b \o r, NEW v, v = x, NEW w, w = a \o u
      PROVE  w = v \o r
  <2>1. InARow(S, p, q, r, u, v, w)
    BY <1>1, <1>2, <1>3 DEF InARow
  <2> QED BY ONLY <2>1, Associative
<1> QED BY <1>3 DEF a, b, x

\* What the end of a transmission leaves.
LEMMA Finished ==
  ASSUME NEW t \in TxRecord
  PROVE  LET a == finish_frame(t) IN
         /\ a \in TxRecord /\ a.index = 1 /\ a.frame = << >> /\ ~a.busy /\ a.out_en = 0
         /\ (a.fifo = t.fifo \/ a.fifo = << >>)
         /\ a.fsm = (IF t.clk_mode = 3 THEN "IDLE" ELSE "CLKRUN")
         /\ (t.clk_mode = 3 => a.clk_pin = 1)
         /\ a.clk_mode = t.clk_mode /\ a.phase = t.phase /\ a.odd = t.odd
<1>1. << >> \in Seq(Bit) /\ << >> \in Seq(Bytes)
  OBVIOUS
<1> QED BY <1>1 DEF TxRecord, finish_frame, Bit

\* The data of half a period: the next bit of the frame, the first of the next
\* byte, or the end of the transmission.
LEMMA NextBit ==
  ASSUME CfgOK, NEW t, TxShape(t), t.fsm = "TRANSMIT"
  PROVE  /\ TxShape(advance_data(t))
         /\ advance_data(t).clk_mode = t.clk_mode /\ advance_data(t).phase = t.phase
         /\ advance_data(t).odd = t.odd
         /\ \/ /\ advance_data(t).fsm = "TRANSMIT" /\ advance_data(t).busy
               /\ Coming(t) = << advance_data(t).data_pin >> \o Coming(advance_data(t))
            \/ /\ Coming(t) = << >> /\ ~advance_data(t).busy
               /\ advance_data(t).fsm = (IF t.clk_mode = 3 THEN "IDLE" ELSE "CLKRUN")
               /\ t.clk_mode = 3 => advance_data(t).clk_pin = 1
<1> DEFINE a == advance_data(t)  n == Len(t.frame)
<1>1. /\ t \in TxRecord /\ t.frame \in Seq(Bit) /\ t.fifo \in Seq(Bytes) /\ t.busy
      /\ n \in Nat /\ t.index \in 1..n /\ Len(t.fifo) <= Depth
  BY LenProperties DEF TxShape, TxRecord
<1>2. Queued(t) \in Seq(Bit)
  BY QueuedTyped
<1>3. CASE MoreBits(t)
  <2> DEFINE i == t.index + 1
  <2>1. i \in 1..n /\ t.index < n
    BY <1>1, <1>3 DEF MoreBits
  <2>2. t.frame[i] \in Bit
    BY <1>1, <2>1, ElementOfSeq
  <2>3. a = [t EXCEPT !.index = i, !.data_pin = t.frame[i]]
    BY <1>3 DEF advance_data
  <2> HIDE DEF n
  <2>4. /\ a \in TxRecord /\ a.index = i /\ a.data_pin = t.frame[i] /\ a.frame = t.frame
        /\ a.fifo = t.fifo /\ a.fsm = t.fsm /\ a.busy = t.busy /\ a.out_en = t.out_en
        /\ a.clk_mode = t.clk_mode /\ a.phase = t.phase /\ a.odd = t.odd
    <3>1. ASSUME NEW j \in Nat, j = i, NEW b \in Bit, b = t.frame[i], NEW x, x = a
          PROVE  /\ x \in TxRecord /\ x.index = j /\ x.data_pin = b /\ x.frame = t.frame
                 /\ x.fifo = t.fifo /\ x.fsm = t.fsm /\ x.busy = t.busy /\ x.out_en = t.out_en
                 /\ x.clk_mode = t.clk_mode /\ x.phase = t.phase /\ x.odd = t.odd
      <4>1. t \in TxRecord /\ x = [t EXCEPT !.index = j, !.data_pin = b]
        BY <1>1, <2>3, <3>1
      <4> QED BY ONLY <4>1, j \in Nat, b \in Bit DEF TxRecord
    <3>2. i \in Nat
      BY <2>1
    <3> HIDE DEF a, i
    <3> QED BY <2>2, <3>1, <3>2
  <2> HIDE DEF a
  <2>5. TxShape(a)
    BY <2>1, <2>4 DEF TxShape, n
  <2>6. Left(t) = SubSeq(t.frame, i, n) /\ Left(a) = SubSeq(t.frame, i + 1, n)
        /\ Queued(a) = Queued(t)
    BY <2>4 DEF Left, Queued, n
  <2>7. SubSeq(t.frame, i, n) \o Queued(t) = << t.frame[i] >> \o (SubSeq(t.frame, i + 1, n) \o Queued(t))
    BY <1>1, <1>2, <2>1, FirstOut DEF n
  <2>8. Coming(t) = << a.data_pin >> \o Coming(a)
    BY <2>4, <2>6, <2>7 DEF Coming
  <2> QED BY <1>1, <2>4, <2>5, <2>8 DEF a
<1>4. ~MoreBits(t) => Left(t) = << >>
  <2>1. SUFFICES ASSUME ~MoreBits(t)  PROVE Left(t) = << >>
    OBVIOUS
  <2>2. n < t.index + 1 /\ t.index + 1 \in Int /\ n \in Int
    BY <1>1, <2>1 DEF MoreBits
  <2> QED BY <2>2, SubSeqEmpty DEF Left
<1>5. CASE ~MoreBits(t) /\ Continuous /\ t.fifo # << >>
  <2> DEFINE byte == Ordered(cfg.swap, Head(t.fifo))
  <2>1. /\ Head(t.fifo) \in Bytes /\ Tail(t.fifo) \in Seq(Bytes)
        /\ Row(cfg.swap, t.fifo) = byte \o Row(cfg.swap, Tail(t.fifo))
    BY <1>1, <1>5, RowHead DEF CfgOK
  <2>2. byte \in Seq(Bit) /\ byte # << >>
    BY <2>1, OrderedTyped DEF CfgOK
  <2>3. a = [t EXCEPT !.frame = byte, !.fifo = Tail(@), !.index = 1, !.data_pin = byte[1]]
    BY <1>5, InUse DEF advance_data
  <2> HIDE DEF byte
  <2>4. Len(byte) \in Nat \ {0} /\ 1 \in 1..Len(byte)
    BY <2>2, EmptySeq
  <2>5. byte[1] \in Bit
    BY <2>2, <2>4, ElementOfSeq
  <2>6. Len(Tail(t.fifo)) <= Depth
    <3>1. Len(t.fifo) \in Nat /\ Len(Tail(t.fifo)) = Len(t.fifo) - 1
      BY <1>1, <1>5, HeadTailProperties, LenProperties
    <3>2. Depth \in Nat
      BY SizeAssumption
    <3> QED BY <1>1, <3>1, <3>2
  <2>7. /\ a \in TxRecord /\ a.index = 1 /\ a.data_pin = byte[1] /\ a.frame = byte
        /\ a.fifo = Tail(t.fifo) /\ a.fsm = t.fsm /\ a.busy = t.busy /\ a.out_en = t.out_en
        /\ a.clk_mode = t.clk_mode /\ a.phase = t.phase /\ a.odd = t.odd
    <3>1. ASSUME NEW s, s = byte, NEW f, f = Tail(t.fifo), NEW b, b = byte[1], NEW x, x = a
          PROVE  /\ x \in TxRecord /\ x.index = 1 /\ x.data_pin = b /\ x.frame = s
                 /\ x.fifo = f /\ x.fsm = t.fsm /\ x.busy = t.busy /\ x.out_en = t.out_en
                 /\ x.clk_mode = t.clk_mode /\ x.phase = t.phase /\ x.odd = t.odd
      <4>1. /\ t \in TxRecord /\ s \in Seq(Bit) /\ f \in Seq(Bytes) /\ b \in Bit
            /\ x = [t EXCEPT !.frame = s, !.fifo = f, !.index = 1, !.data_pin = b]
        BY <1>1, <2>1, <2>2, <2>3, <2>5, <3>1
      <4> QED BY ONLY <4>1 DEF TxRecord
    <3> HIDE DEF a
    <3> QED BY <3>1
  <2> HIDE DEF a
  <2>8. TxShape(a)
    BY <2>2, <2>4, <2>6, <2>7 DEF TxShape
  <2> DEFINE r == Row(cfg.swap, Tail(t.fifo))
  <2>9. r \in Seq(Bit)
    BY <2>1, RowTyped DEF CfgOK
  <2>10. Left(a) = SubSeq(byte, 1 + 1, Len(byte)) /\ Queued(a) = r /\ Queued(t) = byte \o r
    BY <1>5, <2>1, <2>7 DEF Left, Queued
  <2> HIDE DEF r
  <2>11. SubSeq(byte, 1, Len(byte)) = byte
    BY <2>2, SubSeqFull
  <2>12. SubSeq(byte, 1, Len(byte)) \o r = << byte[1] >> \o (SubSeq(byte, 1 + 1, Len(byte)) \o r)
    BY <2>2, <2>4, <2>9, FirstOut
  <2>13. << >> \o Queued(t) = Queued(t)
    BY <1>2, ConcatEmptySeq
  <2>14. Coming(t) = << a.data_pin >> \o Coming(a)
    BY <1>4, <1>5, <2>7, <2>10, <2>11, <2>12, <2>13 DEF Coming
  <2> QED BY <1>1, <2>7, <2>8, <2>14 DEF a
<1>6. CASE ~MoreBits(t) /\ ~(Continuous /\ t.fifo # << >>)
  <2>1. a = finish_frame(t)
    BY <1>6 DEF advance_data
  <2>2. << >> \in Seq(Bit) /\ << >> \in Seq(Bytes) /\ Len(<< >>) = 0
    BY EmptySeq
  <2>3. /\ a \in TxRecord /\ a.index = 1 /\ a.frame = << >> /\ ~a.busy /\ a.out_en = 0
        /\ (a.fifo = t.fifo \/ a.fifo = << >>)
        /\ a.fsm = (IF t.clk_mode = 3 THEN "IDLE" ELSE "CLKRUN")
        /\ (t.clk_mode = 3 => a.clk_pin = 1)
        /\ a.clk_mode = t.clk_mode /\ a.phase = t.phase /\ a.odd = t.odd
    BY <1>1, <2>1, Finished
  <2> HIDE DEF a
  <2>4. Len(a.fifo) <= Depth
    BY <1>1, <2>2, <2>3, SizeAssumption
  <2>5. TxShape(a)
    BY <2>3, <2>4 DEF TxShape
  <2>6. Queued(t) = << >>
    <3>1. CASE Continuous
      <4>1. t.fifo = << >>
        BY <1>6, <3>1
      <4>2. Row(cfg.swap, << >>) = << >>
        BY DEF Row, FlattenSeq
      <4> QED BY <4>1, <4>2 DEF Queued
    <3>2. CASE ~Continuous
      BY <3>2 DEF Queued
    <3> QED BY <3>1, <3>2
  <2>7. Coming(t) = << >>
    <3>1. << >> \o << >> = << >>
      BY <2>2, ConcatEmptySeq
    <3> QED BY <1>4, <1>6, <2>6, <3>1 DEF Coming
  <2> QED BY <2>3, <2>5, <2>7 DEF a
<1> QED BY <1>3, <1>5, <1>6

\* One round of the data loop.
Round(s) == IF s.t.fsm # "TRANSMIT" \/ s.t.phase < Half THEN s ELSE HalfPeriod(s)

Rounds(t, n, f) ==
  /\ f[0] = [t |-> t, put |-> << >>]
  /\ \A k \in 1..n : f[k] = Round(f[k-1])

\* The data loop is its rounds, one after the other.
LEMMA RoundsExist ==
  ASSUME NEW t, t.phase \div Half \in Nat
  PROVE  \E f : Rounds(t, t.phase \div Half, f) /\ Transmitted(t) = f[t.phase \div Half]
<1> DEFINE b == [t |-> t, put |-> << >>]
           Eq(m, g) == g = [k \in 0..m |-> IF k = 0 THEN b
                                           ELSE IF g[k-1].t.fsm # "TRANSMIT" \/ g[k-1].t.phase < Half THEN g[k-1]
                                           ELSE HalfPeriod(g[k-1])]
           Turn(m, g) == g = [k \in 0..m |-> IF k = 0 THEN b ELSE Round(g[k-1])]
           P == {m \in Nat : \E g : Turn(m, g)}
           n == t.phase \div Half
<1>1. 0 \in P
  <2> DEFINE g == [k \in 0..0 |-> b]
  <2>1. g = [k \in 0..0 |-> IF k = 0 THEN b ELSE Round(g[k-1])]
    <3>1. \A k \in 0..0 : k = 0
      OBVIOUS
    <3> HIDE DEF b
    <3> QED BY <3>1
  <2> QED BY <2>1
<1>2. ASSUME NEW m \in P  PROVE m + 1 \in P
  <2>1. m \in Nat
    OBVIOUS
  <2>2. PICK g : Turn(m, g)
    OBVIOUS
  <2> HIDE DEF b
  <2> DEFINE h == [k \in 0..m+1 |-> IF k <= m THEN g[k] ELSE Round(g[m])]
             r == [k \in 0..m+1 |-> IF k = 0 THEN b ELSE Round(h[k-1])]
  <2>3. ASSUME NEW k \in 0..m+1  PROVE h[k] = IF k = 0 THEN b ELSE Round(h[k-1])
    <3>1. CASE k = 0
      <4>1. k \in 0..m /\ k <= m
        BY <2>1, <3>1
      <4> QED BY <2>2, <3>1, <4>1
    <3>2. CASE k # 0 /\ k <= m
      <4>1. k \in 0..m /\ k - 1 \in 0..m+1 /\ k - 1 <= m
        BY <2>1, <3>2
      <4>2. h[k] = g[k] /\ h[k-1] = g[k-1]
        BY <3>2, <4>1
      <4>3. g[k] = Round(g[k-1])
        BY <2>2, <3>2, <4>1
      <4> QED BY <3>2, <4>2, <4>3
    <3>3. CASE ~(k <= m)
      <4>1. k = m + 1 /\ k # 0 /\ m \in 0..m+1 /\ k - 1 = m /\ m <= m
        BY <2>1, <3>3
      <4>2. h[k] = Round(g[m]) /\ h[m] = g[m]
        BY <3>3, <4>1
      <4> QED BY <4>1, <4>2
    <3> QED BY <3>1, <3>2, <3>3
  <2>4. h = r
    <3>1. \A k \in 0..m+1 : h[k] = r[k]
      BY <2>3
    <3>2. h = [k \in 0..m+1 |-> h[k]] /\ r = [k \in 0..m+1 |-> r[k]]
      OBVIOUS
    <3> QED BY <3>1, <3>2
  <2>5. Turn(m + 1, h)
    BY <2>4
  <2> HIDE DEF h, Turn
  <2> QED BY <2>1, <2>5
<1>3. P = Nat
  <2> HIDE DEF P
  <2>1. P \in SUBSET Nat
    BY DEF P
  <2> QED BY <1>1, <1>2, <2>1, SetInduction
<1>4. PICK g : Turn(n, g)
  <2> HIDE DEF Turn, n
  <2>1. n \in Nat
    BY DEF n
  <2>2. n \in P
    <3> HIDE DEF P
    <3> QED BY <1>3, <2>1
  <2> QED BY <2>2
<1>5. Eq(n, g)
  BY <1>4 DEF Round
<1> DEFINE f == CHOOSE x : Eq(n, x)
<1>6. Eq(n, f)
  <2> HIDE DEF Eq
  <2> QED BY <1>5
<1>7. Transmitted(t) = f[n]
  BY Zenon DEF Transmitted
<1>8. Turn(n, f)
  <2> HIDE DEF f
  <2> QED BY <1>6 DEF Round
<1>9. Rounds(t, n, f)
  <2> HIDE DEF f, n, b
  <2>1. n \in Nat
    BY DEF n
  <2>2. 0 \in 0..n /\ f[0] = b
    BY <1>8, <2>1
  <2>3. ASSUME NEW k \in 1..n  PROVE f[k] = Round(f[k-1])
    <3>1. k \in 0..n /\ k # 0
      BY <2>1
    <3> QED BY <1>8, <3>1
  <2> QED BY <2>2, <2>3 DEF Rounds, b
<1> HIDE DEF f
<1> QED BY <1>7, <1>9

\* How far into a period of the clock it is.
Late(t) == (IF t.odd THEN Half ELSE 0) + t.phase

\* What a transmitter has become of t and put on the line meanwhile.
Sends(t, s) ==
  /\ TxShape(s.t) /\ s.put \in Seq(Bit) /\ s.t.phase \in Nat
  /\ s.t.clk_mode = t.clk_mode
  /\ \/ /\ s.t.fsm = "TRANSMIT"
        /\ Coming(t) = s.put \o Coming(s.t)
        /\ 2 * Half * Len(s.put) + Late(s.t) = Late(t)
     \/ /\ s.t.fsm = (IF t.clk_mode = 3 THEN "IDLE" ELSE "CLKRUN")
        /\ s.t.clk_mode = 3 => s.t.clk_pin = 1
        /\ Coming(t) = s.put

\* The clock of half a period.
Ticking(t) == [t EXCEPT !.phase = Leftover(t), !.clk_pin = 1 - @, !.odd = ~@]

\* Half a period, before any bit moves.
LEMMA TickingShape ==
  ASSUME NEW t, TxShape(t), t.fsm = "TRANSMIT", t.phase \in Nat, t.phase >= Half
  PROVE  /\ TxShape(Ticking(t)) /\ Ticking(t).phase = t.phase - Half /\ Ticking(t).phase \in Nat
         /\ Ticking(t).odd = ~t.odd /\ Ticking(t).fsm = "TRANSMIT"
         /\ Ticking(t).clk_mode = t.clk_mode /\ Coming(Ticking(t)) = Coming(t)
<1> DEFINE p == t.phase - Half  c == 1 - t.clk_pin  o == ~t.odd
<1>1. t \in TxRecord /\ p \in Int /\ p \in Nat /\ c \in Bit /\ o \in BOOLEAN
  BY ClockAssumption DEF TxShape, TxRecord, Bit
<1>2. Ticking(t) = [t EXCEPT !.phase = p, !.clk_pin = c, !.odd = o]
  <2> QED BY Zenon DEF Ticking, Leftover
<1> HIDE DEF p, c, o
<1>3. ASSUME NEW x, x = Ticking(t)
      PROVE  /\ x \in TxRecord /\ x.phase = p /\ x.odd = o /\ x.fsm = t.fsm
             /\ x.clk_mode = t.clk_mode /\ x.frame = t.frame /\ x.fifo = t.fifo
             /\ x.index = t.index /\ x.busy = t.busy /\ x.out_en = t.out_en
  <2>1. x = [t EXCEPT !.phase = p, !.clk_pin = c, !.odd = o]
    BY <1>2, <1>3
  <2> QED BY ONLY <1>1, <2>1 DEF TxRecord
<1> DEFINE x == Ticking(t)
<1>4. /\ x \in TxRecord /\ x.phase = p /\ x.odd = o /\ x.fsm = t.fsm
      /\ x.clk_mode = t.clk_mode /\ x.frame = t.frame /\ x.fifo = t.fifo
      /\ x.index = t.index /\ x.busy = t.busy /\ x.out_en = t.out_en
  BY <1>3
<1> HIDE DEF x
<1>5. TxShape(x)
  BY <1>4 DEF TxShape
<1>6. Coming(x) = Coming(t)
  BY <1>4 DEF Coming, Left, Queued
<1> QED BY <1>1, <1>4, <1>5, <1>6 DEF x, p, o

\* The time of one more bit.
LEMMA OneMore ==
  ASSUME NEW n \in Nat
  PROVE  2 * Half * (n + 1) = 2 * Half * n + 2 * Half /\ 2 * Half * n \in Nat
<1>1. Half \in Nat
  BY ClockAssumption
<1> QED BY <1>1

\* A bit that goes out: a goes on where x was, whose time is that of t.
GoesOut(S, put, d, rest, before, all) ==
  /\ put \in Seq(S) /\ d \in S /\ rest \in Seq(S)
  /\ all = put \o before /\ before = << d >> \o rest

\* The first of the bits that are to come is put on the line.
LEMMA BitOut ==
  ASSUME NEW S, NEW put, NEW d, NEW rest, NEW all, NEW before,
         GoesOut(S, put, d, rest, before, all)
  PROVE  /\ all = Append(put, d) \o rest
         /\ Append(put, d) \in Seq(S) /\ Len(Append(put, d)) = Len(put) + 1
<1>0. /\ put \in Seq(S) /\ d \in S /\ rest \in Seq(S)
      /\ all = put \o before /\ before = << d >> \o rest
  BY DEF GoesOut
<1>1. << d >> \in Seq(S) /\ Append(put, d) = put \o << d >>
  BY <1>0, AppendIsConcat
<1>2. ASSUME NEW b, b = << d >>, NEW y, y = put \o b
      PROVE  all = y \o rest
  <2>1. InARow(S, put, b, rest, before, y, all)
    BY <1>0, <1>1, <1>2 DEF InARow
  <2> QED BY ONLY <2>1, Associative
<1>3. all = Append(put, d) \o rest
  BY <1>1, <1>2
<1> QED BY <1>0, <1>3, AppendProperties

\* Half a period puts on the line what comes next, or nothing.
LEMMA HalfPeriodSends ==
  ASSUME CfgOK, NEW t, NEW s, Sends(t, s), s.t.fsm = "TRANSMIT", s.t.phase >= Half
  PROVE  /\ Sends(t, HalfPeriod(s))
         /\ HalfPeriod(s).t.fsm = "TRANSMIT" => HalfPeriod(s).t.phase = s.t.phase - Half
<1> DEFINE h == Ticking(s.t)  a == IF h.odd THEN h ELSE advance_data(h)
           put == IF ~h.odd /\ a.busy THEN Append(s.put, a.data_pin) ELSE s.put
           x == HalfPeriod(s)
<1>1. x.t = a /\ x.put = put
  BY Zenon DEF HalfPeriod, Ticking
<1>2. /\ TxShape(s.t) /\ s.put \in Seq(Bit) /\ s.t.phase \in Nat /\ s.t.clk_mode = t.clk_mode
      /\ Coming(t) = s.put \o Coming(s.t)
      /\ 2 * Half * Len(s.put) + Late(s.t) = Late(t)
  BY DEF Sends
<1>3. /\ TxShape(h) /\ h.phase = s.t.phase - Half /\ h.phase \in Nat /\ h.odd = ~s.t.odd
      /\ h.fsm = "TRANSMIT" /\ h.clk_mode = t.clk_mode /\ Coming(h) = Coming(s.t)
  BY <1>2, TickingShape
<1> DEFINE n == Len(s.put)  before == Coming(h)  all == Coming(t)
<1>4. n \in Nat /\ Half \in Nat \ {0} /\ s.t.odd \in BOOLEAN
  BY <1>2, ClockAssumption, LenProperties DEF TxShape, TxRecord
<1>5. all = s.put \o before /\ before \in Seq(Bit)
  BY <1>2, <1>3, ComingTyped
<1> HIDE DEF x, h
<1>6. CASE h.odd
  <2>1. x.t = h /\ x.put = s.put
    BY <1>1, <1>6
  <2>2. Late(h) = Late(s.t)
    <3>1. ~s.t.odd
      BY <1>3, <1>4, <1>6, Zenon
    <3> QED BY <1>2, <1>3, <1>4, <1>6, <3>1 DEF Late
  <2>3. Sends(t, x)
    BY <1>2, <1>3, <2>1, <2>2 DEF Sends
  <2> QED BY <1>3, <2>1, <2>3 DEF x
<1>7. CASE ~h.odd
  <2> DEFINE y == advance_data(h)
  <2>1. x.t = y /\ x.put = IF y.busy THEN Append(s.put, y.data_pin) ELSE s.put
    BY <1>1, <1>7
  <2>2. /\ TxShape(y) /\ y.clk_mode = h.clk_mode /\ y.phase = h.phase /\ y.odd = h.odd
        /\ \/ y.fsm = "TRANSMIT" /\ y.busy /\ before = << y.data_pin >> \o Coming(y)
           \/ /\ before = << >> /\ ~y.busy
              /\ y.fsm = (IF h.clk_mode = 3 THEN "IDLE" ELSE "CLKRUN")
              /\ h.clk_mode = 3 => y.clk_pin = 1
    BY <1>3, NextBit
  <2>3. Coming(y) \in Seq(Bit) /\ y.data_pin \in Bit
    BY <2>2, ComingTyped DEF TxShape, TxRecord
  <2> HIDE DEF y, all, before
  <2>4. CASE y.fsm = "TRANSMIT" /\ y.busy /\ before = << y.data_pin >> \o Coming(y)
    <3>1. /\ all = Append(s.put, y.data_pin) \o Coming(y)
          /\ Append(s.put, y.data_pin) \in Seq(Bit) /\ Len(Append(s.put, y.data_pin)) = n + 1
      <4> DEFINE d == y.data_pin  rest == Coming(y)  p == s.put
      <4>1. GoesOut(Bit, p, d, rest, before, all)
        BY <1>2, <1>5, <2>3, <2>4 DEF GoesOut
      <4> HIDE DEF d, rest, p
      <4>2. all = Append(p, d) \o rest /\ Append(p, d) \in Seq(Bit) /\ Len(Append(p, d)) = Len(p) + 1
        BY ONLY <4>1, BitOut
      <4> QED BY <4>2 DEF d, rest, p
    <3>2. 2 * Half * (n + 1) + Late(y) = Late(t)
      <4>1. 2 * Half * (n + 1) = 2 * Half * n + 2 * Half /\ 2 * Half * n \in Nat
        BY <1>4, OneMore
      <4>2. Late(y) = s.t.phase - Half /\ Late(s.t) = Half + s.t.phase
        <5>1. s.t.odd /\ ~y.odd
          BY <1>3, <1>4, <1>7, <2>2, Zenon
        <5> QED BY <1>3, <1>4, <2>2, <5>1 DEF Late
      <4> DEFINE u == 2 * Half * n  v == 2 * Half * (n + 1)
      <4>3. v = u + 2 * Half /\ u \in Nat /\ u + Late(s.t) = Late(t)
        BY <1>2, <4>1
      <4> HIDE DEF u, v
      <4>4. v + Late(y) = Late(t)
        BY <1>2, <1>4, <4>2, <4>3
      <4> QED BY <4>4 DEF v
    <3>3. x.t = y /\ x.put = Append(s.put, y.data_pin)
      BY <2>1, <2>4
    <3>4. Sends(t, x)
      BY <1>3, <2>2, <2>4, <3>1, <3>2, <3>3 DEF Sends, all
    <3> QED BY <1>3, <2>2, <3>3, <3>4 DEF x
  <2>5. CASE /\ before = << >> /\ ~y.busy
             /\ y.fsm = (IF h.clk_mode = 3 THEN "IDLE" ELSE "CLKRUN")
             /\ h.clk_mode = 3 => y.clk_pin = 1
    <3>1. all = s.put
      BY <1>2, <1>5, <2>5, ConcatEmptySeq
    <3>2. x.t = y /\ x.put = s.put
      BY <2>1, <2>5
    <3>3. Sends(t, x)
      BY <1>2, <1>3, <2>2, <2>5, <3>1, <3>2 DEF Sends, all
    <3> QED BY <1>3, <2>2, <2>5, <3>2, <3>3 DEF x
  <2> QED BY <2>2, <2>4, <2>5
<1> QED BY <1>6, <1>7

\* The data loop leaves no half period waiting.
LEMMA TransmittedSends ==
  ASSUME CfgOK, NEW t, TxShape(t), t.fsm = "TRANSMIT", t.phase \in Nat
  PROVE  /\ Sends(t, Transmitted(t))
         /\ Transmitted(t).t.fsm = "TRANSMIT" => Transmitted(t).t.phase < Half
<1> DEFINE n == t.phase \div Half
<1>1. n \in Nat /\ Half \in Nat \ {0} /\ t.phase = n * Half + (t.phase % Half) /\ t.phase % Half < Half
      /\ t.phase % Half \in Nat
  <2>1. ASSUME NEW p \in Nat, NEW d \in Nat \ {0}
        PROVE  p \div d \in Nat /\ p = (p \div d) * d + (p % d) /\ (p % d) < d /\ (p % d) \in Nat
    <3>1. p \div d \in Nat /\ (p % d) \in 0..d-1 /\ p = (p \div d) * d + (p % d)
      BY DivModParts
    <3> DEFINE r == p % d
    <3>2. r \in 0..d-1
      BY <3>1
    <3> HIDE DEF r
    <3>3. r < d /\ r \in Nat
      BY <3>2
    <3> QED BY <3>1, <3>3 DEF r
  <2> QED BY <2>1, ClockAssumption
<1>2. PICK f : Rounds(t, n, f) /\ Transmitted(t) = f[n]
  BY <1>1, RoundsExist
<1> HIDE DEF n
<1> DEFINE Good(k) == /\ Sends(t, f[k])
                      /\ f[k].t.fsm = "TRANSMIT" =>
                           f[k].t.phase < Half \/ f[k].t.phase + k * Half = t.phase
           P == {k \in Nat : k <= n => Good(k)}
<1>3. 0 \in P
  <2>1. f[0] = [t |-> t, put |-> << >>]
    BY <1>2 DEF Rounds
  <2>2. f[0].t = t /\ f[0].put = << >>
    BY <2>1
  <2>3. << >> \in Seq(Bit) /\ Len(<< >>) = 0 /\ << >> \o Coming(t) = Coming(t)
    BY EmptySeq, ComingTyped, ConcatEmptySeq
  <2>4. 2 * Half * 0 + Late(t) = Late(t)
    <3>1. Late(t) \in Int
      BY <1>1 DEF Late
    <3>2. 2 * Half * 0 = 0
      BY ClockAssumption
    <3> QED BY <3>1, <3>2
  <2>5. Sends(t, f[0])
    BY <2>2, <2>3, <2>4 DEF Sends
  <2>6. f[0].t.phase + 0 * Half = t.phase
    <3>1. 0 * Half = 0
      BY ClockAssumption
    <3> QED BY <2>2, <3>1
  <2> QED BY <2>5, <2>6
<1>4. ASSUME NEW k \in P  PROVE k + 1 \in P
  <2> SUFFICES ASSUME k + 1 <= n  PROVE Good(k + 1)
    <3> HIDE DEF Good
    <3> QED OBVIOUS
  <2>1. k \in Nat /\ k + 1 \in 1..n /\ (k + 1) - 1 = k /\ k <= n
    <3> HIDE DEF Good
    <3>1. k \in Nat
      OBVIOUS
    <3>2. n \in Nat
      BY <1>1
    <3> QED BY ONLY <3>1, <3>2, k + 1 <= n
  <2>2. Sends(t, f[k]) /\ (f[k].t.fsm = "TRANSMIT" =>
                             f[k].t.phase < Half \/ f[k].t.phase + k * Half = t.phase)
    BY <2>1
  <2>3. f[k+1] = Round(f[k])
    BY <1>2, <2>1 DEF Rounds
  <2>4. CASE f[k].t.fsm # "TRANSMIT" \/ f[k].t.phase < Half
    <3>1. f[k+1] = f[k]
      BY <2>3, <2>4 DEF Round
    <3> QED BY <2>2, <2>4, <3>1
  <2>5. CASE ~(f[k].t.fsm # "TRANSMIT" \/ f[k].t.phase < Half)
    <3> DEFINE s == f[k]
    <3>1. s.t.phase \in Nat /\ s.t.fsm = "TRANSMIT"
      BY <2>2, <2>5 DEF Sends
    <3>2. s.t.phase >= Half /\ s.t.phase + k * Half = t.phase
      BY <1>1, <2>2, <2>5, <3>1
    <3>3. f[k+1] = HalfPeriod(s)
      BY <2>3, <2>5 DEF Round
    <3> HIDE DEF s
    <3>4. Sends(t, s)
      BY <2>2 DEF s
    <3>5. /\ Sends(t, HalfPeriod(s))
          /\ HalfPeriod(s).t.fsm = "TRANSMIT" => HalfPeriod(s).t.phase = s.t.phase - Half
      BY <3>1, <3>2, <3>4, HalfPeriodSends
    <3>6. (k + 1) * Half = k * Half + Half /\ k * Half \in Nat
      <4>1. ASSUME NEW d \in Nat  PROVE (k + 1) * d = k * d + d /\ k * d \in Nat
        BY <2>1
      <4> QED BY <4>1, ClockAssumption
    <3>7. (s.t.phase - Half) + (k + 1) * Half = t.phase
      <4> DEFINE u == k * Half  v == (k + 1) * Half
      <4>1. u \in Nat /\ v = u + Half /\ s.t.phase + u = t.phase
        BY <3>2, <3>6
      <4> HIDE DEF u, v
      <4>2. (s.t.phase - Half) + v = t.phase
        BY <1>1, <3>1, <4>1
      <4> QED BY <4>2 DEF v
    <3> QED BY <3>3, <3>5, <3>7
  <2> QED BY <2>4, <2>5
<1>5. P = Nat
  <2> HIDE DEF P
  <2>1. P \in SUBSET Nat
    BY DEF P
  <2> QED BY <1>3, <1>4, <2>1, SetInduction
<1>6. Good(n)
  <2> HIDE DEF Good
  <2>1. n \in P
    <3> HIDE DEF P
    <3> QED BY <1>1, <1>5
  <2> QED BY <1>1, <2>1
<1>7. ASSUME f[n].t.fsm = "TRANSMIT"  PROVE f[n].t.phase < Half
  <2>1. f[n].t.phase \in Nat
    BY <1>6 DEF Sends
  <2>2. f[n].t.phase < Half \/ f[n].t.phase + n * Half = t.phase
    BY <1>6, <1>7
  <2> DEFINE u == n * Half  r == t.phase % Half
  <2>3. u \in Nat /\ t.phase = u + r /\ r < Half /\ r \in Nat
    BY <1>1
  <2> HIDE DEF u, r
  <2>4. f[n].t.phase < Half \/ f[n].t.phase + u = t.phase
    BY <2>2 DEF u
  <2> QED BY <1>1, <2>1, <2>3, <2>4
<1> QED BY <1>2, <1>6, <1>7

\* How long a transmitter has been in its state.
Timed(t) ==
  /\ t.fsm = "TRANSMIT" => t.phase \in 0 .. Half - 1
  /\ t.fsm = "CLKRUN" => t.phase \in 0 .. 2 * Half - 1
  /\ t.fsm = "IDLE" => t.phase = 0
  /\ t.fsm \in {"WIRE", "TST"} => t.phase < 0

\* What a transmitter t has put on the line of what it owes, and when.
OnLine(t, due, put, time) ==
  /\ due \in Seq(Bit) /\ put \in Seq(Bit) /\ time \in Nat
  /\ ~t.busy => put = due
  /\ t.busy => due = put \o Coming(t)
  /\ t.fsm \in {"WIRE", "TST"} => put = << >>
  /\ t.fsm = "TRANSMIT" => Len(put) # 0 /\ time = 2 * Half * (Len(put) - 1) + Late(t)

\* A transmitter at the time of its next advance.
Later(t, d) == IF t.fsm = "IDLE" THEN t ELSE [t EXCEPT !.phase = @ + d]

\* Waiting changes nothing but the time.
LEMMA LaterShape ==
  ASSUME NEW t, TxShape(t), NEW d \in Nat
  PROVE  LET x == Later(t, d) IN
         /\ TxShape(x) /\ x.fsm = t.fsm /\ x.busy = t.busy /\ x.odd = t.odd /\ x.clk_mode = t.clk_mode
         /\ x.phase = (IF t.fsm = "IDLE" THEN t.phase ELSE t.phase + d)
         /\ x.frame = t.frame /\ x.fifo = t.fifo /\ x.index = t.index /\ x.clk_pin = t.clk_pin
         /\ Coming(x) = Coming(t)
<1>1. t \in TxRecord /\ t.phase + d \in Int
  BY DEF TxShape, TxRecord
<1>2. CASE t.fsm = "IDLE"
  BY <1>2 DEF Later
<1>3. CASE t.fsm # "IDLE"
  <2>1. ASSUME NEW p \in Int, p = t.phase + d, NEW x, x = Later(t, d)
        PROVE  /\ x \in TxRecord /\ x.phase = p /\ x.odd = t.odd /\ x.fsm = t.fsm
               /\ x.clk_mode = t.clk_mode /\ x.frame = t.frame /\ x.fifo = t.fifo
               /\ x.index = t.index /\ x.busy = t.busy /\ x.out_en = t.out_en /\ x.clk_pin = t.clk_pin
    <3>1. x = [t EXCEPT !.phase = p]
      BY <1>3, <2>1 DEF Later
    <3> QED BY ONLY <1>1, <3>1, p \in Int DEF TxRecord
  <2> DEFINE x == Later(t, d)
  <2>2. /\ x \in TxRecord /\ x.phase = t.phase + d /\ x.odd = t.odd /\ x.fsm = t.fsm
        /\ x.clk_mode = t.clk_mode /\ x.frame = t.frame /\ x.fifo = t.fifo
        /\ x.index = t.index /\ x.busy = t.busy /\ x.out_en = t.out_en /\ x.clk_pin = t.clk_pin
    BY <1>1, <2>1
  <2> HIDE DEF x
  <2>3. TxShape(x)
    BY <2>2 DEF TxShape
  <2>4. Coming(x) = Coming(t)
    BY <2>2 DEF Coming, Left, Queued
  <2> QED BY <1>3, <2>2, <2>3, <2>4 DEF x
<1> QED BY <1>2, <1>3

\* The first bit goes on the line.
LEMMA EnterShape ==
  ASSUME NEW t, TxShape(t), t.fsm \in {"WIRE", "TST"}, CfgOK
  PROVE  LET x == enter_transmit(t) IN
         /\ TxShape(x) /\ x.fsm = "TRANSMIT" /\ x.busy /\ x.clk_mode = t.clk_mode /\ x.phase = 0
         /\ Late(x) = 0 /\ x.data_pin = t.frame[1] /\ t.frame[1] \in Bit
         /\ Coming(t) = << t.frame[1] >> \o Coming(x)
<1> DEFINE n == Len(t.frame)
<1>1. t \in TxRecord /\ t.busy /\ t.frame \in Seq(Bit) /\ n \in Nat /\ 1 \in 1..n
  BY LenProperties DEF TxShape, TxRecord
<1>2. t.frame[1] \in Bit /\ Queued(t) \in Seq(Bit)
  BY <1>1, ElementOfSeq, QueuedTyped
<1>3. ASSUME NEW b \in Bit, b = t.frame[1], NEW x, x = enter_transmit(t)
      PROVE  /\ x \in TxRecord /\ x.phase = 0 /\ x.odd = FALSE /\ x.fsm = "TRANSMIT"
             /\ x.clk_mode = t.clk_mode /\ x.frame = t.frame /\ x.fifo = t.fifo
             /\ x.index = 1 /\ x.busy = t.busy /\ x.out_en = 1 /\ x.data_pin = b
  <2>1. x = [t EXCEPT !.fsm = "TRANSMIT", !.phase = 0, !.odd = FALSE, !.out_en = 1, !.index = 1,
                      !.data_pin = b]
    BY <1>3, Zenon DEF enter_transmit
  <2>2. t \in TxRecord /\ 1 \in Bit
    BY <1>1 DEF Bit
  <2>3. x \in TxRecord
    <3>0. ASSUME NEW o \in BOOLEAN, NEW p \in Int
          PROVE  [t EXCEPT !.fsm = "TRANSMIT", !.phase = p, !.odd = o] \in TxRecord
      BY ONLY <2>2, o \in BOOLEAN, p \in Int DEF TxRecord
    <3>1. [t EXCEPT !.fsm = "TRANSMIT", !.phase = 0, !.odd = FALSE] \in TxRecord
      <4>1. 0 \in Int /\ FALSE \in BOOLEAN
        OBVIOUS
      <4> QED BY <4>1, <3>0, Zenon
    <3>2. ASSUME NEW y \in TxRecord
          PROVE  [y EXCEPT !.out_en = 1, !.index = 1, !.data_pin = b] \in TxRecord
      BY ONLY <2>2, y \in TxRecord, b \in Bit DEF TxRecord
    <3> QED BY <2>1, <3>1, <3>2
  <2>4. /\ x.phase = 0 /\ x.odd = FALSE /\ x.fsm = "TRANSMIT"
        /\ x.clk_mode = t.clk_mode /\ x.frame = t.frame /\ x.fifo = t.fifo
        /\ x.index = 1 /\ x.busy = t.busy /\ x.out_en = 1 /\ x.data_pin = b
    BY ONLY <2>1, <2>2 DEF TxRecord
  <2> QED BY <2>3, <2>4
<1> DEFINE x == enter_transmit(t)
<1>4. /\ x \in TxRecord /\ x.phase = 0 /\ x.odd = FALSE /\ x.fsm = "TRANSMIT"
      /\ x.clk_mode = t.clk_mode /\ x.frame = t.frame /\ x.fifo = t.fifo
      /\ x.index = 1 /\ x.busy = t.busy /\ x.out_en = 1 /\ x.data_pin = t.frame[1]
  BY <1>2, <1>3
<1> HIDE DEF x
<1>5. TxShape(x)
  BY <1>1, <1>4 DEF TxShape
<1>6. Left(t) = SubSeq(t.frame, 1, n) /\ Left(x) = SubSeq(t.frame, 1 + 1, n) /\ Queued(x) = Queued(t)
  BY <1>4 DEF Left, Queued
<1>7. SubSeq(t.frame, 1, n) \o Queued(t) = << t.frame[1] >> \o (SubSeq(t.frame, 1 + 1, n) \o Queued(t))
  BY <1>1, <1>2, FirstOut
<1>8. Coming(t) = << t.frame[1] >> \o Coming(x)
  BY <1>6, <1>7 DEF Coming
<1> QED BY <1>1, <1>2, <1>4, <1>5, <1>8 DEF x, Late

\* The second delay begins where the first one ends.
LEMMA SecondDelay ==
  ASSUME NEW t, TxShape(t), t.fsm = "WIRE", CfgOK, cfg.tst > 0
  PROVE  LET x == [t EXCEPT !.fsm = "TST", !.clk_pin = 0, !.phase = -cfg.tst] IN
         /\ TxShape(x) /\ x.fsm = "TST" /\ x.busy /\ x.clk_mode = t.clk_mode /\ x.phase < 0
         /\ Coming(x) = Coming(t)
<1>1. t \in TxRecord /\ t.busy /\ -cfg.tst \in Int /\ -cfg.tst < 0
  BY DEF TxShape, CfgOK
<1>2. ASSUME NEW p \in Int, p = -cfg.tst, NEW x, x = [t EXCEPT !.fsm = "TST", !.clk_pin = 0, !.phase = p]
      PROVE  /\ x \in TxRecord /\ x.phase = p /\ x.fsm = "TST"
             /\ x.clk_mode = t.clk_mode /\ x.frame = t.frame /\ x.fifo = t.fifo
             /\ x.index = t.index /\ x.busy = t.busy /\ x.out_en = t.out_en
  <2>1. x = [t EXCEPT !.fsm = "TST", !.clk_pin = 0, !.phase = p]
    BY <1>2
  <2> QED BY ONLY <1>1, <2>1, p \in Int DEF TxRecord, Bit
<1> DEFINE x == [t EXCEPT !.fsm = "TST", !.clk_pin = 0, !.phase = -cfg.tst]
<1>3. /\ x \in TxRecord /\ x.phase = -cfg.tst /\ x.fsm = "TST"
      /\ x.clk_mode = t.clk_mode /\ x.frame = t.frame /\ x.fifo = t.fifo
      /\ x.index = t.index /\ x.busy = t.busy /\ x.out_en = t.out_en
  BY <1>1, <1>2
<1> HIDE DEF x
<1>4. TxShape(x)
  BY <1>1, <1>3 DEF TxShape
<1>5. Coming(x) = Coming(t)
  BY <1>3 DEF Coming, Left, Queued
<1> QED BY <1>1, <1>3, <1>4, <1>5 DEF x

\* What time makes of a transmitter t that owes due and has put some of it on the
\* line: m.t follows it, m.put are the bits that came on the line.
Progressed(t, m, due, put, now) ==
  /\ TxShape(m.t) /\ m.put \in Seq(Bit) /\ m.t.clk_mode = t.clk_mode
  /\ m.t.fsm = "CLKRUN" => m.t.phase \in Nat
  /\ m.t.fsm = "TRANSMIT" => m.t.phase \in 0 .. Half - 1
  /\ m.t.fsm \in {"WIRE", "TST"} => m.t.phase < 0
  /\ OnLine(m.t, due, put \o m.put, now)
  /\ m.t.fsm = "IDLE" => m.t = t \/ (t.busy /\ t.clk_mode = 3 /\ m.t.clk_pin = 1)

Elapsed(t, m, time, d) == IF t.fsm = "TRANSMIT" /\ m.t.fsm = "TRANSMIT" THEN time + d ELSE 0

\* Time moves what is to come onto the line, in order and on the grid of the clock.
LEMMA ProgressKeepsLine ==
  ASSUME CfgOK, NEW t, TxShape(t), Timed(t), NEW due, NEW put, NEW time, OnLine(t, due, put, time),
         NEW d \in Nat, NEW m, m = Progress(Later(t, d))
  PROVE  Progressed(t, m, due, put, Elapsed(t, m, time, d))
<1> DEFINE x == Later(t, d)  all == put \o m.put  now == Elapsed(t, m, time, d)
<1>1. /\ TxShape(x) /\ x.fsm = t.fsm /\ x.busy = t.busy /\ x.odd = t.odd /\ x.clk_mode = t.clk_mode
      /\ x.phase = (IF t.fsm = "IDLE" THEN t.phase ELSE t.phase + d)
      /\ x.frame = t.frame /\ x.clk_pin = t.clk_pin /\ Coming(x) = Coming(t)
  BY LaterShape
<1>2. /\ due \in Seq(Bit) /\ put \in Seq(Bit) /\ time \in Nat /\ Len(put) \in Nat
      /\ ~t.busy => put = due
      /\ t.busy => due = put \o Coming(t)
      /\ t.fsm \in {"WIRE", "TST"} => put = << >>
      /\ t.fsm = "TRANSMIT" => Len(put) # 0 /\ time = 2 * Half * (Len(put) - 1) + Late(t)
  BY LenProperties DEF OnLine
<1>3. t.fsm \in {"IDLE", "WIRE", "TST", "TRANSMIT", "CLKRUN"} /\ t.phase \in Int
      /\ (t.busy <=> t.fsm \in {"WIRE", "TST", "TRANSMIT"})
  BY DEF TxShape, TxRecord
<1>4. m = Progress(x)
  OBVIOUS
<1> HIDE DEF x
<1>5. put \o << >> = put /\ << >> \in Seq(Bit) /\ Len(<< >>) = 0 /\ Half \in Nat \ {0}
  BY <1>2, ConcatEmptySeq, EmptySeq, ClockAssumption
<1>6. CASE x.fsm = "WIRE" /\ x.phase >= 0 /\ cfg.tst > 0
  <2> DEFINE y == [x EXCEPT !.fsm = "TST", !.clk_pin = 0, !.phase = -cfg.tst]
  <2>1. m.t = y /\ m.put = << >>
    <3>1. m = [t |-> y, put |-> << >>]
      BY <1>4, <1>6 DEF Progress
    <3> QED BY <3>1
  <2>2. /\ TxShape(y) /\ y.fsm = "TST" /\ y.busy /\ y.clk_mode = x.clk_mode /\ y.phase < 0
        /\ Coming(y) = Coming(x)
    BY <1>1, <1>6, SecondDelay
  <2> HIDE DEF y
  <2>3. all = << >> /\ t.busy /\ now = 0
    BY <1>1, <1>2, <1>3, <1>5, <1>6, <2>1 DEF Elapsed
  <2>4. OnLine(m.t, due, all, now)
    <3>1. due = all \o Coming(y)
      BY <1>1, <1>2, <1>5, <1>6, <2>2, <2>3
    <3> HIDE DEF all, now
    <3> QED BY <1>2, <1>5, <2>1, <2>2, <2>3, <3>1 DEF OnLine
  <2> QED BY <1>1, <1>5, <2>1, <2>2, <2>4 DEF Progressed
<1>7. CASE ~(x.fsm = "WIRE" /\ cfg.tst > 0) /\ x.fsm \in {"WIRE", "TST"} /\ x.phase >= 0
  <2> DEFINE y == enter_transmit(x)  b == x.frame[1]
  <2>1. m.t = y /\ m.put = << b >>
    <3>1. m = [t |-> y, put |-> << b >>]
      BY <1>4, <1>7 DEF Progress
    <3> QED BY <3>1
  <2>2. /\ TxShape(y) /\ y.fsm = "TRANSMIT" /\ y.busy /\ y.clk_mode = x.clk_mode /\ y.phase = 0
        /\ Late(y) = 0 /\ b \in Bit /\ Coming(x) = << b >> \o Coming(y)
    BY <1>1, <1>7, EnterShape
  <2> HIDE DEF y, b
  <2>3. << b >> \in Seq(Bit) /\ Len(<< b >>) = 1
    BY <2>2
  <2>4. Coming(y) \in Seq(Bit)
    BY <2>2, ComingTyped
  <2>5. put = << >> /\ t.busy /\ now = 0 /\ due = << >> \o Coming(t)
    BY <1>1, <1>2, <1>3, <1>7, <2>1, <2>2 DEF Elapsed
  <2>6. all = << b >> /\ due = Coming(t)
    <3>1. << >> \o << b >> = << b >>
      BY <2>3, ConcatEmptySeq
    <3>2. Coming(t) \in Seq(Bit)
      BY ComingTyped
    <3>3. << >> \o Coming(t) = Coming(t)
      BY <3>2, ConcatEmptySeq
    <3> QED BY <2>1, <2>5, <3>1, <3>3
  <2>7. 2 * Half * (Len(all) - 1) + Late(y) = 0
    <3>1. Len(all) = 1
      BY <2>3, <2>6
    <3>2. 2 * Half * (1 - 1) = 0
      BY ClockAssumption
    <3> QED BY <2>2, <3>1, <3>2
  <2>8. OnLine(m.t, due, all, now)
    <3> HIDE DEF all, now
    <3> QED BY <1>1, <1>2, <2>1, <2>2, <2>3, <2>5, <2>6, <2>7 DEF OnLine
  <2> QED BY <1>1, <1>5, <2>1, <2>2, <2>3, <2>8 DEF Progressed
<1>8. CASE x.fsm = "TRANSMIT"
  <2>1. m = Transmitted(x)
    BY <1>4, <1>8 DEF Progress
  <2>2. t.busy /\ x.phase \in Nat /\ t.fsm = "TRANSMIT" /\ x.phase = t.phase + d /\ Late(t) \in Int
        /\ Late(x) = Late(t) + d
    <3>1. t.fsm = "TRANSMIT"
      BY <1>1, <1>8
    <3>2. t.phase \in 0 .. Half - 1 /\ x.phase = t.phase + d
      BY <1>1, <3>1 DEF Timed
    <3> QED BY <1>1, <1>3, <1>5, <3>1, <3>2 DEF Late
  <2>3. Sends(x, m) /\ (m.t.fsm = "TRANSMIT" => m.t.phase < Half)
    BY <1>1, <1>8, <2>1, <2>2, TransmittedSends
  <2>4. /\ TxShape(m.t) /\ m.put \in Seq(Bit) /\ m.t.phase \in Nat /\ m.t.clk_mode = x.clk_mode
        /\ \/ /\ m.t.fsm = "TRANSMIT" /\ Coming(x) = m.put \o Coming(m.t)
              /\ 2 * Half * Len(m.put) + Late(m.t) = Late(x)
           \/ /\ m.t.fsm = (IF x.clk_mode = 3 THEN "IDLE" ELSE "CLKRUN")
              /\ m.t.clk_mode = 3 => m.t.clk_pin = 1
              /\ Coming(x) = m.put
    BY <2>3 DEF Sends
  <2>5. all \in Seq(Bit) /\ Len(all) = Len(put) + Len(m.put) /\ Len(m.put) \in Nat
    BY <1>2, <2>4, ConcatProperties, LenProperties
  <2>6. Coming(m.t) \in Seq(Bit)
    BY <2>4, ComingTyped
  <2>7. CASE /\ m.t.fsm = "TRANSMIT" /\ Coming(x) = m.put \o Coming(m.t)
             /\ 2 * Half * Len(m.put) + Late(m.t) = Late(x)
    <3>1. due = all \o Coming(m.t)
      <4>1. ASSUME NEW a, a = put, NEW b, b = m.put, NEW c, c = Coming(m.t), NEW u, u = Coming(x),
                   NEW v, v = all, NEW w, w = due
            PROVE  w = v \o c
        <5>1. InARow(Bit, a, b, c, u, v, w)
          BY <1>1, <1>2, <2>2, <2>4, <2>6, <2>7, <4>1 DEF InARow
        <5> QED BY ONLY <5>1, Associative
      <4> QED BY <4>1
    <3>2. now = time + d /\ m.t.busy
      BY <2>2, <2>4, <2>7 DEF Elapsed, TxShape
    <3>3. 2 * Half * (Len(all) - 1) = 2 * Half * (Len(put) - 1) + 2 * Half * Len(m.put)
      <4>1. ASSUME NEW h \in Nat, NEW p \in Nat, NEW q \in Nat
            PROVE  2 * h * ((p + q) - 1) = 2 * h * (p - 1) + 2 * h * q
                   /\ 2 * h * (p - 1) \in Int /\ 2 * h * q \in Int
        OBVIOUS
      <4> DEFINE p == Len(put)  q == Len(m.put)
      <4>2. p \in Nat /\ q \in Nat /\ Half \in Nat /\ Len(all) = p + q
        BY <1>2, <1>5, <2>5
      <4> HIDE DEF p, q, all
      <4>3. 2 * Half * ((p + q) - 1) = 2 * Half * (p - 1) + 2 * Half * q
        BY ONLY <4>1, <4>2
      <4> QED BY <4>2, <4>3 DEF p, q
    <3>4. 2 * Half * (Len(put) - 1) \in Int /\ 2 * Half * Len(m.put) \in Int
      <4>1. ASSUME NEW h \in Nat, NEW p \in Nat, NEW q \in Nat
            PROVE  2 * h * (p - 1) \in Int /\ 2 * h * q \in Int
        OBVIOUS
      <4> QED BY <1>2, <1>5, <2>5, <4>1
    <3>5. now = 2 * Half * (Len(all) - 1) + Late(m.t)
      <4> DEFINE u == 2 * Half * (Len(put) - 1)  v == 2 * Half * Len(m.put)  w == 2 * Half * (Len(all) - 1)
      <4>1. u \in Int /\ v \in Int /\ w = u + v /\ time = u + Late(t) /\ v + Late(m.t) = Late(x)
        BY <1>2, <2>2, <2>7, <3>3, <3>4
      <4>2. Late(m.t) \in Int
        BY <1>5, <2>4 DEF Late
      <4> HIDE DEF u, v, w
      <4>4. d \in Nat /\ Late(t) \in Int /\ v + Late(m.t) = Late(t) + d
        BY ONLY d \in Nat, <2>2, <4>1
      <4>5. (u + Late(t)) + d = (u + v) + Late(m.t)
        BY ONLY <4>1, <4>2, <4>4, SumMoved
      <4>6. now = w + Late(m.t)
        BY ONLY <3>2, <4>1, <4>5
      <4> QED BY <4>6 DEF w
    <3>6. OnLine(m.t, due, all, now)
      <4>1. now \in Nat /\ Len(all) # 0
        BY <1>2, <2>2, <2>5, <3>2
      <4> HIDE DEF all, now
      <4> QED BY <1>2, <2>5, <2>7, <3>1, <3>2, <3>5, <4>1 DEF OnLine
    <3>7. m.t.phase \in 0 .. Half - 1
      BY <1>5, <2>3, <2>4, <2>7
    <3> QED BY <1>1, <2>4, <2>7, <3>6, <3>7 DEF Progressed
  <2>8. CASE /\ m.t.fsm = (IF x.clk_mode = 3 THEN "IDLE" ELSE "CLKRUN")
             /\ m.t.clk_mode = 3 => m.t.clk_pin = 1
             /\ Coming(x) = m.put
    <3>1. m.t.fsm \in {"IDLE", "CLKRUN"} /\ ~m.t.busy
      BY <2>4, <2>8 DEF TxShape
    <3>2. all = due /\ now = 0
      BY <1>1, <1>2, <2>2, <2>8, <3>1 DEF Elapsed
    <3>3. OnLine(m.t, due, all, now)
      <4> HIDE DEF all, now
      <4> QED BY <1>2, <3>1, <3>2 DEF OnLine
    <3>4. m.t.fsm = "IDLE" => t.busy /\ t.clk_mode = 3 /\ m.t.clk_pin = 1
      BY <1>1, <2>2, <2>4, <2>8
    <3> QED BY <1>1, <2>4, <3>1, <3>3, <3>4 DEF Progressed
  <2> QED BY <2>4, <2>7, <2>8
<1>9. CASE \/ x.fsm \in {"IDLE", "CLKRUN"}
           \/ x.fsm \in {"WIRE", "TST"} /\ ~(x.phase >= 0)
  <2>1. m.t = x /\ m.put = << >>
    <3>1. m = [t |-> x, put |-> << >>]
      BY <1>4, <1>9 DEF Progress
    <3> QED BY <3>1
  <2>2. all = put /\ now = 0 /\ x.fsm # "TRANSMIT"
    BY <1>1, <1>5, <1>9, <2>1 DEF Elapsed
  <2>3. OnLine(x, due, all, now)
    <3> HIDE DEF all, now
    <3> QED BY <1>1, <1>2, <2>2 DEF OnLine
  <2>4. x.fsm = "CLKRUN" => x.phase \in Nat
    BY <1>1, <1>3, <1>5 DEF Timed
  <2>5. x.fsm \in {"WIRE", "TST"} => x.phase < 0
    BY <1>1, <1>3, <1>9
  <2>6. x.fsm = "IDLE" => x = t
    BY <1>1 DEF x, Later
  <2> HIDE DEF all, now
  <2>7. OnLine(m.t, due, put \o m.put, now)
    BY <2>1, <2>3 DEF all
  <2>8. TxShape(m.t) /\ m.put \in Seq(Bit) /\ m.t.clk_mode = t.clk_mode
    BY <1>1, <1>5, <2>1
  <2>9. /\ m.t.fsm = "CLKRUN" => m.t.phase \in Nat
        /\ m.t.fsm # "TRANSMIT"
        /\ m.t.fsm \in {"WIRE", "TST"} => m.t.phase < 0
    BY <2>1, <2>2, <2>4, <2>5
  <2>10. m.t.fsm = "IDLE" => m.t = t
    BY <2>1, <2>6
  <2> HIDE DEF now
  <2>11. Progressed(t, m, due, put, now)
    BY ONLY <2>7, <2>8, <2>9, <2>10 DEF Progressed
  <2> QED BY <2>11 DEF now
<1> QED BY <1>1, <1>3, <1>6, <1>7, <1>8, <1>9

\* The clock of t is as it was, or the last byte of a frame has stopped it.
Halted(t) == [t EXCEPT !.fsm = "IDLE", !.clk_pin = IF t.clk_mode = 0 THEN 0 ELSE 1]
ClockHalted(t, x) == x = t \/ (t.fsm = "CLKRUN" /\ t.clk_mode \in {0, 1} /\ x = Halted(t))

\* The free-running clock stays within its period.
LEMMA FreeRunningShape ==
  ASSUME NEW t, TxShape(t), t.fsm = "CLKRUN", t.phase \in Nat
  PROVE  LET x == FreeRunning(t) IN
         /\ TxShape(x) /\ x.fsm = "CLKRUN" /\ x.clk_mode = t.clk_mode /\ ~x.busy
         /\ x.phase \in 0 .. 2 * Half - 1
<1> DEFINE e == t.phase \div (2 * Half)  p == t.phase - e * 2 * Half
           c == IF e % 2 = 0 THEN t.clk_pin ELSE 1 - t.clk_pin
<1>1. 2 * Half \in Nat \ {0}
  BY ClockAssumption
<1>2. p \in 0 .. 2 * Half - 1
  <2>1. ASSUME NEW d \in Nat \ {0}
        PROVE  t.phase - (t.phase \div d) * d \in 0..d-1
    <3>1. t.phase \div d \in Nat /\ (t.phase % d) \in 0..d-1 /\ t.phase = (t.phase \div d) * d + (t.phase % d)
      BY DivModParts
    <3>2. (t.phase \div d) * d \in Nat
      BY <3>1
    <3> DEFINE u == (t.phase \div d) * d  r == t.phase % d
    <3>3. u \in Nat /\ r \in 0..d-1 /\ t.phase = u + r
      BY <3>1, <3>2
    <3> HIDE DEF u, r
    <3>4. t.phase - u \in 0..d-1
      BY <3>3
    <3> QED BY <3>4 DEF u
  <2>2. t.phase - e * (2 * Half) \in 0 .. 2 * Half - 1
    BY <1>1, <2>1
  <2>3. e * 2 * Half = e * (2 * Half)
    <3>1. e \in Nat
      BY <1>1, DivModParts
    <3>2. ASSUME NEW h \in Nat, NEW k \in Nat  PROVE k * 2 * h = k * (2 * h)
      OBVIOUS
    <3> HIDE DEF e
    <3> QED BY <3>1, <3>2, ClockAssumption
  <2> QED BY <2>2, <2>3
<1>3. t \in TxRecord /\ p \in Int /\ c \in Bit
  <2>1. t \in TxRecord /\ t.clk_pin \in Bit /\ 1 - t.clk_pin \in Bit
    BY DEF TxShape, TxRecord, Bit
  <2> HIDE DEF p, e
  <2> QED BY <1>2, <2>1
<1>4. FreeRunning(t) = [t EXCEPT !.phase = p, !.clk_pin = c]
  BY Zenon DEF FreeRunning
<1> HIDE DEF p, c
<1>5. ASSUME NEW x, x = FreeRunning(t)
      PROVE  /\ x \in TxRecord /\ x.phase = p /\ x.fsm = t.fsm /\ x.clk_mode = t.clk_mode
             /\ x.frame = t.frame /\ x.fifo = t.fifo
             /\ x.index = t.index /\ x.busy = t.busy /\ x.out_en = t.out_en
  <2>1. x = [t EXCEPT !.phase = p, !.clk_pin = c]
    BY <1>4, <1>5
  <2> QED BY ONLY <1>3, <2>1 DEF TxRecord
<1> DEFINE x == FreeRunning(t)
<1>6. /\ x \in TxRecord /\ x.phase = p /\ x.fsm = t.fsm /\ x.clk_mode = t.clk_mode
      /\ x.frame = t.frame /\ x.fifo = t.fifo
      /\ x.index = t.index /\ x.busy = t.busy /\ x.out_en = t.out_en
  BY <1>5
<1> HIDE DEF x
<1>7. TxShape(x)
  BY <1>6 DEF TxShape
<1>8. ~x.busy
  BY <1>6, <1>7 DEF TxShape
<1> QED BY <1>2, <1>6, <1>7, <1>8 DEF x

\* A clock that a received frame stops.
LEMMA HaltedShape ==
  ASSUME NEW t, TxShape(t), t.fsm = "CLKRUN"
  PROVE  /\ TxShape(Halted(t)) /\ Halted(t).fsm = "IDLE" /\ ~Halted(t).busy
         /\ Halted(t).clk_mode = t.clk_mode /\ (t.clk_mode \in {0, 1} => Halted(t).clk_pin = t.clk_mode)
<1> DEFINE c == IF t.clk_mode = 0 THEN 0 ELSE 1
<1>1. t \in TxRecord /\ c \in Bit
  BY DEF TxShape, Bit
<1>2. ASSUME NEW b \in Bit, b = c, NEW x, x = Halted(t)
      PROVE  /\ x \in TxRecord /\ x.fsm = "IDLE" /\ x.clk_pin = b
             /\ x.clk_mode = t.clk_mode /\ x.frame = t.frame /\ x.fifo = t.fifo
             /\ x.index = t.index /\ x.busy = t.busy /\ x.out_en = t.out_en
  <2>1. x = [t EXCEPT !.fsm = "IDLE", !.clk_pin = b]
    BY <1>2, Zenon DEF Halted
  <2> QED BY ONLY <1>1, <2>1, b \in Bit DEF TxRecord
<1> DEFINE x == Halted(t)
<1>3. /\ x \in TxRecord /\ x.fsm = "IDLE" /\ x.clk_pin = c
      /\ x.clk_mode = t.clk_mode /\ x.frame = t.frame /\ x.fifo = t.fifo
      /\ x.index = t.index /\ x.busy = t.busy /\ x.out_en = t.out_en
  BY <1>1, <1>2
<1> HIDE DEF x
<1>4. TxShape(x) /\ ~x.busy
  BY <1>3 DEF TxShape
<1> QED BY <1>3, <1>4 DEF x

\* An idle transmitter keeps no time.
LEMMA AtRestShape ==
  ASSUME NEW t, TxShape(t)
  PROVE  LET x == AtRest(t) IN
         /\ TxShape(x) /\ x.fsm = t.fsm /\ x.busy = t.busy /\ x.clk_pin = t.clk_pin
         /\ x.clk_mode = t.clk_mode
         /\ t.fsm = "IDLE" => x.phase = 0
         /\ t.fsm # "IDLE" => x = t
<1>1. t \in TxRecord
  BY DEF TxShape
<1>2. CASE t.fsm = "IDLE"
  <2>1. ASSUME NEW x, x = AtRest(t)
        PROVE  /\ x \in TxRecord /\ x.fsm = t.fsm /\ x.clk_pin = t.clk_pin /\ x.phase = 0
               /\ x.clk_mode = t.clk_mode /\ x.frame = t.frame /\ x.fifo = t.fifo
               /\ x.index = t.index /\ x.busy = t.busy /\ x.out_en = t.out_en
    <3>1. x = [t EXCEPT !.phase = 0]
      BY <1>2, <2>1 DEF AtRest
    <3> QED BY ONLY <1>1, <3>1 DEF TxRecord
  <2> DEFINE x == AtRest(t)
  <2>2. /\ x \in TxRecord /\ x.fsm = t.fsm /\ x.clk_pin = t.clk_pin /\ x.phase = 0
        /\ x.clk_mode = t.clk_mode /\ x.frame = t.frame /\ x.fifo = t.fifo
        /\ x.index = t.index /\ x.busy = t.busy /\ x.out_en = t.out_en
    BY <2>1
  <2> HIDE DEF x
  <2>3. TxShape(x)
    BY <2>2 DEF TxShape
  <2> QED BY <1>2, <2>2, <2>3 DEF x
<1>3. CASE t.fsm # "IDLE"
  BY <1>3 DEF AtRest
<1> QED BY <1>2, <1>3

\* How an advance leaves the transmitter: y is what time made of t, the clock
\* halted or not.
LEMMA SettledLine ==
  ASSUME NEW t, NEW m, NEW due, NEW put, NEW now, Progressed(t, m, due, put, now), Timed(t),
         NEW x, ClockHalted(FreeRunning(m.t), x), NEW y, y = AtRest(x)
  PROVE  /\ TxShape(y) /\ Timed(y) /\ OnLine(y, due, put \o m.put, now)
         /\ y.fsm = "IDLE" /\ t.fsm # "IDLE" =>
              \/ t.clk_mode = 3 /\ t.busy /\ put \o m.put = due /\ y.clk_pin = 1
              \/ t.clk_mode \in {0, 1} /\ y.clk_pin = t.clk_mode /\ x # FreeRunning(m.t)
<1> DEFINE all == put \o m.put  f == FreeRunning(m.t)
<1>1. /\ TxShape(m.t) /\ m.put \in Seq(Bit) /\ m.t.clk_mode = t.clk_mode
      /\ m.t.fsm = "CLKRUN" => m.t.phase \in Nat
      /\ m.t.fsm = "TRANSMIT" => m.t.phase \in 0 .. Half - 1
      /\ m.t.fsm \in {"WIRE", "TST"} => m.t.phase < 0
      /\ OnLine(m.t, due, all, now)
      /\ m.t.fsm = "IDLE" => m.t = t \/ (t.busy /\ t.clk_mode = 3 /\ m.t.clk_pin = 1)
  BY DEF Progressed
<1> HIDE DEF all
<1>2. CASE m.t.fsm = "CLKRUN"
  <2>1. /\ TxShape(f) /\ f.fsm = "CLKRUN" /\ f.clk_mode = t.clk_mode /\ ~f.busy
        /\ f.phase \in 0 .. 2 * Half - 1
    BY <1>1, <1>2, FreeRunningShape
  <2> HIDE DEF f
  <2>2. ~m.t.busy /\ due \in Seq(Bit) /\ all \in Seq(Bit) /\ now \in Nat /\ all = due
    BY <1>1, <1>2 DEF TxShape, OnLine
  <2>3. CASE x = f
    <3>1. y = f
      BY <2>1, <2>3 DEF AtRest
    <3>2. TxShape(y) /\ Timed(y) /\ y.fsm = "CLKRUN"
      BY <2>1, <3>1 DEF Timed
    <3>3. OnLine(y, due, all, now)
      BY <2>1, <2>2, <3>1 DEF OnLine
    <3> QED BY <3>2, <3>3 DEF all
  <2>4. CASE x # f
    <3>1. f.clk_mode \in {0, 1} /\ x = Halted(f)
      BY <2>4 DEF ClockHalted, f
    <3>2. TxShape(x) /\ x.fsm = "IDLE" /\ ~x.busy /\ x.clk_mode = f.clk_mode /\ x.clk_pin = f.clk_mode
      BY <2>1, <3>1, HaltedShape
    <3>3. TxShape(y) /\ y.fsm = "IDLE" /\ ~y.busy /\ y.clk_pin = f.clk_mode /\ y.phase = 0
      BY <3>2, AtRestShape
    <3>4. Timed(y)
      BY <3>3 DEF Timed
    <3>5. OnLine(y, due, all, now)
      BY <2>2, <3>3 DEF OnLine
    <3> QED BY <2>1, <2>4, <3>1, <3>3, <3>4, <3>5 DEF all, f
  <2> QED BY <2>3, <2>4
<1>3. CASE m.t.fsm # "CLKRUN"
  <2>1. f = m.t
    BY <1>3 DEF FreeRunning
  <2>2. x = m.t
    BY <1>3, <2>1 DEF ClockHalted
  <2>3. /\ TxShape(y) /\ y.fsm = m.t.fsm /\ y.busy = m.t.busy /\ y.clk_pin = m.t.clk_pin
        /\ m.t.fsm = "IDLE" => y.phase = 0
        /\ m.t.fsm # "IDLE" => y = m.t
    BY <1>1, <2>2, AtRestShape
  <2>4. Timed(y)
    BY <1>1, <1>3, <2>3 DEF Timed, TxShape
  <2>5. OnLine(y, due, all, now)
    <3>1. CASE m.t.fsm = "IDLE"
      <4>1. ~m.t.busy /\ ~y.busy
        BY <1>1, <2>3, <3>1 DEF TxShape
      <4> QED BY <1>1, <2>3, <3>1, <4>1 DEF OnLine
    <3>2. CASE m.t.fsm # "IDLE"
      BY <1>1, <2>3, <3>2
    <3> QED BY <3>1, <3>2
  <2>6. y.fsm = "IDLE" /\ t.fsm # "IDLE" => t.clk_mode = 3 /\ t.busy /\ all = due /\ y.clk_pin = 1
    <3>1. SUFFICES ASSUME y.fsm = "IDLE", t.fsm # "IDLE"
                   PROVE  t.clk_mode = 3 /\ t.busy /\ all = due /\ y.clk_pin = 1
      OBVIOUS
    <3>2. m.t # t /\ m.t.fsm = "IDLE"
      BY <2>3, <3>1
    <3>3. ~m.t.busy
      BY <1>1, <3>2 DEF TxShape
    <3> QED BY <1>1, <2>3, <3>2, <3>3 DEF OnLine
  <2> QED BY <2>3, <2>4, <2>5, <2>6 DEF all
<1> QED BY <1>2, <1>3

Register == [1..ShiftLength -> Bit]

RxRecord ==
  [en : BOOLEAN, fifo : Seq(Register), valid : BOOLEAN, ovf : BOOLEAN, eof : BOOLEAN,
   shift : Register, started : BOOLEAN, cnt : Nat, count : Nat, next : Int, due : Int]

RxShape(r) ==
  /\ r \in RxRecord /\ Len(r.fifo) <= Depth
  /\ r.valid <=> r.fifo # << >>
  /\ r.cnt <= SampleSize /\ r.next \in 0..RxPeriod /\ r.due >= 0 /\ (r.en => r.due = 0)

\* The shift register behind the n-th level of h.
HeldBy(h, n) ==
  [i \in 1..ShiftLength |-> IF n - ShiftLength + i > 0 THEN h[n - ShiftLength + i] ELSE 0]

\* s is the first start bit in h, g the bytes that lie behind it, c what is left.
Follows(h, c, g, s) ==
  /\ h[s] = StartBit /\ \A n \in 1..s-1 : h[n] # StartBit
  /\ Len(h) - s = Len(g) * (SampleSize + 1) + c
  /\ \A k \in 1..Len(g) : g[k] = HeldBy(h, s + k * (SampleSize + 1))

\* What a receiver r has made of the levels h, g being the bytes.
Captured(h, r, g) ==
  /\ r.shift = HeldBy(h, Len(h))
  /\ ~r.started => g = << >> /\ \A n \in 1..Len(h) : h[n] # StartBit
  /\ r.started => \E s \in 1..Len(h) : Follows(h, r.cnt, g, s)

\* The shift register holds bits.
LEMMA HeldTyped ==
  ASSUME NEW h \in Seq(Bit), NEW n \in Nat, n <= Len(h)
  PROVE  HeldBy(h, n) \in Register
<1>1. ShiftLength \in Nat \ {0} /\ Len(h) \in Nat /\ \A i \in 1..Len(h) : h[i] \in Bit
  BY SizeAssumption, LenProperties, ElementOfSeq
<1>2. ASSUME NEW i \in 1..ShiftLength
      PROVE  (IF n - ShiftLength + i > 0 THEN h[n - ShiftLength + i] ELSE 0) \in Bit
  <2>1. n - ShiftLength + i > 0 => n - ShiftLength + i \in 1..Len(h)
    BY <1>1
  <2>2. 0 \in Bit
    BY DEF Bit
  <2> QED BY <1>1, <2>1, <2>2
<1> QED BY <1>2 DEF HeldBy, Register

\* A level more leaves what was held behind the earlier ones.
LEMMA HeldBefore ==
  ASSUME NEW h \in Seq(Bit), NEW bit \in Bit, NEW n \in Nat, n <= Len(h)
  PROVE  HeldBy(Append(h, bit), n) = HeldBy(h, n)
<1> DEFINE a == Append(h, bit)
<1>1. ShiftLength \in Nat \ {0} /\ Len(h) \in Nat /\ \A i \in 1..Len(h) : a[i] = h[i]
  BY SizeAssumption, LenProperties, AppendProperties
<1> HIDE DEF a
<1>2. ASSUME NEW i \in 1..ShiftLength
      PROVE  (IF n - ShiftLength + i > 0 THEN a[n - ShiftLength + i] ELSE 0)
               = (IF n - ShiftLength + i > 0 THEN h[n - ShiftLength + i] ELSE 0)
  <2>1. n - ShiftLength + i > 0 => n - ShiftLength + i \in 1..Len(h)
    BY <1>1
  <2> QED BY <1>1, <2>1
<1>3. HeldBy(a, n) = HeldBy(h, n)
  BY <1>2 DEF HeldBy
<1> QED BY <1>3 DEF a

\* A level is shifted in behind those that are held.
LEMMA ShiftIn ==
  ASSUME NEW h \in Seq(Bit), NEW bit \in Bit
  PROVE  Append(Tail(HeldBy(h, Len(h))), bit) = HeldBy(Append(h, bit), Len(h) + 1)
<1> DEFINE n == Len(h)  a == Append(h, bit)  s == HeldBy(h, n)  L == ShiftLength
           w == HeldBy(a, n + 1)
<1>1. L \in Nat \ {0} /\ n \in Nat /\ a \in Seq(Bit) /\ Len(a) = n + 1 /\ a[n+1] = bit
      /\ \A i \in 1..n : a[i] = h[i]
  BY SizeAssumption, LenProperties, AppendProperties
<1>2. s \in Register /\ w \in Register
  <2>1. n <= Len(h) /\ n + 1 \in Nat /\ n + 1 <= Len(a)
    BY <1>1
  <2> HIDE DEF a, n
  <2> QED BY <1>1, <2>1, HeldTyped
<1>3. s \in Seq(Bit) /\ Len(s) = L /\ w \in Seq(Bit) /\ Len(w) = L
  <2> HIDE DEF s, w
  <2> QED BY <1>1, <1>2 DEF Register
<1>4. \A i \in 1..L : s[i] = IF n - L + i > 0 THEN h[n - L + i] ELSE 0
  BY DEF HeldBy
<1>5. \A i \in 1..L : w[i] = IF (n + 1) - L + i > 0 THEN a[(n + 1) - L + i] ELSE 0
  BY DEF HeldBy
<1> HIDE DEF n, a, s, L, w
<1>6. s # << >>
  BY <1>1, <1>3, EmptySeq
<1> DEFINE t == Tail(s)  v == Append(t, bit)
<1>7. t \in Seq(Bit) /\ Len(t) = L - 1 /\ \A i \in 1..L-1 : t[i] = s[i+1]
  BY <1>3, <1>6, HeadTailProperties
<1> HIDE DEF t
<1>8. v \in Seq(Bit) /\ Len(v) = L - 1 + 1 /\ v[L-1+1] = bit /\ \A i \in 1..L-1 : v[i] = t[i]
  BY <1>7, AppendProperties
<1> HIDE DEF v
<1>9. ASSUME NEW i \in 1..L  PROVE v[i] = w[i]
  <2>1. CASE i = L
    <3>1. (n + 1) - L + i = n + 1 /\ n + 1 > 0 /\ L - 1 + 1 = i
      BY <1>1, <2>1
    <3> QED BY <1>1, <1>5, <1>8, <3>1
  <2>2. CASE i # L
    <3>1. i \in 1..L-1 /\ i + 1 \in 1..L /\ (n + 1) - L + i = n - L + (i + 1)
      BY <1>1, <2>2
    <3>2. v[i] = IF n - L + (i + 1) > 0 THEN h[n - L + (i + 1)] ELSE 0
      BY <1>4, <1>7, <1>8, <3>1
    <3>3. w[i] = IF n - L + (i + 1) > 0 THEN a[n - L + (i + 1)] ELSE 0
      BY <1>5, <3>1
    <3>4. n - L + (i + 1) > 0 => n - L + (i + 1) \in 1..n
      BY <1>1, <3>1
    <3> QED BY <1>1, <3>2, <3>3, <3>4
  <2> QED BY <2>1, <2>2
<1>10. Len(v) = L
  BY <1>1, <1>8
<1>11. v = w
  BY <1>3, <1>8, <1>9, <1>10, SeqEqual
<1> QED BY <1>11 DEF v, t, s, w, a, n

\* The edges of an advance, one after the other.
Edged(s, bits, n, f) == f[0] = s /\ \A k \in 1..n : f[k] = sample_edge(f[k-1], bits[k])

\* The edges of an advance are those of sample_edge, one after the other.
LEMMA EdgesExist ==
  ASSUME NEW s, NEW d, NEW bits, Edges(s.r, d) \in Nat
  PROVE  \E f : /\ Edged(s, bits, Edges(s.r, d), f)
                /\ Sampled(s, d, bits) =
                     IF s.r.en
                     THEN [f[Edges(s.r, d)] EXCEPT !.r.next = FirstEdge(s.r) + Edges(s.r, d) * RxPeriod - d]
                     ELSE s
<1> DEFINE n == Edges(s.r, d)
           Eq(m, g) == g = [k \in 0..m |-> IF k = 0 THEN s ELSE sample_edge(g[k-1], bits[k])]
           P == {m \in Nat : \E g : Eq(m, g)}
<1>1. 0 \in P
  <2> DEFINE g == [k \in 0..0 |-> s]
  <2>1. g = [k \in 0..0 |-> IF k = 0 THEN s ELSE sample_edge(g[k-1], bits[k])]
    <3>1. \A k \in 0..0 : k = 0
      OBVIOUS
    <3> QED BY <3>1
  <2> QED BY <2>1
<1>2. ASSUME NEW m \in P  PROVE m + 1 \in P
  <2>1. m \in Nat
    OBVIOUS
  <2>2. PICK g : Eq(m, g)
    OBVIOUS
  <2> DEFINE h == [k \in 0..m+1 |-> IF k <= m THEN g[k] ELSE sample_edge(g[m], bits[m+1])]
             r == [k \in 0..m+1 |-> IF k = 0 THEN s ELSE sample_edge(h[k-1], bits[k])]
  <2>3. ASSUME NEW k \in 0..m+1  PROVE h[k] = IF k = 0 THEN s ELSE sample_edge(h[k-1], bits[k])
    <3>1. CASE k = 0
      <4>1. k \in 0..m /\ k <= m
        BY <2>1, <3>1
      <4> QED BY <2>2, <3>1, <4>1
    <3>2. CASE k # 0 /\ k <= m
      <4>1. k \in 0..m /\ k - 1 \in 0..m+1 /\ k - 1 <= m
        BY <2>1, <3>2
      <4>2. h[k] = g[k] /\ h[k-1] = g[k-1]
        BY <3>2, <4>1
      <4>3. g[k] = sample_edge(g[k-1], bits[k])
        BY <2>2, <3>2, <4>1
      <4> QED BY <3>2, <4>2, <4>3
    <3>3. CASE ~(k <= m)
      <4>1. k = m + 1 /\ k # 0 /\ m \in 0..m+1 /\ k - 1 = m /\ m <= m
        BY <2>1, <3>3
      <4>2. h[k] = sample_edge(g[m], bits[m+1]) /\ h[m] = g[m]
        BY <3>3, <4>1
      <4> QED BY <4>1, <4>2
    <3> QED BY <3>1, <3>2, <3>3
  <2>4. h = r
    <3>1. \A k \in 0..m+1 : h[k] = r[k]
      BY <2>3
    <3>2. h = [k \in 0..m+1 |-> h[k]] /\ r = [k \in 0..m+1 |-> r[k]]
      OBVIOUS
    <3> QED BY <3>1, <3>2
  <2>5. Eq(m + 1, h)
    BY <2>4
  <2> HIDE DEF h, Eq
  <2> QED BY <2>1, <2>5
<1>3. P = Nat
  <2> HIDE DEF P
  <2>1. P \in SUBSET Nat
    BY DEF P
  <2> QED BY <1>1, <1>2, <2>1, SetInduction
<1>4. \E g : Eq(n, g)
  <2> HIDE DEF Eq, n
  <2>1. n \in Nat
    BY DEF n
  <2>2. n \in P
    <3> HIDE DEF P
    <3> QED BY <1>3, <2>1
  <2> QED BY <2>2
<1> DEFINE f == CHOOSE x : Eq(n, x)
<1>5. Eq(n, f)
  <2> HIDE DEF Eq
  <2> QED BY <1>4
<1>6. Sampled(s, d, bits) = IF s.r.en THEN [f[n] EXCEPT !.r.next = FirstEdge(s.r) + n * RxPeriod - d]
                            ELSE s
  BY Zenon DEF Sampled
<1>7. Edged(s, bits, n, f)
  <2> HIDE DEF f, n
  <2>1. n \in Nat
    BY DEF n
  <2>2. 0 \in 0..n /\ f[0] = s
    BY <1>5, <2>1
  <2>3. ASSUME NEW k \in 1..n  PROVE f[k] = sample_edge(f[k-1], bits[k])
    <3>1. k \in 0..n /\ k # 0
      BY <2>1
    <3> QED BY <1>5, <3>1
  <2> QED BY <2>2, <2>3 DEF Edged
<1> HIDE DEF f
<1> QED BY <1>6, <1>7

\* What an edge does to the clock t, the receiver r and the bytes g so far: the
\* receiver waits for a start bit, captures a byte or counts.
EdgeShape(r, sh, x) ==
  /\ x = [t |-> x.t, r |-> x.r, got |-> x.got]
  /\ RxShape(x.r) /\ x.r.en /\ x.r.next = r.next /\ x.r.shift = sh /\ (r.eof => x.r.eof)
EdgeWaits(t, r, g, bit, x) ==
  /\ ~r.started /\ x.r.cnt = 0 /\ x.got = g /\ x.t = t
  /\ x.r.started <=> bit = StartBit
EdgeCaptures(t, r, g, sh, x) ==
  /\ r.started /\ r.cnt = SampleSize /\ x.r.started /\ x.r.cnt = 0 /\ x.got = Append(g, sh)
  /\ x.t = t \/ (StopsClock(t) /\ x.t = Halted(t) /\ x.r.eof)
EdgeCounts(t, r, g, x) ==
  /\ r.started /\ r.cnt < SampleSize /\ x.r.started /\ x.r.cnt = r.cnt + 1
  /\ x.got = g /\ x.t = t
EdgeDone(t, r, g, sh, bit, x) ==
  /\ EdgeShape(r, sh, x)
  /\ \/ EdgeWaits(t, r, g, bit, x)
     \/ EdgeCaptures(t, r, g, sh, x)
     \/ EdgeCounts(t, r, g, x)

ShiftsOnly(r, sh, b, c, y) ==
  /\ RxShape(r) /\ r.en /\ sh \in Register /\ b \in BOOLEAN /\ c \in Nat /\ c <= SampleSize
  /\ y = [r EXCEPT !.shift = sh, !.started = b, !.cnt = c]

\* An edge that captures nothing shifts, and moves the counter.
LEMMA WaitingEdge ==
  ASSUME NEW r, NEW sh, NEW b, NEW c, NEW y, ShiftsOnly(r, sh, b, c, y)
  PROVE  /\ RxShape(y) /\ y.en /\ y.next = r.next /\ y.shift = sh /\ y.eof = r.eof
         /\ y.cnt = c /\ y.started = b
<1>1. /\ r \in RxRecord /\ sh \in Register /\ b \in BOOLEAN /\ c \in Nat
      /\ y = [r EXCEPT !.shift = sh, !.started = b, !.cnt = c]
  BY DEF RxShape, ShiftsOnly
<1>2. /\ y \in RxRecord /\ y.en = r.en /\ y.next = r.next /\ y.shift = sh /\ y.eof = r.eof
      /\ y.cnt = c /\ y.started = b /\ y.fifo = r.fifo /\ y.valid = r.valid /\ y.due = r.due
  BY ONLY <1>1 DEF RxRecord
<1>3. RxShape(r) /\ r.en /\ c <= SampleSize
  BY DEF ShiftsOnly
<1>4. RxShape(y)
  BY <1>2, <1>3 DEF RxShape
<1> QED BY <1>2, <1>3, <1>4

Capturing(t, r, g, sh, s, x) ==
  /\ CfgOK /\ RxShape(r) /\ r.en /\ sh \in Register
  /\ s = [t |-> t, r |-> [r EXCEPT !.shift = sh, !.cnt = 0], got |-> g]
  /\ x = capture_byte(s)

\* The edge that captures a byte, and may end a frame.
LEMMA CapturingEdge ==
  ASSUME NEW t, NEW r, NEW g, NEW sh, NEW s, NEW x, Capturing(t, r, g, sh, s, x)
  PROVE  /\ x = [t |-> x.t, r |-> x.r, got |-> x.got]
         /\ RxShape(x.r) /\ x.r.en /\ x.r.next = r.next /\ x.r.shift = sh /\ (r.eof => x.r.eof)
         /\ x.r.started = r.started /\ x.r.cnt = 0 /\ x.got = Append(g, sh)
         /\ x.t = t \/ (StopsClock(t) /\ x.t = Halted(t) /\ x.r.eof)
<1> DEFINE y == [r EXCEPT !.shift = sh, !.cnt = 0]
<1>0. /\ CfgOK /\ RxShape(r) /\ r.en /\ sh \in Register
      /\ s = [t |-> t, r |-> [r EXCEPT !.shift = sh, !.cnt = 0], got |-> g]
      /\ x = capture_byte(s)
  BY DEF Capturing
<1> USE <1>0
<1>1. r \in RxRecord /\ 0 \in Nat
  BY DEF RxShape
<1>2. /\ y \in RxRecord /\ y.en = r.en /\ y.next = r.next /\ y.shift = sh /\ y.eof = r.eof
      /\ y.cnt = 0 /\ y.started = r.started /\ y.fifo = r.fifo /\ y.valid = r.valid /\ y.due = r.due
      /\ y.count = r.count /\ y.ovf = r.ovf
  BY ONLY <1>1, sh \in Register DEF RxRecord
<1>3. s.t = t /\ s.r = y /\ s.got = g
  OBVIOUS
<1> DEFINE q == s.r
<1>a. /\ q \in RxRecord /\ q.en = r.en /\ q.next = r.next /\ q.shift = sh /\ q.eof = r.eof
      /\ q.cnt = 0 /\ q.started = r.started /\ q.fifo = r.fifo /\ q.valid = r.valid /\ q.due = r.due
      /\ q.count = r.count /\ q.ovf = r.ovf
  <2> HIDE DEF y
  <2> QED BY <1>2, <1>3
<1> DEFINE f == IF Len(q.fifo) < Depth THEN Append(q.fifo, q.shift) ELSE q.fifo
           o == q.ovf \/ Len(q.fifo) >= Depth
           kept == [q EXCEPT !.fifo = f, !.ovf = o, !.valid = TRUE]
           ends == cfg.rx_frame_size # 0 /\ q.count + 1 >= cfg.rx_frame_size
           n == IF ends \/ cfg.rx_frame_size = 0 THEN 0 ELSE kept.count + 1
           e == kept.eof \/ ends
<1>4. /\ x.got = Append(g, sh)
      /\ x.r = [kept EXCEPT !.count = n, !.eof = e]
      /\ x.t = IF ends /\ StopsClock(t) THEN Halted(t) ELSE t
      /\ x = [t |-> x.t, r |-> x.r, got |-> x.got]
  <2>1. x = [got |-> Append(s.got, s.r.shift),
             r |-> [kept EXCEPT !.count = n, !.eof = e],
             t |-> IF ends /\ StopsClock(s.t)
                   THEN [s.t EXCEPT !.fsm = "IDLE", !.clk_pin = IF s.t.clk_mode = 0 THEN 0 ELSE 1]
                   ELSE s.t]
    BY Zenon DEF capture_byte
  <2> HIDE DEF kept, n, e, ends, q
  <2> QED BY <1>a, <1>3, <2>1 DEF Halted, q
<1> HIDE DEF q
<1>5. f \in Seq(Register) /\ Len(f) <= Depth /\ f # << >> /\ o \in BOOLEAN
  <2>1. /\ q.fifo \in Seq(Register) /\ q.shift \in Register /\ q.ovf \in BOOLEAN /\ Depth \in Nat \ {0}
        /\ Len(q.fifo) \in Nat /\ Len(q.fifo) <= Depth
    BY <1>a, SizeAssumption, LenProperties DEF RxRecord, RxShape
  <2>2. CASE Len(q.fifo) < Depth
    <3>1. /\ Append(q.fifo, q.shift) \in Seq(Register)
          /\ Len(Append(q.fifo, q.shift)) = Len(q.fifo) + 1
      BY <2>1, AppendProperties
    <3>2. Append(q.fifo, q.shift) # << >>
      <4>1. Len(Append(q.fifo, q.shift)) # 0
        BY <2>1, <3>1
      <4> QED BY <4>1, EmptySeq
    <3> QED BY <2>1, <2>2, <3>1, <3>2
  <2>3. CASE ~(Len(q.fifo) < Depth)
    <3>1. Len(q.fifo) # 0
      BY <2>1, <2>3
    <3>2. q.fifo # << >>
      BY <3>1, EmptySeq
    <3> QED BY <2>1, <2>3, <3>2
  <2> QED BY <2>2, <2>3
<1> HIDE DEF f, o
<1>6. /\ kept \in RxRecord /\ kept.en = q.en /\ kept.next = q.next /\ kept.shift = q.shift
      /\ kept.eof = q.eof /\ kept.cnt = q.cnt /\ kept.started = q.started /\ kept.fifo = f
      /\ kept.due = q.due /\ kept.count = q.count
  <2>1. q \in RxRecord /\ f \in Seq(Register) /\ o \in BOOLEAN
    BY <1>a, <1>5
  <2>2. kept \in RxRecord
    <3>1. ASSUME NEW v \in BOOLEAN
          PROVE  [q EXCEPT !.fifo = f, !.ovf = o, !.valid = v] \in RxRecord
      BY ONLY <2>1, v \in BOOLEAN DEF RxRecord
    <3>2. TRUE \in BOOLEAN
      OBVIOUS
    <3> QED BY <3>1, <3>2, Zenon
  <2>3. /\ kept.en = q.en /\ kept.next = q.next /\ kept.shift = q.shift
        /\ kept.eof = q.eof /\ kept.cnt = q.cnt /\ kept.started = q.started /\ kept.fifo = f
        /\ kept.due = q.due /\ kept.count = q.count
    BY ONLY <2>1 DEF RxRecord
  <2> QED BY <2>2, <2>3
<1>7. kept.valid
  BY <1>a DEF RxRecord
<1> HIDE DEF kept
<1>8. n \in Nat /\ e \in BOOLEAN
  <2>1. kept.count \in Nat /\ kept.eof \in BOOLEAN
    BY <1>6 DEF RxRecord
  <2> QED BY <2>1
<1>9. (kept.eof => e) /\ (ends => e)
  OBVIOUS
<1> HIDE DEF n, e
<1>10. ASSUME NEW z, z = [kept EXCEPT !.count = n, !.eof = e]
       PROVE  /\ z \in RxRecord /\ z.en = kept.en /\ z.next = kept.next /\ z.shift = kept.shift
              /\ z.eof = e /\ z.cnt = kept.cnt /\ z.started = kept.started /\ z.fifo = kept.fifo
              /\ z.due = kept.due /\ z.valid = kept.valid
  <2>1. kept \in RxRecord
    BY <1>6
  <2> QED BY ONLY <2>1, <1>8, <1>10 DEF RxRecord
<1> DEFINE z == x.r
<1>11. /\ z \in RxRecord /\ z.en = kept.en /\ z.next = kept.next /\ z.shift = kept.shift
       /\ z.eof = e /\ z.cnt = kept.cnt /\ z.started = kept.started /\ z.fifo = kept.fifo
       /\ z.due = kept.due /\ z.valid = kept.valid
  BY <1>4, <1>10
<1> HIDE DEF z, ends
<1>12. RxShape(z)
  <2>1. z.valid /\ z.fifo # << >>
    BY <1>5, <1>6, <1>7, <1>11
  <2>2. z.cnt <= SampleSize
    BY <1>a, <1>6, <1>11, SampleAssumption
  <2> QED BY <1>a, <1>5, <1>6, <1>11, <2>1, <2>2 DEF RxShape
<1>13. /\ z.en /\ z.next = r.next /\ z.shift = sh /\ (r.eof => z.eof) /\ z.started = r.started
       /\ z.cnt = 0 /\ (ends => z.eof)
  BY <1>a, <1>6, <1>9, <1>11
<1> QED BY <1>4, <1>12, <1>13 DEF z

\* sample_edge waits, captures or counts.
LEMMA EdgeIsDone ==
  ASSUME CfgOK, NEW t, NEW r, RxShape(r), r.en, NEW g, NEW bit \in Bit,
         NEW s, s = [t |-> t, r |-> r, got |-> g],
         NEW sh, sh = Append(Tail(r.shift), bit),
         NEW x, x = sample_edge(s, bit)
  PROVE  EdgeDone(t, r, g, sh, bit, x)
<1> DEFINE shifted == [s EXCEPT !.r.shift = Append(Tail(@), bit)]
<1>1. /\ r \in RxRecord /\ r.shift \in Register /\ r.cnt \in Nat /\ r.cnt <= SampleSize
      /\ r.started \in BOOLEAN /\ r.eof \in BOOLEAN
  BY DEF RxShape, RxRecord
<1>2. SampleSize \in Nat /\ ShiftLength \in Nat \ {0}
  BY SampleAssumption, SizeAssumption
<1>3. sh \in Register
  <2>1. r.shift \in Seq(Bit) /\ Len(r.shift) = ShiftLength
    BY <1>1, <1>2 DEF Register
  <2>2. r.shift # << >>
    BY <1>2, <2>1, EmptySeq
  <2>3. Tail(r.shift) \in Seq(Bit) /\ Len(Tail(r.shift)) = ShiftLength - 1
    BY <2>1, <2>2, HeadTailProperties
  <2>4. sh \in Seq(Bit) /\ Len(sh) = ShiftLength - 1 + 1
    BY <2>3, AppendProperties
  <2>5. Len(sh) = ShiftLength
    BY <1>2, <2>4
  <2>6. sh \in [1..Len(sh) -> Bit]
    BY <2>4, LenProperties
  <2> QED BY <2>5, <2>6 DEF Register
<1>4. shifted = [t |-> t, r |-> [r EXCEPT !.shift = sh], got |-> g]
  <2>1. s.r = r
    OBVIOUS
  <2>2. [s.r EXCEPT !.shift = Append(Tail(@), bit)] = [r EXCEPT !.shift = sh]
    BY <2>1
  <2>3. ASSUME NEW q  PROVE [s EXCEPT !.r = q] = [t |-> t, r |-> q, got |-> g]
    OBVIOUS
  <2> QED BY <2>2, <2>3, Zenon
<1> HIDE DEF shifted
<1>5. x = IF ~s.r.started
          THEN [shifted EXCEPT !.r.started = (bit = StartBit), !.r.cnt = 0]
          ELSE IF ByteDue(s.r)
          THEN capture_byte([shifted EXCEPT !.r.cnt = 0])
          ELSE [shifted EXCEPT !.r.cnt = @ + 1]
  BY Zenon DEF sample_edge, shifted
<1>6. s.r = r
  OBVIOUS
<1>7. CASE ~r.started
  <2> DEFINE b == bit = StartBit  y == [r EXCEPT !.shift = sh, !.started = b, !.cnt = 0]
  <2>1. x = [t |-> t, r |-> y, got |-> g]
    <3>1. x = [shifted EXCEPT !.r.started = b, !.r.cnt = 0]
      BY <1>5, <1>6, <1>7
    <3> HIDE DEF b
    <3> QED BY <1>4, <3>1
  <2>2. b \in BOOLEAN
    OBVIOUS
  <2> HIDE DEF b
  <2>3. /\ RxShape(y) /\ y.en /\ y.next = r.next /\ y.shift = sh /\ y.eof = r.eof
        /\ y.cnt = 0 /\ y.started = b
    <3>1. ShiftsOnly(r, sh, b, 0, y)
      BY <1>2, <1>3, <2>2 DEF ShiftsOnly
    <3> HIDE DEF y
    <3> QED BY ONLY <3>1, WaitingEdge
  <2> HIDE DEF y
  <2>4. x.t = t /\ x.r = y /\ x.got = g /\ x = [t |-> x.t, r |-> x.r, got |-> x.got]
    BY <2>1
  <2>5. x.r.started <=> bit = StartBit
    BY <2>3, <2>4, Zenon DEF b
  <2>6. EdgeWaits(t, r, g, bit, x)
    <3>1. x.r.cnt = 0 /\ x.got = g /\ x.t = t
      BY <2>3, <2>4
    <3> QED BY <1>7, <2>5, <3>1, Zenon DEF EdgeWaits
  <2>7. EdgeShape(r, sh, x)
    <3>1. /\ RxShape(x.r) /\ x.r.en /\ x.r.next = r.next /\ x.r.shift = sh
      BY <2>3, <2>4
    <3>2. r.eof => x.r.eof
      BY <2>3, <2>4, Zenon
    <3> QED BY <2>4, <3>1, <3>2, Zenon DEF EdgeShape
  <2> QED BY <2>6, <2>7, Zenon DEF EdgeDone
<1>8. CASE r.started /\ ByteDue(r)
  <2> DEFINE w == [t |-> t, r |-> [r EXCEPT !.shift = sh, !.cnt = 0], got |-> g]
  <2>1. x = capture_byte(w)
    <3>1. x = capture_byte([shifted EXCEPT !.r.cnt = 0])
      BY <1>5, <1>6, <1>8
    <3>2. [shifted EXCEPT !.r.cnt = 0] = w
      BY <1>4
    <3> QED BY <3>1, <3>2
  <2>2. /\ x = [t |-> x.t, r |-> x.r, got |-> x.got]
        /\ RxShape(x.r) /\ x.r.en /\ x.r.next = r.next /\ x.r.shift = sh /\ (r.eof => x.r.eof)
        /\ x.r.started = r.started /\ x.r.cnt = 0 /\ x.got = Append(g, sh)
        /\ x.t = t \/ (StopsClock(t) /\ x.t = Halted(t) /\ x.r.eof)
    <3>1. w = [t |-> t, r |-> [r EXCEPT !.shift = sh, !.cnt = 0], got |-> g]
      OBVIOUS
    <3>2. CfgOK /\ RxShape(r) /\ r.en
      OBVIOUS
    <3> HIDE DEF w
    <3>3. Capturing(t, r, g, sh, w, x)
      BY ONLY <1>3, <2>1, <3>1, <3>2 DEF Capturing
    <3> QED BY ONLY <3>3, CapturingEdge
  <2>3. r.cnt = SampleSize
    BY <1>1, <1>2, <1>8 DEF ByteDue
  <2>4. x.r.started
    BY <1>8, <2>2
  <2>5. EdgeShape(r, sh, x)
    BY <2>2, Zenon DEF EdgeShape
  <2>6. EdgeCaptures(t, r, g, sh, x)
    BY <1>8, <2>2, <2>3, <2>4, Zenon DEF EdgeCaptures
  <2> QED BY <2>5, <2>6, Zenon DEF EdgeDone
<1>9. CASE r.started /\ ~ByteDue(r)
  <2> DEFINE c == r.cnt + 1  y == [r EXCEPT !.shift = sh, !.started = r.started, !.cnt = c]
  <2>1. x = [t |-> t, r |-> [r EXCEPT !.shift = sh, !.cnt = c], got |-> g]
    <3>1. x = [shifted EXCEPT !.r.cnt = @ + 1]
      BY <1>5, <1>6, <1>9
    <3> DEFINE p == [r EXCEPT !.shift = sh]
    <3>2. p.cnt = r.cnt /\ [r EXCEPT !.shift = sh, !.cnt = c] = [p EXCEPT !.cnt = c]
      BY <1>1 DEF RxRecord
    <3>3. shifted = [t |-> t, r |-> p, got |-> g]
      BY <1>4
    <3> HIDE DEF p
    <3>4. shifted.r = p
      BY <3>3
    <3>5. [shifted.r EXCEPT !.cnt = @ + 1] = [p EXCEPT !.cnt = c]
      BY <3>2, <3>4
    <3>6. ASSUME NEW q  PROVE [shifted EXCEPT !.r = q] = [t |-> t, r |-> q, got |-> g]
      BY <3>3
    <3> QED BY <3>1, <3>2, <3>5, <3>6, Zenon
  <2>2. c \in Nat /\ c <= SampleSize /\ r.cnt < SampleSize
    BY <1>1, <1>2, <1>9 DEF ByteDue
  <2>a. c = r.cnt + 1
    OBVIOUS
  <2> HIDE DEF c
  <2>3. y = [r EXCEPT !.shift = sh, !.cnt = c]
    BY <1>1 DEF RxRecord
  <2>4. /\ RxShape(y) /\ y.en /\ y.next = r.next /\ y.shift = sh /\ y.eof = r.eof
        /\ y.cnt = c /\ y.started = r.started
    <3>1. ShiftsOnly(r, sh, r.started, c, y)
      BY <1>1, <1>3, <2>2 DEF ShiftsOnly
    <3> HIDE DEF y
    <3> QED BY ONLY <3>1, WaitingEdge
  <2>5. x = [t |-> t, r |-> y, got |-> g]
    BY <2>1, <2>3, Zenon
  <2> HIDE DEF y
  <2>6. x.t = t /\ x.r = y /\ x.got = g /\ x = [t |-> x.t, r |-> x.r, got |-> x.got]
    BY <2>5
  <2>7. x.r.started
    BY <1>9, <2>4, <2>6
  <2>8. EdgeShape(r, sh, x)
    <3>1. /\ RxShape(x.r) /\ x.r.en /\ x.r.next = r.next /\ x.r.shift = sh
      BY <2>4, <2>6
    <3>2. r.eof => x.r.eof
      BY <2>4, <2>6, Zenon
    <3> QED BY <2>6, <3>1, <3>2, Zenon DEF EdgeShape
  <2>9. EdgeCounts(t, r, g, x)
    <3>1. x.r.cnt = r.cnt + 1
      BY <2>a, <2>4, <2>6
    <3> QED BY <1>9, <2>2, <2>6, <2>7, <3>1, Zenon DEF EdgeCounts
  <2> QED BY <2>8, <2>9, Zenon DEF EdgeDone
<1> QED BY <1>7, <1>8, <1>9, Zenon

\* Multiples in order.
LEMMA MoreIsMore ==
  ASSUME NEW k \in Nat, NEW n \in Nat, NEW m \in Nat, k <= n
  PROVE  k * m \in Nat /\ n * m \in Nat /\ k * m <= n * m /\ (n + 1) * m = n * m + m
<1>1. \A d \in Nat : d * m \in Nat
  OBVIOUS
<1>2. n - k \in Nat
  OBVIOUS
<1>3. (n - k) * m \in Nat
  BY <1>1, <1>2
<1>4. n * m = k * m + (n - k) * m
  OBVIOUS
<1>5. (n + 1) * m = n * m + m
  OBVIOUS
<1>6. k * m \in Nat /\ n * m \in Nat
  OBVIOUS
<1> DEFINE p == k * m  q == n * m  r == (n - k) * m
<1>7. p <= q
  <2>1. p \in Nat /\ q \in Nat /\ r \in Nat /\ q = p + r
    BY <1>3, <1>4, <1>6
  <2> HIDE DEF p, q, r
  <2> QED BY <2>1
<1> QED BY <1>5, <1>6, <1>7

\* A level more changes no byte that was captured.
LEMMA StillHeld ==
  ASSUME NEW h \in Seq(Bit), NEW bit \in Bit, NEW g \in Seq(Register), NEW s \in 1..Len(h),
         NEW c \in Nat, Len(h) - s = Len(g) * (SampleSize + 1) + c,
         NEW k \in 1..Len(g)
  PROVE  HeldBy(Append(h, bit), s + k * (SampleSize + 1)) = HeldBy(h, s + k * (SampleSize + 1))
<1> DEFINE M == SampleSize + 1  p == k * M  q == Len(g) * M
<1>1. M \in Nat /\ Len(g) \in Nat /\ k \in Nat /\ k <= Len(g) /\ Len(h) \in Nat
  BY SampleAssumption, LenProperties
<1>2. p \in Nat /\ q \in Nat /\ p <= q
  <2> HIDE DEF M
  <2> QED BY <1>1, MoreIsMore
<1>3. Len(h) - s = q + c
  OBVIOUS
<1> HIDE DEF p, q
<1>4. s + p \in Nat /\ s + p <= Len(h)
  BY <1>1, <1>2, <1>3
<1>5. HeldBy(Append(h, bit), s + p) = HeldBy(h, s + p)
  BY <1>4, HeldBefore
<1> QED BY <1>5 DEF p

\* The first start bit.
LEMMA StartFound ==
  ASSUME NEW h \in Seq(Bit), NEW bit \in Bit, \A n \in 1..Len(h) : h[n] # StartBit,
         bit = StartBit
  PROVE  Follows(Append(h, bit), 0, << >>, Len(h) + 1)
<1> DEFINE a == Append(h, bit)  s == Len(h) + 1
<1>1. Len(h) \in Nat /\ Len(a) = Len(h) + 1 /\ a[Len(h) + 1] = bit /\ \A i \in 1..Len(h) : a[i] = h[i]
  BY LenProperties, AppendProperties
<1> HIDE DEF a
<1>2. a[s] = StartBit /\ \A n \in 1..s-1 : a[n] # StartBit
  BY <1>1
<1>3. Len(a) - s = Len(<< >>) * (SampleSize + 1) + 0
  <2>1. 0 * (SampleSize + 1) = 0
    BY SampleAssumption
  <2>2. Len(<< >>) = 0
    OBVIOUS
  <2> QED BY <1>1, <2>1, <2>2
<1>4. \A k \in 1..Len(<< >>) : << >>[k] = HeldBy(a, s + k * (SampleSize + 1))
  OBVIOUS
<1>5. Follows(a, 0, << >>, s)
  BY <1>2, <1>3, <1>4 DEF Follows
<1> QED BY <1>5 DEF a

\* A level more behind the start bit: a count more, or a byte when it is due.
LEMMA FollowsOn ==
  ASSUME NEW h \in Seq(Bit), NEW bit \in Bit, NEW g \in Seq(Register), NEW s \in 1..Len(h),
         NEW c \in Nat, Follows(h, c, g, s)
  PROVE  /\ Follows(Append(h, bit), c + 1, g, s)
         /\ c = SampleSize =>
              Follows(Append(h, bit), 0, Append(g, HeldBy(Append(h, bit), Len(h) + 1)), s)
<1> DEFINE a == Append(h, bit)  M == SampleSize + 1  b == HeldBy(a, Len(h) + 1)  w == Append(g, b)
<1>1. /\ Len(h) \in Nat /\ Len(g) \in Nat /\ SampleSize \in Nat
      /\ Len(a) = Len(h) + 1 /\ \A i \in 1..Len(h) : a[i] = h[i]
  BY LenProperties, AppendProperties, SampleAssumption
<1>2. /\ h[s] = StartBit /\ \A n \in 1..s-1 : h[n] # StartBit
      /\ Len(h) - s = Len(g) * M + c
      /\ \A k \in 1..Len(g) : g[k] = HeldBy(h, s + k * M)
  BY DEF Follows
<1>3. \A k \in 1..Len(g) : g[k] = HeldBy(a, s + k * M)
  BY <1>2, StillHeld
<1>4. Len(g) * M \in Nat /\ (Len(g) + 1) * M = Len(g) * M + M /\ M \in Nat
  BY <1>1, MoreIsMore
<1>b. a \in Seq(Bit)
  BY AppendProperties
<1>5. b \in Register
  <2>1. Len(h) + 1 \in Nat /\ Len(h) + 1 <= Len(a)
    BY <1>1
  <2> HIDE DEF a
  <2> QED BY <1>b, <2>1, HeldTyped
<1> HIDE DEF a
<1>6. a[s] = StartBit /\ \A n \in 1..s-1 : a[n] # StartBit
  <2>1. a[s] = h[s] /\ \A n \in 1..s-1 : n \in 1..Len(h) /\ a[n] = h[n]
    BY <1>1
  <2>2. h[s] = StartBit /\ \A n \in 1..s-1 : h[n] # StartBit
    BY <1>2
  <2> QED BY <2>1, <2>2
<1>7. Len(a) - s = Len(g) * M + (c + 1)
  <2> DEFINE q == Len(g) * M
  <2>1. q \in Nat /\ Len(h) - s = q + c
    BY <1>2, <1>4
  <2> HIDE DEF q, M
  <2>2. Len(a) - s = q + (c + 1)
    BY <1>1, <2>1
  <2> QED BY <2>2 DEF q
<1>8. Follows(a, c + 1, g, s)
  BY <1>3, <1>6, <1>7 DEF Follows
<1>9. ASSUME c = SampleSize  PROVE Follows(a, 0, w, s)
  <2>1. Len(w) = Len(g) + 1 /\ w[Len(g) + 1] = b /\ \A i \in 1..Len(g) : w[i] = g[i]
    BY <1>5, AppendProperties
  <2>2. Len(a) - s = Len(w) * M + 0
    <3> DEFINE q == Len(g) * M  p == Len(w) * M
    <3>1. q \in Nat /\ p = q + M /\ Len(a) - s = q + (c + 1)
      BY <1>4, <1>7, <2>1
    <3>2. M = c + 1
      BY <1>9
    <3> HIDE DEF q, p, M
    <3>3. Len(a) - s = p + 0
      BY <1>1, <3>1, <3>2
    <3> QED BY <3>3 DEF p
  <2>3. s + (Len(g) + 1) * M = Len(h) + 1
    <3> DEFINE q == Len(g) * M  p == (Len(g) + 1) * M
    <3>1. q \in Nat /\ p = q + M /\ Len(h) - s = q + c
      BY <1>2, <1>4
    <3>2. M = c + 1
      BY <1>9
    <3> HIDE DEF q, p, M
    <3>3. s + p = Len(h) + 1
      BY <1>1, <3>1, <3>2
    <3> QED BY <3>3 DEF p
  <2>4. ASSUME NEW k \in 1..Len(w)  PROVE w[k] = HeldBy(a, s + k * M)
    <3> HIDE DEF w, M
    <3>1. CASE k = Len(g) + 1
      <4>1. w[k] = HeldBy(a, Len(h) + 1)
        BY <2>1, <3>1
      <4>2. s + k * M = Len(h) + 1
        BY <2>3, <3>1
      <4> QED BY <4>1, <4>2
    <3>2. CASE k # Len(g) + 1
      <4>1. k \in 1..Len(g)
        BY <1>1, <2>1, <3>2
      <4> QED BY <1>3, <2>1, <4>1
    <3> QED BY <3>1, <3>2
  <2> HIDE DEF w
  <2> QED BY <1>6, <2>2, <2>4 DEF Follows
<1> QED BY <1>8, <1>9 DEF a

\* What was captured remains true over an edge.
LEMMA CapturedStep ==
  ASSUME NEW h \in Seq(Bit), NEW bit \in Bit, NEW g \in Seq(Register), NEW t, NEW r,
         RxShape(r), Captured(h, r, g), NEW sh, sh = Append(Tail(r.shift), bit),
         NEW x, EdgeDone(t, r, g, sh, bit, x)
  PROVE  Captured(Append(h, bit), x.r, x.got) /\ x.got \in Seq(Register)
<1> DEFINE a == Append(h, bit)
<1>1. sh = HeldBy(a, Len(h) + 1)
  BY ShiftIn DEF Captured
<1>2. Len(h) \in Nat /\ a \in Seq(Bit) /\ Len(a) = Len(h) + 1 /\ a[Len(h)+1] = bit
      /\ \A i \in 1..Len(h) : a[i] = h[i]
  BY LenProperties, AppendProperties
<1>3. x.r.shift = HeldBy(a, Len(a))
  BY <1>1, <1>2 DEF EdgeDone, EdgeShape
<1>4. r.cnt \in Nat /\ x.r.started \in BOOLEAN
  BY DEF RxShape, RxRecord, EdgeDone, EdgeShape
<1>5. sh \in Register
  <2>1. Len(h) + 1 \in Nat /\ Len(h) + 1 <= Len(a)
    BY <1>2
  <2> HIDE DEF a
  <2> QED BY <1>1, <1>2, <2>1, HeldTyped
<1>6. CASE EdgeWaits(t, r, g, bit, x)
  <2>1. ~r.started /\ x.r.cnt = 0 /\ x.got = g
    BY <1>6, Zenon DEF EdgeWaits
  <2>2. x.r.started <=> bit = StartBit
    BY <1>6, Zenon DEF EdgeWaits
  <2>3. g = << >> /\ \A n \in 1..Len(h) : h[n] # StartBit
    BY <2>1, Zenon DEF Captured
  <2>4. CASE bit = StartBit
    <3>1. Follows(a, 0, << >>, Len(h) + 1)
      BY <2>3, <2>4, StartFound
    <3>2. x.r.started /\ Len(h) + 1 \in 1..Len(a)
      BY <1>2, <2>2, <2>4
    <3> HIDE DEF a
    <3>3. \E s \in 1..Len(a) : Follows(a, x.r.cnt, x.got, s)
      BY <2>1, <2>3, <3>1, <3>2, Zenon
    <3>4. Captured(a, x.r, x.got)
      BY <1>3, <3>2, <3>3, Zenon DEF Captured
    <3> QED BY <2>1, <3>4 DEF a
  <2>5. CASE bit # StartBit
    <3>1. ~x.r.started
      BY <2>2, <2>5, Zenon
    <3> HIDE DEF a
    <3>2. \A n \in 1..Len(a) : a[n] # StartBit
      BY <1>2, <2>3, <2>5
    <3>3. x.got = << >>
      BY <2>1, <2>3
    <3>4. Captured(a, x.r, x.got)
      BY <1>3, <3>1, <3>2, <3>3, Zenon DEF Captured
    <3> QED BY <2>1, <3>4 DEF a
  <2> QED BY <2>4, <2>5
<1>7. CASE EdgeCaptures(t, r, g, sh, x)
  <2>1. r.started /\ r.cnt = SampleSize /\ x.r.started /\ x.r.cnt = 0 /\ x.got = Append(g, sh)
    BY <1>7, Zenon DEF EdgeCaptures
  <2>2. PICK s \in 1..Len(h) : Follows(h, r.cnt, g, s)
    BY <2>1, Zenon DEF Captured
  <2>3. Follows(a, 0, Append(g, HeldBy(a, Len(h) + 1)), s)
    BY <1>4, <2>1, <2>2, FollowsOn
  <2>4. s \in 1..Len(a)
    BY <1>2
  <2> HIDE DEF a
  <2>5. \E q \in 1..Len(a) : Follows(a, x.r.cnt, x.got, q)
    <3>1. Follows(a, x.r.cnt, x.got, s)
      BY <1>1, <2>1, <2>3
    <3> QED BY <2>4, <3>1
  <2>6. Captured(a, x.r, x.got)
    BY <1>3, <2>1, <2>5, Zenon DEF Captured
  <2>7. x.got \in Seq(Register)
    BY <1>5, <2>1, AppendProperties
  <2> QED BY <2>6, <2>7 DEF a
<1>8. CASE EdgeCounts(t, r, g, x)
  <2>1. r.started /\ x.r.started /\ x.r.cnt = r.cnt + 1 /\ x.got = g
    BY <1>8, Zenon DEF EdgeCounts
  <2>2. PICK s \in 1..Len(h) : Follows(h, r.cnt, g, s)
    BY <2>1, Zenon DEF Captured
  <2>3. Follows(a, r.cnt + 1, g, s)
    BY <1>4, <2>2, FollowsOn
  <2>4. s \in 1..Len(a)
    BY <1>2
  <2> HIDE DEF a
  <2>5. \E q \in 1..Len(a) : Follows(a, x.r.cnt, x.got, q)
    <3>1. Follows(a, x.r.cnt, x.got, s)
      BY <2>1, <2>3
    <3> QED BY <2>4, <3>1
  <2>6. Captured(a, x.r, x.got)
    BY <1>3, <2>1, <2>5, Zenon DEF Captured
  <2> QED BY <2>1, <2>6 DEF a
<1>9. EdgeWaits(t, r, g, bit, x) \/ EdgeCaptures(t, r, g, sh, x) \/ EdgeCounts(t, r, g, x)
  BY Zenon DEF EdgeDone
<1> QED BY <1>6, <1>7, <1>8, <1>9, Zenon

\* The k-th stage q of the edges of an advance over the levels bits.
SoFar(t, r, h, g, bits, k, q) ==
  /\ q = [t |-> q.t, r |-> q.r, got |-> q.got]
  /\ RxShape(q.r) /\ q.r.en /\ q.r.next = r.next
  /\ q.got \in Seq(Register) /\ Len(q.got) >= Len(g)
  /\ Captured(h \o SubSeq(bits, 1, k), q.r, q.got)
  /\ ClockHalted(t, q.t) /\ (q.t # t => q.r.eof /\ Len(q.got) > Len(g))

\* One level more of those of an advance.
LEMMA OneLevel ==
  ASSUME NEW S, NEW h \in Seq(S), NEW bits \in Seq(S), NEW k \in Nat, k < Len(bits)
  PROVE  /\ h \o SubSeq(bits, 1, k) \in Seq(S)
         /\ h \o SubSeq(bits, 1, k + 1) = Append(h \o SubSeq(bits, 1, k), bits[k + 1])
<1> DEFINE u == SubSeq(bits, 1, k)  v == SubSeq(bits, 1, k + 1)  b == bits[k + 1]
           p == h \o u  q == h \o v  a == Append(p, b)  n == Len(h)
<1>1. n \in Nat /\ Len(bits) \in Nat /\ k + 1 \in 1..Len(bits) /\ b \in S /\ k + 1 \in Nat
  BY LenProperties, ElementOfSeq
<1>2. /\ u \in Seq(S) /\ Len(u) = k /\ \A i \in 1..k : u[i] = bits[i]
      /\ v \in Seq(S) /\ Len(v) = k + 1 /\ \A i \in 1..k+1 : v[i] = bits[i]
  <2>1. u \in Seq(S) /\ v \in Seq(S)
    <3>1. /\ 1 \in 1..Len(bits)+1 /\ k \in 0..Len(bits) /\ k + 1 \in 0..Len(bits)
          /\ \A i \in 1..k : i \in 1..Len(bits)
          /\ \A i \in 1..k+1 : i \in 1..Len(bits)
      BY <1>1
    <3>2. \A i \in 1..Len(bits) : bits[i] \in S
      BY ElementOfSeq
    <3> QED BY <1>1, <3>1, <3>2, SubSeqProperties
  <2>2. Len(u) = k /\ \A i \in 1..k : u[i] = bits[i]
    BY <1>1, SubSeqProperties
  <2>3. Len(v) = k + 1 /\ \A i \in 1..k+1 : v[i] = bits[i]
    BY <1>1, SubSeqProperties
  <2> QED BY <2>1, <2>2, <2>3
<1> HIDE DEF u, v, b
<1>3. /\ p \in Seq(S) /\ Len(p) = n + k /\ \A i \in 1..n+k : p[i] = IF i <= n THEN h[i] ELSE u[i-n]
  BY <1>2, ConcatProperties
<1>4. /\ q \in Seq(S) /\ Len(q) = n + (k + 1)
      /\ \A i \in 1..n+(k+1) : q[i] = IF i <= n THEN h[i] ELSE v[i-n]
  <2>1. ASSUME NEW m, Len(v) = m
        PROVE  /\ q \in Seq(S) /\ Len(q) = n + m
               /\ \A i \in 1..n+m : q[i] = IF i <= n THEN h[i] ELSE v[i-n]
    BY <1>2, <2>1, ConcatProperties
  <2> QED BY <1>2, <2>1
<1> HIDE DEF p, q
<1>5. a \in Seq(S) /\ Len(a) = n + k + 1 /\ a[n+k+1] = b /\ \A i \in 1..n+k : a[i] = p[i]
  <2>1. ASSUME NEW m, Len(p) = m
        PROVE  a \in Seq(S) /\ Len(a) = m + 1 /\ a[m+1] = b /\ \A i \in 1..m : a[i] = p[i]
    <3>1. p \in Seq(S) /\ b \in S
      BY <1>1, <1>3
    <3>2. /\ a \in Seq(S) /\ Len(a) = Len(p) + 1 /\ a[Len(p)+1] = b
          /\ \A i \in 1..Len(p) : a[i] = p[i]
      BY ONLY <3>1, AppendProperties
    <3> QED BY ONLY <2>1, <3>2
  <2> HIDE DEF a, n
  <2> QED BY <1>3, <2>1
<1> HIDE DEF a, n
<1>6. ASSUME NEW i \in 1..n+(k+1)  PROVE q[i] = a[i]
  <2>1. CASE i <= n
    <3>1. i \in 1..n+k
      BY <1>1, <2>1
    <3> QED BY <1>3, <1>4, <1>5, <2>1, <3>1
  <2>2. CASE ~(i <= n) /\ i # n + k + 1
    <3>1. i \in 1..n+k /\ i - n \in 1..k /\ i - n \in 1..k+1
      BY <1>1, <2>2
    <3>2. q[i] = bits[i-n]
      BY <1>2, <1>4, <2>2, <3>1
    <3>3. a[i] = bits[i-n]
      <4>1. a[i] = p[i] /\ p[i] = u[i-n]
        BY <1>3, <1>5, <2>2, <3>1
      <4> QED BY <1>2, <3>1, <4>1
    <3> QED BY <3>2, <3>3
  <2>3. CASE i = n + k + 1
    <3>1. i - n = k + 1 /\ ~(i <= n) /\ k + 1 \in 1..k+1
      BY <1>1, <2>3
    <3>2. q[i] = bits[k+1]
      BY <1>2, <1>4, <3>1
    <3> QED BY <1>5, <2>3, <3>2 DEF b
  <2> QED BY <1>1, <2>1, <2>2, <2>3
<1>7. Len(q) = Len(a)
  BY <1>1, <1>4, <1>5
<1>8. q = a
  BY <1>4, <1>5, <1>6, <1>7, SeqEqual
<1> QED BY <1>3, <1>8 DEF p, q, u, v, a, b

\* One edge more.
LEMMA OneEdgeOn ==
  ASSUME CfgOK, NEW t, TxShape(t), NEW r, NEW h \in Seq(Bit), NEW g \in Seq(Register),
         NEW bits \in Seq(Bit), NEW k \in Nat, k < Len(bits), NEW q, SoFar(t, r, h, g, bits, k, q),
         NEW x, x = sample_edge(q, bits[k+1])
  PROVE  SoFar(t, r, h, g, bits, k + 1, x)
<1> DEFINE p == h \o SubSeq(bits, 1, k)  b == bits[k+1]  sh == Append(Tail(q.r.shift), b)
<1>1. /\ q = [t |-> q.t, r |-> q.r, got |-> q.got]
      /\ RxShape(q.r) /\ q.r.en /\ q.r.next = r.next
      /\ q.got \in Seq(Register) /\ Len(q.got) >= Len(g)
      /\ Captured(p, q.r, q.got)
      /\ ClockHalted(t, q.t) /\ (q.t # t => q.r.eof /\ Len(q.got) > Len(g))
  BY DEF SoFar
<1>2. b \in Bit
  <2>1. k + 1 \in 1..Len(bits)
    BY LenProperties
  <2> QED BY <2>1, ElementOfSeq
<1>3. p \in Seq(Bit) /\ h \o SubSeq(bits, 1, k + 1) = Append(p, b)
  BY OneLevel
<1> HIDE DEF p, b
<1>4. EdgeDone(q.t, q.r, q.got, sh, b, x)
  <2>1. x = sample_edge(q, b)
    BY DEF b
  <2> QED BY <1>1, <1>2, <2>1, EdgeIsDone
<1>5. Captured(Append(p, b), x.r, x.got) /\ x.got \in Seq(Register)
  BY <1>1, <1>2, <1>3, <1>4, CapturedStep
<1>6. /\ x = [t |-> x.t, r |-> x.r, got |-> x.got]
      /\ RxShape(x.r) /\ x.r.en /\ x.r.next = q.r.next /\ (q.r.eof => x.r.eof)
  BY <1>4, Zenon DEF EdgeDone, EdgeShape
<1>7. \/ x.got = q.got /\ x.t = q.t
      \/ x.got = Append(q.got, sh) /\ (x.t = q.t \/ (StopsClock(q.t) /\ x.t = Halted(q.t) /\ x.r.eof))
  BY <1>4, Zenon DEF EdgeDone, EdgeWaits, EdgeCaptures, EdgeCounts
<1>8. Len(x.got) >= Len(q.got) /\ (x.got # q.got => Len(x.got) > Len(q.got))
      /\ Len(q.got) \in Nat /\ Len(x.got) \in Nat /\ Len(g) \in Nat
  <2>1. Len(q.got) \in Nat /\ Len(g) \in Nat /\ Len(x.got) \in Nat
    BY <1>1, <1>5, LenProperties
  <2>2. x.got = Append(q.got, sh) => Len(x.got) = Len(q.got) + 1
    OBVIOUS
  <2>3. CASE x.got = q.got
    BY <2>1, <2>3
  <2>4. CASE x.got = Append(q.got, sh)
    BY <2>1, <2>2, <2>4
  <2> QED BY <1>7, <2>3, <2>4, Zenon
<1> HIDE DEF sh
<1>9. ClockHalted(t, x.t) /\ (x.t # t => x.r.eof /\ Len(x.got) > Len(g))
  <2>1. CASE x.t = q.t
    <3>1. ClockHalted(t, x.t)
      BY <1>1, <2>1
    <3>2. x.t # t => q.r.eof /\ Len(q.got) > Len(g)
      BY <1>1, <2>1
    <3>3. x.t # t => Len(x.got) > Len(g)
      BY <1>8, <3>2
    <3>4. x.t # t => x.r.eof
      BY <1>6, <3>2, Zenon
    <3> QED BY <3>1, <3>3, <3>4
  <2>2. CASE x.t # q.t
    <3>1. StopsClock(q.t) /\ x.t = Halted(q.t) /\ x.r.eof /\ x.got = Append(q.got, sh)
      BY <1>7, <2>2
    <3>2. q.t = t
      <4>1. q.t.fsm = "CLKRUN"
        BY <3>1 DEF StopsClock
      <4>2. t.fsm = "CLKRUN" => Halted(t).fsm = "IDLE"
        BY HaltedShape
      <4> QED BY <1>1, <4>1, <4>2 DEF ClockHalted
    <3>3. ClockHalted(t, x.t)
      BY <3>1, <3>2 DEF ClockHalted, StopsClock
    <3>4. Len(x.got) = Len(q.got) + 1
      BY <3>1, <1>1, AppendProperties
    <3>5. Len(x.got) > Len(g)
      BY <1>1, <1>8, <3>4
    <3> QED BY <3>1, <3>3, <3>5
  <2> QED BY <2>1, <2>2
<1>10. Len(x.got) >= Len(g)
  BY <1>1, <1>8
<1>11. x.r.next = r.next
  BY <1>1, <1>6
<1>12. Captured(h \o SubSeq(bits, 1, k + 1), x.r, x.got)
  BY <1>3, <1>5
<1> QED BY ONLY <1>5, <1>6, <1>9, <1>10, <1>11, <1>12 DEF SoFar

\* All edges of an advance.
LEMMA EdgesSoFar ==
  ASSUME CfgOK, NEW t, TxShape(t), NEW r, RxShape(r), r.en, NEW h \in Seq(Bit),
         NEW g \in Seq(Register), Captured(h, r, g),
         NEW bits \in Seq(Bit), NEW f, Edged([t |-> t, r |-> r, got |-> g], bits, Len(bits), f)
  PROVE  SoFar(t, r, h, g, bits, Len(bits), f[Len(bits)])
<1> DEFINE n == Len(bits)  P == {k \in Nat : k <= n => SoFar(t, r, h, g, bits, k, f[k])}
           s == [t |-> t, r |-> r, got |-> g]
<1>1. n \in Nat
  BY LenProperties
<1>2. 0 \in P
  <2>1. f[0] = s
    BY DEF Edged
  <2>2. s.t = t /\ s.r = r /\ s.got = g
    OBVIOUS
  <2>3. h \o SubSeq(bits, 1, 0) = h
    <3>1. SubSeq(bits, 1, 0) = << >>
      <4>1. 1 \in 1..Len(bits)+1 /\ 0 \in 0..Len(bits)
        BY <1>1
      <4>2. Len(SubSeq(bits, 1, 0)) = 0
        BY <1>1, <4>1, SubSeqProperties
      <4>3. SubSeq(bits, 1, 0) \in Seq(Bit)
        BY <1>1, <4>1, SubSeqProperties
      <4> QED BY <4>2, <4>3, EmptySeq
    <3> QED BY <3>1, ConcatEmptySeq
  <2>4. ClockHalted(t, t)
    BY DEF ClockHalted
  <2>5. Len(g) \in Nat
    BY LenProperties
  <2> HIDE DEF s
  <2>6. SoFar(t, r, h, g, bits, 0, s)
    <3>1. s = [t |-> s.t, r |-> s.r, got |-> s.got]
      BY DEF s
    <3>2. RxShape(s.r) /\ s.r.en /\ s.r.next = r.next /\ s.got \in Seq(Register)
          /\ Captured(h \o SubSeq(bits, 1, 0), s.r, s.got)
      BY <2>2, <2>3
    <3>3. Len(s.got) >= Len(g) /\ ClockHalted(t, s.t) /\ ~(s.t # t)
      BY <2>2, <2>4, <2>5
    <3> QED BY ONLY <3>1, <3>2, <3>3 DEF SoFar
  <2>7. SoFar(t, r, h, g, bits, 0, f[0])
    BY <2>1, <2>6
  <2> QED BY <2>7
<1>3. ASSUME NEW k \in P  PROVE k + 1 \in P
  <2>1. CASE k + 1 <= n
    <3>1. k < n /\ SoFar(t, r, h, g, bits, k, f[k]) /\ k \in Nat
      BY <1>1, <2>1
    <3>2. f[k+1] = sample_edge(f[k], bits[k+1])
      <4>1. k + 1 \in 1..n /\ (k + 1) - 1 = k
        BY <1>1, <2>1, <3>1
      <4> QED BY <4>1 DEF Edged
    <3>3. SoFar(t, r, h, g, bits, k + 1, f[k+1])
      BY <3>1, <3>2, OneEdgeOn
    <3> QED BY <3>1, <3>3
  <2>2. CASE ~(k + 1 <= n)
    BY <2>2
  <2> QED BY <2>1, <2>2
<1>4. P = Nat
  <2> HIDE DEF P
  <2>1. P \in SUBSET Nat
    BY DEF P
  <2> QED BY <1>2, <1>3, <2>1, SetInduction
<1>5. n \in P
  BY <1>1, <1>4
<1> QED BY <1>1, <1>5

\* What a receiver r has made of the levels h in the time a since it was armed.
RxLine(r, h, g, a) ==
  /\ RxShape(r) /\ h \in Seq(Bit) /\ g \in Seq(Register) /\ a \in Nat
  /\ ~r.en => h = << >> /\ g = << >> /\ a = 0
  /\ r.en => Captured(h, r, g) /\ a + FirstEdge(r) = (Len(h) + 1) * RxPeriod

\* r and x have captured the same.
SameLine(r, x) ==
  /\ RxShape(x) /\ x.en = r.en /\ x.shift = r.shift /\ x.started = r.started /\ x.cnt = r.cnt
  /\ x.next = r.next

\* What has captured the same is as true of the line.
LEMMA LineKept ==
  ASSUME NEW r, NEW x, SameLine(r, x), NEW h, NEW g, NEW a, RxLine(r, h, g, a)
  PROVE  RxLine(x, h, g, a)
<1>1. RxShape(x) /\ x.en = r.en /\ x.shift = r.shift /\ x.started = r.started /\ x.cnt = r.cnt
      /\ x.next = r.next
  BY DEF SameLine
<1>2. /\ h \in Seq(Bit) /\ g \in Seq(Register) /\ a \in Nat
      /\ ~r.en => h = << >> /\ g = << >> /\ a = 0
      /\ r.en => Captured(h, r, g) /\ a + FirstEdge(r) = (Len(h) + 1) * RxPeriod
  BY DEF RxLine
<1>3. FirstEdge(x) = FirstEdge(r)
  BY <1>1 DEF FirstEdge
<1>4. Captured(h, r, g) => Captured(h, x, g)
  BY <1>1 DEF Captured
<1> QED BY <1>1, <1>2, <1>3, <1>4 DEF RxLine

\* The receiver before any edge.
LEMMA Silence ==
  /\ InitRx \in RxRecord /\ RxShape(InitRx) /\ ~InitRx.en
  /\ InitRx.shift = HeldBy(<< >>, 0)
<1>1. ShiftLength \in Nat \ {0} /\ RxPeriod \in Nat \ {0} /\ SampleSize \in Nat /\ Depth \in Nat \ {0}
  BY SizeAssumption, ClockAssumption, SampleAssumption
<1> DEFINE z == [i \in 1..ShiftLength |-> 0]
<1>2. z \in Register /\ z = HeldBy(<< >>, 0)
  <2>1. z \in Register
    BY DEF Register, Bit
  <2>2. ASSUME NEW i \in 1..ShiftLength  PROVE ~(0 - ShiftLength + i > 0)
    BY <1>1
  <2>3. z = HeldBy(<< >>, 0)
    BY <2>2 DEF HeldBy
  <2> QED BY <2>1, <2>3
<1> HIDE DEF z
<1>3. InitRx = [en |-> FALSE, fifo |-> << >>, valid |-> FALSE, ovf |-> FALSE, eof |-> FALSE,
                shift |-> z, started |-> FALSE, cnt |-> 0, count |-> 0, next |-> 0, due |-> 0]
  BY DEF InitRx, z
<1>4. InitRx \in RxRecord
  BY <1>2, <1>3 DEF RxRecord
<1>5. RxShape(InitRx) /\ ~InitRx.en
  <2>1. /\ ~InitRx.en /\ ~InitRx.valid /\ InitRx.fifo = << >> /\ InitRx.cnt = 0 /\ InitRx.next = 0
        /\ InitRx.due = 0
    BY <1>3
  <2> QED BY <1>1, <1>4, <2>1 DEF RxShape
<1>6. InitRx.shift = z
  BY <1>3
<1> QED BY <1>2, <1>4, <1>5, <1>6

\* A receiver just armed has heard nothing.
LEMMA SilentLine ==
  ASSUME NEW r, RxShape(r), r.en, r.shift = InitRx.shift, r.started = FALSE, r.next = 0
  PROVE  RxLine(r, << >>, << >>, 0)
<1>1. r.shift = HeldBy(<< >>, Len(<< >>))
  BY Silence
<1>2. Captured(<< >>, r, << >>)
  <2>1. ~r.started /\ \A n \in 1..Len(<< >>) : << >>[n] # StartBit
    OBVIOUS
  <2> QED BY <1>1, <2>1, Zenon DEF Captured
<1>3. 0 + FirstEdge(r) = (Len(<< >>) + 1) * RxPeriod
  <2>1. (0 + 1) * RxPeriod = RxPeriod
    BY ClockAssumption
  <2>2. FirstEdge(r) = RxPeriod
    BY DEF FirstEdge
  <2> QED BY ClockAssumption, <2>1, <2>2
<1>4. << >> \in Seq(Bit) /\ << >> \in Seq(Register) /\ 0 \in Nat
  OBVIOUS
<1> QED BY <1>2, <1>3, <1>4 DEF RxLine

\* Arming: what is in the FIFO stays, all else begins anew.
LEMMA ArmedLine ==
  ASSUME NEW r, RxShape(r), ~r.en, NEW x, x = arm_rx(r, TRUE)
  PROVE  RxShape(x) /\ x.en /\ RxLine(x, << >>, << >>, 0)
<1>1. /\ r \in RxRecord /\ InitRx \in RxRecord /\ r.fifo \in Seq(Register) /\ r.valid \in BOOLEAN
      /\ r.ovf \in BOOLEAN
  BY Silence DEF RxShape, RxRecord
<1>e. PICK e \in BOOLEAN : e = TRUE
  OBVIOUS
<1>2. x = [InitRx EXCEPT !.en = e, !.fifo = r.fifo, !.valid = r.valid, !.ovf = r.ovf]
  BY <1>e, Zenon DEF arm_rx
<1>3. ASSUME NEW f, f = r.fifo, NEW v, v = r.valid, NEW o, o = r.ovf, NEW i, i = InitRx
      PROVE  /\ x \in RxRecord /\ x.en = e /\ x.fifo = f /\ x.valid = v
             /\ x.shift = i.shift /\ x.started = i.started /\ x.next = i.next
             /\ x.cnt = i.cnt /\ x.due = i.due
  <2>1. /\ i \in RxRecord /\ f \in Seq(Register) /\ v \in BOOLEAN /\ o \in BOOLEAN /\ e \in BOOLEAN
        /\ x = [i EXCEPT !.en = e, !.fifo = f, !.valid = v, !.ovf = o]
    BY <1>1, <1>2, <1>3
  <2> QED BY ONLY <2>1 DEF RxRecord
<1>4. /\ x \in RxRecord /\ x.en = e /\ x.fifo = r.fifo /\ x.valid = r.valid
      /\ x.shift = InitRx.shift /\ x.started = InitRx.started /\ x.next = InitRx.next
      /\ x.cnt = InitRx.cnt /\ x.due = InitRx.due
  BY <1>3
<1>5. InitRx.started = FALSE /\ InitRx.next = 0 /\ InitRx.cnt = 0 /\ InitRx.due = 0
  BY DEF InitRx
<1>6. RxShape(x) /\ x.en
  <2>1. x.en
    BY <1>e, <1>4, Zenon
  <2>2. x.valid <=> x.fifo # << >>
    <3>1. r.valid <=> r.fifo # << >>
      BY DEF RxShape
    <3> QED BY <1>4, <3>1, Zenon
  <2>3. Len(x.fifo) <= Depth /\ x.cnt = 0 /\ x.next = 0 /\ x.due = 0
    BY <1>4, <1>5 DEF RxShape
  <2>4. x.cnt <= SampleSize /\ x.next \in 0..RxPeriod /\ x.due >= 0 /\ x.due = 0
    <3>1. 0 <= SampleSize /\ 0 \in 0..RxPeriod
      BY SampleAssumption, ClockAssumption
    <3> QED BY ONLY <2>3, <3>1
  <2> QED BY <1>4, <2>1, <2>2, <2>3, <2>4, Zenon DEF RxShape
<1> QED BY <1>4, <1>5, <1>6, SilentLine

\* Arming and disarming begin a new line, all else keeps the old one.
LEMMA SwitchedLine ==
  ASSUME NEW r, NEW h, NEW g, NEW a, RxLine(r, h, g, a), NEW e \in BOOLEAN, NEW x, x = arm_rx(r, e)
  PROVE  IF x.en = r.en THEN RxLine(x, h, g, a) ELSE RxLine(x, << >>, << >>, 0)
<1>1. RxShape(r)
  BY DEF RxLine
<1>2. RxLine(InitRx, << >>, << >>, 0)
  <2>1. << >> \in Seq(Bit) /\ << >> \in Seq(Register) /\ 0 \in Nat
    OBVIOUS
  <2> QED BY <2>1, Silence DEF RxLine
<1>3. CASE ~e
  <2>1. x = InitRx /\ ~x.en
    BY <1>3, Silence DEF arm_rx
  <2>2. ~r.en => RxLine(x, h, g, a)
    BY <1>2, <2>1 DEF RxLine
  <2>3. x.en = r.en => ~r.en
    BY <2>1
  <2> QED BY <1>2, <2>1, <2>2, <2>3
<1>4. CASE e /\ r.en
  BY <1>4 DEF arm_rx
<1>5. CASE e /\ ~r.en
  <2>1. x = arm_rx(r, TRUE)
    BY <1>5
  <2>2. RxShape(x) /\ x.en /\ RxLine(x, << >>, << >>, 0)
    BY <1>1, <1>5, <2>1, ArmedLine
  <2> QED BY <1>5, <2>2
<1> QED BY <1>3, <1>4, <1>5

\* Time arms the receiver where a deadline passes.
LEMMA AutoArmLine ==
  ASSUME CfgOK, NEW r, NEW h, NEW g, NEW a, RxLine(r, h, g, a),
         NEW before, NEW t, t.phase \in Int, NEW d \in Nat, NEW x, x = AutoArm(r, before, t, d)
  PROVE  RxLine(x, h, g, a) /\ (r.en => x = r)
<1> DEFINE ended == before.busy /\ ~t.busy /\ cfg.arm > 0 /\ ~r.en
           due == IF ended THEN cfg.arm - t.phase ELSE r.due - d
           set == ended \/ r.due > 0
<1>1. RxShape(r) /\ r \in RxRecord /\ r.due \in Int /\ r.due >= 0 /\ (r.en => r.due = 0)
  BY DEF RxLine, RxShape, RxRecord
<1>2. x = IF ~set THEN r ELSE IF due <= 0 THEN arm_rx(r, TRUE) ELSE [r EXCEPT !.due = due]
  BY DEF AutoArm
<1>3. due \in Int
  BY <1>1 DEF CfgOK
<1>4. r.en => ~set
  BY <1>1
<1> HIDE DEF due, set
<1>5. CASE ~set
  BY <1>2, <1>5
<1>6. CASE set /\ due <= 0
  <2>1. ~r.en /\ x = arm_rx(r, TRUE)
    BY <1>2, <1>4, <1>6
  <2>2. RxLine(x, << >>, << >>, 0)
    BY <1>1, <2>1, ArmedLine
  <2>3. h = << >> /\ g = << >> /\ a = 0
    BY <2>1 DEF RxLine
  <2> QED BY <2>1, <2>2, <2>3
<1>7. CASE set /\ ~(due <= 0)
  <2>1. ~r.en /\ x = [r EXCEPT !.due = due]
    BY <1>2, <1>4, <1>7
  <2>2. /\ x \in RxRecord /\ x.due = due /\ x.en = r.en /\ x.fifo = r.fifo /\ x.valid = r.valid
        /\ x.cnt = r.cnt /\ x.next = r.next /\ x.shift = r.shift /\ x.started = r.started
    BY ONLY <1>1, <1>3, <2>1 DEF RxRecord
  <2>3. RxShape(x)
    BY <1>1, <1>3, <1>7, <2>1, <2>2 DEF RxShape
  <2>4. SameLine(r, x)
    BY <2>2, <2>3 DEF SameLine
  <2> QED BY <2>1, <2>4, LineKept
<1> QED BY <1>5, <1>6, <1>7

\* Reading a byte or clearing the overflow leaves the line alone.
LEMMA ReadLine ==
  ASSUME NEW r, NEW h, NEW g, NEW a, RxLine(r, h, g, a)
  PROVE  RxLine(clr_val(r), h, g, a) /\ RxLine(clr_ovf(r), h, g, a)
<1>1. /\ RxShape(r) /\ r \in RxRecord /\ r.fifo \in Seq(Register) /\ Len(r.fifo) <= Depth
      /\ Len(r.fifo) \in Nat /\ Depth \in Nat
  BY LenProperties, SizeAssumption DEF RxLine, RxShape, RxRecord
<1> DEFINE f == IF r.fifo = << >> THEN r.fifo ELSE Tail(r.fifo)
<1>2. f \in Seq(Register) /\ Len(f) <= Depth
  <2>1. r.fifo # << >> => Tail(r.fifo) \in Seq(Register) /\ Len(Tail(r.fifo)) = Len(r.fifo) - 1
    BY <1>1, HeadTailProperties
  <2> QED BY <1>1, <2>1
<1>3. clr_val(r) = [r EXCEPT !.fifo = f, !.valid = f # << >>]
  BY Zenon DEF clr_val
<1> HIDE DEF f
<1>4. ASSUME NEW v \in BOOLEAN, v <=> f # << >>, NEW x, x = [r EXCEPT !.fifo = f, !.valid = v]
      PROVE  SameLine(r, x)
  <2>1. /\ x \in RxRecord /\ x.due = r.due /\ x.en = r.en /\ x.fifo = f /\ x.valid = v
        /\ x.cnt = r.cnt /\ x.next = r.next /\ x.shift = r.shift /\ x.started = r.started
    BY ONLY <1>1, <1>2, v \in BOOLEAN, x = [r EXCEPT !.fifo = f, !.valid = v] DEF RxRecord
  <2>2. x.valid <=> x.fifo # << >>
    BY <1>4, <2>1, Zenon
  <2>3. RxShape(x)
    BY <1>1, <1>2, <2>1, <2>2 DEF RxShape
  <2> QED BY <2>1, <2>3 DEF SameLine
<1>5. SameLine(r, clr_val(r))
  <2> DEFINE v == f # << >>
  <2>1. v \in BOOLEAN /\ (v <=> f # << >>) /\ clr_val(r) = [r EXCEPT !.fifo = f, !.valid = v]
    BY <1>3
  <2> HIDE DEF v
  <2> QED BY <1>4, <2>1
<1>6. SameLine(r, clr_ovf(r))
  <2>1. ASSUME NEW o \in BOOLEAN, NEW x, x = [r EXCEPT !.ovf = o]
        PROVE  SameLine(r, x)
    <3>1. /\ x \in RxRecord /\ x.due = r.due /\ x.en = r.en /\ x.fifo = r.fifo /\ x.valid = r.valid
          /\ x.cnt = r.cnt /\ x.next = r.next /\ x.shift = r.shift /\ x.started = r.started
      BY ONLY <1>1, <2>1 DEF RxRecord
    <3>2. RxShape(x)
      BY <1>1, <3>1 DEF RxShape
    <3> QED BY <3>1, <3>2 DEF SameLine
  <2>2. clr_ovf(r) = [r EXCEPT !.ovf = FALSE] /\ FALSE \in BOOLEAN
    BY DEF clr_ovf
  <2> QED BY <2>1, <2>2, Zenon
<1> QED BY <1>5, <1>6, LineKept

\* The grid of the RX clock: the next edge is within a period, whatever the time.
OnGrid(P, f, d, n, a, l) ==
  /\ P \in Nat \ {0} /\ f \in 1..P /\ d \in Nat /\ a \in Nat /\ l \in Nat
  /\ n = IF d < f THEN 0 ELSE (d - f) \div P + 1
  /\ a + f = (l + 1) * P

\* The number of edges in a time, and the time of the next, are those of the grid.
LEMMA NextEdge ==
  ASSUME NEW P, NEW f, NEW d, NEW n, NEW a, NEW l, OnGrid(P, f, d, n, a, l)
  PROVE  /\ n \in Nat /\ f + n * P - d \in 1..P
         /\ (a + d) + (f + n * P - d) = ((l + n) + 1) * P
<1>0. /\ P \in Nat \ {0} /\ f \in 1..P /\ d \in Nat /\ a \in Nat /\ l \in Nat
      /\ n = IF d < f THEN 0 ELSE (d - f) \div P + 1
      /\ a + f = (l + 1) * P
  BY DEF OnGrid
<1> USE <1>0
<1>1. n \in Nat /\ f + n * P - d \in 1..P
  <2>1. CASE d < f
    <3>1. n = 0 /\ 0 * P = 0
      BY <2>1
    <3> QED BY <2>1, <3>1
  <2>2. CASE ~(d < f)
    <3> DEFINE e == d - f  q == e \div P  r == e % P  w == q * P
    <3>1. e \in Nat
      BY <2>2
    <3>2. q \in Nat /\ r \in 0..P-1 /\ e = q * P + r
      <4> HIDE DEF e
      <4> QED BY <3>1, DivModParts
    <3>3. n = q + 1
      BY <2>2
    <3> HIDE DEF q, r
    <3>4. w \in Nat /\ (q + 1) * P = w + P
      BY <3>2
    <3>5. d - f = w + r
      BY <3>2
    <3> HIDE DEF w
    <3>6. f + (w + P) - d \in 1..P
      BY <3>1, <3>2, <3>4, <3>5
    <3>7. n * P = w + P
      BY <3>3, <3>4
    <3> QED BY <3>2, <3>3, <3>6, <3>7
  <2> QED BY <2>1, <2>2
<1>2. ((l + n) + 1) * P = (l + 1) * P + n * P /\ n * P \in Nat /\ (l + 1) * P \in Nat
  <2>1. ASSUME NEW u \in Nat, NEW v \in Nat, NEW w \in Nat
        PROVE  ((u + v) + 1) * w = (u + 1) * w + v * w /\ v * w \in Nat /\ (u + 1) * w \in Nat
    OBVIOUS
  <2> QED BY <1>1, <2>1
<1> DEFINE x == (l + 1) * P  y == n * P  z == ((l + n) + 1) * P
<1>3. x \in Nat /\ y \in Nat /\ z = x + y /\ a + f = x
  BY <1>2
<1> HIDE DEF x, y, z
<1>4. (a + d) + (f + y - d) = z
  BY <1>3
<1> QED BY <1>1, <1>4 DEF y, z

\* The levels of an advance are as many as its edges.
LEMMA LevelsTyped ==
  ASSUME NEW n \in Nat, NEW bits \in [1..n -> Levels]
  PROVE  bits \in Seq(Bit) /\ Len(bits) = n
<1>1. bits \in [1..n -> Bit]
  BY SampleAssumption
<1> QED BY <1>1

\* What an advance by d makes of a receiver, with its clock t.
LEMMA SampledLine ==
  ASSUME CfgOK, NEW t, TxShape(t), NEW r, NEW h, NEW g, NEW a, RxLine(r, h, g, a),
         NEW d \in Nat, NEW bits \in [1..Edges(r, d) -> Levels],
         NEW s, s = Sampled([t |-> t, r |-> r, got |-> g], d, bits)
  PROVE  /\ RxLine(s.r, h \o bits, s.got, IF s.r.en THEN a + d ELSE 0)
         /\ ClockHalted(t, s.t) /\ (s.t # t => s.r.eof /\ Len(s.got) > Len(g))
<1> DEFINE o == [t |-> t, r |-> r, got |-> g]  n == Edges(r, d)  p == FirstEdge(r) + n * RxPeriod - d
<1>1. /\ RxShape(r) /\ h \in Seq(Bit) /\ g \in Seq(Register) /\ a \in Nat /\ Len(h) \in Nat
      /\ ~r.en => h = << >> /\ g = << >> /\ a = 0
      /\ r.en => Captured(h, r, g) /\ a + FirstEdge(r) = (Len(h) + 1) * RxPeriod
  BY LenProperties DEF RxLine
<1>2. o.t = t /\ o.r = r /\ o.got = g
  OBVIOUS
<1>3. RxPeriod \in Nat \ {0} /\ FirstEdge(r) \in 1..RxPeriod
  BY <1>1, ClockAssumption DEF RxShape, FirstEdge
<1>4. CASE ~r.en
  <2>1. n = 0
    BY <1>4 DEF Edges
  <2>2. bits \in Seq(Bit) /\ Len(bits) = 0
    BY <2>1, LevelsTyped
  <2>3. bits = << >>
    BY <2>2, EmptySeq
  <2>4. h \o bits = h
    BY <1>1, <2>3, ConcatEmptySeq
  <2>5. s = o
    BY <1>2, <1>4, Zenon DEF Sampled
  <2>6. ClockHalted(t, t)
    BY DEF ClockHalted
  <2> HIDE DEF o
  <2>7. RxLine(s.r, h \o bits, s.got, 0)
    BY <1>1, <1>2, <1>4, <2>4, <2>5
  <2> QED BY <1>2, <1>4, <2>5, <2>6, <2>7
<1>5. CASE r.en
  <2>0. n = IF d < FirstEdge(r) THEN 0 ELSE (d - FirstEdge(r)) \div RxPeriod + 1
    BY <1>5 DEF Edges
  <2>1. /\ n \in Nat /\ p \in 1..RxPeriod
        /\ (a + d) + p = ((Len(h) + n) + 1) * RxPeriod
    <3> DEFINE f == FirstEdge(r)
    <3>1. f \in 1..RxPeriod /\ a + f = (Len(h) + 1) * RxPeriod
          /\ n = IF d < f THEN 0 ELSE (d - f) \div RxPeriod + 1
      BY <1>1, <1>3, <1>5, <2>0
    <3> HIDE DEF f, n
    <3>2. /\ n \in Nat /\ f + n * RxPeriod - d \in 1..RxPeriod
          /\ (a + d) + (f + n * RxPeriod - d) = ((Len(h) + n) + 1) * RxPeriod
      <4>1. ASSUME NEW l, l = Len(h), NEW P, P = RxPeriod, NEW m, m = n
            PROVE  /\ m \in Nat /\ f + m * P - d \in 1..P
                   /\ (a + d) + (f + m * P - d) = ((l + m) + 1) * P
        <5>1. OnGrid(P, f, d, m, a, l)
          BY <1>1, <1>3, <3>1, <4>1 DEF OnGrid
        <5> QED BY ONLY <5>1, NextEdge
      <4> QED BY <4>1
    <3> QED BY <3>2 DEF f
  <2>2. bits \in Seq(Bit) /\ Len(bits) = n
    BY <2>1, LevelsTyped
  <2>3. PICK f : Edged(o, bits, n, f) /\ s = [f[n] EXCEPT !.r.next = p]
    <3>1. Edges(o.r, d) = n /\ FirstEdge(o.r) = FirstEdge(r) /\ o.r.en
      BY <1>2, <1>5
    <3> HIDE DEF o
    <3>2. n \in Nat
      BY <2>1
    <3>3. \E f : /\ Edged(o, bits, Edges(o.r, d), f)
                 /\ Sampled(o, d, bits) =
                      IF o.r.en
                      THEN [f[Edges(o.r, d)] EXCEPT !.r.next = FirstEdge(o.r) + Edges(o.r, d) * RxPeriod - d]
                      ELSE o
      <4>1. Edges(o.r, d) \in Nat
        BY <3>1, <3>2
      <4> QED BY <4>1, EdgesExist
    <3>4. s = Sampled(o, d, bits)
      BY DEF o
    <3> HIDE DEF n
    <3> QED BY <3>1, <3>3, <3>4, Zenon DEF p
  <2> DEFINE q == f[n]
  <2>4. SoFar(t, r, h, g, bits, n, q)
    <3>1. Edged(o, bits, Len(bits), f)
      BY <2>2, <2>3
    <3>2. Captured(h, r, g)
      BY <1>1, <1>5
    <3> HIDE DEF n
    <3> QED BY <1>1, <1>5, <2>2, <3>1, <3>2, EdgesSoFar
  <2> HIDE DEF q, n, p
  <2>5. /\ q = [t |-> q.t, r |-> q.r, got |-> q.got]
        /\ RxShape(q.r) /\ q.r.en /\ q.r.next = r.next
        /\ q.got \in Seq(Register) /\ Len(q.got) >= Len(g)
        /\ Captured(h \o SubSeq(bits, 1, n), q.r, q.got)
        /\ ClockHalted(t, q.t) /\ (q.t # t => q.r.eof /\ Len(q.got) > Len(g))
    BY <2>4 DEF SoFar
  <2>6. SubSeq(bits, 1, n) = bits
    <3>1. SubSeq(bits, 1, Len(bits)) = bits
      BY <2>2, SubSeqProperties
    <3> QED BY <2>2, <3>1
  <2> DEFINE y == [q.r EXCEPT !.next = p]
  <2>7. s = [t |-> q.t, r |-> y, got |-> q.got]
    <3>1. s = [q EXCEPT !.r.next = p]
      BY <2>3 DEF q
    <3>2. ASSUME NEW u, NEW v, NEW w, q = [t |-> u, r |-> v, got |-> w]
          PROVE  [q EXCEPT !.r.next = p] = [t |-> u, r |-> [v EXCEPT !.next = p], got |-> w]
      BY <3>2
    <3> QED BY <2>5, <3>1, <3>2
  <2>8. /\ y \in RxRecord /\ y.next = p /\ y.en = q.r.en /\ y.fifo = q.r.fifo /\ y.valid = q.r.valid
        /\ y.cnt = q.r.cnt /\ y.due = q.r.due /\ y.shift = q.r.shift /\ y.started = q.r.started
        /\ y.eof = q.r.eof
    <3>1. ASSUME NEW v, v = q.r, NEW z, z = [v EXCEPT !.next = p]
          PROVE  /\ z \in RxRecord /\ z.next = p /\ z.en = v.en /\ z.fifo = v.fifo /\ z.valid = v.valid
                 /\ z.cnt = v.cnt /\ z.due = v.due /\ z.shift = v.shift /\ z.started = v.started
                 /\ z.eof = v.eof
      <4>1. v \in RxRecord /\ p \in Int
        BY <2>1, <2>5, <3>1 DEF RxShape
      <4> QED BY ONLY <3>1, <4>1 DEF RxRecord
    <3> QED BY <3>1
  <2> HIDE DEF y
  <2>9. s.t = q.t /\ s.r = y /\ s.got = q.got
    BY <2>7
  <2>10. RxShape(y)
    <3>1. p \in 0..RxPeriod
      BY <1>3, <2>1
    <3> QED BY <2>5, <2>8, <3>1 DEF RxShape
  <2>11. Captured(h \o bits, y, q.got)
    BY <2>5, <2>6, <2>8 DEF Captured
  <2>12. h \o bits \in Seq(Bit) /\ Len(h \o bits) = Len(h) + n
    BY <1>1, <2>2, ConcatProperties
  <2>13. y.en /\ FirstEdge(y) = p
    <3>1. p # 0
      BY <2>1
    <3> QED BY <2>5, <2>8, <3>1 DEF FirstEdge
  <2>14. (a + d) + FirstEdge(y) = (Len(h \o bits) + 1) * RxPeriod /\ a + d \in Nat
    BY <1>1, <2>1, <2>12, <2>13
  <2>15. RxLine(y, h \o bits, q.got, a + d)
    BY ONLY <2>5, <2>10, <2>11, <2>12, <2>13, <2>14 DEF RxLine
  <2>16. s.t # t => s.r.eof /\ Len(s.got) > Len(g)
    <3>1. q.t # t => y.eof
      BY <2>5, <2>8, Zenon
    <3> QED BY <2>5, <2>9, <3>1
  <2> QED BY <2>5, <2>9, <2>13, <2>15, <2>16
<1> QED BY <1>4, <1>5

\* What a transmitter t has put on the line of what it owes, and how long it has.
TxLine(t, due, put, time) == TxShape(t) /\ Timed(t) /\ OnLine(t, due, put, time)

\* t and x stand at the same place.
SamePlace(t, x) ==
  /\ TxShape(x) /\ x.fsm = t.fsm /\ x.busy = t.busy /\ x.frame = t.frame /\ x.index = t.index
  /\ x.phase = t.phase /\ x.odd = t.odd

\* What is to come depends on the frame, the position and the FIFO alone.
LEMMA SameComing ==
  ASSUME NEW t, NEW x, x.fsm = t.fsm, x.frame = t.frame, x.index = t.index, x.fifo = t.fifo
  PROVE  Coming(x) = Coming(t)
<1>1. Left(x) = Left(t)
  BY DEF Left
<1>2. Queued(x) = Queued(t)
  BY DEF Queued
<1> QED BY <1>1, <1>2 DEF Coming

\* At the same place, with what is owed put right, the line is as it was.
LEMMA PlaceKept ==
  ASSUME NEW t, NEW x, SamePlace(t, x), NEW due, NEW put, NEW time, TxLine(t, due, put, time),
         NEW more, more \in Seq(Bit), ~t.busy => more = due, t.busy => more = put \o Coming(x)
  PROVE  TxLine(x, more, put, time)
<1>1. /\ TxShape(x) /\ x.fsm = t.fsm /\ x.busy = t.busy /\ x.frame = t.frame /\ x.index = t.index
      /\ x.phase = t.phase /\ x.odd = t.odd
  BY DEF SamePlace
<1>2. Timed(x)
  BY <1>1 DEF TxLine, Timed
<1>3. Late(x) = Late(t)
  BY <1>1 DEF Late
<1>4. /\ put \in Seq(Bit) /\ time \in Nat
      /\ ~t.busy => put = due
      /\ t.fsm \in {"WIRE", "TST"} => put = << >>
      /\ t.fsm = "TRANSMIT" => Len(put) # 0 /\ time = 2 * Half * (Len(put) - 1) + Late(t)
  BY DEF TxLine, OnLine
<1>5. OnLine(x, more, put, time)
  BY <1>1, <1>3, <1>4 DEF OnLine
<1> QED BY <1>1, <1>2, <1>5 DEF TxLine

\* A byte that the FIFO takes lies behind what is left of the transmission.
OneBehind(t, byte, x, due, put) ==
  /\ CfgOK /\ TxShape(t) /\ byte \in Bytes /\ SamePlace(t, x)
  /\ x.fifo = Append(t.fifo, byte) /\ Continuous
  /\ put \in Seq(Bit) /\ due = put \o Coming(t)

\* It is owed as well.
LEMMA QueuedMore ==
  ASSUME NEW t, NEW byte, NEW x, NEW due, NEW put, OneBehind(t, byte, x, due, put)
  PROVE  due \o Swapped(byte) \in Seq(Bit) /\ due \o Swapped(byte) = put \o Coming(x)
<1> DEFINE o == Swapped(byte)  l == Left(t)  b == Queued(t)  c == Coming(t)
           v == Queued(x)  w == Coming(x)  z == due \o o
<1>0. /\ CfgOK /\ TxShape(t) /\ byte \in Bytes /\ SamePlace(t, x)
      /\ x.fifo = Append(t.fifo, byte) /\ Continuous
      /\ put \in Seq(Bit) /\ due = put \o Coming(t)
  BY DEF OneBehind
<1> USE <1>0
<1>1. o \in Seq(Bit) /\ t.fifo \in Seq(Bytes)
  BY OrderedTyped, InUse DEF CfgOK, TxShape, TxRecord
<1>2. l \in Seq(Bit) /\ b \in Seq(Bit) /\ c \in Seq(Bit) /\ c = l \o b
  BY LeftTyped, QueuedTyped, ComingTyped DEF Coming
<1>3. v = b \o o
  <2>1. v = Row(cfg.swap, Append(t.fifo, byte)) /\ b = Row(cfg.swap, t.fifo)
    BY DEF Queued
  <2>2. Row(cfg.swap, Append(t.fifo, byte)) = Row(cfg.swap, t.fifo) \o Ordered(cfg.swap, byte)
    BY <1>1, RowAppend DEF CfgOK
  <2> QED BY <2>1, <2>2, InUse
<1>4. w = l \o v
  BY DEF Coming, Left, SamePlace
<1> HIDE DEF o, l, b, c, v, w
<1>5. w = c \o o
  <2>1. InARow(Bit, l, b, o, v, c, w)
    BY <1>1, <1>2, <1>3, <1>4 DEF InARow
  <2> QED BY ONLY <2>1, Associative
<1>6. due = put \o c
  BY DEF c
<1>7. z = put \o w
  <2>1. ASSUME NEW p, p = put \o w, NEW y, y = due  PROVE p = y \o o
    <3>1. InARow(Bit, put, c, o, w, y, p)
      BY <1>1, <1>2, <1>5, <1>6, <2>1 DEF InARow
    <3> QED BY ONLY <3>1, Associative
  <2> QED BY <2>1
<1>8. z \in Seq(Bit)
  <2>1. due \in Seq(Bit)
    BY <1>2, <1>6, ConcatProperties
  <2> QED BY <1>1, <2>1, ConcatProperties
<1> QED BY <1>7, <1>8 DEF o, w

\* push_tx adds to what is owed just when the byte gets into a running transmission.
LEMMA PushedLine ==
  ASSUME CfgOK, NEW t, NEW due, NEW put, NEW time, TxLine(t, due, put, time),
         NEW byte \in Bytes, NEW x, x = push_tx(t, byte)
  PROVE  TxLine(x, IF t.busy /\ Continuous /\ x.fifo # t.fifo THEN due \o Swapped(byte) ELSE due,
                put, time)
<1>1. /\ TxShape(t) /\ t \in TxRecord /\ t.fifo \in Seq(Bytes) /\ Len(t.fifo) <= Depth
      /\ Len(t.fifo) \in Nat /\ Depth \in Nat
  BY LenProperties, SizeAssumption DEF TxLine, TxShape, TxRecord
<1>2. /\ due \in Seq(Bit) /\ put \in Seq(Bit)
      /\ t.busy => due = put \o Coming(t)
  BY DEF TxLine, OnLine
<1>3. CASE HasRoom(t)
  <2> DEFINE f == Append(t.fifo, byte)
  <2>1. x = [t EXCEPT !.fifo = f] /\ Len(t.fifo) < Depth
    BY <1>3 DEF push_tx, HasRoom
  <2>2. f \in Seq(Bytes) /\ Len(f) = Len(t.fifo) + 1
    BY <1>1, AppendProperties
  <2>3. f # t.fifo
    BY <1>1, <2>2
  <2> HIDE DEF f
  <2>4. /\ x \in TxRecord /\ x.fifo = f /\ x.fsm = t.fsm /\ x.busy = t.busy /\ x.frame = t.frame
        /\ x.index = t.index /\ x.phase = t.phase /\ x.odd = t.odd /\ x.out_en = t.out_en
    BY ONLY <1>1, <2>1, <2>2 DEF TxRecord
  <2>5. TxShape(x)
    <3>1. Len(x.fifo) <= Depth
      BY <1>1, <2>1, <2>2, <2>4
    <3> QED BY <1>1, <2>4, <3>1 DEF TxShape
  <2>6. SamePlace(t, x)
    BY <2>4, <2>5 DEF SamePlace
  <2>7. CASE t.busy /\ Continuous
    <3>1. due \o Swapped(byte) \in Seq(Bit) /\ due \o Swapped(byte) = put \o Coming(x)
      <4>1. OneBehind(t, byte, x, due, put)
        BY <1>1, <1>2, <2>4, <2>6, <2>7 DEF f, OneBehind
      <4> QED BY ONLY <4>1, QueuedMore
    <3>2. TxLine(x, due \o Swapped(byte), put, time)
      BY <2>6, <2>7, <3>1, PlaceKept
    <3> QED BY <2>3, <2>4, <2>7, <3>2
  <2>8. CASE ~(t.busy /\ Continuous)
    <3>1. t.busy => Coming(x) = Coming(t)
      BY <2>4, <2>8 DEF Coming, Left, Queued
    <3>2. TxLine(x, due, put, time)
      BY <1>2, <2>6, <3>1, PlaceKept
    <3> QED BY <2>8, <3>2
  <2> QED BY <2>7, <2>8
<1>4. CASE ~HasRoom(t)
  <2>1. ASSUME NEW o \in BOOLEAN, NEW y, y = [t EXCEPT !.overrun = o]
        PROVE  /\ y \in TxRecord /\ y.fifo = t.fifo /\ y.fsm = t.fsm /\ y.busy = t.busy
               /\ y.frame = t.frame /\ y.index = t.index /\ y.phase = t.phase /\ y.odd = t.odd
               /\ y.out_en = t.out_en
    BY ONLY <1>1, <2>1 DEF TxRecord
  <2>2. x = [t EXCEPT !.overrun = TRUE] /\ TRUE \in BOOLEAN
    BY <1>4 DEF push_tx
  <2>3. /\ x \in TxRecord /\ x.fifo = t.fifo /\ x.fsm = t.fsm /\ x.busy = t.busy
        /\ x.frame = t.frame /\ x.index = t.index /\ x.phase = t.phase /\ x.odd = t.odd
        /\ x.out_en = t.out_en
    BY <2>1, <2>2, Zenon
  <2>4. SamePlace(t, x)
    <3>1. TxShape(x)
      BY <1>1, <2>3 DEF TxShape
    <3> QED BY <2>3, <3>1 DEF SamePlace
  <2>5. Coming(x) = Coming(t)
    BY ONLY <2>3, SameComing
  <2>6. TxLine(x, due, put, time)
    BY <1>2, <2>4, <2>5, PlaceKept
  <2> QED BY <2>3, <2>6
<1> QED BY <1>3, <1>4

\* The clock mode may be changed at any time.
LEMMA ModeLine ==
  ASSUME NEW t, NEW due, NEW put, NEW time, TxLine(t, due, put, time), NEW m \in 0..3,
         NEW x, x = [t EXCEPT !.clk_mode = m]
  PROVE  TxLine(x, due, put, time)
<1>1. t \in TxRecord /\ TxShape(t)
  BY DEF TxLine, TxShape
<1>2. /\ x \in TxRecord /\ x.fifo = t.fifo /\ x.fsm = t.fsm /\ x.busy = t.busy
      /\ x.frame = t.frame /\ x.index = t.index /\ x.phase = t.phase /\ x.odd = t.odd
      /\ x.out_en = t.out_en
  BY ONLY <1>1, m \in 0..3, x = [t EXCEPT !.clk_mode = m] DEF TxRecord
<1>3. SamePlace(t, x)
  <2>1. TxShape(x)
    BY <1>1, <1>2 DEF TxShape
  <2> QED BY <1>2, <2>1 DEF SamePlace
<1>4. Coming(x) = Coming(t)
  BY ONLY <1>2, SameComing
<1>5. due \in Seq(Bit) /\ (t.busy => due = put \o Coming(t))
  BY DEF TxLine, OnLine
<1> QED BY <1>3, <1>4, <1>5, PlaceKept

\* A transmitter that was reset owes nothing.
LEMMA FreshLine ==
  ASSUME NEW p \in Bit, NEW x, x = [InitTx EXCEPT !.data_pin = p]
  PROVE  TxLine(x, << >>, << >>, 0)
<1> DEFINE i == InitTx
<1>1. i \in TxRecord
  BY DEF InitTx, TxRecord, Bit
<1>2. ~i.busy /\ i.fsm = "IDLE" /\ i.phase = 0 /\ i.fifo = << >> /\ i.out_en = 0 /\ i.frame = << >>
  BY DEF InitTx
<1> HIDE DEF i
<1>3. /\ x \in TxRecord /\ x.fifo = i.fifo /\ x.fsm = i.fsm /\ x.busy = i.busy
      /\ x.frame = i.frame /\ x.phase = i.phase /\ x.out_en = i.out_en
  <2>1. x = [i EXCEPT !.data_pin = p]
    BY DEF i
  <2> QED BY ONLY <1>1, <2>1, p \in Bit DEF TxRecord
<1>4. TxShape(x)
  BY <1>2, <1>3, SizeAssumption DEF TxShape
<1>5. Timed(x)
  BY <1>2, <1>3 DEF Timed
<1>6. OnLine(x, << >>, << >>, 0)
  <2>1. << >> \in Seq(Bit) /\ 0 \in Nat
    OBVIOUS
  <2> QED BY <1>2, <1>3, <2>1 DEF OnLine
<1> QED BY <1>4, <1>5, <1>6 DEF TxLine

\* A frame is as many of the bits in the FIFO as it has room for, one at least.
LEMMA FrameTyped ==
  ASSUME CfgOK, NEW t, t.fifo \in Seq(Bytes), t.fifo # << >>, ~Continuous
  PROVE  FrameBits(t) \in Seq(Bit) /\ FrameBits(t) # << >>
<1> DEFINE r == Row(cfg.swap, t.fifo)  n == IF cfg.frame_size < Len(r) THEN cfg.frame_size ELSE Len(r)
           f == SubSeq(r, 1, n)
<1>1. r \in Seq(Bit) /\ r # << >>
  BY RowTyped, RowNotEmpty DEF CfgOK
<1>2. cfg.frame_size \in Nat \ {0}
  BY DEF CfgOK, Continuous
<1>3. FrameBits(t) = f
  BY InUse DEF FrameBits
<1> HIDE DEF r
<1>4. Len(r) \in Nat \ {0} /\ \A i \in 1..Len(r) : r[i] \in Bit
  BY <1>1, LenProperties, EmptySeq, ElementOfSeq
<1>5. n \in Nat \ {0} /\ n <= Len(r)
  BY <1>2, <1>4
<1> HIDE DEF n
<1>6. \A i \in 1..n : r[i] \in Bit
  BY <1>4, <1>5
<1>7. f \in Seq(Bit) /\ Len(f) = n
  BY <1>1, <1>4, <1>5, <1>6, SubSeqProperties
<1>8. f # << >>
  BY <1>5, <1>7, EmptySeq
<1> QED BY <1>3, <1>7, <1>8

\* What tx_go loads: the frame, and behind it the rest of what it promises.
LEMMA LoadedShape ==
  ASSUME CfgOK, NEW t, TxShape(t), t.fifo # << >>, NEW y, y = [Loaded(t) EXCEPT !.busy = TRUE, !.out_en = 1]
  PROVE  /\ y \in TxRecord /\ y.busy /\ y.out_en = 1 /\ y.index = 1 /\ y.clk_mode = t.clk_mode
         /\ Len(y.fifo) <= Depth /\ y.frame # << >> /\ Promised(t) = y.frame \o Queued(y)
<1> DEFINE l == Loaded(t)
<1>1. /\ t \in TxRecord /\ t.fifo \in Seq(Bytes) /\ Len(t.fifo) <= Depth
      /\ Len(t.fifo) \in Nat /\ Depth \in Nat
  BY LenProperties, SizeAssumption DEF TxShape, TxRecord
<1>2. /\ l \in TxRecord /\ l.index = 1 /\ l.clk_mode = t.clk_mode /\ Len(l.fifo) <= Depth
      /\ l.frame # << >> /\ Promised(t) = l.frame \o Queued(l)
  <2>1. CASE Continuous
    <3> DEFINE f == Swapped(Head(t.fifo))  rest == Tail(t.fifo)
    <3>1. /\ Head(t.fifo) \in Bytes /\ rest \in Seq(Bytes) /\ Len(rest) = Len(t.fifo) - 1
      BY <1>1, HeadTailProperties
    <3>2. f \in Seq(Bit) /\ f # << >>
      BY <3>1, OrderedTyped, InUse DEF CfgOK
    <3>3. Promised(t) = f \o Row(cfg.swap, rest)
      BY <1>1, <2>1, RowHead, InUse DEF Promised, CfgOK
    <3>4. l = [t EXCEPT !.frame = f, !.fifo = rest, !.index = 1]
      BY <2>1 DEF Loaded
    <3> HIDE DEF l, f, rest
    <3>5. /\ l \in TxRecord /\ l.index = 1 /\ l.clk_mode = t.clk_mode /\ l.fifo = rest /\ l.frame = f
      BY ONLY <1>1, <3>1, <3>2, <3>4 DEF TxRecord
    <3>6. Queued(l) = Row(cfg.swap, rest)
      BY <2>1, <3>5 DEF Queued
    <3> QED BY <1>1, <3>1, <3>2, <3>3, <3>5, <3>6
  <2>2. CASE ~Continuous
    <3> DEFINE f == FrameBits(t)  u == t.underrun \/ Len(Flat(t.fifo)) < cfg.frame_size
    <3>1. f \in Seq(Bit) /\ f # << >> /\ u \in BOOLEAN
      BY <1>1, <2>2, FrameTyped
    <3>2. Promised(t) = f
      BY <2>2 DEF Promised
    <3>3. l = [t EXCEPT !.frame = f, !.index = 1, !.underrun = u]
      BY <2>2, Zenon DEF Loaded
    <3> HIDE DEF l, f, u
    <3>4. /\ l \in TxRecord /\ l.index = 1 /\ l.clk_mode = t.clk_mode /\ l.fifo = t.fifo /\ l.frame = f
      BY ONLY <1>1, <3>1, <3>3 DEF TxRecord
    <3>5. f \o Queued(l) = f
      <4>1. Queued(l) = << >>
        BY <2>2 DEF Queued
      <4> QED BY <3>1, <4>1, ConcatEmptySeq
    <3> QED BY <1>1, <3>1, <3>2, <3>4, <3>5
  <2> QED BY <2>1, <2>2
<1> HIDE DEF l
<1>3. PICK b \in BOOLEAN : b = TRUE
  OBVIOUS
<1>4. y = [l EXCEPT !.busy = b, !.out_en = 1]
  BY <1>3, Zenon DEF l
<1>5. /\ y \in TxRecord /\ y.busy = b /\ y.out_en = 1 /\ y.index = l.index
      /\ y.clk_mode = l.clk_mode /\ y.fifo = l.fifo /\ y.frame = l.frame
  <2>1. l \in TxRecord /\ b \in BOOLEAN /\ 1 \in Bit
    BY <1>2 DEF Bit
  <2> QED BY ONLY <1>4, <2>1 DEF TxRecord
<1>6. y.busy
  BY <1>3, <1>5, Zenon
<1>7. Queued(y) = Queued(l)
  BY <1>5 DEF Queued
<1> QED BY <1>2, <1>5, <1>6, <1>7

\* The transmission begins with one of the delays or its first bit.
Delays(y, fsm, c, d, x) ==
  /\ CfgOK /\ y \in TxRecord /\ y.busy /\ y.out_en = 1 /\ y.index = 1 /\ Len(y.fifo) <= Depth
  /\ y.frame # << >> /\ fsm \in {"WIRE", "TST"} /\ c \in Bit /\ d \in Nat \ {0}
  /\ x = [y EXCEPT !.fsm = fsm, !.clk_pin = c, !.phase = -d]

\* A transmission that begins with a delay owes all of its bits.
LEMMA DelayedLine ==
  ASSUME NEW y, NEW fsm, NEW c, NEW d, NEW x, Delays(y, fsm, c, d, x)
  PROVE  TxShape(x) /\ TxLine(x, y.frame \o Queued(y), << >>, 0) /\ x.fsm = fsm
<1>0. /\ CfgOK /\ y \in TxRecord /\ y.busy /\ y.out_en = 1 /\ y.index = 1 /\ Len(y.fifo) <= Depth
      /\ y.frame # << >> /\ fsm \in {"WIRE", "TST"} /\ c \in Bit /\ d \in Nat \ {0}
      /\ x = [y EXCEPT !.fsm = fsm, !.clk_pin = c, !.phase = -d]
  BY DEF Delays
<1> USE <1>0
<1>1. -d \in Int /\ -d < 0
  OBVIOUS
<1>2. ASSUME NEW p \in Int, p = -d
      PROVE  /\ x \in TxRecord /\ x.phase = p /\ x.fsm = fsm /\ x.frame = y.frame /\ x.fifo = y.fifo
             /\ x.index = y.index /\ x.busy = y.busy /\ x.out_en = y.out_en
  <2>1. x = [y EXCEPT !.fsm = fsm, !.clk_pin = c, !.phase = p]
    BY <1>2
  <2>2. y \in TxRecord /\ fsm \in {"WIRE", "TST"} /\ c \in Bit
    OBVIOUS
  <2> QED BY ONLY <2>1, <2>2, p \in Int DEF TxRecord
<1>3. /\ x \in TxRecord /\ x.phase = -d /\ x.fsm = fsm /\ x.frame = y.frame /\ x.fifo = y.fifo
      /\ x.index = y.index /\ x.busy = y.busy /\ x.out_en = y.out_en
  BY <1>1, <1>2
<1>4. x.frame \in Seq(Bit) /\ Len(x.frame) \in Nat /\ Len(x.frame) # 0
  <2>1. x.frame \in Seq(Bit) /\ x.frame # << >>
    BY <1>3 DEF TxRecord
  <2> QED BY <2>1, LenProperties, EmptySeq
<1>5. TxShape(x)
  <2>1. x.busy /\ x.fsm \in {"WIRE", "TST"} /\ x.out_en = 1 /\ x.frame # << >>
    BY <1>3
  <2>2. x.index \in 1..Len(x.frame)
    BY <1>3, <1>4
  <2> QED BY <1>3, <2>1, <2>2 DEF TxShape
<1>6. Coming(x) = y.frame \o Queued(y)
  <2>1. Left(x) = x.frame
    <3>1. SubSeq(x.frame, 1, Len(x.frame)) = x.frame
      BY <1>4, SubSeqProperties
    <3> QED BY <1>3, <3>1 DEF Left
  <2>2. Queued(x) = Queued(y)
    BY <1>3 DEF Queued
  <2> QED BY <1>3, <2>1, <2>2 DEF Coming
<1>7. Timed(x)
  BY <1>1, <1>3 DEF Timed
<1> DEFINE due == y.frame \o Queued(y)
<1>8. due \in Seq(Bit) /\ due = << >> \o Coming(x)
  <2>1. Coming(x) \in Seq(Bit)
    BY <1>5, ComingTyped
  <2> QED BY <1>6, <2>1, ConcatEmptySeq
<1> HIDE DEF due
<1>9. OnLine(x, due, << >>, 0)
  <2>1. << >> \in Seq(Bit) /\ 0 \in Nat /\ x.busy /\ x.fsm # "TRANSMIT"
    BY <1>3
  <2> QED BY <1>8, <2>1 DEF OnLine
<1> QED BY <1>3, <1>5, <1>7, <1>9 DEF TxLine, due

\* tx_go puts on the line what it promises, from its first bit on.
LEMMA GoLine ==
  ASSUME CfgOK, NEW t, TxShape(t), t.fifo # << >>, NEW x, x = tx_go(t)
  PROVE  TxLine(x, Promised(t), IF x.fsm = "TRANSMIT" THEN << x.data_pin >> ELSE << >>, 0)
<1> DEFINE y == [Loaded(t) EXCEPT !.busy = TRUE, !.out_en = 1]
<1>1. x = IF cfg.wire > 0
          THEN [y EXCEPT !.fsm = "WIRE", !.clk_pin = 1, !.phase = -cfg.wire]
          ELSE IF cfg.tst > 0
          THEN [y EXCEPT !.fsm = "TST", !.clk_pin = 0, !.phase = -cfg.tst]
          ELSE enter_transmit(y)
  BY Zenon DEF tx_go
<1>2. /\ y \in TxRecord /\ y.busy /\ y.out_en = 1 /\ y.index = 1 /\ y.clk_mode = t.clk_mode
      /\ Len(y.fifo) <= Depth /\ y.frame # << >> /\ Promised(t) = y.frame \o Queued(y)
  BY LoadedShape
<1> HIDE DEF y
<1>3. cfg.wire \in Nat /\ cfg.tst \in Nat /\ 1 \in Bit /\ 0 \in Bit
  BY DEF CfgOK, Bit
<1>4. CASE cfg.wire > 0
  <2>1. x = [y EXCEPT !.fsm = "WIRE", !.clk_pin = 1, !.phase = -cfg.wire] /\ cfg.wire \in Nat \ {0}
    BY <1>1, <1>3, <1>4
  <2>2. TxLine(x, y.frame \o Queued(y), << >>, 0) /\ x.fsm = "WIRE"
    <3>1. Delays(y, "WIRE", 1, cfg.wire, x)
      BY <1>2, <1>3, <2>1 DEF Delays
    <3> QED BY ONLY <3>1, DelayedLine
  <2> QED BY <1>2, <2>2
<1>5. CASE ~(cfg.wire > 0) /\ cfg.tst > 0
  <2>1. x = [y EXCEPT !.fsm = "TST", !.clk_pin = 0, !.phase = -cfg.tst] /\ cfg.tst \in Nat \ {0}
    BY <1>1, <1>3, <1>5
  <2>2. TxLine(x, y.frame \o Queued(y), << >>, 0) /\ x.fsm = "TST"
    <3>1. Delays(y, "TST", 0, cfg.tst, x)
      BY <1>2, <1>3, <2>1 DEF Delays
    <3> QED BY ONLY <3>1, DelayedLine
  <2> QED BY <1>2, <2>2
<1>6. CASE ~(cfg.wire > 0) /\ ~(cfg.tst > 0)
  <2> DEFINE z == [y EXCEPT !.fsm = "WIRE", !.clk_pin = y.clk_pin, !.phase = -1]
  <2>1. TxShape(z) /\ TxLine(z, y.frame \o Queued(y), << >>, 0) /\ z.fsm = "WIRE"
    <3>1. Delays(y, "WIRE", y.clk_pin, 1, z)
      <4>1. y.clk_pin \in Bit /\ 1 \in Nat \ {0}
        BY <1>2 DEF TxRecord
      <4> HIDE DEF z
      <4>2. z = [y EXCEPT !.fsm = "WIRE", !.clk_pin = y.clk_pin, !.phase = -1]
        BY DEF z
      <4> QED BY <1>2, <4>1, <4>2 DEF Delays
    <3> HIDE DEF z
    <3> QED BY ONLY <3>1, DelayedLine
  <2>2. Coming(z) = Promised(t) /\ Promised(t) \in Seq(Bit)
    <3>1. z.busy
      BY <2>1 DEF TxShape
    <3>2. Promised(t) = << >> \o Coming(z) /\ Promised(t) \in Seq(Bit)
      BY <1>2, <2>1, <3>1 DEF TxLine, OnLine
    <3>3. Coming(z) \in Seq(Bit)
      BY <2>1, ComingTyped
    <3> QED BY <3>2, <3>3, ConcatEmptySeq
  <2>3. x = enter_transmit(z)
    <3>1. x = enter_transmit(y)
      BY <1>1, <1>6
    <3>2. z.frame = y.frame
      BY <1>2 DEF TxRecord
    <3> DEFINE b == y.frame[1]
    <3>3. x = [y EXCEPT !.fsm = "TRANSMIT", !.phase = 0, !.odd = FALSE, !.out_en = 1, !.index = 1,
                        !.data_pin = b]
      BY <3>1, Zenon DEF enter_transmit
    <3>4. enter_transmit(z) = [z EXCEPT !.fsm = "TRANSMIT", !.phase = 0, !.odd = FALSE, !.out_en = 1,
                                        !.index = 1, !.data_pin = b]
      BY <3>2, Zenon DEF enter_transmit
    <3>5. ASSUME NEW p \in Int, NEW c, c = y.clk_pin, NEW o \in BOOLEAN, NEW i \in Int, NEW w,
                 w = [y EXCEPT !.fsm = "WIRE", !.clk_pin = c, !.phase = p]
          PROVE  [w EXCEPT !.fsm = "TRANSMIT", !.phase = i, !.odd = o, !.out_en = 1,
                           !.index = 1, !.data_pin = b]
                   = [y EXCEPT !.fsm = "TRANSMIT", !.phase = i, !.odd = o, !.out_en = 1,
                               !.index = 1, !.data_pin = b]
      <4> HIDE DEF b
      <4>1. y \in TxRecord
        BY <1>2
      <4> QED BY ONLY <3>5, <4>1 DEF TxRecord
    <3> HIDE DEF b
    <3>6. PICK p \in Int : p = -1
      OBVIOUS
    <3>7. PICK o \in BOOLEAN : o = FALSE
      OBVIOUS
    <3>8. PICK i \in Int : i = 0
      OBVIOUS
    <3>9. z = [y EXCEPT !.fsm = "WIRE", !.clk_pin = y.clk_pin, !.phase = p]
      BY <3>6, Zenon
    <3> HIDE DEF z
    <3>10. [z EXCEPT !.fsm = "TRANSMIT", !.phase = i, !.odd = o, !.out_en = 1,
                     !.index = 1, !.data_pin = b]
             = [y EXCEPT !.fsm = "TRANSMIT", !.phase = i, !.odd = o, !.out_en = 1,
                         !.index = 1, !.data_pin = b]
      BY <3>5, <3>9, Zenon
    <3> QED BY <3>3, <3>4, <3>7, <3>8, <3>10, Zenon
  <2> HIDE DEF z
  <2>4. /\ TxShape(x) /\ x.fsm = "TRANSMIT" /\ x.busy /\ x.phase = 0
        /\ Late(x) = 0 /\ x.data_pin = z.frame[1] /\ z.frame[1] \in Bit
        /\ Coming(z) = << z.frame[1] >> \o Coming(x)
    BY <2>1, <2>3, EnterShape
  <2> DEFINE put == << x.data_pin >>
  <2>5. put \in Seq(Bit) /\ Len(put) = 1
    BY <2>4
  <2>6. 0 = 2 * Half * (Len(put) - 1) + Late(x) /\ Len(put) # 0
    <3>1. 2 * Half * (1 - 1) = 0
      BY ClockAssumption
    <3> QED BY <2>4, <2>5, <3>1
  <2>7. Promised(t) = put \o Coming(x)
    BY <2>2, <2>4
  <2>8. Timed(x)
    BY <2>4, ClockAssumption DEF Timed
  <2> HIDE DEF put
  <2>9. OnLine(x, Promised(t), put, 0)
    BY <2>2, <2>4, <2>5, <2>6, <2>7 DEF OnLine
  <2> QED BY <2>4, <2>8, <2>9 DEF TxLine, put
<1> QED BY <1>4, <1>5, <1>6

PerifInv ==
  cfg \in Configs /\ TxLine(tx, owed, sent, since) /\ RxLine(rx, heard, got, armed)

\* The settings in use are settings.
LEMMA CfgTyped == ASSUME cfg \in Configs PROVE CfgOK
BY FirmwareAssumption DEF CfgOK, ConfigFields

\* A step that leaves the order and the size of a frame on the line alone.
LEMMA LineNext ==
  ASSUME TxLine(tx', owed', sent', since'),
         tx'.busy => cfg'.frame_size = cfg.frame_size /\ cfg'.swap = cfg.swap
  PROVE  TxLine(tx, owed, sent, since)'
<1>1. TxShape(tx') /\ Timed(tx') /\ OnLine(tx', owed', sent', since')
  BY DEF TxLine
<1>2. tx'.busy => Coming(tx)' = Coming(tx')
  <2>1. Left(tx)' = Left(tx')
    BY DEF Left
  <2>2. ASSUME tx'.busy  PROVE Queued(tx)' = Queued(tx')
    <3>1. cfg'.frame_size = cfg.frame_size /\ cfg'.swap = cfg.swap
      BY <2>2
    <3> QED BY <3>1 DEF Queued, Continuous
  <2> QED BY <2>1, <2>2 DEF Coming
<1>3. OnLine(tx, owed, sent, since)'
  <2>1. Late(tx)' = Late(tx')
    BY DEF Late
  <2> QED BY <1>1, <1>2, <2>1 DEF OnLine
<1>4. TxShape(tx)' /\ Timed(tx)'
  BY <1>1 DEF TxShape, Timed
<1> QED BY <1>3, <1>4 DEF TxLine

\* The receive line does not depend on the settings.
LEMMA RxNext ==
  ASSUME RxLine(rx', heard', got', armed')
  PROVE  RxLine(rx, heard, got, armed)'
BY DEF RxLine

\* A channel fresh from reset.
LEMMA PerifInitial == PerifInit => PerifInv
<1> SUFFICES ASSUME PerifInit PROVE PerifInv
  OBVIOUS
<1>1. TxLine(InitTx, << >>, << >>, 0)
  <2>1. 0 \in Bit /\ InitTx = [InitTx EXCEPT !.data_pin = 0]
    BY DEF Bit, InitTx
  <2> HIDE DEF InitTx
  <2> QED BY <2>1, FreshLine
<1>2. RxLine(InitRx, << >>, << >>, 0)
  <2>1. << >> \in Seq(Bit) /\ << >> \in Seq(Register) /\ 0 \in Nat
    OBVIOUS
  <2> QED BY <2>1, Silence DEF RxLine
<1> QED BY <1>1, <1>2 DEF PerifInit, PerifInv

\* Writes to R30.
LEMMA Process30Inv == ASSUME PerifInv, NEW w \in Writes, process_r30(w) PROVE PerifInv'
<1> DEFINE pushed == IF 0 \in w.strobes THEN push_tx(tx, w.byte) ELSE tx
           due == IF tx.busy /\ Continuous /\ pushed.fifo # tx.fifo THEN owed \o Swapped(w.byte) ELSE owed
<1>1. CfgOK /\ TxLine(tx, owed, sent, since) /\ RxLine(rx, heard, got, armed)
  BY CfgTyped DEF PerifInv
<1>2. w.byte \in Bytes /\ w.mode \in 0..3 /\ w.enable \in BOOLEAN
  BY FirmwareAssumption DEF WriteFields
<1>3. /\ tx' = (IF 2 \in w.strobes THEN [pushed EXCEPT !.clk_mode = w.mode] ELSE pushed)
      /\ rx' = (IF 3 \in w.strobes THEN arm_rx(rx, w.enable) ELSE rx)
      /\ Listening(rx')
      /\ owed' = due /\ cfg' = cfg /\ sent' = sent /\ since' = since
  BY Zenon DEF process_r30
<1>4. TxLine(pushed, due, sent, since)
  <2>1. CASE 0 \in w.strobes
    <3>1. pushed = push_tx(tx, w.byte)
      BY <2>1
    <3> HIDE DEF pushed
    <3> QED BY <1>1, <1>2, <3>1, PushedLine
  <2>2. CASE 0 \notin w.strobes
    <3>1. pushed = tx /\ due = owed
      BY <2>2
    <3> HIDE DEF pushed, due
    <3> QED BY <1>1, <3>1
  <2> QED BY <2>1, <2>2
<1> HIDE DEF pushed, due
<1>5. TxLine(tx', owed', sent', since')
  <2>1. CASE 2 \in w.strobes
    <3>1. tx' = [pushed EXCEPT !.clk_mode = w.mode]
      BY <1>3, <2>1
    <3>2. TxLine(tx', due, sent, since)
      BY <1>2, <1>4, <3>1, ModeLine
    <3> QED BY <1>3, <3>2
  <2>2. CASE 2 \notin w.strobes
    BY <1>3, <1>4, <2>2
  <2> QED BY <2>1, <2>2
<1>6. RxLine(rx', heard', got', armed')
  <2>1. CASE 3 \in w.strobes
    <3>1. rx' = arm_rx(rx, w.enable)
      BY <1>3, <2>1
    <3>2. IF rx'.en = rx.en THEN RxLine(rx', heard, got, armed) ELSE RxLine(rx', << >>, << >>, 0)
      BY <1>1, <1>2, <3>1, SwitchedLine
    <3>3. CASE rx'.en = rx.en
      BY <1>3, <3>2, <3>3 DEF Listening, reception
    <3>4. CASE rx'.en # rx.en
      BY <1>3, <3>2, <3>4 DEF Listening, ForgetReception
    <3> QED BY <3>3, <3>4
  <2>2. CASE 3 \notin w.strobes
    <3>1. rx' = rx
      BY <1>3, <2>2
    <3>2. heard' = heard /\ got' = got /\ armed' = armed
      BY <1>3, <3>1 DEF Listening, reception
    <3> QED BY <1>1, <3>1, <3>2
  <2> QED BY <2>1, <2>2
<1>7. TxLine(tx, owed, sent, since)'
  BY <1>3, <1>5, LineNext
<1>8. RxLine(rx, heard, got, armed)'
  BY <1>6, RxNext
<1>9. cfg' \in Configs
  BY <1>3 DEF PerifInv
<1> QED BY <1>7, <1>8, <1>9 DEF PerifInv

\* Writes to R31.
LEMMA Process31Inv == ASSUME PerifInv, NEW c \in Commands, process_r31_command(c) PROVE PerifInv'
<1> DEFINE stopped == IF c.reinit THEN tx_reinit(tx) ELSE tx
           popped == IF c.clr_val THEN clr_val(rx) ELSE rx
<1>1. CfgOK /\ TxLine(tx, owed, sent, since) /\ RxLine(rx, heard, got, armed)
  BY CfgTyped DEF PerifInv
<1>2. /\ tx' = (IF c.go THEN tx_go(stopped) ELSE stopped)
      /\ rx' = (IF c.clr_ovf THEN clr_ovf(popped) ELSE popped)
      /\ cfg' = cfg /\ heard' = heard /\ got' = got /\ armed' = armed
  BY Zenon DEF process_r31_command, reception
<1>3. IF c.go /\ stopped.fifo # << >>
      THEN /\ owed' = Promised(stopped) /\ since' = 0
           /\ sent' = IF tx'.fsm = "TRANSMIT" THEN << tx'.data_pin >> ELSE << >>
      ELSE IF c.reinit THEN ForgetTransmission ELSE UNCHANGED transmission
  BY Zenon DEF process_r31_command
<1>4. ASSUME c.reinit  PROVE TxLine(tx', owed', sent', since')
  <2>1. stopped = tx_reinit(tx)
    BY <1>4
  <2>2. TxLine(stopped, << >>, << >>, 0)
    <3>1. tx.data_pin \in Bit
      BY <1>1 DEF TxLine, TxShape, TxRecord
    <3> HIDE DEF stopped
    <3> QED BY <2>1, <3>1, FreshLine DEF tx_reinit
  <2>3. stopped.fifo = << >>
    BY <2>1 DEF tx_reinit, InitTx
  <2> HIDE DEF stopped
  <2>4. tx' = stopped
    BY <1>2, <2>3 DEF tx_go
  <2>5. owed' = << >> /\ sent' = << >> /\ since' = 0
    BY <1>3, <1>4, <2>3 DEF ForgetTransmission
  <2>6. TxLine(tx', owed', sent', since')
    BY <2>2, <2>4, <2>5
  <2> QED BY <2>6
<1>5. ASSUME ~c.reinit  PROVE TxLine(tx', owed', sent', since')
  <2>1. stopped = tx
    BY <1>5
  <2> HIDE DEF stopped
  <2>2. CASE c.go /\ stopped.fifo # << >>
    <3>1. tx' = tx_go(tx) /\ tx.fifo # << >> /\ TxShape(tx)
      BY <1>1, <1>2, <2>1, <2>2 DEF TxLine
    <3>2. TxLine(tx', Promised(tx), IF tx'.fsm = "TRANSMIT" THEN << tx'.data_pin >> ELSE << >>, 0)
      BY <1>1, <3>1, GoLine
    <3>3. /\ owed' = Promised(tx) /\ since' = 0
          /\ sent' = IF tx'.fsm = "TRANSMIT" THEN << tx'.data_pin >> ELSE << >>
      BY <1>3, <2>1, <2>2
    <3> QED BY <3>2, <3>3
  <2>3. CASE ~(c.go /\ stopped.fifo # << >>)
    <3>1. tx' = tx
      BY <1>2, <2>1, <2>3 DEF tx_go
    <3>2. owed' = owed /\ sent' = sent /\ since' = since
      BY <1>3, <1>5, <2>3 DEF transmission
    <3> QED BY <1>1, <3>1, <3>2
  <2> QED BY <2>2, <2>3
<1>6. TxLine(tx', owed', sent', since')
  BY <1>4, <1>5
<1>7. RxLine(popped, heard, got, armed)
  <2>1. CASE c.clr_val
    <3>1. popped = clr_val(rx)
      BY <2>1
    <3> HIDE DEF popped
    <3> QED BY <1>1, <3>1, ReadLine
  <2>2. CASE ~c.clr_val
    <3>1. popped = rx
      BY <2>2
    <3> HIDE DEF popped
    <3> QED BY <1>1, <3>1
  <2> QED BY <2>1, <2>2
<1> HIDE DEF popped, stopped
<1>8. RxLine(rx', heard', got', armed')
  <2>1. CASE c.clr_ovf
    <3>1. rx' = clr_ovf(popped)
      BY <1>2, <2>1
    <3>2. RxLine(rx', heard, got, armed)
      BY <1>7, <3>1, ReadLine
    <3> QED BY <1>2, <3>2
  <2>2. CASE ~c.clr_ovf
    BY <1>2, <1>7, <2>2
  <2> QED BY <2>1, <2>2
<1>9. TxLine(tx, owed, sent, since)'
  BY <1>2, <1>6, LineNext
<1>10. RxLine(rx, heard, got, armed)'
  BY <1>8, RxNext
<1>11. cfg' \in Configs
  BY <1>2 DEF PerifInv
<1> QED BY <1>9, <1>10, <1>11 DEF PerifInv

\* Settings change while no frame is on the line.
LEMMA WriteConfigInv == ASSUME PerifInv, NEW c \in Configs, WriteConfig(c) PROVE PerifInv'
<1>1. TxLine(tx, owed, sent, since) /\ RxLine(rx, heard, got, armed)
  BY DEF PerifInv
<1>2. /\ tx.busy => cfg'.frame_size = cfg.frame_size /\ cfg'.swap = cfg.swap
      /\ cfg' \in Configs /\ tx' = tx /\ rx' = rx /\ owed' = owed /\ sent' = sent /\ since' = since
      /\ heard' = heard /\ got' = got /\ armed' = armed
  BY DEF WriteConfig, transmission, reception
<1>3. TxLine(tx', owed', sent', since') /\ RxLine(rx', heard', got', armed')
  BY <1>1, <1>2
<1>4. TxLine(tx, owed, sent, since)'
  BY <1>2, <1>3, LineNext
<1>5. RxLine(rx, heard, got, armed)'
  BY <1>3, RxNext
<1> QED BY <1>2, <1>4, <1>5 DEF PerifInv

\* Hardware reset.
LEMMA ResetInv == ASSUME PerifInv, reset PROVE PerifInv'
<1>1. /\ tx' = InitTx /\ rx' = InitRx /\ owed' = << >> /\ sent' = << >> /\ since' = 0
      /\ heard' = << >> /\ got' = << >> /\ armed' = 0 /\ cfg' = cfg
  BY DEF reset, ForgetTransmission, ForgetReception
<1>2. TxLine(InitTx, << >>, << >>, 0)
  <2>1. 0 \in Bit /\ InitTx = [InitTx EXCEPT !.data_pin = 0]
    BY DEF Bit, InitTx
  <2> QED BY <2>1, FreshLine
<1>3. RxLine(InitRx, << >>, << >>, 0)
  <2>1. << >> \in Seq(Bit) /\ << >> \in Seq(Register) /\ 0 \in Nat
    OBVIOUS
  <2> QED BY <2>1, Silence DEF RxLine
<1>4. TxLine(tx', owed', sent', since') /\ RxLine(rx', heard', got', armed')
  BY <1>1, <1>2, <1>3
<1>5. TxLine(tx, owed, sent, since)'
  BY <1>1, <1>4, LineNext
<1>6. RxLine(rx, heard, got, armed)'
  BY <1>4, RxNext
<1>7. cfg' \in Configs
  BY <1>1 DEF PerifInv
<1> QED BY <1>5, <1>6, <1>7 DEF PerifInv

\* What time does to the channel: both lines go on, and the clock stops as it should.
TimedStep ==
  tx.fsm # "IDLE" /\ tx'.fsm = "IDLE" =>
     \/ tx.clk_mode = 3 /\ tx.busy /\ sent' = owed /\ tx'.clk_pin = 1
     \/ tx.clk_mode \in {0, 1} /\ rx'.eof /\ Len(got') > Len(got) /\ tx'.clk_pin = tx.clk_mode

\* An advance, of the transmitter, the auto-arm and the receiver in this order.
LEMMA AdvanceLines ==
  ASSUME PerifInv, NEW d \in Nat, Advance(d)
  PROVE  /\ TxLine(tx', owed', sent', since') /\ RxLine(rx', heard', got', armed')
         /\ cfg' = cfg /\ TimedStep
<1> DEFINE m == Progress(Later(tx, d))  r == AutoArm(rx, tx, m.t, d)  f == FreeRunning(m.t)
           now == Elapsed(tx, m, since, d)
<1>1. CfgOK /\ TxShape(tx) /\ Timed(tx) /\ OnLine(tx, owed, sent, since) /\ RxLine(rx, heard, got, armed)
  BY CfgTyped DEF PerifInv, TxLine
<1>2. PICK bits \in [1 .. Edges(r, d) -> Levels] :
        LET s == Sampled([t |-> f, r |-> r, got |-> got], d, bits)
        IN  /\ tx' = AtRest(s.t) /\ rx' = s.r
            /\ sent' = sent \o m.put
            /\ since' = now
            /\ heard' = heard \o bits /\ got' = s.got
            /\ armed' = IF rx'.en THEN armed + d ELSE 0
            /\ cfg' = cfg /\ owed' = owed
  BY Zenon DEF Advance, Later, Elapsed
<1> DEFINE s == Sampled([t |-> f, r |-> r, got |-> got], d, bits)
<1>3. Progressed(tx, m, owed, sent, now)
  <2>1. m = Progress(Later(tx, d))
    OBVIOUS
  <2> HIDE DEF m
  <2> QED BY <1>1, <2>1, ProgressKeepsLine
<1> HIDE DEF m
<1>4. TxShape(m.t) /\ m.t.phase \in Int /\ (m.t.fsm = "CLKRUN" => m.t.phase \in Nat)
  BY <1>3 DEF Progressed, TxShape, TxRecord
<1>5. TxShape(f)
  <2>1. CASE m.t.fsm = "CLKRUN"
    BY <1>4, <2>1, FreeRunningShape
  <2>2. CASE m.t.fsm # "CLKRUN"
    BY <1>4, <2>2 DEF FreeRunning
  <2> QED BY <2>1, <2>2
<1>6. RxLine(r, heard, got, armed)
  BY <1>1, <1>4, AutoArmLine
<1> HIDE DEF r, f
<1>7. /\ RxLine(s.r, heard \o bits, s.got, IF s.r.en THEN armed + d ELSE 0)
      /\ ClockHalted(f, s.t) /\ (s.t # f => s.r.eof /\ Len(s.got) > Len(got))
  <2>1. s = Sampled([t |-> f, r |-> r, got |-> got], d, bits)
    OBVIOUS
  <2> HIDE DEF s
  <2> QED BY <1>1, <1>5, <1>6, <2>1, SampledLine
<1>8. /\ tx' = AtRest(s.t) /\ rx' = s.r /\ sent' = sent \o m.put /\ since' = now
      /\ heard' = heard \o bits /\ got' = s.got /\ cfg' = cfg /\ owed' = owed
      /\ armed' = IF rx'.en THEN armed + d ELSE 0
  BY <1>2
<1> HIDE DEF s, now
<1> DEFINE y == AtRest(s.t)
<1>9. /\ TxShape(y) /\ Timed(y) /\ OnLine(y, owed, sent \o m.put, now)
      /\ y.fsm = "IDLE" /\ tx.fsm # "IDLE" =>
           \/ tx.clk_mode = 3 /\ tx.busy /\ sent \o m.put = owed /\ y.clk_pin = 1
           \/ tx.clk_mode \in {0, 1} /\ y.clk_pin = tx.clk_mode /\ s.t # FreeRunning(m.t)
  BY <1>1, <1>3, <1>7, SettledLine DEF f
<1> HIDE DEF y
<1>10. TxLine(tx', owed', sent', since')
  BY <1>8, <1>9 DEF TxLine, y
<1>11. RxLine(rx', heard', got', armed')
  BY <1>7, <1>8
<1>12. TimedStep
  <2>1. SUFFICES ASSUME tx.fsm # "IDLE", tx'.fsm = "IDLE"
                 PROVE  \/ tx.clk_mode = 3 /\ tx.busy /\ sent' = owed /\ tx'.clk_pin = 1
                        \/ tx.clk_mode \in {0, 1} /\ rx'.eof /\ Len(got') > Len(got)
                           /\ tx'.clk_pin = tx.clk_mode
    BY DEF TimedStep
  <2>2. tx' = y /\ f = FreeRunning(m.t)
    BY <1>8 DEF y, f
  <2>3. \/ tx.clk_mode = 3 /\ tx.busy /\ sent \o m.put = owed /\ y.clk_pin = 1
        \/ tx.clk_mode \in {0, 1} /\ y.clk_pin = tx.clk_mode /\ s.t # FreeRunning(m.t)
    BY <1>9, <2>1, <2>2
  <2>4. s.t # FreeRunning(m.t) => rx'.eof /\ Len(got') > Len(got)
    BY <1>7, <1>8, <2>2
  <2> QED BY <1>8, <2>2, <2>3, <2>4
<1> QED BY <1>8, <1>10, <1>11, <1>12

\* PerifInv is inductive.
LEMMA PerifStep == PerifInv /\ [PerifNext]_perifVars => PerifInv'
<1> SUFFICES ASSUME PerifInv, [PerifNext]_perifVars PROVE PerifInv'
  OBVIOUS
<1>1. ASSUME NEW d \in Durations, Advance(d)  PROVE PerifInv'
  <2>1. d \in Nat
    BY DurationAssumption
  <2>2. TxLine(tx', owed', sent', since') /\ RxLine(rx', heard', got', armed') /\ cfg' = cfg
    BY <1>1, <2>1, AdvanceLines
  <2>3. TxLine(tx, owed, sent, since)'
    BY <2>2, LineNext
  <2>4. RxLine(rx, heard, got, armed)'
    BY <2>2, RxNext
  <2> QED BY <2>2, <2>3, <2>4 DEF PerifInv
<1>2. CASE UNCHANGED perifVars
  <2>1. /\ TxLine(tx', owed', sent', since') /\ RxLine(rx', heard', got', armed') /\ cfg' = cfg
        /\ cfg' \in Configs
    BY <1>2 DEF perifVars, transmission, reception, PerifInv
  <2>2. TxLine(tx, owed, sent, since)'
    BY <2>1, LineNext
  <2>3. RxLine(rx, heard, got, armed)'
    BY <2>1, RxNext
  <2> QED BY <2>1, <2>2, <2>3 DEF PerifInv
<1>3. ASSUME NEW w \in Writes, process_r30(w)  PROVE PerifInv'
  BY <1>3, Process30Inv
<1>4. ASSUME NEW c \in Commands, process_r31_command(c)  PROVE PerifInv'
  BY <1>4, Process31Inv
<1>5. ASSUME NEW c \in Configs, WriteConfig(c)  PROVE PerifInv'
  BY <1>5, WriteConfigInv
<1>6. ASSUME reset  PROVE PerifInv'
  BY <1>6, ResetInv
<1> QED BY <1>1, <1>2, <1>3, <1>4, <1>5, <1>6 DEF PerifNext

\* PerifInv holds: what was promised is what is on the line and what is to come, the
\* bits are on the grid of the TX clock, and the receiver has made of the levels on
\* the grid of the RX clock just the bytes behind the first start bit.
THEOREM PerifInductive == PerifSpec => []PerifInv
<1>1. PerifInit => PerifInv
  BY PerifInitial
<1>2. PerifInv /\ [PerifNext]_perifVars => PerifInv'
  BY PerifStep
<1> QED BY <1>1, <1>2, PTL DEF PerifSpec

\* What is on the line is the beginning of what is owed.
LEMMA OrderFollows == PerifInv => BitsInOrder
<1> SUFFICES ASSUME PerifInv PROVE BitsInOrder
  OBVIOUS
<1>1. /\ owed \in Seq(Bit) /\ sent \in Seq(Bit) /\ TxShape(tx)
      /\ ~tx.busy => sent = owed
      /\ tx.busy => owed = sent \o Coming(tx)
  BY DEF PerifInv, TxLine, OnLine
<1>2. CfgOK
  BY CfgTyped DEF PerifInv
<1>3. ASSUME NEW c \in Seq(Bit), NEW o, o = sent \o c  PROVE IsPrefix(sent, o)
  <2> DEFINE n == Len(sent)  u == SubSeq(sent, 1, n)  v == SubSeq(o, 1, n)
  <2>1. n \in Nat /\ Len(c) \in Nat /\ Len(o) = n + Len(c) /\ \A i \in 1..n : o[i] = sent[i]
    <3>1. /\ Len(sent) \in Nat /\ Len(c) \in Nat
      BY <1>1, LenProperties
    <3>2. /\ Len(o) = Len(sent) + Len(c)
          /\ \A i \in 1..Len(sent)+Len(c) : o[i] = IF i <= Len(sent) THEN sent[i] ELSE c[i - Len(sent)]
      BY <1>1, <1>3, ConcatProperties
    <3>3. \A i \in 1..Len(sent) : i \in 1..Len(sent)+Len(c) /\ i <= Len(sent)
      BY <3>1
    <3> QED BY <3>1, <3>2, <3>3
  <2>2. o \in Seq(Bit) /\ \A i \in 1..Len(o) : o[i] \in Bit
    <3>1. o \in Seq(Bit)
      BY <1>1, <1>3, ConcatProperties
    <3> QED BY <3>1, ElementOfSeq
  <2>3. sent \in Seq(Bit) /\ \A i \in 1..n : sent[i] \in Bit
    BY <1>1, ElementOfSeq
  <2> HIDE DEF n
  <2>4. Len(u) = n /\ Len(v) = n /\ \A i \in 1..n : u[i] = sent[i] /\ v[i] = o[i]
    BY <2>1, SubSeqProperties
  <2>5. u \in Seq(Bit) /\ v \in Seq(Bit)
    <3>1. \A i \in 1..n : o[i] \in Bit
      BY <2>1, <2>3
    <3> QED BY <2>1, <2>3, <3>1, SubSeqProperties
  <2> HIDE DEF u, v
  <2>6. \A i \in 1..n : u[i] = v[i]
    BY <2>1, <2>4
  <2>7. u = v
    BY <2>4, <2>5, <2>6, SeqEqual
  <2>8. n <= Len(o)
    BY <2>1
  <2> QED BY <2>7, <2>8 DEF IsPrefix, u, v, n
<1>4. IsPrefix(sent, owed)
  <2>1. CASE tx.busy
    <3>1. Coming(tx) \in Seq(Bit)
      BY <1>1, <1>2, ComingTyped
    <3> QED BY <1>1, <1>3, <2>1, <3>1
  <2>2. CASE ~tx.busy
    <3>1. sent \o << >> = sent /\ << >> \in Seq(Bit)
      BY <1>1, ConcatEmptySeq
    <3>2. owed = sent \o << >>
      BY <1>1, <2>2, <3>1
    <3> QED BY <1>3, <3>1, <3>2
  <2> QED BY <2>1, <2>2
<1> QED BY <1>1, <1>4 DEF BitsInOrder

\* The division equations have one solution.
LEMMA GridFollows == PerifInv => NoDrift
<1> SUFFICES ASSUME PerifInv PROVE NoDrift
  OBVIOUS
<1>1. ASSUME tx.fsm = "TRANSMIT"  PROVE Len(sent) = since \div (2 * Half) + 1
  <2>1. /\ sent \in Seq(Bit) /\ Len(sent) \in Nat /\ Len(sent) # 0
        /\ since = 2 * Half * (Len(sent) - 1) + Late(tx) /\ tx.phase \in 0 .. Half - 1
    BY <1>1, LenProperties DEF PerifInv, TxLine, OnLine, Timed
  <2>2. Half \in Nat \ {0}
    BY ClockAssumption
  <2> DEFINE p == 2 * Half  q == Len(sent) - 1  r == Late(tx)
  <2>3. p \in Nat \ {0} /\ q \in Nat /\ r \in 0..p-1
    BY <2>1, <2>2 DEF Late
  <2>4. since = q * p + r
    <3>1. ASSUME NEW x \in Nat, NEW y \in Nat  PROVE 2 * x * y = y * (2 * x)
      OBVIOUS
    <3>2. 2 * Half * q = q * p
      <4>1. q \in Nat /\ Half \in Nat
        BY <2>2, <2>3
      <4> HIDE DEF q
      <4> QED BY <3>1, <4>1
    <3> QED BY <2>1, <3>2
  <2> HIDE DEF p, q, r
  <2>5. since \div p = q
    <3>1. ASSUME NEW n, n = since  PROVE n \div p = q
      BY <2>3, <2>4, <3>1, Quotient
    <3> QED BY <3>1
  <2>6. Len(sent) = q + 1
    BY <2>1 DEF q
  <2> QED BY <2>5, <2>6 DEF p
<1>2. Len(heard) = armed \div RxPeriod
  <2>1. /\ RxShape(rx) /\ heard \in Seq(Bit) /\ Len(heard) \in Nat /\ armed \in Nat
        /\ ~rx.en => heard = << >> /\ armed = 0
        /\ rx.en => armed + FirstEdge(rx) = (Len(heard) + 1) * RxPeriod
    BY LenProperties DEF PerifInv, RxLine
  <2>2. RxPeriod \in Nat \ {0} /\ FirstEdge(rx) \in 1..RxPeriod
    BY <2>1, ClockAssumption DEF RxShape, FirstEdge
  <2> DEFINE q == Len(heard)  e == FirstEdge(rx)  r == IF rx.en THEN RxPeriod - e ELSE 0
  <2>3. armed = q * RxPeriod + r /\ r \in 0..RxPeriod-1 /\ q \in Nat
    <3>1. CASE rx.en
      <4>1. armed + e = (q + 1) * RxPeriod /\ e \in 1..RxPeriod
        BY <2>1, <2>2, <3>1
      <4>2. q \in Nat /\ r = RxPeriod - e
        BY <2>1, <3>1
      <4> HIDE DEF q, e, r
      <4>3. (q + 1) * RxPeriod = q * RxPeriod + RxPeriod /\ q * RxPeriod \in Nat
        BY <2>2, <4>2
      <4> QED BY <2>1, <2>2, <4>1, <4>2, <4>3
    <3>2. CASE ~rx.en
      <4>1. q = 0 /\ r = 0 /\ armed = 0
        BY <2>1, <3>2
      <4>2. 0 * RxPeriod = 0
        BY <2>2
      <4> QED BY <2>2, <4>1, <4>2
    <3> QED BY <3>1, <3>2
  <2> HIDE DEF q, r, e
  <2>4. armed \div RxPeriod = q
    <3>1. ASSUME NEW n, n = armed, NEW p, p = RxPeriod  PROVE n \div p = q
      BY <2>2, <2>3, <3>1, Quotient
    <3> QED BY <3>1
  <2> QED BY <2>4 DEF q
<1> QED BY <1>1, <1>2 DEF NoDrift

\* The first start bit is the one that the receiver found.
LEMMA BytesFollow == PerifInv => BytesFromLine
<1> SUFFICES ASSUME PerifInv PROVE BytesFromLine
  OBVIOUS
<1>1. /\ RxShape(rx) /\ heard \in Seq(Bit) /\ got \in Seq(Register) /\ Len(heard) \in Nat
      /\ Len(got) \in Nat /\ got \in [1..Len(got) -> Register]
      /\ ~rx.en => heard = << >> /\ got = << >>
      /\ rx.en => Captured(heard, rx, got)
  BY LenProperties DEF PerifInv, RxLine
<1>2. DOMAIN heard = 1..Len(heard)
  BY <1>1, LenProperties
<1>3. CASE got = << >> /\ \A n \in 1..Len(heard) : heard[n] # StartBit
  <2>1. Starts = {}
    BY <1>2, <1>3 DEF Starts
  <2> QED BY <1>3, <2>1 DEF BytesFromLine
<1>4. CASE rx.en /\ rx.started
  <2>1. PICK s \in 1..Len(heard) : Follows(heard, rx.cnt, got, s)
    BY <1>1, <1>4, Zenon DEF Captured
  <2>2. /\ heard[s] = StartBit /\ \A n \in 1..s-1 : heard[n] # StartBit
        /\ Len(heard) - s = Len(got) * (SampleSize + 1) + rx.cnt
        /\ \A k \in 1..Len(got) : got[k] = HeldBy(heard, s + k * (SampleSize + 1))
    BY <2>1 DEF Follows
  <2>3. Starts # {} /\ Start = s
    <3>1. s \in Starts
      BY <1>2, <2>2 DEF Starts
    <3>2. \A m \in Starts : m \in 1..Len(heard) /\ s <= m
      <4>1. ASSUME NEW m \in Starts  PROVE m \in 1..Len(heard) /\ s <= m
        <5>1. m \in 1..Len(heard) /\ heard[m] = StartBit
          BY <1>2 DEF Starts
        <5>2. ~(m \in 1..s-1)
          BY <2>2, <5>1
        <5> QED BY <1>1, <5>1, <5>2
      <4> QED BY <4>1
    <3>3. \A n \in Starts : (\A m \in Starts : n <= m) => n = s
      <4>1. ASSUME NEW n \in Starts, \A m \in Starts : n <= m  PROVE n = s
        <5>1. n <= s /\ s <= n /\ n \in 1..Len(heard)
          BY <3>1, <3>2, <4>1
        <5> QED BY <1>1, <5>1
      <4> QED BY <4>1
    <3>4. Start \in Starts /\ \A m \in Starts : Start <= m
      BY <3>1, <3>2 DEF Start
    <3>5. Start = s
      BY <3>3, <3>4
    <3> QED BY <3>1, <3>5
  <2> DEFINE M == SampleSize + 1
  <2>4. (Len(heard) - s) \div M = Len(got)
    <3>1. M \in Nat \ {0} /\ rx.cnt \in 0..M-1
      <4>1. rx.cnt \in Nat /\ rx.cnt <= SampleSize
        BY <1>1 DEF RxShape, RxRecord
      <4> QED BY <4>1, SampleAssumption
    <3>2. ASSUME NEW n, n = Len(heard) - s, NEW q, q = Len(got), NEW r, r = rx.cnt
          PROVE  n \div M = q
      <4>1. q \in Nat /\ r \in 0..M-1 /\ n = q * M + r
        BY <1>1, <2>2, <3>1, <3>2
      <4> HIDE DEF M
      <4> QED BY <3>1, <4>1, Quotient
    <3> QED BY <3>2
  <2>5. \A n : Shifted(n) = HeldBy(heard, n)
    BY DEF Shifted, HeldBy
  <2>6. \A k \in 1..Len(got) : got[k] = Shifted(s + k * (SampleSize + 1))
    BY <2>2, <2>5
  <2>7. got = [k \in 1..Len(got) |-> Shifted(s + k * (SampleSize + 1))]
    <3>1. got = [k \in 1..Len(got) |-> got[k]]
      BY <1>1
    <3> QED BY <2>6, <3>1
  <2> QED BY <2>3, <2>4, <2>7 DEF BytesFromLine
<1>5. CASE rx.en /\ ~rx.started
  <2>1. got = << >> /\ \A n \in 1..Len(heard) : heard[n] # StartBit
    BY <1>1, <1>5, Zenon DEF Captured
  <2> QED BY <1>3, <2>1
<1>6. CASE ~rx.en
  <2>1. heard = << >> /\ got = << >> /\ Len(heard) = 0
    BY <1>1, <1>6
  <2>2. \A n \in 1..Len(heard) : heard[n] # StartBit
    BY <2>1
  <2> QED BY <1>3, <2>1, <2>2
<1> QED BY <1>4, <1>5, <1>6

\* The types of the fields, and what they mean together.
LEMMA TypesFollow == PerifInv => PerifTypeOK
<1> SUFFICES ASSUME PerifInv PROVE PerifTypeOK
  OBVIOUS
<1>1. /\ cfg \in Configs /\ TxShape(tx) /\ Timed(tx) /\ tx \in TxRecord /\ Len(tx.fifo) <= Depth
      /\ RxShape(rx) /\ rx \in RxRecord
  BY DEF PerifInv, TxLine, RxLine, TxShape, RxShape
<1>2. tx.fifo \in ByteFifo(ByteLength)
  <2>1. \A b \in Bytes : b \in [1..ByteLength -> Bit]
    <3>1. ASSUME NEW b \in Bytes  PROVE b \in [1..ByteLength -> Bit]
      <4>1. (CHOOSE c \in Bytes : TRUE) \in Bytes
        OBVIOUS
      <4>2. Len(b) = ByteLength
        BY <4>1, ByteAssumption DEF ByteLength
      <4>3. b \in [1..Len(b) -> Bit]
        BY ByteAssumption, LenProperties
      <4> QED BY <4>2, <4>3
    <3> QED BY <3>1
  <2>2. tx.fifo \in Seq(Bytes)
    BY <1>1 DEF TxRecord
  <2> DEFINE S == [1..ByteLength -> Bit]
  <2>3. Bytes \subseteq S
    BY <2>1
  <2> HIDE DEF S
  <2>4. tx.fifo \in Seq(S)
    BY <2>2, <2>3
  <2> QED BY <1>1, <2>4 DEF ByteFifo, S
<1>3. rx.fifo \in ByteFifo(ShiftLength)
  BY <1>1 DEF ByteFifo, RxShape, RxRecord, Register
<1>4. /\ tx.fsm \in {"IDLE", "WIRE", "TST", "TRANSMIT", "CLKRUN"} /\ tx.clk_mode \in 0..3
      /\ {tx.clk_pin, tx.data_pin, tx.out_en} \subseteq Bit /\ tx.busy \in BOOLEAN
      /\ tx.frame \in Seq(Bit)
  BY <1>1 DEF TxRecord
<1>5. /\ tx.busy <=> tx.fsm \in {"WIRE", "TST", "TRANSMIT"}
      /\ tx.busy <=> tx.out_en = 1 /\ tx.index \in DOMAIN tx.frame
  <2>1. DOMAIN tx.frame = 1..Len(tx.frame)
    BY <1>4, LenProperties
  <2>2. /\ tx.busy <=> tx.fsm \in {"WIRE", "TST", "TRANSMIT"}
        /\ tx.busy <=> tx.out_en = 1
        /\ tx.index \in 1..Len(tx.frame) \/ ~tx.busy
    BY <1>1, Zenon DEF TxShape
  <2>3. tx.busy <=> tx.out_en = 1 /\ tx.index \in DOMAIN tx.frame
    BY <2>1, <2>2, Zenon
  <2> QED BY <2>2, <2>3, Zenon
<1>6. (CASE tx.fsm = "TRANSMIT" -> tx.phase \in 0 .. Half - 1
        [] tx.fsm = "CLKRUN" -> tx.phase \in 0 .. 2 * Half - 1
        [] tx.fsm = "IDLE" -> tx.phase = 0
        [] OTHER -> tx.phase < 0)
  BY <1>1, <1>4 DEF Timed
<1>7. rx.valid = (rx.fifo # << >>) /\ (rx.en => rx.due = 0)
  <2>1. (rx.valid <=> rx.fifo # << >>) /\ rx.valid \in BOOLEAN /\ (rx.en => rx.due = 0)
    BY <1>1, Zenon DEF RxShape, RxRecord
  <2> QED BY <2>1, Zenon
<1>8. rx.cnt \in 0..SampleSize /\ rx.next \in 0..RxPeriod
  <2>1. rx.cnt \in Nat
    BY <1>1 DEF RxRecord
  <2> QED BY <1>1, <2>1, SampleAssumption DEF RxShape
<1> QED BY <1>1, <1>2, <1>3, <1>4, <1>5, <1>6, <1>7, <1>8, Zenon DEF PerifTypeOK

\* The fields of a channel have their types and agree with each other.
THEOREM PerifTypes == PerifSpec => []PerifTypeOK
BY PerifInductive, TypesFollow, PTL

\* Every bit of a transmission of PerifChannel goes out once and in order, whatever
\* the delays, the frame size and the writes to R30 in the meantime.
THEOREM FramesInOrder == PerifSpec => []BitsInOrder
BY PerifInductive, OrderFollows, PTL

\* However the time line is cut into advances, neither clock of PerifChannel drifts:
\* bits sent and levels sampled are what the elapsed time gives.
THEOREM GridKept == PerifSpec => []NoDrift
BY PerifInductive, GridFollows, PTL

\* The bytes that sample_edge and capture_byte make are those of the line behind the
\* first start bit, whatever happens to the FIFO and the frame count.
THEOREM BytesOfTheLine == PerifSpec => []BytesFromLine
BY PerifInductive, BytesFollow, PTL

\* advance() stops a clock only at the end of a transmission in mode 3, or with the
\* last byte of a received frame in modes 0 and 1, at the level of the mode.
THEOREM ClockStops == PerifSpec => ClockStopsRight
<1>1. PerifInv /\ [PerifNext]_perifVars =>
        [tx.fsm # "IDLE" /\ tx'.fsm = "IDLE" /\ (\E d \in Durations : Advance(d)) =>
           \/ tx.clk_mode = 3 /\ tx.busy /\ sent' = owed /\ tx'.clk_pin = 1
           \/ tx.clk_mode \in {0, 1} /\ rx'.eof /\ Len(got') > Len(got) /\ tx'.clk_pin = tx.clk_mode]_perifVars
  <2> SUFFICES ASSUME PerifInv, NEW d \in Durations, Advance(d), tx.fsm # "IDLE", tx'.fsm = "IDLE"
               PROVE  \/ tx.clk_mode = 3 /\ tx.busy /\ sent' = owed /\ tx'.clk_pin = 1
                      \/ /\ tx.clk_mode \in {0, 1} /\ rx'.eof /\ Len(got') > Len(got)
                         /\ tx'.clk_pin = tx.clk_mode
    OBVIOUS
  <2>1. d \in Nat
    BY DurationAssumption
  <2>2. TimedStep
    BY <2>1, AdvanceLines
  <2> QED BY <2>2 DEF TimedStep
<1> QED BY <1>1, PerifInductive, PTL DEF PerifSpec, ClockStopsRight
=============================================================================
