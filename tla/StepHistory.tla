---------------------------- MODULE StepHistory ----------------------------
(***************************************************************************)
(* The dashboard's step-back history: ui/server.py keeps, for each core,   *)
(* the snapshots its recorded steps took, and one list of all of them in   *)
(* the order they were taken.  A recorded step snapshots the whole         *)
(* simulator before it runs; stepping a core back restores the newest      *)
(* snapshot that core recorded and forgets it with everything after it.    *)
(*                                                                         *)
(* The simulator is a function from its parts (the cores, and the parts    *)
(* they share: memory, IEP, devices, accelerators) to a stamp that is new  *)
(* at every change.  A snapshot holds the parts in Captured; the queues of *)
(* the task ring, XFRDMA and XFR2VBUS are parts that it does not hold.     *)
(* Object identity, which the code compares with "is" and id(), is the     *)
(* stamp at which a snapshot was taken.                                    *)
(*                                                                         *)
(* path and at are history variables: path is the sequence of simulator    *)
(* states that led to the present one since the history was last cleared,  *)
(* and a snapshot's field "at" is its place on that path.                  *)
(***************************************************************************)
EXTENDS Naturals, Sequences, SequencesExt

CONSTANTS
    Cores,          \* the target's cores
    Shared,         \* the parts the cores share
    Captured,       \* the parts that a snapshot holds
    MaxHistory,     \* _MAX_HISTORY, 500 in the code
    MaxNow          \* bound: recorded steps, runs, edits and clears

ASSUME HistoryAssumption == /\ MaxHistory \in Nat \ {0}
                            /\ Captured \subseteq Cores \cup Shared

VARIABLES
    machine,        \* [part -> the stamp of its last change]
    order,          \* _history_order: the recorded steps, oldest first
    history,        \* _history: the snapshots of each core's steps
    now,            \* the newest stamp
    path            \* history variable: the states that led here

historyVars == <<machine, order, history, now, path>>

Parts == Cores \cup Shared

Machines == [Parts -> Nat]

Snapshots == [parts : [Captured -> Nat], id : Nat, at : Nat]

\* _snapshot: every captured part, of every core, at one point in time
Snapshot == [parts |-> [p \in Captured |-> machine[p]],
             id |-> now + 1, at |-> Len(path)]

-----------------------------------------------------------------------------
(***************************************************************************)
(* What the operations do to the simulator and to the two lists.           *)
(***************************************************************************)

\* The parts in touched change; the simulator moves on along its path
Touch(touched) ==
    /\ machine' = [p \in Parts |-> IF p \in touched THEN now + 1 ELSE machine[p]]
    /\ path' = IF touched = {} THEN path ELSE Append(path, machine')

\* Take the oldest recorded step out of its core's list
WithoutOldest(lists, entries) ==
    LET oldest == Head(entries)
    IN  [lists EXCEPT ![oldest.core] =
             SelectSeq(@, LAMBDA snap : snap.id # oldest.snap.id)]

Overfull(entries) == Len(entries) > MaxHistory

\* _record_step: append to both lists, then drop the oldest beyond the limit
Record(c) ==
    LET lists == [history EXCEPT ![c] = Append(@, Snapshot)]
        entries == Append(order, [core |-> c, snap |-> Snapshot])
    IN  /\ order' = IF Overfull(entries) THEN Tail(entries) ELSE entries
        /\ history' = IF Overfull(entries) THEN WithoutOldest(lists, entries) ELSE lists

\* The places of c's steps in the shared order
StepsOf(c) == {i \in DOMAIN order : order[i].core = c}

\* (mutant) undo forgets the step of the core, and no later one of a peer
OnlyThatStep(i) == RemoveAt(order, i)

\* What is left of the shared order when its entry i is undone
Before(i) == SubSeq(order, 1, i - 1)

\* (mutant) undo restores the cores and leaves what they share
OnlyTheCores(snap) ==
    [p \in Parts |-> IF p \in Captured \ Shared THEN snap.parts[p] ELSE machine[p]]

\* _restore: every captured part goes back; the others stay as they are
Restored(snap) ==
    [p \in Parts |-> IF p \in Captured THEN snap.parts[p] ELSE machine[p]]

-----------------------------------------------------------------------------
(***************************************************************************)
(* The dashboard's actions.                                                *)
(***************************************************************************)

HistoryInit ==
    /\ machine = [p \in Parts |-> 0]
    /\ order = <<>>
    /\ history = [c \in Cores |-> <<>>]
    /\ now = 0
    /\ path = <<machine>>

Tick == now < MaxNow /\ now' = now + 1

\* "step" and "step_multicore": the history records the step under its lead
\* before any instruction runs, so also when none does (a halted core, an
\* error, a catch-up that is out of budget)
StepTogether(lead, partners) ==
    /\ Tick
    /\ Record(lead)
    /\ \E touched \in SUBSET ({lead} \cup partners \cup Shared) : Touch(touched)

\* "run" and "run_multicore" execute without recording; "write_memory",
\* "set_register", "set_input", "gpcfg_write" ... edit one part
RunOrEdit ==
    /\ Tick
    /\ \E touched \in {{p} : p \in Parts} \cup {Parts} : Touch(touched)
    /\ UNCHANGED <<order, history>>

\* Undo the recorded step at place i of the order, and all after it
Undo(i) ==
    LET snap == order[i].snap
        discarded == {order[j].snap.id : j \in i .. Len(order)}
    IN  /\ machine' = Restored(snap)
        /\ order' = Before(i)
        /\ history' = [d \in Cores |->
               SelectSeq(history[d], LAMBDA s : s.id \notin discarded)]
        /\ path' = SubSeq(path, 1, snap.at)
        /\ UNCHANGED now

\* "step_back": the backward search stops at the core's newest step
StepBack(c) ==
    \E i \in StepsOf(c) : /\ \A j \in StepsOf(c) : j <= i
                         /\ Undo(i)

\* "step_back" of a core that recorded no step: _step_back returns False
NothingToUndo(c) == StepsOf(c) = {} /\ UNCHANGED historyVars

\* "load", "reset", "hard_reset", a device, scenario, clock or configuration
\* change: _clear_history, and a simulator changed in any of its parts
ClearHistory ==
    /\ Tick
    /\ \E touched \in {{p} : p \in Parts} \cup {{}, Parts} :
           machine' = [p \in Parts |-> IF p \in touched THEN now + 1 ELSE machine[p]]
    /\ order' = <<>>
    /\ history' = [c \in Cores |-> <<>>]
    /\ path' = <<machine'>>

HistoryNext ==
    \/ \E lead \in Cores : \E partners \in {{}, Cores \ {lead}} : StepTogether(lead, partners)
    \/ RunOrEdit
    \/ \E c \in Cores : StepBack(c) \/ NothingToUndo(c)
    \/ ClearHistory

HistorySpec == HistoryInit /\ [][HistoryNext]_historyVars

-----------------------------------------------------------------------------
(***************************************************************************)
(* Properties.                                                             *)
(***************************************************************************)

\* The variables keep their types and the history its limit.
HistoryTypeOK ==
    /\ machine \in Machines
    /\ order \in Seq([core : Cores, snap : Snapshots])
    /\ Len(order) <= MaxHistory
    /\ history \in [Cores -> Seq(Snapshots)]
    /\ now \in Nat
    /\ path \in Seq(Machines)

\* The two records of the history never diverge: each core's list holds
\* exactly its entries of the shared order, in that order, although one is
\* trimmed by position and the other by identity (_record_step, _step_back).
ListsAgree ==
    \A c \in Cores :
        history[c] = LET own == SelectSeq(order, LAMBDA e : e.core = c)
                     IN  [i \in DOMAIN own |-> own[i].snap]

\* Every state that step-back could restore, of any core, is a state the
\* whole simulator passed through on its way to the present one, and the
\* recorded steps lie on that way in their order: undo never mixes the cores
\* of two moments, never brings back a future that an earlier undo abandoned,
\* and never reaches behind a reset.
UndoStaysOnPath ==
    /\ \A i \in DOMAIN order :
           /\ order[i].snap.at \in DOMAIN path
           /\ \A p \in Captured : order[i].snap.parts[p] = path[order[i].snap.at][p]
    /\ \A i, j \in DOMAIN order : i < j => order[i].snap.at <= order[j].snap.at

\* The simulator agrees with the end of its path in every captured part:
\* after undo all cores, the memory and the devices are at one moment.
PresentIsOnPath ==
    /\ path # <<>>
    /\ \A p \in Captured : machine[p] = path[Len(path)][p]
=============================================================================
