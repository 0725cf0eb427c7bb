----------------------------- MODULE Dashboard -----------------------------
(***************************************************************************)
(* The dashboard server of ui/server.py: several browser views of one      *)
(* simulator, one of which may own the running execution.                  *)
(*                                                                         *)
(* A request is handled in two parts with an await between them.  The      *)
(* first changes the simulator and queues the reply; when the view has     *)
(* taken the reply the second publishes the simulator's state to all       *)
(* other views.  While the owner's run goes on, its publications are       *)
(* throttled: inside the interval one is withheld, and a timer publishes   *)
(* at the end of the interval.  Other handlers run during every await.     *)
(*                                                                         *)
(* What a view shows is in panels: one for each core, and its windows into *)
(* memory.  A publication brings all of them, a reply only those that its  *)
(* request is about, and the view that made the request is left out of the *)
(* publication.  So a panel is current, or an older state is in it and the *)
(* mark says why.  A view's queue is an ordered stream (module             *)
(* ViewStream), so a panel counts as current as soon as its newest state   *)
(* is queued; a reply of several messages counts as of its first, when no  *)
(* other handler has run.  A view that loses its connection leaves.        *)
(***************************************************************************)

CONSTANTS
    Views,          \* the browser views
    NoView,         \* no owner, and the origin of a publication to all
    Panels,         \* what a view shows: the simulator's cores and, if it has
                    \* them open, its windows into memory
    MemoryPanel     \* those windows

ASSUME DashboardAssumption == NoView \notin Views

VARIABLES
    connections,    \* _connections
    screen,         \* what is in each view's panels
    handling,       \* the request each view's handler replies to
    owner,          \* _execution_owner
    recent,         \* the interval since _last_observer_publish has not passed
    skipped,        \* _observer_publish_skipped
    timer           \* _trailing_publish

\* What a handler may be in the middle of
Requests == {"nothing", "run", "step", "edit"}

ShownCores == Panels \ {MemoryPanel}

\* The newest state is in a panel, or it changed since, and the change is to
\* be published; or a publication left the view out as its origin; or the
\* request failed before its publication
Marks == {"current", "due", "origin", "failure"}

throttle == <<recent, skipped, timer>>
vars == <<connections, screen, handling, owner, throttle>>

-----------------------------------------------------------------------------
(***************************************************************************)
(* What a step does to the panels.  Each of these is a value for screen,   *)
(* from the panels as the step finds them (shown).                         *)
(***************************************************************************)

AllCurrent == [p \in Panels |-> "current"]

\* What is due does not come, and the mark says why
Excused(panels, why) == [p \in Panels |-> IF panels[p] = "due" THEN why ELSE panels[p]]

\* v's request changes some panels and its reply carries others.  The other
\* views are to be told by the publication, which leaves v out.
After(v, changed, reply) ==
    [u \in Views |-> [p \in Panels |->
        CASE u = v /\ p \in reply -> "current"
          [] u = v /\ p \in changed \ reply -> "origin"
          [] u \in connections \ {v} /\ p \in changed -> "due"
          [] OTHER -> screen[u][p]]]

\* All observers get everything; the origin of the publication gets nothing
Published(shown, origin) ==
    [v \in Views |-> IF v \in connections' \ {origin} THEN AllCurrent
                     ELSE IF v = origin THEN Excused(shown[v], "origin")
                     ELSE shown[v]]

-----------------------------------------------------------------------------
(***************************************************************************)
(* _publish_updates.                                                       *)
(***************************************************************************)

\* Every view but the origin gets the state of this moment, the interval
\* starts anew, and a trailing publication is superfluous
SendTo(origin, shown) ==
    /\ screen' = Published(shown, origin)
    /\ recent' = TRUE
    /\ skipped' = FALSE
    /\ timer' = "off"

\* Seeded fault: a withheld state waits for the next publication
WithholdForGood(shown) == screen' = shown /\ skipped' = TRUE /\ UNCHANGED <<recent, timer>>

\* The state is withheld; one timer per interval will send it
Withhold(shown) ==
    /\ screen' = shown
    /\ skipped' = TRUE
    /\ timer' = IF timer = "off" THEN "armed" ELSE timer
    /\ UNCHANGED recent

\* A state is withheld, and the timer will send it
WithheldAndTimed == skipped /\ timer # "off"

\* A publication by origin; the early return without observers comes first
Publish(origin, throttled, shown) ==
    \/ /\ connections' \ {origin} = {}
       /\ screen' = shown
       /\ UNCHANGED throttle
    \/ /\ connections' \ {origin} # {}
       /\ IF throttled /\ recent THEN Withhold(shown) ELSE SendTo(origin, shown)

\* _flush_skipped_publish, to all
Flush(shown) ==
    \/ skipped /\ Publish(NoView, FALSE, shown)
    \/ ~skipped /\ screen' = shown /\ UNCHANGED throttle

-----------------------------------------------------------------------------
(***************************************************************************)
(* Requests.  A view sends its next one when the last is done.             *)
(***************************************************************************)

Idle(v) == v \in connections /\ handling[v] = "nothing"

\* The first part of a request that changes the simulator, up to the reply.
\* Cores and devices reach each other and memory, so any panels may change;
\* none do when the request is refused.
Change(v, request, reply) ==
    /\ \E changed \in SUBSET Panels : screen' = After(v, changed, reply)
    /\ handling' = [handling EXCEPT ![v] = request]
    /\ UNCHANGED <<connections, throttle>>

OneCore == {{c} : c \in ShownCores}
SomeCores == SUBSET ShownCores \ {{}}

MayExecute(v) == owner \in {NoView, v}

\* "run", "run_multicore": a chunk of the owner's run, or an unmanaged one.
\* The cores that ran are in the reply.
RunChunk(v) ==
    /\ Idle(v) /\ MayExecute(v)
    /\ \E reply \in SomeCores : Change(v, "run", reply)
    /\ UNCHANGED owner

\* "step" replies with its core and with memory, "step_multicore" with its cores
StepReplies == {{c, MemoryPanel} : c \in ShownCores} \cup (SomeCores \ OneCore)

Step(v) ==
    /\ Idle(v) /\ MayExecute(v)
    /\ \E reply \in StepReplies : Change(v, "step", reply)
    /\ UNCHANGED owner

\* "set_input", "set_register", breakpoints, device requests ... reply with
\* their core, "fill_memory" with the windows, "write_memory" and
\* "uart_inject" with an acknowledgement.  Any view may send them during a run.
EditReplies == OneCore \cup {{MemoryPanel}, {}}

Edit(v) ==
    /\ Idle(v)
    /\ \E reply \in EditReplies : Change(v, "edit", reply)
    /\ UNCHANGED owner

\* "set_loopback" changes and publishes without a reply to wait for
SetLoopback(v) ==
    /\ Idle(v)
    /\ UNCHANGED <<connections, handling, owner>>
    /\ \E changed \in SUBSET Panels : Publish(v, FALSE, After(v, changed, {}))

\* "load", "load_elf", "reset", "hard_reset", "step_back", "scenario_load"
\* stop the run first; the last two may reply with several cores
TakeOver(v) ==
    /\ Idle(v)
    /\ \E reply \in SomeCores : Change(v, "edit", reply)
    /\ owner' = NoView

\* "load_elf" with data that cannot be decoded stops the run and then skips
\* the rest of the request
UndecodableElf(v) ==
    /\ Idle(v) /\ owner # NoView
    /\ owner' = NoView
    /\ UNCHANGED <<connections, screen, handling, throttle>>

\* "get_state" and "read_memory" bring one panel, and so does the reply to an
\* execution request that is refused
Refresh(v) ==
    /\ Idle(v)
    /\ \E p \in Panels : screen' = After(v, {}, {p})
    /\ UNCHANGED <<connections, handling, owner, throttle>>

\* "start_execution": the first chunk of a new run is always published
StartExecution(v) ==
    /\ Idle(v) /\ MayExecute(v)
    /\ owner' = v
    /\ recent' = FALSE
    /\ UNCHANGED <<connections, screen, handling, skipped, timer>>

\* "stop_execution" from any view, or "set_execution_cores" with other cores
StopExecution(v) ==
    /\ Idle(v)
    /\ owner' = NoView
    /\ UNCHANGED <<connections, handling>>
    /\ Flush(screen)

\* A run or a step that hits a breakpoint, halts or ends its program stops
OwnerAfter(v, finished) == IF owner = v /\ finished THEN NoView ELSE owner

\* The second part of a request: publish, throttled for a run that goes on
Announce(v) ==
    /\ handling[v] # "nothing"
    /\ \E finished \in IF handling[v] = "edit" THEN {FALSE} ELSE BOOLEAN :
           owner' = OwnerAfter(v, finished)
    /\ handling' = [handling EXCEPT ![v] = "nothing"]
    /\ UNCHANGED connections
    /\ Publish(v, handling[v] = "run" /\ owner' = v, screen)

\* PUT /config, /config/clock_speed: a new simulator, published at once
ReplaceConfig ==
    /\ owner' = NoView
    /\ UNCHANGED <<connections, handling>>
    /\ Publish(NoView, FALSE, After(NoView, Panels, {}))

-----------------------------------------------------------------------------
(***************************************************************************)
(* Connections and time.                                                   *)
(***************************************************************************)

\* A view connects; nothing old is in its panels
Connect(v) ==
    /\ v \notin connections
    /\ connections' = connections \cup {v}
    /\ screen' = [screen EXCEPT ![v] = AllCurrent]
    /\ UNCHANGED <<handling, owner, throttle>>

OwnerWithout(v) == IF owner = v THEN NoView ELSE owner

\* The finally clause of websocket_endpoint: an owner's run ends with it, and
\* what was withheld is published
Leave(v) ==
    /\ connections' = connections \ {v}
    /\ handling' = [handling EXCEPT ![v] = "nothing"]
    /\ owner' = OwnerWithout(v)

LeaveFlushes(v) == owner = v /\ skipped

Without(v) == [screen EXCEPT ![v] = AllCurrent]

\* The view goes away between requests
Disconnect(v) ==
    /\ Idle(v)
    /\ Leave(v)
    /\ IF LeaveFlushes(v) THEN Publish(NoView, FALSE, Without(v))
       ELSE screen' = Without(v) /\ UNCHANGED throttle

\* The view goes away before it took its reply: awaiting the reply raises, and
\* the second part of the request never runs.  What others are owed is lost
\* unless the timer runs, whose publication brings everything.
ReplyFails(v) ==
    /\ handling[v] # "nothing"
    /\ Leave(v)
    /\ IF LeaveFlushes(v) THEN Publish(NoView, FALSE, Without(v))
       ELSE /\ screen' = IF WithheldAndTimed THEN Without(v)
                         ELSE [u \in Views |-> Excused(Without(v)[u], "failure")]
            /\ UNCHANGED throttle

\* The interval passes; a timer set in it comes due
IntervalPasses ==
    /\ recent \/ timer = "armed"
    /\ recent' = FALSE
    /\ timer' = IF timer = "armed" THEN "due" ELSE timer
    /\ UNCHANGED <<connections, screen, handling, owner, skipped>>

\* _publish_trailing; the owner is left out
TimerFires ==
    /\ timer = "due"
    /\ UNCHANGED <<connections, handling, owner>>
    /\ \/ skipped /\ connections' \ {owner} # {} /\ SendTo(owner, screen)
       \/ /\ ~skipped \/ connections' \ {owner} = {}
          /\ timer' = "off"
          /\ screen' = [v \in Views |-> IF v = owner THEN Excused(screen[v], "origin")
                                        ELSE screen[v]]
          /\ UNCHANGED <<recent, skipped>>

-----------------------------------------------------------------------------
Init ==
    /\ connections = {}
    /\ screen = [v \in Views |-> AllCurrent]
    /\ handling = [v \in Views |-> "nothing"]
    /\ owner = NoView
    /\ recent = FALSE /\ skipped = FALSE /\ timer = "off"

Request(v) ==
    \/ RunChunk(v) \/ Step(v) \/ Edit(v) \/ SetLoopback(v) \/ TakeOver(v)
    \/ UndecodableElf(v) \/ Refresh(v) \/ StartExecution(v) \/ StopExecution(v)

Next ==
    \/ \E v \in Views : \/ Request(v) \/ Announce(v)
                        \/ Connect(v) \/ Disconnect(v) \/ ReplyFails(v)
    \/ ReplaceConfig \/ IntervalPasses \/ TimerFires

Spec == Init /\ [][Next]_vars

\* Every awaited reply ends (ViewStream: EveryReplyResolves), time passes and
\* a due timer's callback runs.  No view has to send anything.
FairSpec ==
    /\ Spec
    /\ \A v \in Views : WF_vars(Announce(v) \/ ReplyFails(v))
    /\ WF_vars(IntervalPasses) /\ WF_vars(TimerFires)

-----------------------------------------------------------------------------
(***************************************************************************)
(* Properties.                                                             *)
(***************************************************************************)

\* The variables keep their types, and a trailing timer runs only while there
\* is a withheld state for it to send.
TypeOK ==
    /\ connections \subseteq Views
    /\ screen \in [Views -> [Panels -> Marks]]
    /\ handling \in [Views -> Requests]
    /\ owner \in Views \cup {NoView}
    /\ timer \in {"off", "armed", "due"}
    /\ recent \in BOOLEAN /\ skipped \in BOOLEAN
    /\ timer # "off" => skipped

\* A run never outlives its view: whatever ends the connection of the owner,
\* in whichever part of a request, nobody else is locked out of execution.
OwnerIsConnected == owner # NoView => owner \in connections

Due(v, p) == v \in connections /\ screen[v][p] = "due"

\* A panel with an old state has a publication coming: another view's handler
\* still to announce its change, or a withheld state with its timer running.
\* No order of chunks, edits, stops, timers and views that come and go leaves
\* a panel silently behind, but the two cases that its mark records: a request
\* that failed between its parts, and a publication that left out the view
\* as its origin although the reply did not carry the panel.
StaleViewsArePending ==
    \A v \in Views, p \in Panels :
        Due(v, p) => \/ \E u \in Views \ {v} : handling[u] # "nothing"
                     \/ WithheldAndTimed

\* Every panel of a connected view that is due comes to show the newest state
\* although the owner of the run may never send another request, with the
\* same two exceptions.
ViewsCatchUp == \A v \in Views, p \in Panels : Due(v, p) ~> ~Due(v, p)

\* docs/simulator_dashboard.md says of several screens "All views receive its
\* updates" and that the others stay connected to the same simulator when the
\* controlling view closes: no failing reply leaves another view behind.
FailedRepliesAreSeen ==
    \A v \in Views, p \in Panels : Due(v, p) ~> screen[v][p] \in {"current", "origin"}

\* docs/simulator_dashboard.md says of a run "All views receive its updates",
\* and _publish_trailing that when the chunks end "observers get the newest
\* state anyway": what ends the wait for a withheld state brings that state to
\* every observer that lacks it, or leaves another publication to come.
WithheldStatesAreSent ==
    [][\A v \in Views, p \in Panels :
          Due(v, p) /\ WithheldAndTimed /\ v # owner /\ v \in connections' =>
              \/ WithheldAndTimed'
              \/ screen'[v][p] = "current"
              \/ \E u \in Views \ {v} : handling'[u] # "nothing"]_vars
=============================================================================
