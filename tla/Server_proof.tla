---------------------------- MODULE Server_proof ----------------------------
(***************************************************************************)
(* Theorems about the server of the dashboard: its publications, for every *)
(* set of views, and its step-back history, for every set of cores and     *)
(* parts and every limit.                                                  *)
(*                                                                         *)
(* StaleViewsArePending is inductive once requests in hand belong to       *)
(* connected views and a running timer has a withheld state to send.  The  *)
(* three ways a publication can go (sent, withheld, nobody to send to) are *)
(* treated once, in PublishCovers, and every action that publishes refers  *)
(* to it; those that publish nothing make no panel due (NothingNewDue) or  *)
(* leave the timer running, and a failed request marks what it loses.      *)
(*                                                                         *)
(* UndoStaysOnPath and PresentIsOnPath are inductive together with the     *)
(* types of the shared order and the path (HistoryInv).  The core's own    *)
(* lists, which the code filters by identity, play no part in what undo    *)
(* restores.                                                               *)
(***************************************************************************)
EXTENDS Dashboard, StepHistory, TLAPS

-----------------------------------------------------------------------------
(* Publications. *)

Screens == [Views -> [Panels -> Marks]]

ViewTypes ==
    /\ connections \subseteq Views
    /\ screen \in Screens
    /\ handling \in [Views -> Requests]
    /\ owner \in Views \cup {NoView}
    /\ timer \in {"off", "armed", "due"}
    /\ timer # "off" => skipped

BusyAreConnected == \A v \in Views : handling[v] # "nothing" => v \in connections

ViewInv == ViewTypes /\ BusyAreConnected /\ OwnerIsConnected /\ StaleViewsArePending

\* What a publication leaves due is withheld with the timer running, or there
\* was nobody but the origin and everything is as it was.
Covered(origin, shown) ==
    \A v \in Views, p \in Panels :
        Due(v, p)' => \/ WithheldAndTimed'
                      \/ v = origin /\ shown[v][p] = "due" /\ UNCHANGED throttle
-----------------------------------------------------------------------------
LEMMA ViewInit == Init => ViewInv
<1> SUFFICES ASSUME Init PROVE ViewInv
  OBVIOUS
<1>1. ViewTypes
  BY DEF Init, ViewTypes, Screens, AllCurrent, Marks, Requests
<1>2. \A v \in Views, p \in Panels : ~Due(v, p)
  BY DEF Init, Due
<1> QED
  BY <1>1, <1>2 DEF Init, ViewInv, BusyAreConnected, OwnerIsConnected, StaleViewsArePending

\* What a request does to the panels: the requester's own are due only if they
\* were before.
LEMMA AfterFacts ==
  ASSUME screen \in Screens, NEW v, NEW changed, NEW reply
  PROVE  /\ After(v, changed, reply) \in Screens
         /\ v \in Views => \A p \in Panels :
               After(v, changed, reply)[v][p] = "due" => screen[v][p] = "due"
<1>1. ASSUME NEW u \in Views, NEW p \in Panels
      PROVE  /\ After(v, changed, reply)[u][p] \in Marks
             /\ u = v /\ After(v, changed, reply)[u][p] = "due" => screen[u][p] = "due"
  <2>1. screen[u][p] \in Marks
    BY <1>1 DEF Screens
  <2>2. After(v, changed, reply)[u][p] =
          CASE u = v /\ p \in reply -> "current"
            [] u = v /\ p \in changed \ reply -> "origin"
            [] u \in connections \ {v} /\ p \in changed -> "due"
            [] OTHER -> screen[u][p]
    BY <1>1 DEF After
  <2> QED
    BY <2>1, <2>2 DEF Marks
<1>2. \A u \in Views : After(v, changed, reply)[u] = [p \in Panels |-> After(v, changed, reply)[u][p]]
  BY DEF After
<1>3. After(v, changed, reply) = [u \in Views |-> After(v, changed, reply)[u]]
  BY DEF After
<1>4. \A u \in Views : After(v, changed, reply)[u] \in [Panels -> Marks]
  BY ONLY <1>1, <1>2
<1> QED
  BY <1>1, <1>3, <1>4 DEF Screens

LEMMA ExcusedFacts ==
  ASSUME NEW panels \in [Panels -> Marks], NEW why \in {"origin", "failure"}
  PROVE  /\ Excused(panels, why) \in [Panels -> Marks]
         /\ \A p \in Panels : Excused(panels, why)[p] # "due"
  BY DEF Excused, Marks

LEMMA PublishCovers ==
  ASSUME ViewTypes, connections' \subseteq Views, NEW shown \in Screens,
         NEW origin, NEW throttled, Publish(origin, throttled, shown)
  PROVE  /\ screen' \in Screens
         /\ timer' \in {"off", "armed", "due"}
         /\ timer' # "off" => skipped'
         /\ Covered(origin, shown)
         /\ throttled = FALSE =>
              \A v \in Views \ {origin}, p \in Panels : ~Due(v, p)'
<1> USE DEF ViewTypes, Covered, Due
<1>1. CASE connections' \ {origin} = {} /\ screen' = shown /\ UNCHANGED throttle
  BY <1>1 DEF throttle
<1>2. CASE Withhold(shown) /\ throttled # FALSE
  BY <1>2 DEF Withhold, WithheldAndTimed
<1>3. CASE SendTo(origin, shown)
  <2>1. screen' = [v \in Views |-> IF v \in connections' \ {origin} THEN AllCurrent
                                  ELSE IF v = origin THEN Excused(shown[v], "origin")
                                  ELSE shown[v]]
        /\ timer' = "off"
    BY <1>3 DEF SendTo, Published
  <2>2. AllCurrent \in [Panels -> Marks] /\ \A p \in Panels : AllCurrent[p] # "due"
    BY DEF AllCurrent, Marks
  <2>3. \A v \in Views : shown[v] \in [Panels -> Marks]
    BY DEF Screens
  <2>4. \A v \in Views : /\ screen'[v] \in [Panels -> Marks]
                         /\ v \in connections' => \A p \in Panels : screen'[v][p] # "due"
    BY <2>1, <2>2, <2>3, ExcusedFacts
  <2> QED
    BY <2>1, <2>4 DEF Screens
<1> QED
  BY <1>1, <1>2, <1>3 DEF Publish

\* The first part of a request: the others' panels become due, and the handler
\* is to announce it.
LEMMA ChangeKeepsInv ==
  ASSUME ViewInv, NEW v \in Views, Idle(v), NEW r \in {"run", "step", "edit"},
         NEW reply, Change(v, r, reply), owner' \in {owner, NoView}
  PROVE  ViewInv'
<1> USE DEF ViewInv
<1>1. PICK changed : screen' = After(v, changed, reply)
  BY DEF Change
<1>2. screen' \in Screens /\ \A p \in Panels : screen'[v][p] = "due" => screen[v][p] = "due"
  BY <1>1, AfterFacts DEF ViewTypes
<1>3. /\ handling' = [handling EXCEPT ![v] = r]
      /\ UNCHANGED <<connections, throttle>>
  BY DEF Change
<1>4. ViewTypes' /\ handling'[v] = r
  BY <1>2, <1>3 DEF ViewTypes, throttle, Requests
<1>5. BusyAreConnected' /\ OwnerIsConnected'
  BY <1>3 DEF BusyAreConnected, OwnerIsConnected, Idle, ViewTypes
<1>6. StaleViewsArePending'
  <2> SUFFICES ASSUME NEW u \in Views, NEW p \in Panels, Due(u, p)'
               PROVE  (\E w \in Views \ {u} : handling'[w] # "nothing") \/ WithheldAndTimed'
    BY DEF StaleViewsArePending
  <2>1. CASE u # v
    BY <1>4, <2>1
  <2>2. CASE u = v
    <3>1. Due(u, p)
      BY <1>2, <1>3, <2>2 DEF Due
    <3>2. (\E w \in Views \ {u} : handling[w] # "nothing") \/ WithheldAndTimed
      BY <3>1 DEF StaleViewsArePending
    <3> QED
      BY <1>3, <2>2, <3>2 DEF WithheldAndTimed, throttle, ViewTypes
  <2> QED
    BY <2>1, <2>2
<1> QED
  BY <1>4, <1>5, <1>6

\* A step in which no panel becomes due keeps what is pending, if the handlers
\* and the timer stay.
LEMMA NothingNewDue ==
  ASSUME StaleViewsArePending,
         \A u \in Views, p \in Panels : Due(u, p)' => Due(u, p),
         \A u \in Views : handling[u] # "nothing" => handling'[u] # "nothing",
         WithheldAndTimed => WithheldAndTimed'
  PROVE  StaleViewsArePending'
<1> SUFFICES ASSUME NEW u \in Views, NEW p \in Panels, Due(u, p)'
             PROVE  (\E w \in Views \ {u} : handling'[w] # "nothing") \/ WithheldAndTimed'
  BY DEF StaleViewsArePending
<1>1. (\E w \in Views \ {u} : handling[w] # "nothing") \/ WithheldAndTimed
  BY DEF StaleViewsArePending
<1> QED
  BY <1>1

\* A panel brought by a reply, and a view that connects.
LEMMA RefreshKeepsInv ==
  ASSUME ViewInv, NEW v \in Views, Refresh(v) \/ Connect(v)
  PROVE  ViewInv'
<1> USE DEF ViewInv
<1>1. /\ UNCHANGED <<handling, owner, throttle>>
      /\ connections' \in {connections, connections \cup {v}}
  BY DEF Refresh, Connect
<1>2. screen' \in Screens /\ \A u \in Views, p \in Panels : Due(u, p)' => Due(u, p)
  <2>1. CASE Refresh(v)
    <3>1. PICK q \in Panels : screen' = After(v, {}, {q})
      BY <2>1 DEF Refresh
    <3>2. screen' \in Screens
      BY <3>1, AfterFacts DEF ViewTypes
    <3>3. \A u \in Views, p \in Panels :
             screen'[u][p] = IF u = v /\ p = q THEN "current" ELSE screen[u][p]
      BY <3>1 DEF After
    <3> QED
      BY <2>1, <3>2, <3>3 DEF Refresh, Due
  <2>2. CASE Connect(v)
    <3>1. screen' = [screen EXCEPT ![v] = AllCurrent] /\ connections' = connections \cup {v}
      BY <2>2 DEF Connect
    <3>2. AllCurrent \in [Panels -> Marks] /\ \A p \in Panels : AllCurrent[p] # "due"
      BY DEF AllCurrent, Marks
    <3> QED
      BY <3>1, <3>2 DEF Due, Screens, ViewTypes
  <2> QED
    BY <2>1, <2>2
<1>3. StaleViewsArePending'
  BY <1>1, <1>2, NothingNewDue DEF throttle, WithheldAndTimed
<1> QED
  BY <1>1, <1>2, <1>3 DEF ViewTypes, BusyAreConnected, OwnerIsConnected, throttle

\* "set_loopback" changes and publishes in one step.
LEMMA LoopbackKeepsInv ==
  ASSUME ViewInv, NEW v \in Views, SetLoopback(v)
  PROVE  ViewInv'
<1> USE DEF ViewInv
<1>1. UNCHANGED <<connections, handling, owner>>
  BY DEF SetLoopback
<1>2. PICK changed : Publish(v, FALSE, After(v, changed, {}))
  BY DEF SetLoopback
<1> DEFINE shown == After(v, changed, {})
<1>3. shown \in Screens /\ \A p \in Panels : shown[v][p] = "due" => screen[v][p] = "due"
  BY AfterFacts DEF ViewTypes
<1>4. connections' \subseteq Views /\ Publish(v, FALSE, shown)
  BY <1>1, <1>2 DEF ViewTypes
<1> HIDE DEF shown
<1>5. /\ screen' \in Screens
      /\ timer' \in {"off", "armed", "due"}
      /\ timer' # "off" => skipped'
      /\ Covered(v, shown)
  BY <1>3, <1>4, PublishCovers
<1>6. StaleViewsArePending'
  <2> SUFFICES ASSUME NEW u \in Views, NEW p \in Panels, Due(u, p)', ~WithheldAndTimed'
               PROVE  \E w \in Views \ {u} : handling'[w] # "nothing"
    BY DEF StaleViewsArePending
  <2>1. u = v /\ shown[u][p] = "due" /\ UNCHANGED throttle
    BY <1>5 DEF Covered
  <2>2. Due(u, p)
    BY <1>1, <1>3, <2>1 DEF Due
  <2>3. ~WithheldAndTimed
    BY <2>1 DEF WithheldAndTimed, throttle
  <2> QED
    BY <1>1, <2>2, <2>3 DEF StaleViewsArePending
<1> QED
  BY <1>1, <1>5, <1>6 DEF ViewTypes, BusyAreConnected, OwnerIsConnected

\* The second part of a request.
LEMMA AnnounceKeepsInv ==
  ASSUME ViewInv, NEW v \in Views, Announce(v)
  PROVE  ViewInv'
<1> USE DEF ViewInv
<1>1. connections' = connections
      /\ handling' = [handling EXCEPT ![v] = "nothing"]
      /\ owner' \in {owner, NoView}
  BY DEF Announce, OwnerAfter
<1>2. PICK throttled : Publish(v, throttled, screen)
  BY DEF Announce
<1>3. connections' \subseteq Views /\ screen \in Screens
  BY <1>1 DEF ViewTypes
<1>4. /\ screen' \in Screens
      /\ timer' \in {"off", "armed", "due"}
      /\ timer' # "off" => skipped'
      /\ Covered(v, screen)
  BY <1>2, <1>3, PublishCovers
<1>5. BusyAreConnected' /\ OwnerIsConnected'
  BY <1>1 DEF BusyAreConnected, OwnerIsConnected, ViewTypes
<1>6. StaleViewsArePending'
  <2> SUFFICES ASSUME NEW u \in Views, NEW p \in Panels, Due(u, p)', ~WithheldAndTimed'
               PROVE  \E w \in Views \ {u} : handling'[w] # "nothing"
    BY DEF StaleViewsArePending
  <2>1. u = v /\ screen[u][p] = "due" /\ UNCHANGED throttle
    BY <1>4 DEF Covered
  <2>2. Due(u, p) /\ ~WithheldAndTimed
    BY <1>1, <2>1 DEF Due, WithheldAndTimed, throttle
  <2>3. PICK w \in Views \ {u} : handling[w] # "nothing"
    BY <2>2 DEF StaleViewsArePending
  <2> QED
    BY <1>1, <2>1, <2>3 DEF ViewTypes
<1> QED
  BY <1>1, <1>4, <1>5, <1>6 DEF ViewTypes, Requests

LEMMA LeaveTypes ==
  ASSUME ViewInv, NEW v \in Views, Leave(v)
  PROVE  /\ connections' \subseteq connections /\ connections' \subseteq Views
         /\ handling' \in [Views -> Requests]
         /\ \A u \in Views : u # v => handling'[u] = handling[u]
         /\ owner' \in Views \cup {NoView}
         /\ BusyAreConnected' /\ OwnerIsConnected'
         /\ Without(v) \in Screens
         /\ \A u \in Views, p \in Panels : Without(v)[u][p] = "due" => screen[u][p] = "due"
<1>1. /\ connections' \subseteq connections /\ connections' \subseteq Views
      /\ handling' \in [Views -> Requests]
      /\ \A u \in Views : u # v => handling'[u] = handling[u]
      /\ owner' \in Views \cup {NoView}
      /\ BusyAreConnected' /\ OwnerIsConnected'
  BY DEF ViewInv, ViewTypes, Leave, OwnerWithout, BusyAreConnected, OwnerIsConnected, Requests
<1>2. AllCurrent \in [Panels -> Marks] /\ \A p \in Panels : AllCurrent[p] # "due"
  BY DEF AllCurrent, Marks
<1>3. /\ Without(v) \in Screens
      /\ \A u \in Views, p \in Panels : Without(v)[u][p] = "due" => screen[u][p] = "due"
  BY <1>2 DEF Without, Screens, ViewInv, ViewTypes
<1> QED
  BY <1>1, <1>3

\* A publication to all leaves nothing due.
LEMMA PublishToAll ==
  ASSUME ViewTypes, connections' \subseteq Views, NEW shown \in Screens,
         Publish(NoView, FALSE, shown)
  PROVE  /\ screen' \in Screens
         /\ timer' \in {"off", "armed", "due"}
         /\ timer' # "off" => skipped'
         /\ StaleViewsArePending'
<1>1. /\ screen' \in Screens
      /\ timer' \in {"off", "armed", "due"}
      /\ timer' # "off" => skipped'
      /\ \A v \in Views \ {NoView}, p \in Panels : ~Due(v, p)'
  BY PublishCovers
<1> QED
  BY <1>1, DashboardAssumption DEF StaleViewsArePending

LEMMA DisconnectKeepsInv ==
  ASSUME ViewInv, NEW v \in Views, Disconnect(v)
  PROVE  ViewInv'
<1>1. Leave(v) /\ handling[v] = "nothing"
  BY DEF Disconnect, Idle
<1>2. CASE Publish(NoView, FALSE, Without(v))
  BY <1>1, <1>2, LeaveTypes, PublishToAll DEF ViewInv, ViewTypes
<1>3. CASE screen' = Without(v) /\ UNCHANGED throttle
  <2>1. \A u \in Views, p \in Panels : Due(u, p)' => Due(u, p)
    BY <1>1, <1>3, LeaveTypes DEF Due
  <2>2. \A u \in Views : handling[u] # "nothing" => handling'[u] # "nothing"
    BY <1>1, LeaveTypes
  <2>3. StaleViewsArePending'
    BY <1>3, <2>1, <2>2, NothingNewDue DEF ViewInv, throttle, WithheldAndTimed
  <2> QED
    BY <1>1, <1>3, <2>3, LeaveTypes DEF ViewInv, ViewTypes, throttle
<1> QED
  BY <1>2, <1>3 DEF Disconnect

LEMMA ReplyFailsKeepsInv ==
  ASSUME ViewInv, NEW v \in Views, ReplyFails(v)
  PROVE  ViewInv'
<1>1. Leave(v)
  BY DEF ReplyFails
<1>2. CASE Publish(NoView, FALSE, Without(v))
  BY <1>1, <1>2, LeaveTypes, PublishToAll DEF ViewInv, ViewTypes
<1>3. CASE WithheldAndTimed /\ screen' = Without(v) /\ UNCHANGED throttle
  <2>1. WithheldAndTimed'
    BY <1>3 DEF WithheldAndTimed, throttle
  <2> QED
    BY <1>1, <1>3, <2>1, LeaveTypes DEF ViewInv, ViewTypes, throttle, StaleViewsArePending
<1>4. CASE /\ screen' = [u \in Views |-> Excused(Without(v)[u], "failure")]
           /\ UNCHANGED throttle
  <2>1. \A u \in Views : Without(v)[u] \in [Panels -> Marks]
    BY <1>1, LeaveTypes DEF Screens
  <2>2. \A u \in Views : /\ screen'[u] \in [Panels -> Marks]
                         /\ \A p \in Panels : screen'[u][p] # "due"
    BY <1>4, <2>1, ExcusedFacts
  <2>3. screen' \in Screens /\ StaleViewsArePending'
    BY <1>4, <2>2 DEF Screens, StaleViewsArePending, Due
  <2> QED
    BY <1>1, <1>4, <2>3, LeaveTypes DEF ViewInv, ViewTypes, throttle
<1> QED
  BY <1>2, <1>3, <1>4 DEF ReplyFails

\* A flush sends what was withheld to every view, or there was nothing.
LEMMA StopKeepsInv ==
  ASSUME ViewInv, NEW v \in Views, StopExecution(v)
  PROVE  ViewInv'
<1>1. /\ connections' = connections /\ handling' = handling
      /\ owner' = NoView /\ Flush(screen)
  BY DEF StopExecution
<1>2. BusyAreConnected' /\ OwnerIsConnected' /\ connections' \subseteq Views
  BY <1>1 DEF ViewInv, ViewTypes, BusyAreConnected, OwnerIsConnected
<1>3. CASE Publish(NoView, FALSE, screen)
  BY <1>1, <1>2, <1>3, PublishToAll DEF ViewInv, ViewTypes
<1>4. CASE screen' = screen /\ UNCHANGED throttle
  <2>1. StaleViewsArePending'
    BY <1>1, <1>4, NothingNewDue DEF ViewInv, Due, throttle, WithheldAndTimed
  <2> QED
    BY <1>1, <1>2, <1>4, <2>1 DEF ViewInv, ViewTypes, throttle
<1> QED
  BY <1>1, <1>3, <1>4 DEF Flush

LEMMA ReplaceKeepsInv ==
  ASSUME ViewInv, ReplaceConfig
  PROVE  ViewInv'
<1>1. /\ connections' = connections /\ handling' = handling
      /\ owner' = NoView /\ Publish(NoView, FALSE, After(NoView, Panels, {}))
  BY DEF ReplaceConfig
<1>2. BusyAreConnected' /\ OwnerIsConnected' /\ connections' \subseteq Views
  BY <1>1 DEF ViewInv, ViewTypes, BusyAreConnected, OwnerIsConnected
<1>3. After(NoView, Panels, {}) \in Screens
  BY AfterFacts DEF ViewInv, ViewTypes
<1> QED
  BY <1>1, <1>2, <1>3, PublishToAll DEF ViewInv, ViewTypes

LEMMA TimerKeepsInv ==
  ASSUME ViewInv, TimerFires
  PROVE  ViewInv'
<1>1. /\ UNCHANGED <<connections, handling, owner>>
      /\ timer = "due" /\ skipped
  BY DEF TimerFires, ViewInv, ViewTypes
<1>2. connections' \subseteq Views /\ screen \in Screens
  BY <1>1 DEF ViewInv, ViewTypes
<1>3. /\ screen' \in Screens
      /\ timer' = "off"
      /\ \A v \in Views, p \in Panels : ~Due(v, p)'
  <2>0. \A v \in Views : /\ screen[v] \in [Panels -> Marks]
                         /\ Excused(screen[v], "origin") \in [Panels -> Marks]
                         /\ \A p \in Panels : Excused(screen[v], "origin")[p] # "due"
    BY <1>2, ExcusedFacts DEF Screens
  <2>1. CASE SendTo(owner, screen)
    <3>1. AllCurrent \in [Panels -> Marks] /\ \A p \in Panels : AllCurrent[p] # "due"
      BY DEF AllCurrent, Marks
    <3> QED
      BY <2>0, <2>1, <3>1 DEF SendTo, Published, Screens, Due
  <2>2. CASE /\ connections' \ {owner} = {}
             /\ timer' = "off"
             /\ screen' = [v \in Views |-> IF v = owner THEN Excused(screen[v], "origin")
                                           ELSE screen[v]]
    BY <2>0, <2>2 DEF Screens, Due
  <2> QED
    BY <1>1, <2>1, <2>2 DEF TimerFires
<1>4. StaleViewsArePending'
  BY <1>3 DEF StaleViewsArePending
<1> QED
  BY <1>1, <1>3, <1>4 DEF ViewInv, ViewTypes, BusyAreConnected, OwnerIsConnected

\* Starting a run and the passing of time publish nothing.
LEMMA QuietKeepsInv ==
  ASSUME ViewInv,
         UNCHANGED <<connections, screen, handling, skipped>>,
         owner' \in connections \cup {NoView},
         timer' \in {"off", "armed", "due"}, timer' = "off" <=> timer = "off"
  PROVE  ViewInv'
<1>1. StaleViewsArePending'
  BY NothingNewDue DEF ViewInv, Due, WithheldAndTimed
<1> QED
  BY <1>1 DEF ViewInv, ViewTypes, BusyAreConnected, OwnerIsConnected

LEMMA ViewStep == ViewInv /\ [Next]_vars => ViewInv'
<1> SUFFICES ASSUME ViewInv, [Next]_vars PROVE ViewInv'
  OBVIOUS
<1>1. ASSUME NEW v \in Views, RunChunk(v) \/ Step(v) \/ Edit(v) \/ TakeOver(v)
      PROVE  ViewInv'
  BY <1>1, ChangeKeepsInv DEF RunChunk, Step, Edit, TakeOver
<1>2. ASSUME NEW v \in Views, UndecodableElf(v) \/ StartExecution(v)
      PROVE  ViewInv'
  BY <1>2, QuietKeepsInv
  DEF UndecodableElf, StartExecution, Idle, throttle, ViewInv, ViewTypes
<1>3. ASSUME NEW v \in Views, Refresh(v) \/ Connect(v) PROVE ViewInv'
  BY <1>3, RefreshKeepsInv
<1>4. ASSUME NEW v \in Views, StopExecution(v) \/ SetLoopback(v) PROVE ViewInv'
  BY <1>4, StopKeepsInv, LoopbackKeepsInv
<1>5. ASSUME NEW v \in Views, Announce(v) PROVE ViewInv'
  BY <1>5, AnnounceKeepsInv
<1>6. ASSUME NEW v \in Views, Disconnect(v) \/ ReplyFails(v) PROVE ViewInv'
  BY <1>6, DisconnectKeepsInv, ReplyFailsKeepsInv
<1>7. CASE ReplaceConfig
  BY <1>7, ReplaceKeepsInv
<1>8. CASE IntervalPasses
  BY <1>8, QuietKeepsInv DEF IntervalPasses, ViewInv, ViewTypes, OwnerIsConnected
<1>9. CASE TimerFires
  BY <1>9, TimerKeepsInv
<1>10. CASE UNCHANGED vars
  BY <1>10, QuietKeepsInv DEF vars, throttle, ViewInv, ViewTypes, OwnerIsConnected
<1> QED
  BY <1>1, <1>2, <1>3, <1>4, <1>5, <1>6, <1>7, <1>8, <1>9, <1>10 DEF Next, Request

\* A panel with an old state always has a publication coming, up to the two
\* exceptions that its mark records.
THEOREM NoSilentStaleness == Spec => []StaleViewsArePending
<1>1. ViewInv => StaleViewsArePending
  BY DEF ViewInv
<1> QED
  BY <1>1, ViewInit, ViewStep, PTL DEF Spec

\* The run's lock is held by a connected view or by nobody.
THEOREM LockIsNeverOrphaned == Spec => []OwnerIsConnected
<1>1. ViewInv => OwnerIsConnected
  BY DEF ViewInv
<1> QED
  BY <1>1, ViewInit, ViewStep, PTL DEF Spec

-----------------------------------------------------------------------------
(* The step-back history. *)

Entries == [core : Cores, snap : Snapshots]

HistoryInv ==
    /\ machine \in Machines
    /\ order \in Seq(Entries)
    /\ now \in Nat
    /\ path \in Seq(Machines)
    /\ UndoStaysOnPath
    /\ PresentIsOnPath
-----------------------------------------------------------------------------
LEMMA CapturedParts == Captured \subseteq Parts
  BY HistoryAssumption DEF Parts

LEMMA HistoryStarts == HistoryInit => HistoryInv
<1> SUFFICES ASSUME HistoryInit PROVE HistoryInv
  OBVIOUS
<1>1. machine \in Machines /\ path = <<machine>> /\ order = <<>> /\ now = 0
  BY DEF HistoryInit, Machines
<1>2. path \in Seq(Machines) /\ Len(path) = 1 /\ path[1] = machine
  BY <1>1
<1>3. order \in Seq(Entries) /\ DOMAIN order = {}
  BY <1>1
<1> QED
  BY <1>1, <1>2, <1>3 DEF HistoryInv, UndoStaysOnPath, PresentIsOnPath

\* A change of some parts leaves every earlier place of the path as it was,
\* and ends the path in the new state.
LEMMA TouchExtends ==
  ASSUME HistoryInv, NEW touched, Touch(touched)
  PROVE  /\ machine' \in Machines
         /\ path' \in Seq(Machines)
         /\ DOMAIN path \subseteq DOMAIN path'
         /\ \A k \in DOMAIN path : path'[k] = path[k]
         /\ Len(path) <= Len(path')
         /\ PresentIsOnPath'
<1> USE DEF HistoryInv
<1>1. machine' \in Machines
  BY DEF Touch, Machines
<1>2. CASE touched = {}
  <2>1. path' = path /\ \A p \in Parts : machine'[p] = machine[p]
    BY <1>2 DEF Touch
  <2> QED
    BY <1>1, <2>1, CapturedParts DEF PresentIsOnPath
<1>3. CASE touched # {}
  <2>1. path' = Append(path, machine')
    BY <1>3 DEF Touch
  <2>2. /\ path' \in Seq(Machines) /\ Len(path') = Len(path) + 1
        /\ path'[Len(path')] = machine'
        /\ \A k \in 1..Len(path) : path'[k] = path[k]
    BY <1>1, <2>1
  <2> QED
    BY <1>1, <2>2 DEF PresentIsOnPath
<1> QED
  BY <1>2, <1>3

\* The snapshot a recorded step takes is the end of the path.
LEMMA SnapshotIsPresent ==
  ASSUME HistoryInv
  PROVE  /\ Snapshot \in Snapshots
         /\ Snapshot.at = Len(path) /\ Snapshot.at \in DOMAIN path
         /\ \A p \in Captured : Snapshot.parts[p] = path[Snapshot.at][p]
<1>1. Len(path) \in Nat /\ Len(path) \in 1..Len(path)
  BY DEF HistoryInv, PresentIsOnPath
<1>2. [p \in Captured |-> machine[p]] \in [Captured -> Nat]
  BY CapturedParts DEF HistoryInv, Machines
<1>3. now + 1 \in Nat
  BY DEF HistoryInv
<1> QED
  BY <1>1, <1>2, <1>3 DEF Snapshot, Snapshots, HistoryInv, PresentIsOnPath

\* Recording a step and trimming the oldest keeps the entries on the path.
LEMMA StepKeepsInv ==
  ASSUME HistoryInv, NEW lead \in Cores, NEW partners, StepTogether(lead, partners)
  PROVE  HistoryInv'
<1> USE DEF HistoryInv
<1> DEFINE e == [core |-> lead, snap |-> Snapshot]
           entries == Append(order, e)
<1>1. PICK touched \in SUBSET ({lead} \cup partners \cup Shared) : Touch(touched)
  BY DEF StepTogether
<1>2. now' \in Nat
  BY DEF StepTogether, Tick
<1>3. e \in Entries
  BY SnapshotIsPresent DEF Entries
<1>4. /\ entries \in Seq(Entries) /\ Len(entries) = Len(order) + 1
      /\ entries[Len(entries)] = e
      /\ \A i \in 1..Len(order) : entries[i] = order[i]
  BY <1>3
<1>5. \A i \in DOMAIN entries :
         /\ entries[i].snap.at \in DOMAIN path
         /\ \A p \in Captured : entries[i].snap.parts[p] = path[entries[i].snap.at][p]
  <2> SUFFICES ASSUME NEW i \in DOMAIN entries
               PROVE  /\ entries[i].snap.at \in DOMAIN path
                      /\ \A p \in Captured :
                           entries[i].snap.parts[p] = path[entries[i].snap.at][p]
    OBVIOUS
  <2>1. CASE i \in 1..Len(order)
    BY <1>4, <2>1 DEF UndoStaysOnPath
  <2>2. CASE i = Len(entries)
    BY <1>4, <2>2, SnapshotIsPresent
  <2> QED
    BY <1>4, <2>1, <2>2
<1>6. \A i, j \in DOMAIN entries : i < j => entries[i].snap.at <= entries[j].snap.at
  <2> SUFFICES ASSUME NEW i \in DOMAIN entries, NEW j \in DOMAIN entries, i < j
               PROVE  entries[i].snap.at <= entries[j].snap.at
    OBVIOUS
  <2>1. i \in 1..Len(order)
    BY <1>4
  <2>2. CASE j \in 1..Len(order)
    BY <1>4, <2>1, <2>2 DEF UndoStaysOnPath
  <2>3. CASE j = Len(entries)
    <3>1. entries[j].snap.at = Len(path)
      BY <1>4, <2>3, SnapshotIsPresent
    <3>2. entries[i].snap.at \in 1..Len(path)
      BY <1>5
    <3> QED
      BY <3>1, <3>2
  <2> QED
    BY <1>4, <2>2, <2>3
<1>7. order' = entries \/ order' = Tail(entries)
  BY DEF StepTogether, Record
<1>8. /\ order' \in Seq(Entries)
      /\ \E k \in 0..1 : \A i \in DOMAIN order' :
             i + k \in DOMAIN entries /\ order'[i] = entries[i + k]
  <2> HIDE DEF entries
  <2>1. CASE order' = entries
    BY <1>4, <2>1
  <2>2. CASE order' = Tail(entries)
    <3>1. entries # <<>>
      BY <1>4
    <3>2. order' \in Seq(Entries) /\ Len(order') = Len(entries) - 1
          /\ \A i \in 1..Len(order') : order'[i] = entries[i + 1]
      BY <1>4, <2>2, <3>1
    <3> QED
      BY <1>4, <3>2
  <2> QED
    BY <1>7, <2>1, <2>2
<1>9. PICK k \in 0..1 : \A i \in DOMAIN order' :
             i + k \in DOMAIN entries /\ order'[i] = entries[i + k]
  BY <1>8
<1>10. UndoStaysOnPath'
  <2> HIDE DEF entries, HistoryInv
  <2>1. \A i \in DOMAIN order' :
           /\ order'[i].snap.at \in DOMAIN path'
           /\ \A p \in Captured : order'[i].snap.parts[p] = path'[order'[i].snap.at][p]
    BY <1>1, <1>5, <1>9, TouchExtends
  <2>2. \A i, j \in DOMAIN order' : i < j => order'[i].snap.at <= order'[j].snap.at
    <3>1. \A i \in DOMAIN order' : i \in Int
      BY <1>8
    <3> QED
      BY <1>6, <1>9, <3>1
  <2> QED
    BY <2>1, <2>2 DEF UndoStaysOnPath
<1> QED
  BY <1>1, <1>2, <1>8, <1>10, TouchExtends

\* A run or an edit only adds to the path.
LEMMA RunKeepsInv ==
  ASSUME HistoryInv, RunOrEdit
  PROVE  HistoryInv'
<1>1. PICK touched : Touch(touched)
  BY DEF RunOrEdit
<1>2. now' \in Nat /\ order' = order
  BY DEF RunOrEdit, Tick, HistoryInv
<1>3. UndoStaysOnPath'
  BY <1>1, <1>2, TouchExtends DEF HistoryInv, UndoStaysOnPath
<1> QED
  BY <1>1, <1>2, <1>3, TouchExtends DEF HistoryInv

\* Undo cuts the path where the restored snapshot was taken, and the order
\* before it: what is left was recorded no later than that.
LEMMA UndoKeepsInv ==
  ASSUME HistoryInv, NEW i \in DOMAIN order, Undo(i)
  PROVE  HistoryInv'
<1> DEFINE snap == order[i].snap
<1> USE DEF HistoryInv
<1>1. /\ i \in 1..Len(order) /\ order[i] \in Entries
      /\ snap \in Snapshots /\ snap.at \in 1..Len(path)
      /\ \A p \in Captured : snap.parts[p] = path[snap.at][p]
  <2>1. i \in 1..Len(order) /\ order[i] \in Entries
    OBVIOUS
  <2>2. snap \in Snapshots
    BY <2>1 DEF Entries
  <2>3. snap.at \in DOMAIN path /\ DOMAIN path = 1..Len(path)
    BY DEF UndoStaysOnPath
  <2> QED
    BY <2>1, <2>2, <2>3 DEF UndoStaysOnPath
<1>2. machine' \in Machines
  <2>1. snap.parts \in [Captured -> Nat]
    BY <1>1 DEF Snapshots
  <2> QED
    BY <2>1, CapturedParts DEF Undo, Restored, Machines
<1>3. /\ path' \in Seq(Machines) /\ Len(path') = snap.at
      /\ \A k \in 1..snap.at : path'[k] = path[k]
  <2>1. path' = SubSeq(path, 1, snap.at)
    BY DEF Undo
  <2> HIDE DEF snap
  <2> QED
    BY <1>1, <2>1
<1>4. /\ order' \in Seq(Entries) /\ Len(order') = i - 1
      /\ \A k \in 1..(i - 1) : order'[k] = order[k]
  <2>1. order' = SubSeq(order, 1, i - 1)
    BY DEF Undo, Before
  <2> QED
    BY <1>1, <2>1
<1>5. UndoStaysOnPath'
  <2>1. \A k \in DOMAIN order' : /\ k \in DOMAIN order /\ k < i
                                 /\ order'[k] = order[k]
    BY <1>1, <1>4
  <2>2. \A k \in DOMAIN order' : order[k].snap.at \in 1..Len(path)
                                 /\ order[k].snap.at <= snap.at
    BY <2>1 DEF UndoStaysOnPath
  <2>3. \A k \in DOMAIN order' : order[k].snap.at \in 1..snap.at
    BY <1>1, <2>2
  <2> QED
    BY <1>3, <2>1, <2>3 DEF UndoStaysOnPath
<1>6. PresentIsOnPath'
  <2>1. \A p \in Captured : machine'[p] = snap.parts[p]
    BY CapturedParts DEF Undo, Restored
  <2>2. path' # <<>> /\ path'[Len(path')] = path[snap.at]
    BY <1>1, <1>3
  <2> QED
    BY <1>1, <2>1, <2>2 DEF PresentIsOnPath
<1>7. now' \in Nat
  BY DEF Undo
<1> QED
  BY <1>2, <1>3, <1>4, <1>5, <1>6, <1>7

\* A cleared history starts a new path at the present state.
LEMMA ClearKeepsInv ==
  ASSUME HistoryInv, ClearHistory
  PROVE  HistoryInv'
<1>1. machine' \in Machines /\ now' \in Nat
  BY DEF ClearHistory, Tick, HistoryInv, Machines
<1>2. path' = <<machine'>> /\ order' = <<>>
  BY DEF ClearHistory
<1>3. path' \in Seq(Machines) /\ Len(path') = 1 /\ path'[1] = machine'
  BY <1>1, <1>2
<1>4. order' \in Seq(Entries) /\ DOMAIN order' = {}
  BY <1>2
<1> QED
  BY <1>1, <1>2, <1>3, <1>4 DEF HistoryInv, UndoStaysOnPath, PresentIsOnPath

LEMMA HistoryKept == HistoryInv /\ [HistoryNext]_historyVars => HistoryInv'
<1> SUFFICES ASSUME HistoryInv, [HistoryNext]_historyVars PROVE HistoryInv'
  OBVIOUS
<1>1. ASSUME NEW lead \in Cores, NEW partners, StepTogether(lead, partners) PROVE HistoryInv'
  BY <1>1, StepKeepsInv
<1>2. CASE RunOrEdit
  BY <1>2, RunKeepsInv
<1>3. ASSUME NEW c \in Cores, StepBack(c) PROVE HistoryInv'
  <2>1. PICK i \in StepsOf(c) : Undo(i)
    BY <1>3 DEF StepBack
  <2>2. i \in DOMAIN order
    BY <2>1 DEF StepsOf
  <2> QED
    BY <2>1, <2>2, UndoKeepsInv
<1>4. CASE ClearHistory
  BY <1>4, ClearKeepsInv
<1>5. CASE UNCHANGED historyVars
  BY <1>5 DEF historyVars, HistoryInv, UndoStaysOnPath, PresentIsOnPath
<1> QED
  BY <1>1, <1>2, <1>3, <1>4, <1>5 DEF HistoryNext, NothingToUndo

\* Undo never mixes two moments and never revives an abandoned future.
THEOREM UndoIsConsistent == HistorySpec => [](UndoStaysOnPath /\ PresentIsOnPath)
<1>1. HistoryInv => UndoStaysOnPath /\ PresentIsOnPath
  BY DEF HistoryInv
<1> QED
  BY <1>1, HistoryStarts, HistoryKept, PTL DEF HistorySpec
=============================================================================
