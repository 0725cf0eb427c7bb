----------------------------- MODULE DeviceBus -----------------------------
(***************************************************************************)
(* The pins of the cores and what is wired to them: the shared resolver    *)
(* (pru_io/device_model.py, DeviceBus) and the GPIO part of each core's    *)
(* port (pru_io/io_port.py).  A word of levels is the set of its high      *)
(* pins; a node is a pin of a port; a net is a set of connected nodes.     *)
(* What a device drives when it is sampled is any of its responses.        *)
(***************************************************************************)
EXTENDS Integers, FiniteSets

CONSTANTS
  Ports, PinsOf,   \* GPIO endpoints, and the pins of each
  Devices, Home,   \* device models, and the endpoint each attaches to
  Nets,            \* nets of each device: from pins to "open drain"/"push pull"
  TimeDriven,      \* devices that advance with time; the others are reactive
  Responses,       \* drives a device may answer a sample with
  WireChoices,     \* connections the host makes, each a set of two nodes
  RootOf,          \* the end of each that stands for the net
  Outputs,         \* bound: nodes the firmware writes and the host makes outputs
  Owners,          \* lease owners; an attached device may be one
  Asked,           \* nodes an owner may lease
  LoopPins,        \* loopback_mask of each port
  MaxAttached      \* bound: devices attached at a time

Nodes == UNION {{p} \X PinsOf[p] : p \in Ports}
AllPins == UNION {PinsOf[p] : p \in Ports}
Modes == {"open drain", "push pull"}
Silent == [mask |-> {}, high |-> {}]
NoInput == {-1}             \* no levels: not sampled since reset, moved since

ASSUME DeviceAssumption ==
  /\ \A d \in Devices : /\ Home[d] \in Ports /\ DOMAIN Nets[d] \subseteq PinsOf[Home[d]]
                        /\ Responses[d] \subseteq [mask : SUBSET DOMAIN Nets[d], high : SUBSET AllPins]
  /\ TimeDriven \subseteq Devices /\ Asked \subseteq Nodes /\ AllPins \subseteq Nat
ASSUME WireAssumption ==
  /\ \A w \in WireChoices : /\ w \subseteq Nodes /\ Cardinality(w) = 2 /\ RootOf[w] \in w
  /\ \A v, w \in WireChoices : v # w => v \cap w = {}

VARIABLES
  bus,      \* the bus and the ports, see BusState
  leases,   \* _output_leases: owners of each node, and the direction to restore
  chosen    \* history: direction of each pin as last set while it was not leased

busVars == <<bus, leases, chosen>>

PinWords == [Ports -> SUBSET AllPins]
Drives == [mask : SUBSET AllPins, high : SUBSET AllPins]

BusState ==
  [attached : SUBSET Devices,   \* devices
   gpo : PinWords,              \* gpo of each port
   enabled : PinWords,          \* gpo_drive_mask, _core_drive_masks
   gpi : PinWords,              \* gpi
   managed : PinWords,          \* _managed_masks
   drives : [Devices -> Drives],\* _last_drives
   wires : SUBSET WireChoices,  \* _wires
   noted : SUBSET Nodes,        \* history: nets recorded as contended by this operation
   echoed : SUBSET Devices]     \* history: devices it sampled for their own drive

Unmodelled == {"inputs", "peers", "conflicts"}
DeviceBusTypeOK ==
  /\ [f \in DOMAIN bus \ Unmodelled |-> bus[f]] \in BusState
  /\ bus.inputs \in [Devices -> (SUBSET AllPins) \cup {NoInput}] \* _last_inputs
  /\ bus.peers \in [Devices -> (SUBSET AllPins) \cup {NoInput}]    \* history
  /\ DOMAIN bus.conflicts \subseteq Nodes                        \* _active_conflicts
  /\ leases \in [Nodes -> [owners : SUBSET Owners, was : BOOLEAN, drive : BOOLEAN]]
  /\ chosen \in PinWords

NotLeased == [owners |-> {}, was |-> FALSE, drive |-> FALSE]
NoPins == [p \in Ports |-> {}]

DeviceBusInit ==
  /\ bus = [attached |-> {}, gpo |-> NoPins, enabled |-> NoPins, gpi |-> NoPins,
            managed |-> NoPins, drives |-> [d \in Devices |-> Silent],
            inputs |-> [d \in Devices |-> NoInput], wires |-> {}, conflicts |-> << >>,
            noted |-> {}, peers |-> [d \in Devices |-> {}], echoed |-> {}]
  /\ leases = [n \in Nodes |-> NotLeased]
  /\ chosen = NoPins
-----------------------------------------------------------------------------
(* The electrical level of a net. *)

\* _shared_components
NetOf(b, n) == {n} \cup UNION {w \in b.wires : n \in w}
Root(b, n) == IF \E w \in b.wires : n \in w THEN RootOf[CHOOSE w \in b.wires : n \in w] ELSE n

\* _shared_drivers.  A core's output is open drain where some device on the
\* net is and none is push-pull.
Declared(b, net) ==
  {Nets[x[1]][x[2][2]] : x \in {y \in b.attached \X net :
                                  y[2][1] = Home[y[1]] /\ y[2][2] \in DOMAIN Nets[y[1]]}}
Drivers(b, net) ==
  {[name |-> n[1], value |-> IF n[2] \in b.gpo[n[1]] THEN 1 ELSE 0,
    mode |-> IF Declared(b, net) = {"open drain"} THEN "open drain" ELSE "push pull"]
     : n \in {m \in net : m[2] \in b.enabled[m[1]]}}
  \cup
  {[name |-> x[1], value |-> IF x[2][2] \in b.drives[x[1]].high THEN 1 ELSE 0,
    mode |-> Nets[x[1]][x[2][2]]]
     : x \in {y \in b.attached \X net :
                y[2][1] = Home[y[1]] /\ y[2][2] \in b.drives[y[1]].mask}}

PulledLow(drivers) == \E x \in drivers : x.value = 0
PushedHigh(drivers) == \E x \in drivers : x.value = 1 /\ x.mode = "push pull"
Conflict(drivers) == PulledLow(drivers) /\ PushedHigh(drivers)

\* _resolve_pin and _bus_word: any low driver wins, and nothing at all is high.
Word(b, p) == {pin \in PinsOf[p] : ~PulledLow(Drivers(b, NetOf(b, <<p, pin>>)))}
-----------------------------------------------------------------------------
(* Settling: the devices of a phase all sample the same levels. *)

\* The edges a device's new drive alone makes, its peers as they were.
OwnEdges(b, d, answer) ==
  LET before == Word(b, Home[d])
      after == Word([b EXCEPT !.drives[d] = answer], Home[d])
  IN  (before \ after) \cup (after \ before)

\* Seeded fault: a device's own edges are input for it like any other.
ForgetsOwn(b, d, own) == b.inputs[d]

\* _suppress_own_edge: those edges count as seen.
SeenInput(b, d, own) ==
  IF b.inputs[d] = NoInput THEN NoInput
  ELSE (b.inputs[d] \ own) \cup (Word(b, Home[d]) \cap own)

\* What the others alone would put on a device's pins; bus.peers is that at
\* the last comparison, while they have not moved since.
WithoutIt(b, d) == Word([b EXCEPT !.drives[d] = Silent], Home[d])

\* _tick_reactive: a device whose word has changed is sampled.
Hit(b, devs, own) == {d \in devs : SeenInput(b, d, own[d]) # Word(b, Home[d])}

\* The drives when some devices have answered.
Answered(b, answers) ==
  [d \in Devices |-> IF d \in DOMAIN answers THEN answers[d] ELSE b.drives[d]]

Sampled(b, devs, own, answers) ==
  LET hit == DOMAIN answers IN
  [bus |-> [b EXCEPT
      !.drives = Answered(b, answers),
      !.inputs = [d \in Devices |-> IF d \in hit THEN Word(b, Home[d])
                                    ELSE IF d \in devs THEN SeenInput(b, d, own[d])
                                    ELSE b.inputs[d]],
      !.peers = [d \in Devices |-> IF d \in devs THEN WithoutIt(b, d) ELSE b.peers[d]],
      !.echoed = @ \cup {d \in hit : b.inputs[d] # NoInput /\ WithoutIt(b, d) = b.peers[d]}],
   own |-> [d \in Devices |-> IF d \in hit THEN OwnEdges(b, d, answers[d]) ELSE {}]]

AnswersOf(devs) ==
  {f \in [devs -> UNION {Responses[d] : d \in devs}] : \A d \in devs : f[d] \in Responses[d]}
Phase(b, devs, own) == {Sampled(b, devs, own, f) : f \in AnswersOf(Hit(b, devs, own))}

\* Two phases; what the second changes is left for the next operation, where
\* the others of a device count as having moved.
AtRest(b, devs, own) ==
  [b EXCEPT
    !.inputs = [d \in Devices |-> IF d \in devs THEN SeenInput(b, d, own[d]) ELSE b.inputs[d]],
    !.peers = [d \in Devices |-> IF d \in devs /\ WithoutIt(b, d) # b.peers[d] THEN NoInput
                                 ELSE b.peers[d]]]
Settled(b, devs) ==
  {AtRest(x.bus, devs, x.own) :
     x \in UNION {Phase(one.bus, devs, one.own) : one \in Phase(b, devs, [d \in Devices |-> {}])}}

\* While nothing is wired, an operation concerns its own ports only.
Reached(b, ports) == IF b.wires = {} THEN ports ELSE Ports
Reactive(b, ports) == {d \in b.attached \ TimeDriven : Home[d] \in Reached(b, ports)}

Driven(b, p) ==
  (UNION {DOMAIN Nets[d] : d \in {x \in b.attached : Home[x] = p}})
  \cup {pin \in PinsOf[p] : \E w \in b.wires : <<p, pin>> \in w}

\* Seeded fault: only the port of the operation gets the new levels.
WritesOwnPort(b, ports) ==
  [b EXCEPT !.gpi = [p \in Ports |-> IF p \in ports
                       THEN (b.gpi[p] \ Driven(b, p)) \cup (Word(b, p) \cap Driven(b, p))
                       ELSE b.gpi[p]],
            !.managed = [p \in Ports |-> IF p \in ports THEN Driven(b, p) ELSE b.managed[p]]]

\* The levels go to the inputs the bus manages, or managed until now; a
\* looped-back pin that it manages no more follows the output again.
WrittenBack(b, ports) ==
  LET changed(p) == b.managed[p] \cup Driven(b, p)
      released(p) == (b.managed[p] \ Driven(b, p)) \cap LoopPins[p]
      input(p) == (Word(b, p) \ released(p)) \cup (b.gpo[p] \cap released(p))
      here == Reached(b, ports)
  IN  [b EXCEPT !.gpi = [p \in Ports |-> IF p \in here
                           THEN (b.gpi[p] \ changed(p)) \cup (input(p) \cap changed(p))
                           ELSE b.gpi[p]],
                !.managed = [p \in Ports |-> IF p \in here THEN Driven(b, p) ELSE b.managed[p]]]

\* Seeded fault: a net in conflict stays noted when it was resolved.
KeepsConflicts(b, ports) ==
  LET fresh == {n \in Nodes \ DOMAIN b.conflicts : n[1] \in Reached(b, ports)
                                /\ Root(b, n) = n /\ Conflict(Drivers(b, NetOf(b, n)))}
  IN  [b EXCEPT !.conflicts = [n \in fresh \cup DOMAIN b.conflicts |-> Drivers(b, NetOf(b, n))],
                !.noted = @ \cup fresh]

\* _resolve_pin with record_contention: a conflict is recorded when its
\* drivers are not the ones last seen on that net.
Recorded(b, ports) ==
  LET visited == {Root(b, n) : n \in {m \in Nodes : m[1] \in Reached(b, ports)}}
      now == {n \in visited : Conflict(Drivers(b, NetOf(b, n)))}
      kept == DOMAIN b.conflicts \ visited
      known(n) == n \in DOMAIN b.conflicts /\ b.conflicts[n] = Drivers(b, NetOf(b, n))
  IN  [b EXCEPT !.conflicts = [n \in now \cup kept |-> IF n \in now THEN Drivers(b, NetOf(b, n))
                                                       ELSE b.conflicts[n]],
                !.noted = @ \cup {n \in now : ~known(n)}]

Finished(b, ports) == WrittenBack(Recorded(b, ports), ports)
Begun(b) == [b EXCEPT !.noted = {}, !.echoed = {}]

\* _refresh_shared with process_reactive: what may become of the bus b.
Refreshed(b, ports) == {Finished(x, ports) : x \in Settled(b, Reactive(b, ports))}
-----------------------------------------------------------------------------
OutputsOf(p) == {pin \in PinsOf[p] : <<p, pin>> \in Outputs}

\* IOPort.write_r30: the loopback follows at once, the devices if the word
\* has changed and there is something on the bus.
WriteR30(p) ==
  \E word \in SUBSET OutputsOf(p) :
    LET loop == LoopPins[p] \ bus.managed[p]
        b == [Begun(bus) EXCEPT !.gpo[p] = word,
                                !.gpi[p] = (@ \ loop) \cup (word \cap loop)]
    IN  /\ IF word # bus.gpo[p] /\ (bus.attached # {} \/ bus.wires # {})
           THEN bus' \in Refreshed(b, {p})
           ELSE bus' = b
        /\ UNCHANGED <<leases, chosen>>

IsLeased(n) == leases[n].owners # {}

\* set_gpo_drive_mask and set_core_drive_mask: leased pins are not spared.
SetDriveMask(p) ==
  \E mask \in SUBSET OutputsOf(p) :
    /\ bus' \in Refreshed([Begun(bus) EXCEPT !.enabled[p] = mask], {p})
    /\ chosen' = [chosen EXCEPT ![p] =
                    {pin \in PinsOf[p] : IF IsLeased(<<p, pin>>) THEN pin \in @ ELSE pin \in mask}]
    /\ UNCHANGED leases

Attach(d) ==
  /\ d \notin bus.attached /\ Cardinality(bus.attached) < MaxAttached
  /\ bus' \in Refreshed([Begun(bus) EXCEPT !.attached = @ \cup {d}, !.drives[d] = Silent], {Home[d]})
  /\ UNCHANGED <<leases, chosen>>

\* The leases left when an owner gives up its own, and the pins that get their
\* direction back.
LeasesWithout(o) ==
  [n \in Nodes |-> IF leases[n].owners = {o} THEN NotLeased
                   ELSE [leases[n] EXCEPT !.owners = @ \ {o}]]
GivenBack(o, p) == {pin \in PinsOf[p] : leases[<<p, pin>>].owners = {o}}
DirectionsBack(o, p) == {pin \in GivenBack(o, p) : leases[<<p, pin>>].was}
Restoring(o) == {p \in Ports : GivenBack(o, p) # {}}

\* release_core_outputs.
Released(b, o) ==
  [b EXCEPT !.enabled = [p \in Ports |-> (b.enabled[p] \ GivenBack(o, p)) \cup DirectionsBack(o, p)]]

Release(o) ==
  /\ \E n \in Nodes : o \in leases[n].owners
  /\ leases' = LeasesWithout(o)
  /\ IF Restoring(o) = {} THEN bus' = Begun(bus)
     ELSE bus' \in Refreshed(Released(Begun(bus), o), Restoring(o))
  /\ UNCHANGED chosen

\* detach: the pins are released first, the device's leases behind that.
Detach(d) ==
  /\ d \in bus.attached
  /\ LET gone == [Begun(bus) EXCEPT !.attached = @ \ {d}, !.drives[d] = Silent,
                                    !.inputs[d] = NoInput, !.peers[d] = {}]
     IN  \E left \in Refreshed(gone, {Home[d]}) :
           IF Restoring(d) = {} THEN bus' = left
           ELSE bus' \in Refreshed(Released(left, d), Restoring(d))
  /\ leases' = IF d \in Owners THEN LeasesWithout(d) ELSE leases
  /\ UNCHANGED chosen

\* Seeded fault: a second owner of a pin takes the first one's direction for
\* the one to restore.
AsFound(n, o, drive) ==
  [owners |-> leases[n].owners \cup {o}, was |-> n[2] \in bus.enabled[n[1]], drive |-> drive]

LeasedBy(n, o, drive) ==
  IF IsLeased(n) THEN [leases[n] EXCEPT !.owners = @ \cup {o}]
  ELSE [owners |-> {o}, was |-> n[2] \in bus.enabled[n[1]], drive |-> drive]

\* lease_core_outputs: of a pin that is leased in the other direction it
\* raises; if the owner holds all of them nothing happens.
Lease(o, p) ==
  \E mask \in (SUBSET {n[2] : n \in {m \in Asked : m[1] = p}}) \ {{}} : \E drive \in SUBSET mask :
    /\ \A pin \in mask : IsLeased(<<p, pin>>) => leases[<<p, pin>>].drive = (pin \in drive)
    /\ \E pin \in mask : o \notin leases[<<p, pin>>].owners
    /\ leases' = [n \in Nodes |-> IF n[1] = p /\ n[2] \in mask /\ o \notin leases[n].owners
                                  THEN LeasedBy(n, o, n[2] \in drive) ELSE leases[n]]
    /\ bus' \in Refreshed([Begun(bus) EXCEPT !.enabled[p] = (@ \ mask) \cup drive], {p})
    /\ UNCHANGED chosen

AddWire(w) ==
  /\ w \notin bus.wires
  /\ bus' \in Refreshed([Begun(bus) EXCEPT !.wires = @ \cup {w}], {n[1] : n \in w})
  /\ UNCHANGED <<leases, chosen>>

RemoveWire(w) ==
  /\ w \in bus.wires
  /\ bus' \in Refreshed([Begun(bus) EXCEPT !.wires = @ \ {w}], {n[1] : n \in w})
  /\ UNCHANGED <<leases, chosen>>

\* advance_devices, one cycle: the time-driven devices of the port answer the
\* levels as they are, the reactive ones see the edges in the same cycle.
AdvanceTime(p) ==
  LET timed == {d \in bus.attached \cap TimeDriven : Home[d] = p} IN
  /\ timed # {}
  /\ \E answers \in AnswersOf(timed) :
       bus' \in Refreshed([Begun(bus) EXCEPT
              !.drives = Answered(bus, answers),
              !.inputs = [d \in Devices |-> IF d \in timed THEN Word(bus, p) ELSE @[d]]], {p})
  /\ UNCHANGED <<leases, chosen>>

\* IOPort.reset and reset_port: the devices of the port are reset and every
\* conflict it or they take part in is forgotten; nothing is sampled.
ResetPort(p) ==
  LET here == {d \in bus.attached : Home[d] = p}
      apart == {n \in DOMAIN bus.conflicts :
                  \A x \in bus.conflicts[n] : x.name \notin here \cup {p}}
      b == [Begun(bus) EXCEPT
              !.gpo[p] = {},
              !.conflicts = [n \in apart |-> bus.conflicts[n]],
              !.drives = [d \in Devices |-> IF d \in here THEN Silent ELSE bus.drives[d]],
              !.inputs = [d \in Devices |-> IF d \in here THEN NoInput ELSE bus.inputs[d]],
              !.peers = [d \in Devices |-> IF d \in here THEN {} ELSE bus.peers[d]]]
  IN  /\ bus' = Finished(b, {p})
      /\ UNCHANGED <<leases, chosen>>

Pins ==
  \/ \E p \in Ports : WriteR30(p) \/ SetDriveMask(p) \/ AdvanceTime(p) \/ ResetPort(p)
  \/ \E d \in Devices : Attach(d) \/ Detach(d)
  \/ \E o \in Owners : Release(o) \/ \E p \in Ports : Lease(o, p)
  \/ \E w \in WireChoices : AddWire(w) \/ RemoveWire(w)

DeviceBusSpec == DeviceBusInit /\ [][Pins]_busVars
-----------------------------------------------------------------------------
\* Every input the bus manages shows the level of its net, whichever core,
\* device, wire or lease the last operation was about.
InputsAreCurrent ==
  \A n \in Nodes :
    n[2] \in bus.managed[n[1]] =>
      (n[2] \in bus.gpi[n[1]] <=> n[2] \in Word(bus, n[1]))

\* When the last owner of a pin has gone, in whatever order they came and
\* went, the pin has the direction the host chose for it before or chooses now.
DirectionsReturn ==
  \A n \in Nodes : ~IsLeased(n) => (n[2] \in bus.enabled[n[1]] <=> n[2] \in chosen[n[1]])

\* A device's own drive alone never gets it sampled, in the second phase or by
\* any later operation: when one is, the others have moved.
NoEcho == bus.echoed = {}

\* A net that comes into conflict is recorded as contended by the operation
\* that brought it there: the promise of the module's first comment.
ComesIntoConflict(n) ==
  /\ \A m \in NetOf(bus', n) : ~Conflict(Drivers(bus, NetOf(bus, m)))
  /\ Conflict(Drivers(bus', NetOf(bus', n)))
ContentionRecorded ==
  [][\A n \in Nodes : ComesIntoConflict(n) => Root(bus', n) \in bus'.noted]_busVars

\* It is, by every operation that does not remove a wire, whatever was wired,
\* attached, leased and reset before, and whoever the drivers are.
ConflictsNoted ==
  [][\A n \in Nodes : ComesIntoConflict(n) /\ bus.wires \subseteq bus'.wires
                         => Root(bus', n) \in bus'.noted]_busVars
=============================================================================
