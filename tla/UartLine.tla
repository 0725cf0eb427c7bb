----------------------------- MODULE UartLine ------------------------------
(***************************************************************************)
(* The UART frame generator that is put at an input pin of a core          *)
(* (pru_io/uart_frame_generator.py, Simulator.uart_inject), and a receiver *)
(* that looks at the pin in every cycle, as firmware does.  A byte is a    *)
(* sequence of bits, the least significant first.                          *)
(***************************************************************************)
EXTENDS Integers, SequencesExt

CONSTANTS
  UartBits,      \* data bits of a character, 8 in the code
  Payloads,      \* payloads the host injects
  Repeats,       \* frames
  GapBits,       \* idle_gap_bits
  Periods,       \* bit_period: whole cycles of a bit
  MaxTrigger,    \* bound: cycles from an injection to its trigger
  MaxInjections  \* bound: injections

ASSUME UartAssumption ==
  /\ UartBits \in Nat \ {0} /\ GapBits \subseteq Nat /\ Repeats \subseteq Nat \ {0}
  /\ Periods \subseteq Nat \ {0, 1}
  /\ \A p \in Payloads : p \in Seq([1..UartBits -> {0, 1}])

VARIABLES
  line,       \* the generator: its transitions, their stop bits, trigger and end
  cycle,      \* the core's cycle count, from the injection on
  pin,        \* the input pin
  receiver,   \* the receiver: cycles since the start bit's edge, bits so far
  got,        \* history: characters received, and whether their stop bit was right
  injections  \* history: how many there were

uartVars == <<line, cycle, pin, receiver, got, injections>>

Transition == [at : Nat, level : {0, 1}]
Characters == [1..UartBits -> {0, 1}]

UartTypeOK ==
  /\ line.transitions \in Seq(Transition) /\ line.stops \in Seq(Nat)
  /\ line.trigger \in Nat /\ line.end \in Nat /\ line.period \in Periods \cup {2}
  /\ cycle \in Nat /\ pin \in {0, 1}
  /\ receiver.age \in Int /\ got \in Seq([char : Characters, framed : BOOLEAN])

NoLine == [transitions |-> << >>, stops |-> << >>, trigger |-> 0, end |-> 0, period |-> 2,
           payload |-> << >>, repeats |-> 1, broken |-> {}]
Waiting == [age |-> -1, bits |-> << >>, last |-> 1]

UartInit ==
  /\ line = NoLine /\ cycle = 0 /\ pin = 1 /\ receiver = Waiting /\ got = << >>
  /\ injections = 0
-----------------------------------------------------------------------------
\* start.  A character takes its start bit, its data and its stop bit.
CharTime == UartBits + 2
LevelsOf(char) == << 0 >> \o char \o << 1 >>

\* The transitions of a payload whose first bit begins at from; every bit is
\* one, whether it changes the level or not.
Levels(payload) == FlattenSeq([i \in DOMAIN payload |-> LevelsOf(payload[i])])
PayloadAt(payload, from, period) ==
  LET levels == Levels(payload)
  IN  [i \in DOMAIN levels |-> [at |-> from + (i - 1) * period, level |-> levels[i]]]

Gap(gap, period) == gap * period

\* Between two frames the line is idle for the gap; behind the last it ends.
Frame(k, payload, trigger, period, repeats, gap) ==
  LET length == Len(payload) * CharTime * period
      from == trigger + (k - 1) * (length + Gap(gap, period))
  IN  PayloadAt(payload, from, period)
      \o (IF k < repeats THEN << [at |-> from + length, level |-> 1] >> ELSE << >>)

Timeline(payload, trigger, period, repeats, gap) ==
  FlattenSeq([k \in 1..repeats |-> Frame(k, payload, trigger, period, repeats, gap)])

\* Seeded fault: the transition of a gap is not counted.
ForgetsGaps(n, payload) == n * CharTime

\* _stop_bit_indices: the stop bit of character n of all the frames.
StopIndex(n, payload) ==
  LET before == (n - 1) \div Len(payload) IN n * CharTime + before

Armed(payload, trigger, period, repeats, gap) ==
  [transitions |-> Timeline(payload, trigger, period, repeats, gap),
   stops |-> [n \in 1..repeats * Len(payload) |-> StopIndex(n, payload)],
   trigger |-> trigger,
   end |-> trigger + repeats * Len(payload) * CharTime * period
             + (repeats - 1) * Gap(gap, period),
   period |-> period, payload |-> payload, repeats |-> repeats, broken |-> {}]

\* get_pin_value: the level of the last transition that is not in the future.
LevelAt(l, c) ==
  IF c < l.trigger \/ c >= l.end THEN 1
  ELSE LET past == {i \in DOMAIN l.transitions : l.transitions[i].at <= c}
       IN  IF past = {} THEN 1
           ELSE l.transitions[CHOOSE i \in past : \A j \in past : j <= i].level
-----------------------------------------------------------------------------
\* Simulator.uart_inject: a new generator takes the place of the old one, here
\* when that has done.  Cycles are counted from there.
Inject ==
  /\ injections < MaxInjections /\ injections' = injections + 1
  /\ cycle >= line.end /\ receiver.age = -1
  /\ \E payload \in Payloads, period \in Periods, repeats \in Repeats, gap \in GapBits,
        trigger \in 0..MaxTrigger :
       line' = Armed(payload, trigger, period, repeats, gap)
  /\ cycle' = 0 /\ pin' = 1 /\ receiver' = Waiting /\ got' = << >>

\* inject_framing_error: the stop bit of a character becomes low.
InjectFramingError ==
  /\ injections > 0 /\ cycle = 0
  /\ \E n \in DOMAIN line.stops \ line.broken :
       line' = [line EXCEPT !.transitions[line.stops[n]].level = 0, !.broken = @ \cup {n}]
  /\ UNCHANGED <<cycle, pin, receiver, got, injections>>

\* The receiver waits for the falling edge, and looks at the middle of each bit.
Middle(n) == n * line.period + line.period \div 2
Received(level) ==
  LET age == receiver.age + 1
      bits == Append(receiver.bits, level)
      n == Len(receiver.bits)
  IN  CASE receiver.age = -1 ->
             /\ receiver' = [Waiting EXCEPT !.last = level,
                                            !.age = IF receiver.last = 1 /\ level = 0 THEN 0 ELSE -1]
             /\ UNCHANGED got
        [] receiver.age # -1 /\ age # Middle(n + 1) ->
             receiver' = [receiver EXCEPT !.age = age, !.last = level] /\ UNCHANGED got
        [] receiver.age # -1 /\ age = Middle(n + 1) /\ n < UartBits ->
             receiver' = [age |-> age, bits |-> bits, last |-> level] /\ UNCHANGED got
        [] OTHER ->
             /\ receiver' = [Waiting EXCEPT !.last = level]
             /\ got' = Append(got, [char |-> receiver.bits, framed |-> level = 1])

\* tick: the pin takes its level before the core's instruction looks at it.
UartCycle ==
  /\ injections > 0 /\ (cycle <= line.end \/ receiver.age # -1)
  /\ pin' = LevelAt(line, cycle)
  /\ Received(pin')
  /\ cycle' = cycle + 1
  /\ UNCHANGED <<line, injections>>

Uart == Inject \/ InjectFramingError \/ UartCycle

UartSpec == UartInit /\ [][Uart]_uartVars
-----------------------------------------------------------------------------
Sent == FlattenSeq([k \in 1..line.repeats |-> line.payload])
Intact == {n \in DOMAIN Sent : \A b \in line.broken : n <= b}

\* A receiver that looks at the middle of the bits gets the payload, once for
\* each frame, in order, and finds the stop bit wrong of the character whose
\* stop bit was broken and of none before it; behind that it may be lost.  If
\* none was broken it has got all of it when the line ends.
ReceiverGetsPayload ==
  /\ \A n \in DOMAIN got \cap Intact :
       got[n].char = Sent[n] /\ (got[n].framed <=> n \notin line.broken)
  /\ injections > 0 /\ cycle > line.end /\ line.broken = {} => Len(got) = Len(Sent)
=============================================================================
