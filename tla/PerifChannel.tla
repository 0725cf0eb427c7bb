---------------------------- MODULE PerifChannel ----------------------------
(***************************************************************************)
(* One channel of the Peripheral Interface (class PerifChannel,            *)
(* perif/perif_channel.py) with the R30 and R31 commands that reach it     *)
(* (perif/peripheral_interface.py), on the time line of its core.          *)
(*                                                                         *)
(* Times are integers and kept relative to the time of the last advance:   *)
(* phase is how long ago _phase_end_ns was (negative: how long until it),  *)
(* next and due how far ahead _rx_next_edge_ns and the auto-arm deadline   *)
(* are (0: none is set).  A byte is the sequence of its bits, MSB first.   *)
(* _frame_bits and _cont_byte are one field, and so are their indices:     *)
(* only one is in use while the frame size stays what it is, and firmware  *)
(* is taken to leave the configuration alone while a frame is on the line. *)
(* The host's rx_auto_shutoff, which no firmware can turn on, is off.      *)
(***************************************************************************)
EXTENDS Integers, Sequences, SequencesExt

CONSTANTS
  Bytes,        \* the bytes firmware sends, 8 bits long in the code
  Depth,        \* of the FIFOs, 4 in the code
  Half,         \* half a period of the TX clock
  RxPeriod,     \* period of the RX oversampling clock
  ShiftLength,  \* of the RX shift register, 8 in the code
  SampleSize,   \* RX_SAMPLE_SIZE, the oversampling ratio less one
  StartBit,     \* RX_SB_POL
  Configs,      \* the settings of CHnCFG0 and CHnCFG1 in use
  Writes,       \* to R30: the byte strobes and the fields they select
  Commands,     \* written to R31
  Levels,       \* levels the far end drives
  Durations,    \* times by which the channel is advanced at once
  MaxOwed,      \* bound: bits promised in one transmission
  MaxHeard      \* bound: time for which the receiver stays armed

Bit == {0, 1}

\* Frame sizes: bits to send (0: continuous mode) and bytes to receive (0: any
\* number).  Delays are times, an arm delay of 0 disables the auto-arm.
ConfigFields ==
  [frame_size : Nat, rx_frame_size : Nat, wire : Nat, tst : Nat, arm : Nat, swap : BOOLEAN]

WriteFields == [strobes : SUBSET {0, 2, 3}, byte : Bytes, mode : 0..3, enable : BOOLEAN]
CommandFields == [reinit : BOOLEAN, go : BOOLEAN, clr_val : BOOLEAN, clr_ovf : BOOLEAN]

ASSUME ByteAssumption ==
  \A b \in Bytes : b \in Seq(Bit) /\ b # <<>> /\ \A c \in Bytes : Len(b) = Len(c)
ASSUME SizeAssumption == Depth \in Nat \ {0} /\ ShiftLength \in Nat \ {0}
ASSUME ClockAssumption == Half \in Nat \ {0} /\ RxPeriod \in Nat \ {0}
ASSUME SampleAssumption == SampleSize \in Nat /\ StartBit \in Bit /\ Levels \subseteq Bit
ASSUME FirmwareAssumption ==
  Configs \subseteq ConfigFields /\ Writes \subseteq WriteFields /\ Commands \subseteq CommandFields
ASSUME DurationAssumption == Durations \subseteq Nat \ {0} /\ MaxOwed \in Nat /\ MaxHeard \in Nat

VARIABLES
  cfg,    \* CHnCFG0 and CHnCFG1
  tx, rx, \* the transmit and the receive side
  owed,   \* history: the bits the transmission under way has to put on the line
  sent,   \* history: those it has put there
  since,  \* history: time since the first of them
  heard,  \* history: the levels sampled since the receiver was armed
  got,    \* history: the bytes captured since then, kept or lost
  armed   \* history: time since then

transmission == <<owed, sent, since>>
reception == <<heard, got, armed>>
perifVars == <<cfg, tx, rx, transmission, reception>>
Continuous == cfg.frame_size = 0
-----------------------------------------------------------------------------
(***************************************************************************)
(* Transmit side.                                                          *)
(***************************************************************************)
InitTx == [fifo |-> <<>>, overrun |-> FALSE, underrun |-> FALSE, busy |-> FALSE,
           fsm |-> "IDLE", clk_mode |-> 1, clk_pin |-> 1, data_pin |-> 0, out_en |-> 0,
           frame |-> <<>>, index |-> 1, phase |-> 0, odd |-> FALSE]

HasRoom(t) == Len(t.fifo) < Depth
push_tx(t, byte) ==
  IF HasRoom(t) THEN [t EXCEPT !.fifo = Append(@, byte)] ELSE [t EXCEPT !.overrun = TRUE]

Swapped(byte) == IF cfg.swap THEN Reverse(byte) ELSE byte
Flat(bytes) == FlattenSeq([i \in DOMAIN bytes |-> Swapped(bytes[i])])

\* The first bit goes on the line.
enter_transmit(t) ==
  [t EXCEPT !.fsm = "TRANSMIT", !.phase = 0, !.odd = FALSE, !.out_en = 1, !.index = 1,
            !.data_pin = t.frame[1]]

FrameBits(t) ==
  LET bits == Flat(t.fifo)
  IN  SubSeq(bits, 1, IF cfg.frame_size < Len(bits) THEN cfg.frame_size ELSE Len(bits))

Loaded(t) ==
  IF Continuous
  THEN [t EXCEPT !.frame = Swapped(Head(t.fifo)), !.fifo = Tail(@), !.index = 1]
  ELSE [t EXCEPT !.frame = FrameBits(t), !.index = 1,
                 !.underrun = @ \/ Len(Flat(t.fifo)) < cfg.frame_size]

\* Ignored if the FIFO is empty; a transmission under way starts over.
tx_go(t) ==
  LET l == [Loaded(t) EXCEPT !.busy = TRUE, !.out_en = 1]
  IN  IF t.fifo = <<>> THEN t
      ELSE IF cfg.wire > 0
      THEN [l EXCEPT !.fsm = "WIRE", !.clk_pin = 1, !.phase = -cfg.wire]
      ELSE IF cfg.tst > 0
      THEN [l EXCEPT !.fsm = "TST", !.clk_pin = 0, !.phase = -cfg.tst]
      ELSE enter_transmit(l)

\* Only mode 3 stops the clock when the data is out; the phase is kept for the
\* free-running clock and the auto-arm.
finish_frame(t) ==
  [t EXCEPT !.busy = FALSE, !.out_en = 0, !.frame = <<>>, !.index = 1,
            !.fifo = IF Continuous THEN @ ELSE <<>>,
            !.fsm = IF t.clk_mode = 3 THEN "IDLE" ELSE "CLKRUN",
            !.clk_pin = IF t.clk_mode = 3 THEN 1 ELSE @]

\* Seeded fault: a byte or frame is left one bit early.
AllButOne(t) == t.index < Len(t.frame) - 1
MoreBits(t) == t.index < Len(t.frame)

advance_data(t) ==
  IF MoreBits(t)
  THEN [t EXCEPT !.index = @ + 1, !.data_pin = t.frame[t.index + 1]]
  ELSE IF Continuous /\ t.fifo # <<>>
  THEN LET byte == Swapped(Head(t.fifo))
       IN  [t EXCEPT !.frame = byte, !.fifo = Tail(@), !.index = 1, !.data_pin = byte[1]]
  ELSE finish_frame(t)

\* Seeded fault: time left over from a half period is forgotten.
FromNow(t) == 0
Leftover(t) == t.phase - Half

\* Half a period of the TX clock, every second of which ends a bit; put are the
\* bits that came on the line.
HalfPeriod(s) ==
  LET h == [s.t EXCEPT !.phase = Leftover(s.t), !.clk_pin = 1 - @, !.odd = ~@]
      a == IF h.odd THEN h ELSE advance_data(h)
  IN  [t |-> a, put |-> IF ~h.odd /\ a.busy THEN Append(s.put, a.data_pin) ELSE s.put]

Transmitted(t) ==
  LET after[k \in 0 .. t.phase \div Half] ==
        IF k = 0 THEN [t |-> t, put |-> <<>>]
        ELSE IF after[k-1].t.fsm # "TRANSMIT" \/ after[k-1].t.phase < Half THEN after[k-1]
        ELSE HalfPeriod(after[k-1])
  IN  after[t.phase \div Half]

\* The state machine after the time of t.phase; the first bit of a frame comes on
\* the line at the end of the advance in which its delay ends.
Progress(t) ==
  IF t.fsm = "WIRE" /\ t.phase >= 0 /\ cfg.tst > 0
  THEN [t |-> [t EXCEPT !.fsm = "TST", !.clk_pin = 0, !.phase = -cfg.tst], put |-> <<>>]
  ELSE IF t.fsm \in {"WIRE", "TST"} /\ t.phase >= 0
  THEN [t |-> enter_transmit(t), put |-> <<t.frame[1]>>]
  ELSE IF t.fsm = "TRANSMIT" THEN Transmitted(t)
  ELSE [t |-> t, put |-> <<>>]

\* The clock that keeps running once the data is out.
FreeRunning(t) ==
  LET edges == t.phase \div (2 * Half)
  IN  IF t.fsm = "CLKRUN"
      THEN [t EXCEPT !.phase = @ - edges * 2 * Half,
                     !.clk_pin = IF edges % 2 = 0 THEN @ ELSE 1 - @]
      ELSE t

tx_reinit(t) == [InitTx EXCEPT !.data_pin = t.data_pin]
-----------------------------------------------------------------------------
(***************************************************************************)
(* Receive side.                                                           *)
(***************************************************************************)
InitRx == [en |-> FALSE, fifo |-> <<>>, valid |-> FALSE, ovf |-> FALSE, eof |-> FALSE,
           shift |-> [i \in 1..ShiftLength |-> 0], started |-> FALSE, cnt |-> 0,
           count |-> 0, next |-> 0, due |-> 0]

\* What is in the FIFO survives the arming, nothing survives the disarming.
arm_rx(r, enabled) ==
  IF ~enabled THEN InitRx
  ELSE IF r.en THEN r
  ELSE [InitRx EXCEPT !.en = TRUE, !.fifo = r.fifo, !.valid = r.valid, !.ovf = r.ovf]

clr_val(r) ==
  LET fifo == IF r.fifo = <<>> THEN r.fifo ELSE Tail(r.fifo)
  IN  [r EXCEPT !.fifo = fifo, !.valid = fifo # <<>>]
clr_ovf(r) == [r EXCEPT !.ovf = FALSE]

\* Seeded fault: every mode stops the clock at the end of an RX frame.
StopsInAnyMode(t) == t.fsm = "CLKRUN"
StopsClock(t) == t.fsm = "CLKRUN" /\ t.clk_mode \in {0, 1}

\* A byte is captured; s.t is the transmit side, whose clock the last byte of a
\* frame may stop, and s.got the bytes so far.
capture_byte(s) ==
  LET kept == [s.r EXCEPT !.fifo = IF Len(@) < Depth THEN Append(@, s.r.shift) ELSE @,
                          !.ovf = @ \/ Len(s.r.fifo) >= Depth, !.valid = TRUE]
      ends == cfg.rx_frame_size # 0 /\ s.r.count + 1 >= cfg.rx_frame_size
  IN  [got |-> Append(s.got, s.r.shift),
       r |-> [kept EXCEPT !.count = IF ends \/ cfg.rx_frame_size = 0 THEN 0 ELSE @ + 1,
                          !.eof = @ \/ ends],
       t |-> IF ends /\ StopsClock(s.t)
             THEN [s.t EXCEPT !.fsm = "IDLE", !.clk_pin = IF s.t.clk_mode = 0 THEN 0 ELSE 1]
             ELSE s.t]

\* Seeded fault: an edge too many for each byte.
OneEdgeLate(r) == r.cnt > SampleSize
ByteDue(r) == r.cnt >= SampleSize

sample_edge(s, bit) ==
  LET shifted == [s EXCEPT !.r.shift = Append(Tail(@), bit)]
  IN  IF ~s.r.started
      THEN [shifted EXCEPT !.r.started = (bit = StartBit), !.r.cnt = 0]
      ELSE IF ByteDue(s.r)
      THEN capture_byte([shifted EXCEPT !.r.cnt = 0])
      ELSE [shifted EXCEPT !.r.cnt = @ + 1]

\* The edges of the oversampling clock in the last d units of time: the first one
\* is a period after the previous advance if none is set.
FirstEdge(r) == IF r.next = 0 THEN RxPeriod ELSE r.next
Edges(r, d) ==
  IF ~r.en \/ d < FirstEdge(r) THEN 0 ELSE (d - FirstEdge(r)) \div RxPeriod + 1

\* bits[k] is the level of the line at the k-th of these edges.
Sampled(s, d, bits) ==
  LET n == Edges(s.r, d)
      after[k \in 0..n] == IF k = 0 THEN s ELSE sample_edge(after[k-1], bits[k])
  IN  IF s.r.en
      THEN [after[n] EXCEPT !.r.next = FirstEdge(s.r) + n * RxPeriod - d]
      ELSE s

\* The deadline that the end of a transmission sets, and the arming when it passes.
AutoArm(r, before, t, d) ==
  LET ended == before.busy /\ ~t.busy /\ cfg.arm > 0 /\ ~r.en
      due == IF ended THEN cfg.arm - t.phase ELSE r.due - d
      set == ended \/ r.due > 0
  IN  IF ~set THEN r
      ELSE IF due <= 0 THEN arm_rx(r, TRUE)
      ELSE [r EXCEPT !.due = due]
-----------------------------------------------------------------------------
PerifInit ==
  /\ cfg \in Configs /\ tx = InitTx /\ rx = InitRx
  /\ owed = <<>> /\ sent = <<>> /\ since = 0
  /\ heard = <<>> /\ got = <<>> /\ armed = 0

ForgetTransmission == owed' = <<>> /\ sent' = <<>> /\ since' = 0
ForgetReception == heard' = <<>> /\ got' = <<>> /\ armed' = 0

Listening(r) ==
  IF r.en = rx.en THEN UNCHANGED reception ELSE ForgetReception

\* A write to R30: the strobed bytes push, set the clock mode, arm or disarm.
process_r30(w) ==
  LET pushed == IF 0 \in w.strobes THEN push_tx(tx, w.byte) ELSE tx
  IN  /\ tx' = IF 2 \in w.strobes THEN [pushed EXCEPT !.clk_mode = w.mode] ELSE pushed
      /\ rx' = IF 3 \in w.strobes THEN arm_rx(rx, w.enable) ELSE rx
      /\ Listening(rx')
      /\ owed' = IF tx.busy /\ Continuous /\ pushed.fifo # tx.fifo
                 THEN owed \o Swapped(w.byte) ELSE owed
      /\ Len(owed') <= MaxOwed
      /\ UNCHANGED <<cfg, sent, since>>

\* What tx_go promises: what is in the FIFO, or as much of it as makes a frame.
Promised(t) == IF Continuous THEN Flat(t.fifo) ELSE FrameBits(t)

\* A write to R31: reinit comes before go, the receive side after both.
process_r31_command(c) ==
  LET stopped == IF c.reinit THEN tx_reinit(tx) ELSE tx
      popped == IF c.clr_val THEN clr_val(rx) ELSE rx
  IN  /\ tx' = IF c.go THEN tx_go(stopped) ELSE stopped
      /\ rx' = IF c.clr_ovf THEN clr_ovf(popped) ELSE popped
      /\ IF c.go /\ stopped.fifo # <<>>
         THEN /\ owed' = Promised(stopped) /\ since' = 0
              /\ sent' = IF tx'.fsm = "TRANSMIT" THEN <<tx'.data_pin>> ELSE <<>>
         ELSE IF c.reinit THEN ForgetTransmission ELSE UNCHANGED transmission
      /\ UNCHANGED <<cfg, reception>>

\* The frame size and the bit order stay while a frame is on the line.
WriteConfig(c) ==
  /\ tx.busy => c.frame_size = cfg.frame_size /\ c.swap = cfg.swap
  /\ cfg' = c
  /\ UNCHANGED <<tx, rx, transmission, reception>>

\* Hardware reset; the configuration survives it.
reset ==
  /\ tx' = InitTx /\ rx' = InitRx
  /\ ForgetTransmission /\ ForgetReception
  /\ UNCHANGED cfg

AtRest(t) == IF t.fsm = "IDLE" THEN [t EXCEPT !.phase = 0] ELSE t

\* Time moves on by d: first the transmitter, then the auto-arm, then the receiver.
Advance(d) ==
  LET moved == Progress(IF tx.fsm = "IDLE" THEN tx ELSE [tx EXCEPT !.phase = @ + d])
      listening == AutoArm(rx, tx, moved.t, d)
  IN  \E bits \in [1 .. Edges(listening, d) -> Levels] :
        LET s == Sampled([t |-> FreeRunning(moved.t), r |-> listening, got |-> got], d, bits)
        IN  /\ tx' = AtRest(s.t) /\ rx' = s.r
            /\ sent' = sent \o moved.put
            /\ since' = IF tx.fsm = "TRANSMIT" /\ moved.t.fsm = "TRANSMIT" THEN since + d ELSE 0
            /\ heard' = heard \o bits /\ got' = s.got
            /\ armed' = IF rx'.en THEN armed + d ELSE 0
            /\ armed' <= MaxHeard
            /\ UNCHANGED <<cfg, owed>>

PerifNext ==
  \/ \E w \in Writes : process_r30(w)
  \/ \E c \in Commands : process_r31_command(c)
  \/ \E c \in Configs : WriteConfig(c)
  \/ \E d \in Durations : Advance(d)
  \/ reset

PerifSpec == PerifInit /\ [][PerifNext]_perifVars
-----------------------------------------------------------------------------
ByteFifo(length) == {f \in Seq([1..length -> Bit]) : Len(f) <= Depth}
ByteLength == Len(CHOOSE b \in Bytes : TRUE)

\* The types, and what the fields mean together: a frame is on the line or about
\* to be exactly while the transmitter is busy and drives, it is never empty, and
\* half periods are never left waiting; valid tells whether a byte can be read.
PerifTypeOK ==
  /\ cfg \in Configs
  /\ tx.fsm \in {"IDLE", "WIRE", "TST", "TRANSMIT", "CLKRUN"} /\ tx.clk_mode \in 0..3
  /\ {tx.clk_pin, tx.data_pin, tx.out_en} \subseteq Bit
  /\ tx.fifo \in ByteFifo(ByteLength)
  /\ tx.busy <=> tx.fsm \in {"WIRE", "TST", "TRANSMIT"}
  /\ tx.busy <=> tx.out_en = 1 /\ tx.index \in DOMAIN tx.frame
  /\ CASE tx.fsm = "TRANSMIT" -> tx.phase \in 0 .. Half - 1
       [] tx.fsm = "CLKRUN" -> tx.phase \in 0 .. 2 * Half - 1
       [] tx.fsm = "IDLE" -> tx.phase = 0
       [] OTHER -> tx.phase < 0
  /\ rx.fifo \in ByteFifo(ShiftLength) /\ rx.valid = (rx.fifo # <<>>)
  /\ rx.cnt \in 0..SampleSize /\ rx.next \in 0..RxPeriod
  /\ rx.en => rx.due = 0

\* What a transmission puts on the line is what it was given, bit for bit and in
\* order: the FIFO when it started, cut to the frame size, or in continuous mode
\* with the bytes the FIFO took in the meantime.  Nothing is left when it ends.
BitsInOrder == IsPrefix(sent, owed) /\ (tx.busy \/ sent = owed)

\* However unevenly the time line is advanced, bits keep to the grid of the TX
\* clock and samples to that of the RX clock: neither drifts nor is one skipped.
NoDrift ==
  /\ tx.fsm = "TRANSMIT" => Len(sent) = since \div (2 * Half) + 1
  /\ Len(heard) = armed \div RxPeriod

\* The k-th byte since the receiver was armed is what the shift register holds
\* k * (SampleSize + 1) edges after the first start bit, whether or not the FIFO
\* had room, a frame ended or its size was changed in between.
Shifted(n) == [i \in 1..ShiftLength |->
                 IF n - ShiftLength + i > 0 THEN heard[n - ShiftLength + i] ELSE 0]
Starts == {n \in DOMAIN heard : heard[n] = StartBit}
Start == CHOOSE n \in Starts : \A m \in Starts : n <= m
BytesFromLine ==
  got = IF Starts = {} THEN <<>>
        ELSE [k \in 1 .. (Len(heard) - Start) \div (SampleSize + 1) |->
                Shifted(Start + k * (SampleSize + 1))]

\* Time alone stops the clock in two ways only: in mode 3 with the last bit of a
\* transmission, in modes 0 and 1 with the last byte of a received frame; there
\* it stops at the level of its mode, and in no other mode does it stop.
ClockStopsRight ==
  [][tx.fsm # "IDLE" /\ tx'.fsm = "IDLE" /\ (\E d \in Durations : Advance(d)) =>
       \/ tx.clk_mode = 3 /\ tx.busy /\ sent' = owed /\ tx'.clk_pin = 1
       \/ tx.clk_mode \in {0, 1} /\ rx'.eof /\ Len(got') > Len(got) /\ tx'.clk_pin = tx.clk_mode]_perifVars

\* As advance() says of the clock: the pin toggles twice in a period, so that half
\* a period of a running clock changes its level.
ClockKeepsRate ==
  [][Advance(Half) /\ tx.fsm = "CLKRUN" /\ tx'.fsm = "CLKRUN" => tx'.clk_pin # tx.clk_pin]_perifVars
=============================================================================
