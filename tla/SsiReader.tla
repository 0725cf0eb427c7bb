----------------------------- MODULE SsiReader -----------------------------
(***************************************************************************)
(* An SSI encoder at the pins of a core (pru_io/ssi_encoder_model.py), the *)
(* firmware that reads it (source/ssi_generic_reader/), and the mailbox    *)
(* through which the host gets the frames (pru_io/ssi_runtime.py).  Time   *)
(* is the core's cycles: in each the firmware goes on and the encoder, a   *)
(* time-driven device, ticks behind it.  A word is a sequence of bits, the *)
(* first one first on the wire.                                            *)
(***************************************************************************)
EXTENDS Integers, Sequences, FiniteSets

CONSTANTS
  PositionBits, ErrorBits, \* the fields of a frame, the error behind the position
  LowBits,                 \* bits of raw_frame_lo, 32 in the code
  Monoflop,                \* monoflop_cycles
  MinPeriod,               \* min_rising_period_cycles
  FirstLow,                \* cycles of the first low phase of a frame
  HighDelays, LowDelays,   \* cycles the firmware may wait with the clock high, low
  IdleDelays,              \* and between two frames
  Encodings,               \* subset of {"binary", "gray"}
  Positions, Errors        \* values the host sets

Resolution == PositionBits + ErrorBits
Bit == {0, 1}
Never == -1
Unread == << >>

ASSUME SsiAssumption ==
  /\ PositionBits \in Nat \ {0} /\ ErrorBits \in Nat /\ LowBits \in 1..Resolution
  /\ Monoflop \in Nat \ {0} /\ MinPeriod \in Nat \ {0}
  /\ HighDelays \cup LowDelays \cup IdleDelays \cup {FirstLow} \subseteq Nat \ {0}
  /\ \A low \in LowDelays : FirstLow <= low   \* the first low phase has no delay loop
  /\ Positions \subseteq [1..PositionBits -> Bit] /\ Errors \subseteq [1..ErrorBits -> Bit]

VARIABLES
  enc,      \* the encoder
  field,    \* position and error the host has set
  config,   \* the reader's configuration block, and the encoding
  fw,       \* the firmware: its step, the cycles to that step, bits to read, word
  clock,    \* the clock pin
  mailbox,  \* sequence (its parity), raw_frame_lo and _hi
  truth,    \* history: the fields when the firmware began the frame it is reading
  blamed,   \* history: whether the encoder has reported a fault since
  shown     \* history: both, of the frame published last; or Unread

ssiVars == <<enc, field, config, fw, clock, mailbox, truth, blamed, shown>>

Encoder ==
  [state : {"idle", "active", "guard"}, out : Bit, prev : Bit \cup {Never},
   fall : -1..Monoflop, rise : -1..MinPeriod,   \* cycles since the last edges
   raw : Seq(Bit), bits : 0..Resolution, post : BOOLEAN, fault : BOOLEAN]

SsiTypeOK ==
  /\ enc \in Encoder
  /\ field \in [position : Positions, error : Errors]
  /\ fw.word \in Seq(Bit) /\ fw.left \in 0..Resolution /\ clock \in Bit
  /\ mailbox.sequence \in Bit
-----------------------------------------------------------------------------
(* The encoder. *)

\* pack_frame and decode_frame
Gray(p) == [i \in 1..Len(p) |-> IF i = 1 THEN p[1] ELSE (p[i] + p[i-1]) % 2]
Ungray(g) == [i \in 1..Len(g) |-> Cardinality({j \in 1..i : g[j] = 1}) % 2]
Packed(f) == (IF config.encoding = "gray" THEN Gray(f.position) ELSE f.position) \o f.error
Decoded(word) ==
  LET p == SubSeq(word, 1, PositionBits) IN
  [position |-> IF config.encoding = "gray" THEN Ungray(p) ELSE p,
   error |-> SubSeq(word, PositionBits + 1, Resolution)]

EncoderReset ==
  [state |-> "idle", out |-> 1, prev |-> Never, fall |-> Never, rise |-> Never,
   raw |-> << >>, bits |-> 0, post |-> FALSE, fault |-> FALSE]

Faulty(e) == [e EXCEPT !.fault = TRUE]

\* _start_frame: the first fall latches what the host has set.
Started(e) ==
  [e EXCEPT !.state = "active", !.raw = Packed(field), !.bits = 0, !.fall = 0,
            !.rise = Never, !.post = FALSE, !.out = 1]

\* tick on a falling edge: in the guard time one is allowed, to close the word.
Fell(e) ==
  CASE e.state = "idle" -> Started(e)
    [] e.state = "active" -> [e EXCEPT !.fall = 0]
    [] e.state = "guard" /\ ~e.post -> [e EXCEPT !.post = TRUE, !.fall = 0]
    [] e.state = "guard" /\ e.post -> Faulty([e EXCEPT !.fall = 0])

\* _clock_bit: the next bit, reported if it comes too early.
Clocked(e) ==
  LET next == [e EXCEPT !.out = e.raw[e.bits + 1], !.bits = @ + 1, !.rise = 0,
                        !.state = IF e.bits + 1 = Resolution THEN "guard" ELSE "active"]
  IN  IF e.rise # Never /\ e.rise < MinPeriod THEN Faulty(next) ELSE next

\* tick on a rising edge.
Rose(e) ==
  CASE e.state = "active" -> Clocked(e)
    [] e.state = "guard" /\ e.post -> [e EXCEPT !.out = 0]
    [] OTHER -> e

\* Seeded fault: the closing edge does not hold up the monoflop.
ExpiresEarly(e) ==
  LET over == [e EXCEPT !.state = "idle", !.fall = Never, !.out = 1]
  IN  IF e.state = "idle" \/ e.fall = Never \/ e.fall + 2 < Monoflop THEN e
      ELSE IF e.state = "guard" THEN over ELSE Faulty(over)

\* _expire: the monoflop runs from the latest fall; it ends the guard time, or
\* cuts off a word.
Expired(e) ==
  LET over == [e EXCEPT !.state = "idle", !.fall = Never, !.out = 1]
  IN  IF e.state = "idle" \/ e.fall = Never \/ e.fall < Monoflop THEN e
      ELSE IF e.state = "guard" THEN over ELSE Faulty(over)

Older(age, most) == IF age = Never \/ age = most THEN age ELSE age + 1

\* tick
Ticked(e, level) ==
  LET aged == [e EXCEPT !.fall = Older(@, Monoflop), !.rise = Older(@, MinPeriod)]
      x == [Expired(aged) EXCEPT !.prev = level]
  IN  IF e.prev = 1 /\ level = 0 THEN Fell(x)
      ELSE IF e.prev = 0 /\ level = 1 THEN Rose(x)
      ELSE x
-----------------------------------------------------------------------------
(* The firmware.  Its steps are its writes to the clock pin, to the mailbox   *)
(* and to the word; the cycles from a step to the next are its delay.        *)

Low(word) == SubSeq(word, Resolution - LowBits + 1, Resolution)
High(word) == SubSeq(word, 1, Resolution - LowBits)
Zeros(n) == [i \in 1..n |-> 0]

AtStart == [step |-> "start", wait |-> 0, left |-> 0, word |-> << >>]

\* A cycle of the core: the encoder ticks behind the instruction.
FaultNow == Ticked([enc EXCEPT !.fault = FALSE], clock').fault
Cycle == enc' = Ticked(enc, clock')

At(step) == fw.step = step /\ fw.wait = 0
Goto(step, delay) == fw' = [fw EXCEPT !.step = step, !.wait = delay - 1]

Delay ==
  /\ fw.wait > 0
  /\ fw' = [fw EXCEPT !.wait = @ - 1]
  /\ UNCHANGED <<clock, mailbox, truth, shown>>
  /\ Cycle /\ blamed' = (blamed \/ FaultNow)

Start ==
  /\ At("start")
  /\ clock' = 1
  /\ Goto("clear", 1)
  /\ UNCHANGED <<mailbox, truth, shown>>
  /\ Cycle /\ blamed' = (blamed \/ FaultNow)

\* sequence, raw_frame_lo and raw_frame_hi are cleared one after the other.
Clear ==
  /\ \/ At("clear") /\ mailbox' = [mailbox EXCEPT !.sequence = 0] /\ Goto("clear lo", 1)
     \/ At("clear lo") /\ mailbox' = [mailbox EXCEPT !.lo = Zeros(LowBits)] /\ Goto("clear hi", 1)
     \/ /\ At("clear hi")
        /\ mailbox' = [mailbox EXCEPT !.hi = Zeros(Resolution - LowBits)]
        /\ Goto("frame", 1)
  /\ UNCHANGED <<clock, truth, shown>>
  /\ Cycle /\ blamed' = (blamed \/ FaultNow)

\* frame_start
Begin ==
  /\ At("frame")
  /\ clock' = 0
  /\ fw' = [step |-> "rise", wait |-> FirstLow - 1, left |-> Resolution, word |-> << >>]
  /\ truth' = field
  /\ UNCHANGED <<mailbox, shown>>
  /\ Cycle /\ blamed' = FaultNow

\* read_bit
Rise ==
  /\ At("rise")
  /\ clock' = 1
  /\ Goto("sample", config.high)
  /\ UNCHANGED <<mailbox, truth, shown>>
  /\ Cycle /\ blamed' = (blamed \/ FaultNow)

\* sample_bit, and the fall that ends the bit.
Sample ==
  /\ At("sample")
  /\ clock' = 0
  /\ fw' = [step |-> IF fw.left = 1 THEN "close" ELSE "rise", wait |-> config.low - 1,
            left |-> fw.left - 1, word |-> Append(fw.word, enc.out)]
  /\ UNCHANGED <<mailbox, truth, shown>>
  /\ Cycle /\ blamed' = (blamed \/ FaultNow)

Close ==
  /\ At("close")
  /\ clock' = 1
  /\ Goto("odd", 1)
  /\ UNCHANGED <<mailbox, truth, shown>>
  /\ Cycle /\ blamed' = (blamed \/ FaultNow)

\* Seeded fault: the sequence is even again before the frame is complete.
EvenTooSoon ==
  /\ UNCHANGED <<clock, truth>>
  /\ \/ /\ At("odd") /\ Goto("lo", 1)
        /\ mailbox' = [mailbox EXCEPT !.sequence = 1 - @] /\ UNCHANGED shown
     \/ /\ At("lo") /\ Goto("even", 1)
        /\ mailbox' = [mailbox EXCEPT !.lo = Low(fw.word)] /\ UNCHANGED shown
     \/ /\ At("hi") /\ Goto("frame", config.idle)
        /\ mailbox' = [mailbox EXCEPT !.hi = High(fw.word)] /\ UNCHANGED shown
     \/ /\ At("even") /\ Goto("hi", 1)
        /\ mailbox' = [mailbox EXCEPT !.sequence = 1 - @]
        /\ shown' = [field |-> truth, blamed |-> blamed \/ FaultNow]
  /\ Cycle /\ blamed' = (blamed \/ FaultNow)

\* The sequence is odd while the mailbox is written.
Publish ==
  /\ UNCHANGED <<clock, truth>>
  /\ \/ /\ At("odd") /\ Goto("lo", 1)
        /\ mailbox' = [mailbox EXCEPT !.sequence = 1 - @] /\ UNCHANGED shown
     \/ /\ At("lo") /\ Goto("hi", 1)
        /\ mailbox' = [mailbox EXCEPT !.lo = Low(fw.word)] /\ UNCHANGED shown
     \/ /\ At("hi") /\ Goto("even", 1)
        /\ mailbox' = [mailbox EXCEPT !.hi = High(fw.word)] /\ UNCHANGED shown
     \/ /\ At("even") /\ Goto("frame", config.idle)
        /\ mailbox' = [mailbox EXCEPT !.sequence = 1 - @]
        /\ shown' = [field |-> truth, blamed |-> blamed \/ FaultNow]
  /\ Cycle /\ blamed' = (blamed \/ FaultNow)

Run == Delay \/ Start \/ Clear \/ Begin \/ Rise \/ Sample \/ Close \/ Publish
-----------------------------------------------------------------------------
(* The host, between two instructions. *)

EmptyMailbox == [sequence |-> 0, lo |-> Zeros(LowBits), hi |-> Zeros(Resolution - LowBits)]

\* set_position and set_error
SetField ==
  /\ field' \in [position : Positions, error : Errors] /\ field' # field
  /\ UNCHANGED <<enc, config, fw, clock, mailbox, truth, blamed, shown>>

\* A reset of the core, which resets the devices at its port with it.
ResetReader ==
  /\ fw' = AtStart /\ clock' = 0 /\ enc' = EncoderReset
  /\ blamed' = FALSE /\ shown' = Unread
  /\ UNCHANGED <<config, field, mailbox, truth>>

\* SSIRuntime.load with other delays: the core is reset, the mailbox cleared.
LoadReader ==
  /\ fw' = AtStart /\ clock' = 0 /\ enc' = EncoderReset /\ mailbox' = EmptyMailbox
  /\ config' \in [high : HighDelays, low : LowDelays, idle : IdleDelays,
                  encoding : {config.encoding}]
  /\ blamed' = FALSE /\ shown' = Unread
  /\ UNCHANGED <<field, truth>>

SsiInit ==
  /\ field \in [position : Positions, error : Errors]
  /\ config \in [high : HighDelays, low : LowDelays, idle : IdleDelays, encoding : Encodings]
  /\ enc = EncoderReset /\ fw = AtStart /\ clock = 0 /\ mailbox = EmptyMailbox
  /\ truth = field /\ blamed = FALSE /\ shown = Unread

Ssi ==
  \/ Run /\ UNCHANGED <<field, config>>
  \/ SetField \/ ResetReader \/ LoadReader

SsiSpec == SsiInit /\ [][Ssi]_ssiVars
-----------------------------------------------------------------------------
\* mailbox(): what the host may take for a frame.
Coherent == mailbox.sequence = 0

\* A mailbox the host finds coherent holds the position and the error of one
\* moment, the beginning of the frame, however often the host changed them
\* meanwhile; unless the encoder has reported a fault in that frame, whichever
\* way the firmware was misconfigured.
FrameIsTrueOrBlamed ==
  Coherent /\ shown # Unread /\ ~shown.blamed
    => Decoded(mailbox.hi \o mailbox.lo) = shown.field

\* The encoder blames no firmware that keeps to the times of the data sheet.
GoodReaderNotBlamed ==
  /\ config.high + config.low >= MinPeriod
  /\ config.high + config.low < Monoflop /\ config.high + FirstLow < Monoflop
  /\ config.low + config.idle + 4 >= Monoflop
  => ~enc.fault

\* The host may trust what it reads: a coherent mailbox is true or the fault
\* that spoiled it is reported, and a fault that is reported has happened.
MailboxCanBeTrusted == FrameIsTrueOrBlamed /\ GoodReaderNotBlamed
=============================================================================
