---------------------------- MODULE I2cExpander ----------------------------
(***************************************************************************)
(* The TCA9538 I/O expander (pru_io/tca9538.py) behind its bus adapter     *)
(* (pru_io/tca9538_device_model.py), and firmware that bit-bangs I2C at    *)
(* it.  A line is 1 when nobody pulls it low.  A byte is a sequence of     *)
(* bits, the first one first on the wire; the first byte of a transfer is  *)
(* an address and the read/write bit behind it.                            *)
(***************************************************************************)
EXTENDS Integers, Sequences

CONSTANTS
  ByteLen,       \* bits of a byte, 8 in the code
  OwnAddress,    \* address: a sequence of ByteLen - 1 bits
  PointerOf,     \* the byte that selects each register
  PowerOn,       \* contents of the registers after reset
  MaxBytes       \* bound: bytes the firmware sends in one transfer

Level == {0, 1}
Octet == [1..ByteLen -> Level]
Registers == {"output", "polarity", "config"}

ASSUME I2cAssumption ==
  /\ ByteLen \in Nat \ {0, 1} /\ OwnAddress \in [1..(ByteLen-1) -> Level]
  /\ PointerOf \in [Registers -> Octet] /\ PowerOn \in [Registers -> Octet]
  /\ \A r, s \in Registers : r # s => PointerOf[r] # PointerOf[s]

VARIABLES
  scl, sda,   \* what the firmware drives
  chip,       \* the expander and its adapter
  sender,     \* the firmware: its step, the byte under way, how many before it
  heard,      \* history: which bytes of this transfer were acknowledged, whether it
              \* was a write to the chip, and the register its second byte selected
  written     \* history: what the transfers should have put in each register

i2cVars == <<scl, sda, chip, sender, heard, written>>

ChipStates == {"IDLE", "ADDR", "ACK_ADDR", "REGPTR", "ACK_REG", "DATA", "ACK_DATA", "DONE"}
Chip ==
  [state : ChipStates, reg : [Registers -> Octet],
   shift : UNION {[1..n -> Level] : n \in 0..ByteLen}, \* _shift and _bit_count
   match : BOOLEAN, pointer : Octet \cup {<< >>},
   prevScl : Level, prevMaster : Level,   \* _prev_scl, _prev_sda_master
   driving : BOOLEAN,                     \* _driving_low: the chip pulls SDA low
   seen : (Level \X Level) \cup {<< >>}]  \* what the bus last showed it, if anything

I2cTypeOK ==
  /\ scl \in Level /\ sda \in Level
  /\ chip \in Chip
  /\ sender.sent \in 0..MaxBytes /\ sender.byte \in UNION {[1..n -> Level] : n \in 0..ByteLen}
  /\ written \in [Registers -> Octet]

\* TCA9538Device.__init__ and TCA9538Model.reset
ChipReset ==
  [state |-> "IDLE", reg |-> PowerOn, shift |-> << >>, match |-> FALSE, pointer |-> << >>,
   prevScl |-> 1, prevMaster |-> 1, driving |-> FALSE, seen |-> << >>]
-----------------------------------------------------------------------------
(* The chip. *)

\* _slave_drives_low
PullsLow(c) == IF c.state = "ACK_ADDR" THEN c.match ELSE c.state \in {"ACK_REG", "ACK_DATA"}

OnStart(c) == [c EXCEPT !.state = "ADDR", !.shift = << >>, !.match = FALSE]
OnStop(c) == [c EXCEPT !.state = "IDLE", !.shift = << >>]

Stored(c, byte) ==
  [r \in Registers |-> IF c.pointer = PointerOf[r] THEN byte ELSE c.reg[r]]

\* _complete_byte; a byte of read transfers or of other addresses is no match.
CompleteByte(c, byte) ==
  CASE c.state = "ADDR" -> [c EXCEPT !.state = "ACK_ADDR", !.match = (byte = Append(OwnAddress, 0))]
    [] c.state = "REGPTR" -> [c EXCEPT !.state = "ACK_REG", !.pointer = byte]
    [] c.state = "DATA" -> [c EXCEPT !.state = "ACK_DATA", !.reg = Stored(c, byte)]

\* _on_scl_rising
OnRising(c, bit) ==
  LET shifted == Append(c.shift, bit) IN
  CASE c.state \in {"ADDR", "REGPTR", "DATA"} ->
         IF Len(shifted) < ByteLen THEN [c EXCEPT !.shift = shifted]
         ELSE [CompleteByte(c, shifted) EXCEPT !.shift = << >>]
    [] c.state = "ACK_ADDR" -> [c EXCEPT !.state = IF c.match THEN "REGPTR" ELSE "IDLE"]
    [] c.state = "ACK_REG" -> [c EXCEPT !.state = "DATA"]
    [] c.state = "ACK_DATA" -> [c EXCEPT !.state = "DONE"]
    [] OTHER -> [c EXCEPT !.state = "IDLE"]

\* TCA9538Device.step.  The line's level counts the chip's own pull as it was
\* when the step began.
Stepped(c, clock, master) ==
  LET level == IF PullsLow(c) THEN 0 ELSE master
      next == IF c.prevScl = 1 /\ clock = 1 /\ c.prevMaster = 1 /\ master = 0 THEN OnStart(c)
              ELSE IF clock = 1 /\ c.prevMaster = 0 /\ master = 1 THEN OnStop(c)
              ELSE IF c.prevScl = 0 /\ clock = 1 THEN OnRising(c, level)
              ELSE c
  IN  [next EXCEPT !.prevScl = clock, !.prevMaster = master,
                   !.driving = (level = 0 /\ master = 1)]

\* Seeded fault: the chip takes its own pull for the master's.
TakesOwnPull(c, clock, line) == Stepped(c, clock, line)

\* TCA9538Model.tick: while the chip pulls the line low, the master is taken
\* to have released it.
ChipTick(c, clock, line) == Stepped(c, clock, IF c.driving THEN 1 ELSE line)

\* The line as the bus resolves it.
Line(c, level) == IF c.driving THEN 0 ELSE level

\* What DeviceBus does with a write to the pins: the chip is sampled if the
\* lines have changed; the edge its own answer makes counts as seen.
OnPins(c, clock, data) ==
  LET shown == <<clock, Line(c, data)>>
      next == IF shown = c.seen THEN c ELSE ChipTick(c, clock, shown[2])
  IN  [next EXCEPT !.seen = <<clock, Line(next, data)>>]
-----------------------------------------------------------------------------
(* The firmware, one write of R30 a step.  Data changes while the clock is   *)
(* low, or with the write that takes it low.                                 *)

Put(clock, data, step) ==
  /\ scl' = clock /\ sda' = data
  /\ chip' = OnPins(chip, clock, data)
  /\ sender' = [sender EXCEPT !.step = step]

In(step) == sender.step = step

Idle == In("off") /\ Put(1, 1, "idle") /\ UNCHANGED <<heard, written>>

\* The transfer with one byte more; a write takes effect with its third byte.
Nothing == [acks |-> << >>, toChip |-> FALSE, pointer |-> << >>]
Grown(transfer, byte, ack) ==
  [acks |-> Append(transfer.acks, ack),
   toChip |-> IF transfer.acks = << >> THEN byte = Append(OwnAddress, 0) ELSE transfer.toChip,
   pointer |-> IF Len(transfer.acks) = 1 THEN byte ELSE transfer.pointer]

StartCondition ==
  /\ In("idle")
  /\ scl' = 1 /\ sda' = 0 /\ chip' = OnPins(chip, 1, 0)
  /\ sender' = [step |-> "started", byte |-> << >>, sent |-> 0]
  /\ heard' = Nothing /\ UNCHANGED written

ClockLow == In("started") /\ Put(0, 0, "low") /\ UNCHANGED <<heard, written>>

DataBit ==
  /\ In("low") /\ sender.sent < MaxBytes
  /\ \E bit \in Level :
       /\ scl' = 0 /\ sda' = bit /\ chip' = OnPins(chip, 0, bit)
       /\ sender' = [sender EXCEPT !.step = "set", !.byte = Append(@, bit)]
  /\ UNCHANGED <<heard, written>>

DataClock == In("set") /\ Put(1, sda, "high") /\ UNCHANGED <<heard, written>>

\* The fall behind the last bit may release the data line at once.
DataClockLow ==
  /\ In("high")
  /\ IF Len(sender.byte) < ByteLen THEN Put(0, sda, "low")
     ELSE \E data \in {sda, 1} : Put(0, data, "release")
  /\ UNCHANGED <<heard, written>>

ReleaseLine == In("release") /\ Put(0, 1, "released") /\ UNCHANGED <<heard, written>>

\* The firmware reads the acknowledgement while the clock is high.
AckClock ==
  /\ In("released")
  /\ scl' = 1 /\ sda' = 1 /\ chip' = OnPins(chip, 1, 1)
  /\ heard' = Grown(heard, sender.byte, Line(chip', 1) = 0)
  /\ written' = [r \in Registers |->
       IF Len(heard'.acks) = 3 /\ heard'.toChip /\ heard'.pointer = PointerOf[r]
       THEN sender.byte ELSE written[r]]
  /\ sender' = [step |-> "acknowledged", byte |-> << >>, sent |-> sender.sent + 1]

\* It may take the data line down with the clock.
AckClockLow ==
  /\ In("acknowledged")
  /\ \E data \in Level : Put(0, data, "low")
  /\ UNCHANGED <<heard, written>>

\* The end of the transfer or the start of another, between two bytes or in
\* one; not before its last bit, whose clock the condition's own would be.
Breakable == In("low") /\ Len(sender.byte) < ByteLen - 1
PrepareStop == Breakable /\ Put(0, 0, "stop low") /\ UNCHANGED <<heard, written>>
StopClock == In("stop low") /\ Put(1, 0, "stop high") /\ UNCHANGED <<heard, written>>
StopCondition == In("stop high") /\ Put(1, 1, "idle") /\ UNCHANGED <<heard, written>>
PrepareRestart == Breakable /\ Put(0, 1, "restart low") /\ UNCHANGED <<heard, written>>
RestartClock == In("restart low") /\ Put(1, 1, "idle") /\ UNCHANGED <<heard, written>>

\* A reset of the core lets both lines fall and resets the chip with it.
ResetI2c ==
  /\ scl' = 0 /\ sda' = 0 /\ chip' = ChipReset
  /\ sender' = [step |-> "off", byte |-> << >>, sent |-> 0]
  /\ heard' = Nothing /\ written' = PowerOn

I2cInit ==
  /\ scl = 0 /\ sda = 0 /\ chip = ChipReset
  /\ sender = [step |-> "off", byte |-> << >>, sent |-> 0]
  /\ heard = Nothing /\ written = PowerOn

I2c ==
  \/ Idle \/ StartCondition \/ ClockLow \/ DataBit \/ DataClock \/ DataClockLow
  \/ ReleaseLine \/ AckClock \/ AckClockLow \/ PrepareStop \/ StopClock \/ StopCondition
  \/ PrepareRestart \/ RestartClock \/ ResetI2c

I2cSpec == I2cInit /\ [][I2c]_i2cVars
-----------------------------------------------------------------------------
\* Whatever else the traffic is (for another address, a read, broken off or
\* restarted anywhere, too long, cut off by a reset), a register holds the last
\* byte a write transfer brought for it; and the firmware finds the bytes of
\* such a transfer acknowledged, the first three, and no others.
WritesAreStored ==
  /\ sender.step \notin {"high", "release", "released"} => chip.reg = written
  /\ \A i \in DOMAIN heard.acks : heard.acks[i] <=> heard.toChip /\ i <= 3
=============================================================================
