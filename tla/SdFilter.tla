----------------------------- MODULE SdFilter ------------------------------
(***************************************************************************)
(* The sigma-delta filter of a core (pru_io/sd_filter.py, sd_channel.py):  *)
(* a cascade of three accumulators for each channel, latched after every   *)
(* osr samples, and the commands and the status firmware has in R31.  The  *)
(* filter advances once behind each instruction.  A sample is any bit.     *)
(***************************************************************************)
EXTENDS Integers, SequencesExt

CONSTANTS
  SdChannels,    \* channels, 0 among them
  Selections,    \* values of ch_sel; channel 0 answers for one that is none
  Rate, SdCycle,  \* SD clock and core clock, in the same unit
  DataBits,      \* bits of data in the status, 28 in the code
  ReinitBit, ClearBit, \* bits of the commands: 23 and 24, both in the data field
  OsrValues,     \* over-sampling ratios the firmware writes
  MaxSamples     \* bound: samples a channel takes after it was initialised

Stages == 1..3

ASSUME SdAssumption ==
  /\ 0 \in SdChannels \cap Selections /\ SdChannels \cup Selections \subseteq Nat
  /\ Rate \in [SdChannels -> Nat] /\ SdCycle \in Nat \ {0}
  /\ ReinitBit < DataBits /\ ClearBit < DataBits /\ ReinitBit # ClearBit
  /\ OsrValues \subseteq Nat \ {0}

VARIABLES
  sdChan,    \* the channels
  sdClock,   \* _clock_acc: what each channel has of its next SD clock
  control,   \* ch_sel and sd_en, as in R30
  stream,    \* history: the samples of each channel since firmware initialised it
  latched    \* history: how many of them it had taken when it last latched

sdVars == <<sdChan, sdClock, control, stream, latched>>

SdChannel ==
  [acc : [Stages -> Nat], shadow : [Stages -> Nat], valid : BOOLEAN, ovf : BOOLEAN,
   count : Nat, osr : OsrValues, stage : Stages]

SdTypeOK ==
  /\ sdChan \in [SdChannels -> SdChannel]
  /\ sdClock \in [SdChannels -> 0..SdCycle-1]
  /\ control \in [sel : Selections, en : BOOLEAN]
  /\ latched \in [SdChannels -> Seq({0, 1})] /\ stream \in [SdChannels -> Seq({0, 1})]

Zero == [s \in Stages |-> 0]
SdInit ==
  /\ \E osr \in OsrValues : sdChan =
       [c \in SdChannels |-> [acc |-> Zero, shadow |-> Zero, valid |-> FALSE, ovf |-> FALSE,
                              count |-> 0, osr |-> osr, stage |-> 3]]
  /\ sdClock = [c \in SdChannels |-> 0]
  /\ control = [sel |-> 0, en |-> FALSE]
  /\ stream = [c \in SdChannels |-> << >>] /\ latched = [c \in SdChannels |-> << >>]
-----------------------------------------------------------------------------
\* Seeded fault: a stage adds what the one before it was.
AddsOld(acc, bit) == [s \in Stages |-> IF s = 1 THEN acc[1] + bit ELSE acc[s] + acc[s-1]]

\* A stage adds what the one before it has just become.
Accumulated(acc, bit) ==
  LET one == acc[1] + bit  two == acc[2] + one
  IN  <<one, two, acc[3] + two>>

\* SDChannel.tick
TickChannel(ch, bit) ==
  LET acc == Accumulated(ch.acc, bit)
      next == [ch EXCEPT !.acc = acc, !.ovf = @ \/ acc[3] >= 2^DataBits, !.count = @ + 1]
  IN  IF ch.count + 1 >= ch.osr
      THEN [next EXCEPT !.shadow = acc, !.valid = TRUE, !.count = 0] ELSE next

Taken(ch, bits) == FoldLeft(TickChannel, ch, bits)

\* SigmaDeltaFilter.tick: each channel takes the samples that are due.  The
\* filter ch is what the instruction has made of the channels.
Due(c) == (sdClock[c] + Rate[c]) \div SdCycle

\* The samples a channel had taken at the latch these bits bring about, if any.
LatchedWith(ch, before, bits) ==
  LET to == ch.osr - ch.count   \* samples to the next latch
      first == IF to < 1 THEN 1 ELSE to
      last == first + ((Len(bits) - first) \div ch.osr) * ch.osr
  IN  IF Len(bits) < first THEN << >> ELSE before \o SubSeq(bits, 1, last)

Advance(chan, samples) ==
  \E bits \in [SdChannels -> UNION {[1..n -> {0, 1}] : n \in {Due(c) : c \in SdChannels}}] :
    /\ \A c \in SdChannels : Len(bits[c]) = Due(c) /\ Len(samples[c] \o bits[c]) <= MaxSamples
    /\ sdChan' = [c \in SdChannels |-> Taken(chan[c], bits[c])]
    /\ sdClock' = [c \in SdChannels |-> (sdClock[c] + Rate[c]) % SdCycle]
    /\ stream' = [c \in SdChannels |-> samples[c] \o bits[c]]
    /\ latched' = [c \in SdChannels |->
         LET with == LatchedWith(chan[c], samples[c], bits[c])
         IN  IF with = << >> THEN latched[c] ELSE with]
-----------------------------------------------------------------------------
(* The instructions.  A word of R31 is the set of its high bits.             *)

Selected == IF control.sel \in SdChannels THEN control.sel ELSE 0

BitsOf(value) == {b \in 0..DataBits-1 : (value \div 2^b) % 2 = 1}

\* get_r31_status: the data field; ovf and valid lie above it.
Status == LET ch == sdChan[Selected] IN BitsOf(ch.shadow[ch.stage] % 2^DataBits)

\* reinit: the shadow, valid and ovf stay.
Reinit(ch) == [ch EXCEPT !.acc = Zero, !.count = 0]
ClearFlags(ch) == [ch EXCEPT !.valid = FALSE, !.ovf = FALSE]

\* Seeded fault: bit 23 initialises whatever bit 24 says.
NoGuard(ch, word) ==
  LET x == IF ClearBit \in word THEN ClearFlags(ch) ELSE ch
  IN  IF ReinitBit \in word THEN Reinit(x) ELSE x

\* process_r31_command
Commanded(ch, word) ==
  CASE ClearBit \in word -> ClearFlags(ch)
    [] ClearBit \notin word /\ ReinitBit \in word -> Reinit(ch)
    [] OTHER -> ch

\* An instruction that leaves the filter alone.
OtherInstruction == Advance(sdChan, stream) /\ UNCHANGED control

\* process_r30
WriteControl ==
  /\ control' \in [sel : Selections, en : BOOLEAN] /\ control' # control
  /\ Advance(sdChan, stream)

\* SET R31: the status is read, and written back with one bit more.  An
\* initialisation is lost when the status has the other command's bit.
SetCommand(bit) ==
  /\ control.en
  /\ LET c == Selected
         word == Status \cup {bit}
         obeyed == bit = ReinitBit /\ ClearBit \notin Status
     IN  Advance([sdChan EXCEPT ![c] = Commanded(@, word)],
                 [stream EXCEPT ![c] = IF obeyed THEN << >> ELSE @])
  /\ UNCHANGED control

\* A register write: SD_SAMPLE_SIZE and ACC_SEL of a channel.
WriteSampleSize ==
  \E c \in SdChannels, osr \in OsrValues :
    /\ osr # sdChan[c].osr
    /\ Advance([sdChan EXCEPT ![c].osr = osr], stream)
    /\ UNCHANGED control

SelectStage ==
  \E c \in SdChannels, s \in Stages :
    /\ s # sdChan[c].stage
    /\ Advance([sdChan EXCEPT ![c].stage = s], stream)
    /\ UNCHANGED control

Sd ==
  \/ OtherInstruction \/ WriteControl \/ SetCommand(ReinitBit) \/ SetCommand(ClearBit)
  \/ WriteSampleSize \/ SelectStage

SdSpec == SdInit /\ [][Sd]_sdVars
-----------------------------------------------------------------------------
\* The closed form of the cascade: sample i of n counts once, n-i+1 times and
\* (n-i+1)(n-i+2)/2 times.
Weight(s, k) == CASE s = 1 -> 1 [] s = 2 -> k [] s = 3 -> (k * (k + 1)) \div 2
Weighted(s, bits) ==
  LET terms == [i \in DOMAIN bits |-> bits[i] * Weight(s, Len(bits) - i + 1)]
  IN  FoldLeft(LAMBDA sum, term : sum + term, 0, terms)

\* What firmware reads is the filter of exactly the samples since it last
\* initialised the channel, up to the last latch, for each stage: whatever
\* ratio it wrote in mid-window, whatever the clocks' ratio, and although every
\* command writes the data it has read back into the command register.
ShadowIsFilter ==
  \A c \in SdChannels : \A s \in Stages :
    /\ sdChan[c].shadow[s] = Weighted(s, latched[c])
    /\ sdChan[c].acc[s] = Weighted(s, stream[c])
=============================================================================
