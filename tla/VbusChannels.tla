---------------------------- MODULE VbusChannels ----------------------------
(***************************************************************************)
(* The XFR2VBUS read and write channels (xfr/xfr2vbus_accelerator.py) of   *)
(* one core, over the memory behind them (mem/memory_bus.py,               *)
(* mem/regions.py).  Every action but a host write is one instruction of   *)
(* the firmware, and ends with the advance() PRUCore.step calls; one whose *)
(* transfer raises passes no time and is executed again.                   *)
(*                                                                         *)
(* An address counts words; it has a low and a high part, as R19 and R20   *)
(* hold them.  The content of a word is its address and how often it has   *)
(* been written.                                                           *)
(***************************************************************************)
EXTENDS Integers, Sequences

CONSTANTS
  SizeCodes,    \* RD_SIZE values that are not reserved, {0, 2, 3} in the code
  Window,       \* words of RD_DATA, 16 in the code
  Words,        \* words a read of each size transfers
  Latency,      \* read_latency_cycles of each size
  ReissueExtra, \* AUTO_REISSUE_EXTRA_CYCLES
  WrBusy,       \* WR_BUSY_CYCLES
  LoMod, HiMod, \* values of the low and of the high address register
  Mapped,       \* addresses inside a memory region
  LineWords,    \* words of the line a positional write addresses
  MaxElapsed,   \* bound: cycles of one other instruction
  MaxWrites,    \* bound: writes to memory
  MaxBusy       \* bound: a write is not issued at more cycles of WR_BUSY

ASSUME SizeAssumption ==
  /\ SizeCodes \subseteq 0..3 /\ 1 \notin SizeCodes /\ 0 \in SizeCodes
  /\ Window \in Nat /\ Words \in [SizeCodes -> 1..Window]
  /\ Latency \in [SizeCodes -> Nat \ {0}]
ASSUME AddressAssumption ==
  /\ LoMod \in Nat \ {0} /\ HiMod \in Nat \ {0} /\ LineWords \in Nat \ {0}
  /\ Mapped \subseteq 0..LoMod*HiMod-1
ASSUME CycleAssumption == ReissueExtra \in Nat /\ WrBusy \in Nat

VARIABLES
  memory,   \* content of each mapped word
  written,  \* history: writes that landed
  rd,       \* the read channel
  wr,       \* the write channel
  owed      \* history: address of the chunk the stream owes the firmware next

vbusVars == <<memory, written, rd, wr, owed>>

Addresses == 0..LoMod*HiMod-1
Blank == <<-1, 0>>               \* the zeros of a channel after reset
NoRead == << >>
Nowhere == -1
Content == {Blank} \cup (Addresses \X Nat)

AddrOf(ch) == ch.hi * LoMod + ch.lo

ReadChannel ==
  [lo : 0..LoMod-1, hi : 0..HiMod-1, auto : BOOLEAN, code : SizeCodes,
   data : [1..Window -> Content], ready : BOOLEAN, pending : Seq(Content),
   left : Int]

VbusTypeOK ==
  /\ memory \in [Mapped -> Content]
  /\ written \in Nat
  /\ rd \in ReadChannel
  /\ wr \in [lo : 0..LoMod-1, hi : 0..HiMod-1, busy : Nat]
  /\ owed \in Addresses \cup {Nowhere}

ReadReset ==
  [lo |-> 0, hi |-> 0, auto |-> FALSE, code |-> 0, data |-> [i \in 1..Window |-> Blank],
   ready |-> FALSE, pending |-> NoRead, left |-> 0]
WriteReset == [lo |-> 0, hi |-> 0, busy |-> 0]

VbusInit ==
  /\ memory = [a \in Mapped |-> <<a, 0>>]
  /\ written = 0
  /\ rd = ReadReset
  /\ wr = WriteReset
  /\ owed = Nowhere
-----------------------------------------------------------------------------
\* MemoryBus.read and write: all of the words, or an error.
Reachable(addr, n) == addr % n = 0 /\ addr..addr+n-1 \subseteq Mapped
ReadWords(addr, n) == [i \in 1..n |-> memory[addr + i - 1]]

Busy(ch) == ch.pending # NoRead \/ ch.ready

\* _issue_read: the data is read now and lands after the latency.
Issued(ch, extra) ==
  [ch EXCEPT !.pending = ReadWords(AddrOf(ch), Words[ch.code]),
             !.left = Latency[ch.code] + extra]
CanIssue(ch) == ~Busy(ch) /\ Reachable(AddrOf(ch), Words[ch.code])

\* advance() of the read channel: a shorter read leaves the rest of the
\* data register as it was.
Advanced(ch, n) ==
  IF ch.pending = NoRead THEN ch
  ELSE IF ch.left > n THEN [ch EXCEPT !.left = @ - n]
  ELSE [ch EXCEPT !.data = [i \in 1..Window |-> IF i <= Len(ch.pending)
                                                THEN ch.pending[i] ELSE ch.data[i]],
                  !.ready = TRUE, !.pending = NoRead, !.left = 0]

Drained(ch, n) == [ch EXCEPT !.busy = IF @ > n THEN @ - n ELSE 0]

\* One instruction cycle of an XFR instruction passes at its end.
Retire(read, write) == rd' = Advanced(read, 1) /\ wr' = Drained(write, 1)

Configured(ch, auto, code) == [ch EXCEPT !.auto = auto, !.code = code]

\* The address one chunk on, over 48 bits.
Following(addr, code) == (addr + Words[code]) % (LoMod * HiMod)
NextAddress(ch) ==
  LET next == Following(AddrOf(ch), ch.code)
  IN  [ch EXCEPT !.lo = next % LoMod, !.hi = next \div LoMod]
-----------------------------------------------------------------------------
\* Any other instruction: its cycles pass for both channels.
Pass ==
  /\ \E n \in 1..MaxElapsed : rd' = Advanced(rd, n) /\ wr' = Drained(wr, n)
  /\ UNCHANGED <<memory, written, owed>>

\* XOUT &R18: RD_AUTO and RD_SIZE, also while a read is in flight.
XoutConfig ==
  /\ \E auto \in BOOLEAN, code \in SizeCodes :
       /\ auto => code # 0
       /\ Retire(Configured(rd, auto, code), wr)
  /\ owed' = Nowhere
  /\ UNCHANGED <<memory, written>>

\* Seeded fault: the dropped address is latched all the same.
DropLatches(ch, lo, hi) ==
  IF Busy(ch)
  THEN /\ Retire([ch EXCEPT !.lo = lo, !.hi = hi], wr)
       /\ UNCHANGED owed
  ELSE /\ CanIssue([ch EXCEPT !.lo = lo, !.hi = hi])
       /\ Retire(Issued([ch EXCEPT !.lo = lo, !.hi = hi], 0), wr)
       /\ owed' = hi * LoMod + lo

\* A new address submits a read; the busy channel drops it, with the data of
\* the old one still to come; a bad one is latched before the step raises.
Submit(ch, lo, hi) ==
  LET latched == [ch EXCEPT !.lo = lo, !.hi = hi] IN
  \/ /\ Busy(ch)
     /\ Retire(ch, wr)
     /\ UNCHANGED owed
  \/ /\ CanIssue(latched)
     /\ Retire(Issued(latched, 0), wr)
     /\ owed' = AddrOf(latched)
  \/ /\ ~Busy(ch) /\ ~CanIssue(latched)
     /\ rd' = latched
     /\ owed' = Nowhere
     /\ UNCHANGED wr

\* XOUT &R19, with or without R20.
XoutAddress ==
  /\ \E lo \in 0..LoMod-1, hi \in 0..HiMod-1 : Submit(rd, lo, hi)
  /\ UNCHANGED <<memory, written>>

\* XOUT &R18 of more than four bytes: both, the configuration in any case.
XoutConfigAddress ==
  /\ \E auto \in BOOLEAN, code \in SizeCodes, lo \in 0..LoMod-1 :
       /\ auto => code # 0
       /\ ~Busy(rd) \/ (auto = rd.auto /\ code = rd.code)
       /\ Submit(Configured(rd, auto, code), lo, rd.hi)
  /\ UNCHANGED <<memory, written>>

\* XOUT &R20 alone latches the high part, busy or not.
XoutHigh ==
  /\ \E hi \in 0..HiMod-1 : Retire([rd EXCEPT !.hi = hi], wr)
  /\ owed' = Nowhere
  /\ UNCHANGED <<memory, written>>

\* XIN of RD_STATUS changes nothing.
XinStatus ==
  /\ Retire(rd, wr)
  /\ UNCHANGED <<memory, written, owed>>

\* XIN of RD_DATA before anything has landed returns what the register holds,
\* and pops nothing.
XinEarly ==
  /\ ~rd.ready
  /\ Retire(rd, wr)
  /\ UNCHANGED <<memory, written, owed>>

\* XIN of landed data pops it, whatever its length.
XinData ==
  /\ rd.ready /\ ~rd.auto
  /\ Retire([rd EXCEPT !.ready = FALSE], wr)
  /\ owed' = Nowhere
  /\ UNCHANGED <<memory, written>>

\* With RD_AUTO the pop moves the address and submits the next read.  If that
\* raises, the pop and the move have happened, but the firmware gets nothing.
XinNext ==
  /\ rd.ready /\ rd.auto
  /\ LET popped == NextAddress([rd EXCEPT !.ready = FALSE]) IN
     \/ /\ CanIssue(popped)
        /\ Retire(Issued(popped, ReissueExtra), wr)
        /\ owed' = IF owed = Nowhere THEN Nowhere ELSE Following(owed, rd.code)
     \/ /\ ~CanIssue(popped)
        /\ rd' = popped
        /\ owed' = Nowhere
        /\ UNCHANGED wr
  /\ UNCHANGED <<memory, written>>
-----------------------------------------------------------------------------
\* XOUT to the write channel: an address alone is latched.
XoutWriteAddress ==
  /\ \E lo \in 0..LoMod-1, hi \in 0..HiMod-1 : Retire(rd, [wr EXCEPT !.lo = lo, !.hi = hi])
  /\ UNCHANGED <<memory, written, owed>>

Store(addr, n) ==
  /\ memory' = [a \in Mapped |-> IF a \in addr..addr+n-1
                                  THEN <<a, written + 1>> ELSE memory[a]]
  /\ written' = written + 1

\* A short write is taken from the lane of its address; in any other lane it
\* writes nothing.  Both keep WR_BUSY up.
XoutShort ==
  /\ written < MaxWrites /\ wr.busy <= MaxBusy
  /\ \E lane \in 0..LineWords-1 :
       \/ /\ lane = AddrOf(wr) % LineWords
          /\ Reachable(AddrOf(wr), 1)
          /\ Store(AddrOf(wr), 1)
          /\ Retire(rd, [wr EXCEPT !.busy = @ + WrBusy])
       \/ /\ lane # AddrOf(wr) % LineWords
          /\ UNCHANGED <<memory, written>>
          /\ Retire(rd, [wr EXCEPT !.busy = @ + WrBusy])
  /\ UNCHANGED owed

\* A whole line, with its address in the same transfer or latched before.
XoutLine ==
  /\ written < MaxWrites /\ wr.busy <= MaxBusy
  /\ \E lo \in 0..LoMod-1, hi \in 0..HiMod-1 :
       LET latched == [wr EXCEPT !.lo = lo, !.hi = hi] IN
       \/ /\ Reachable(AddrOf(latched), LineWords)
          /\ Store(AddrOf(latched), LineWords)
          /\ Retire(rd, [latched EXCEPT !.busy = @ + WrBusy])
       \/ /\ ~Reachable(AddrOf(latched), LineWords)
          /\ wr' = latched                  \* raises behind the latch
          /\ UNCHANGED <<rd, memory, written>>
  /\ UNCHANGED owed

ResetChannels ==
  /\ rd' = ReadReset
  /\ wr' = WriteReset
  /\ owed' = Nowhere
  /\ UNCHANGED <<memory, written>>

Vbus ==
  \/ Pass \/ XoutConfig \/ XoutAddress \/ XoutConfigAddress \/ XoutHigh
  \/ XinStatus \/ XinEarly \/ XinData \/ XinNext
  \/ XoutWriteAddress \/ XoutShort \/ XoutLine \/ ResetChannels

VbusSpec == VbusInit /\ [][Vbus]_vbusVars
-----------------------------------------------------------------------------
\* What has landed is the whole of the chunk the stream owes next: first the
\* one at the address submitted, then each the size of a chunk further on.
\* No address written to the busy channel, no XIN that comes too early and no
\* status read in between makes the stream skip, repeat or mix chunks.
StreamHasNoGap ==
  owed # Nowhere /\ rd.ready
    => \A i \in 1..Words[rd.code] : rd.data[i][1] = owed + i - 1
=============================================================================
