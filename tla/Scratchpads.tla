---------------------------- MODULE Scratchpads ----------------------------
(***************************************************************************)
(* The register file and the scratchpads the cores share: XIN, XOUT and    *)
(* XCHG of PRUCore.step with their byte strobes (core/pru_core.py), the    *)
(* register rotation of XFR_SHIFT_EN, and the pads themselves              *)
(* (xfr/xfr_bus.py, xfr/scratchpad.py).  A transfer that leaves its pad    *)
(* raises and changes nothing.                                             *)
(*                                                                         *)
(* Registers and pads are functions of the byte position; the registers    *)
(* behind a bank are R30 and R31.                                          *)
(***************************************************************************)
EXTENDS Integers, FiniteSets

CONSTANTS
  Cores,
  Regs,              \* registers of a core
  RegBytes,          \* bytes of a register
  BankRegs,          \* _SPAD_BANK_SIZE
  IpcFirst, IpcRegs, \* the window of IPC_SPAD
  ByteValues,        \* contents of a byte
  ShiftMod           \* registers a shift can reach, 32 in the code

ASSUME PadAssumption ==
  /\ Regs \in Nat /\ BankRegs \in 1..Regs /\ RegBytes \in Nat \ {0} /\ ShiftMod \in Nat \ {0}
  /\ IpcFirst \in Nat /\ IpcRegs \in Nat /\ IpcFirst + IpcRegs <= Regs
  /\ ByteValues \subseteq Nat /\ 0 \in ByteValues

VARIABLES
  regs,     \* registers.regs of each core
  pads,     \* _pads[...].data
  shiftEn   \* xfr_shift_en

padVars == <<regs, pads, shiftEn>>

Pads == {"bank", "ipc"}
PadSize(d) == (IF d = "bank" THEN BankRegs ELSE IpcRegs) * RegBytes
PadFirst(d) == IF d = "bank" THEN 0 ELSE IpcFirst
RegPositions == 0..Regs*RegBytes-1

PadTransfers == [pad : Pads, start : 0..Regs-1, byte : 0..RegBytes-1, length : 1..Regs*RegBytes]

PadTypeOK ==
  /\ regs \in [Cores -> [RegPositions -> ByteValues]]
  /\ DOMAIN pads = Pads /\ \A d \in Pads : pads[d] \in [0..PadSize(d)-1 -> ByteValues]
  /\ shiftEn \in BOOLEAN

PadInit ==
  /\ regs = [c \in Cores |-> [b \in RegPositions |-> 0]]
  /\ pads = [d \in Pads |-> [b \in 0..PadSize(d)-1 |-> 0]]
  /\ shiftEn = FALSE
-----------------------------------------------------------------------------
\* A transfer works on st = [reg, pad]; n bytes go between position r of the
\* registers and position p of the pad.  What is beyond the last register is
\* neither read nor written.
Clip(r, n) == IF r + n <= Regs*RegBytes THEN n ELSE Regs*RegBytes - r

\* The bytes of f from position a on, put into g from position b on.
Copied(f, a, g, b, n) == [x \in DOMAIN g |-> IF x \in b..b+n-1 THEN f[a + x - b] ELSE g[x]]

MoveIn(st, r, p, n) == [st EXCEPT !.reg = Copied(st.pad, p, st.reg, r, Clip(r, n))]
MoveOut(st, r, p, n) == [st EXCEPT !.pad = Copied(st.reg, r, st.pad, p, Clip(r, n))]
Swap(st, r, p, n) == [reg |-> Copied(st.pad, p, st.reg, r, Clip(r, n)),
                      pad |-> Copied(st.reg, r, st.pad, p, Clip(r, n))]

Move(op, st, r, p, n) ==
  CASE op = "XIN" -> MoveIn(st, r, p, n)
    [] op = "XOUT" -> MoveOut(st, r, p, n)
    [] op = "XCHG" -> Swap(st, r, p, n)

\* R0 says how far the bank is rotated.
Shift(reg) == reg[0] % ShiftMod
BankPosition(reg, index) == ((index + Shift(reg)) % BankRegs) * RegBytes

\* Seeded fault: the exchange is a read of one register and a write of the next.
SplitWord(op, st, tr, i) ==
  LET r == (tr.start + i) * RegBytes
      n == IF tr.length - i*RegBytes < RegBytes THEN tr.length - i*RegBytes ELSE RegBytes
      read == MoveIn(st, r, BankPosition(st.reg, tr.start + i), n)
  IN  IF r >= Regs*RegBytes THEN st
      ELSE IF op # "XCHG" THEN Move(op, st, r, BankPosition(st.reg, tr.start + i), n)
      ELSE [read EXCEPT !.pad = Copied(st.reg, r, st.pad, BankPosition(read.reg, tr.start + i), n)]

\* Seeded fault: only what goes out is rotated.
RotatesOutOnly(op, st, tr, i) ==
  LET r == (tr.start + i) * RegBytes
      n == IF tr.length - i*RegBytes < RegBytes THEN tr.length - i*RegBytes ELSE RegBytes
      p == IF op = "XIN" THEN ((tr.start + i) % BankRegs) * RegBytes
           ELSE BankPosition(st.reg, tr.start + i)
  IN  IF r >= Regs*RegBytes THEN st ELSE Move(op, st, r, p, n)

\* One register of a rotated transfer; R0 is read again for each.
ShiftedWord(op, st, tr, i) ==
  LET r == (tr.start + i) * RegBytes
      n == IF tr.length - i*RegBytes < RegBytes THEN tr.length - i*RegBytes ELSE RegBytes
  IN  IF r >= Regs*RegBytes THEN st
      ELSE Move(op, st, r, BankPosition(st.reg, tr.start + i), n)

\* _xin_shifted, _xout_shifted, _xchg_shifted: the start byte plays no part.
Shifted(op, st, tr) ==
  LET words == (tr.length + RegBytes - 1) \div RegBytes
      after[k \in 0..words] == IF k = 0 THEN st ELSE ShiftedWord(op, after[k-1], tr, k - 1)
  IN  after[words]

Rotates(tr) == shiftEn /\ tr.pad = "bank"

\* Where an unrotated transfer meets its pad, and what of it must lie inside.
Offset(tr) == (tr.start - PadFirst(tr.pad)) * RegBytes + tr.byte
Fits(op, tr) ==
  LET n == IF op = "XIN" THEN tr.length
           ELSE Clip(tr.start*RegBytes + tr.byte, tr.length)
  IN  Offset(tr) >= 0 /\ Offset(tr) + n <= PadSize(tr.pad)

Result(op, c, tr) ==
  LET st == [reg |-> regs[c], pad |-> pads[tr.pad]]
  IN  IF Rotates(tr) THEN Shifted(op, st, tr)
      ELSE Move(op, st, tr.start*RegBytes + tr.byte, Offset(tr), tr.length)

Execute(op, c, tr) ==
  /\ Rotates(tr) \/ Fits(op, tr)
  /\ LET done == Result(op, c, tr) IN
     /\ regs' = [regs EXCEPT ![c] = done.reg]
     /\ pads' = [pads EXCEPT ![tr.pad] = done.pad]
  /\ UNCHANGED shiftEn
-----------------------------------------------------------------------------
XinPad == \E c \in Cores, tr \in PadTransfers : Execute("XIN", c, tr)
XoutPad == \E c \in Cores, tr \in PadTransfers : Execute("XOUT", c, tr)
XchgPad == \E c \in Cores, tr \in PadTransfers : Execute("XCHG", c, tr)

\* An instruction that writes one byte of a register.
WriteByte ==
  /\ \E c \in Cores, b \in RegPositions, v \in ByteValues :
       regs' = [regs EXCEPT ![c][b] = v]
  /\ UNCHANGED <<pads, shiftEn>>

\* The host's register write.
SetShift == shiftEn' = ~shiftEn /\ UNCHANGED <<regs, pads>>

ResetBus ==
  /\ pads' = [d \in Pads |-> [b \in 0..PadSize(d)-1 |-> 0]]
  /\ shiftEn' = FALSE
  /\ UNCHANGED regs

Spad == XinPad \/ XoutPad \/ XchgPad \/ WriteByte \/ SetShift \/ ResetBus

SpadSpec == PadInit /\ [][Spad]_padVars
-----------------------------------------------------------------------------
\* What one core sends, another core receives with the same transfer if its R0
\* has the same shift: also when the transfer brings R0 itself, and the shift
\* of the registers after it is then that of the R0 received.
RoundTrip ==
  \A c, d \in Cores, tr \in PadTransfers :
    tr.pad = "bank" /\ tr.length <= PadSize("bank") =>
      LET out == Shifted("XOUT", [reg |-> regs[c], pad |-> pads["bank"]], tr)
          other == [b \in RegPositions |-> IF b < RegBytes THEN regs[c][b] ELSE regs[d][b]]
          back == Shifted("XIN", [reg |-> other, pad |-> out.pad], tr)
          r == tr.start * RegBytes
      IN  \A b \in r..r + Clip(r, tr.length) - 1 : back.reg[b] = regs[c][b]

Contents(st) == [v \in ByteValues |->
  Cardinality({b \in RegPositions : st.reg[b] = v})
  + Cardinality({b \in DOMAIN st.pad : st.pad[b] = v})]

\* An exchange moves bytes and loses none, whatever the rotation does to the
\* registers it has still to exchange.
ExchangeLosesNothing ==
  \A c \in Cores, tr \in PadTransfers :
    Rotates(tr) \/ Fits("XCHG", tr) =>
      Contents(Result("XCHG", c, tr)) = Contents([reg |-> regs[c], pad |-> pads[tr.pad]])
=============================================================================
