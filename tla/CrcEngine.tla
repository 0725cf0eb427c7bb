----------------------------- MODULE CrcEngine -----------------------------
(***************************************************************************)
(* The CRC16/32 accelerator (xfr/crc_accelerator.py).  A register, a seed  *)
(* and a polynomial are sets of bit positions: exclusive or is symmetric   *)
(* difference, bit i stands for x^i.  A byte is the set of its bits.       *)
(***************************************************************************)
EXTENDS Integers, SequencesExt

CONSTANTS
  Width,     \* register width of each mode
  Poly,      \* _poly: the generator of each mode without its top term
  ByteBits,  \* bits of a byte
  Bytes,     \* bytes the firmware feeds
  Seeds,     \* seeds the firmware writes
  MaxFed     \* bound: bytes fed after a seed

Modes == {"CRC16", "CRC16 CCITT", "CRC32"}

ASSUME CrcAssumption ==
  /\ Width \in [Modes -> Nat \ {0}] /\ ByteBits \in Nat \ {0}
  /\ \A m \in Modes : Poly[m] \subseteq 0..Width[m]-1
  /\ \A b \in Bytes : b \subseteq 0..ByteBits-1

VARIABLES
  mode,    \* crc32_mode and mod_en
  seed,    \* seed
  crcReg,  \* crc_reg
  fed      \* history: bytes fed since crc_reg was loaded from the seed

crcVars == <<mode, seed, crcReg, fed>>

Xor(a, b) == (a \ b) \cup (b \ a)
Mask(m) == 0..Width[m]-1

CrcTypeOK ==
  /\ mode \in Modes
  /\ seed \subseteq Mask(mode) /\ crcReg \subseteq Mask(mode)
  /\ fed \in Seq(Bytes)

\* _mode_default_seed
DefaultSeed(m) == IF m = "CRC32" THEN Mask(m) ELSE {}

\* The order in which _update_byte takes the bits of a byte.
BitOrder(m) == [k \in 1..ByteBits |-> IF m = "CRC16 CCITT" THEN ByteBits - k ELSE k - 1]

\* One shift of the register.
ShiftIn(m, reg, bit) ==
  LET feedback == (Width[m] - 1 \in reg) # bit
      shifted == {i + 1 : i \in reg} \cap Mask(m)
  IN  IF feedback THEN Xor(shifted, Poly[m]) ELSE shifted

UpdateByte(m, reg, byte) ==
  FoldLeft(LAMBDA r, i : ShiftIn(m, r, i \in byte), reg, BitOrder(m))

CrcInit == mode = "CRC16" /\ seed = {} /\ crcReg = {} /\ fed = << >>
-----------------------------------------------------------------------------
\* XOUT &R25: the mode, its default seed and the register with it.
Configure ==
  /\ mode' \in Modes
  /\ seed' = DefaultSeed(mode')
  /\ crcReg' = DefaultSeed(mode')
  /\ fed' = << >>

\* XOUT &R28
LoadSeed ==
  /\ \E s \in Seeds : seed' = s \cap Mask(mode) /\ crcReg' = s \cap Mask(mode)
  /\ fed' = << >>
  /\ UNCHANGED mode

\* XOUT &R29 of one, two or four bytes.
Feed ==
  /\ \E data \in UNION {[1..n -> Bytes] : n \in {1, 2, 4}} :
       /\ Len(fed) + Len(data) <= MaxFed
       /\ crcReg' = FoldLeft(LAMBDA r, b : UpdateByte(mode, r, b), crcReg, data)
       /\ fed' = fed \o data
  /\ UNCHANGED <<mode, seed>>

\* Seeded fault: reading the value puts the default seed back.
ReadReloadsDefault ==
  /\ crcReg' = DefaultSeed(mode)
  /\ fed' = << >>
  /\ UNCHANGED <<mode, seed>>

\* XIN &R29 of any length puts the seed back.
ReadCrc ==
  /\ crcReg' = seed
  /\ fed' = << >>
  /\ UNCHANGED <<mode, seed>>

ResetCrc == mode' = "CRC16" /\ seed' = {} /\ crcReg' = {} /\ fed' = << >>

Crc == Configure \/ LoadSeed \/ Feed \/ ReadCrc \/ ResetCrc

CrcSpec == CrcInit /\ [][Crc]_crcVars
-----------------------------------------------------------------------------
\* Long division: the remainder of a polynomial of degree below n + Width[m].
Remainder(m, poly, n) ==
  FoldLeft(LAMBDA p, k :
             LET top == Width[m] + n - k
             IN  IF top \in p THEN Xor(p, {top} \cup {top - Width[m] + i : i \in Poly[m]})
                 ELSE p,
           poly, [k \in 1..n |-> k])

\* The message as a polynomial, its first bit at the top.
Message(m, bytes) ==
  LET n == Len(bytes) * ByteBits
      bitAt(j) == BitOrder(m)[((j - 1) % ByteBits) + 1] \in bytes[((j - 1) \div ByteBits) + 1]
  IN  {n - j : j \in {i \in 1..n : bitAt(i)}}

\* Whatever the firmware did before, however it cut the message into writes
\* and whatever it read in between, the register is the remainder of
\* seed * x^n + message * x^width: a read or a new mode leaves nothing behind.
CrcIsRemainder ==
  LET n == Len(fed) * ByteBits
  IN  crcReg = Remainder(mode, Xor({i + n : i \in seed},
                                   {i + Width[mode] : i \in Message(mode, fed)}), n)
=============================================================================
