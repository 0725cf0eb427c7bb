------------------------------ MODULE MacUnit ------------------------------
(***************************************************************************)
(* The multiply-accumulate unit (xfr/mac_accelerator.py).  It samples R28  *)
(* and R29 when an instruction begins and multiplies what it sampled one   *)
(* instruction earlier; every action is one instruction of the core.       *)
(***************************************************************************)
EXTENDS Integers

CONSTANTS
  Base,      \* values of an operand register, 2^32 in the code
  MaxTotal   \* bound: exact sum of the products

ASSUME BaseAssumption == Base \in Nat \ {0, 1} /\ MaxTotal \in Nat

VARIABLES
  r28, r29,     \* the operand registers
  latched,      \* _latched, the operands when the last instruction began
  macMode,      \* mac_mode
  accumulator,  \* _accumulator
  accCarry,     \* acc_carry
  settled,      \* history: the operands have stood for an instruction
  total,        \* history: exact sum of the products, or Unknown
  cleared       \* history: the part of total an earlier clear has dealt with

macVars == <<r28, r29, latched, macMode, accumulator, accCarry, settled, total, cleared>>

Operand == 0..Base-1
Wide == Base * Base
NotLatched == << -1, -1 >>
Unknown == -1

MacTypeOK ==
  /\ r28 \in Operand /\ r29 \in Operand
  /\ latched \in (Operand \X Operand) \cup {NotLatched}
  /\ macMode \in BOOLEAN /\ accumulator \in 0..Wide-1 /\ accCarry \in BOOLEAN
  /\ settled \in BOOLEAN /\ total \in Nat \cup {Unknown} /\ cleared \in Int

MacInit ==
  /\ r28 = 0 /\ r29 = 0 /\ latched = NotLatched
  /\ macMode = FALSE /\ accumulator = 0 /\ accCarry = FALSE
  /\ settled = TRUE /\ total = 0 /\ cleared = 0

\* _operands, after begin_step has moved the latch of the last instruction on.
Operands == IF latched = NotLatched THEN <<r28, r29>> ELSE latched

\* begin_step
Begin == latched' = <<r28, r29>>

\* What the product adds to the exact sum, if the firmware waited for it.
Summed == IF settled /\ total # Unknown THEN total + r28 * r29 ELSE Unknown
-----------------------------------------------------------------------------
\* An instruction that writes an operand register.
LoadOperand ==
  /\ Begin
  /\ \E v \in Operand : \/ r28' = v /\ UNCHANGED r29
                        \/ r29' = v /\ UNCHANGED r28
  /\ settled' = FALSE
  /\ UNCHANGED <<macMode, accumulator, accCarry, total, cleared>>

\* Any other instruction that leaves the unit alone.
OtherInstruction ==
  /\ Begin
  /\ settled' = TRUE
  /\ UNCHANGED <<r28, r29, macMode, accumulator, accCarry, total, cleared>>

\* Seeded fault: the carry is that of the last product only.
AccumulateForgets(clear) ==
  LET sum == accumulator + Operands[1] * Operands[2] IN
  /\ Summed <= MaxTotal
  /\ accumulator' = sum % Wide
  /\ accCarry' = (~clear /\ sum >= Wide)
  /\ macMode' = TRUE
  /\ total' = Summed
  /\ cleared' = IF clear THEN total' - accumulator' ELSE cleared

\* XOUT &R25 with MAC_MODE: the carry is sticky, and bit 1 clears it after
\* the product of the same transfer has been added.
Accumulate(clear) ==
  LET sum == accumulator + Operands[1] * Operands[2] IN
  /\ Summed <= MaxTotal
  /\ accumulator' = sum % Wide
  /\ accCarry' = (~clear /\ (accCarry \/ sum >= Wide))
  /\ macMode' = TRUE
  /\ total' = Summed
  /\ cleared' = IF clear THEN total' - accumulator' ELSE cleared

\* XOUT &R25 without MAC_MODE empties the accumulator and keeps the carry.
LeaveMacMode(clear) ==
  /\ accumulator' = 0
  /\ accCarry' = (~clear /\ accCarry)
  /\ macMode' = FALSE
  /\ total' = 0
  /\ cleared' = IF accCarry' THEN -Wide ELSE 0

XoutControl ==
  /\ Begin
  /\ \E clear \in BOOLEAN : Accumulate(clear) \/ LeaveMacMode(clear)
  /\ settled' = TRUE
  /\ UNCHANGED <<r28, r29>>

\* XOUT &R26 of eight bytes.
XoutSeed ==
  /\ Begin
  /\ accumulator' \in 0..Wide-1
  /\ accCarry' = FALSE
  /\ settled' = TRUE
  /\ total' = accumulator' /\ cleared' = 0
  /\ UNCHANGED <<r28, r29, macMode>>

ResetMac ==
  /\ latched' = NotLatched
  /\ macMode' = FALSE /\ accumulator' = 0 /\ accCarry' = FALSE
  /\ total' = 0 /\ cleared' = 0
  /\ settled' = TRUE
  /\ r28' = 0 /\ r29' = 0

Mac == LoadOperand \/ OtherInstruction \/ XoutControl \/ XoutSeed \/ ResetMac

MacSpec == MacInit /\ [][Mac]_macVars
-----------------------------------------------------------------------------
\* As long as the firmware leaves one instruction between writing an operand
\* and adding the product, the accumulator is the exact sum modulo its width,
\* and the carry tells whether it has wrapped since the carry was cleared.
AccumulatorExact ==
  total # Unknown =>
    /\ accumulator = total % Wide
    /\ accCarry <=> total - cleared >= Wide
=============================================================================
