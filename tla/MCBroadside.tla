----------------------------- MODULE MCBroadside -----------------------------
(***************************************************************************)
(* The broadside units of a core.  They share no state, so each behaviour  *)
(* exercises one of them:                                                  *)
(*   - XFR2VBUS: reads of one and two words over four addresses, the last  *)
(*     not mapped, so that streams run into the hole and into the carry    *)
(*     from the low address register to the high one;                      *)
(*   - XFRDMA: two threads, one of them transmits, with and without stall; *)
(*   - CRC: the three generators of the code and bytes that tell the two   *)
(*     bit orders apart;                                                   *)
(*   - MAC: operands of base three, sums beyond four wraps;                *)
(*   - scratchpads: three registers of two bytes, a bank of two registers, *)
(*     an IPC pad of one.                                                  *)
(***************************************************************************)
EXTENDS VbusChannels, XfrDma, CrcEngine, MacUnit, Scratchpads

VARIABLE unit   \* the accelerator the firmware uses

MCSizeCodes == {0, 2}
MCWords == [c \in MCSizeCodes |-> IF c = 0 THEN 1 ELSE 2]
MCLatency == [c \in MCSizeCodes |-> IF c = 0 THEN 1 ELSE 2]
MCMapped == 0..2

MCWidth == [m \in Modes |-> IF m = "CRC32" THEN 32 ELSE 16]
MCPoly == [m \in Modes |->
  IF m = "CRC16" THEN {15, 2, 0}
  ELSE IF m = "CRC16 CCITT" THEN {12, 5, 0}
  ELSE {26, 23, 22, 16, 12, 11, 10, 8, 7, 5, 4, 2, 1, 0}]
MCBytes == {{}, {0, 1, 5}, {2, 7}}
MCSeeds == {{0, 20}}

MCInit ==
  /\ unit \in {"vbus", "dma", "crc", "mac", "pads"}
  /\ VbusInit /\ DmaInit /\ CrcInit /\ MacInit /\ PadInit
  /\ stallWhenFull => unit = "dma"

MCNext ==
  /\ \/ unit = "vbus" /\ Vbus /\ UNCHANGED <<dmaVars, crcVars, macVars, padVars>>
     \/ unit = "dma" /\ Dma /\ UNCHANGED <<vbusVars, crcVars, macVars, padVars>>
     \/ unit = "crc" /\ Crc /\ UNCHANGED <<vbusVars, dmaVars, macVars, padVars>>
     \/ unit = "mac" /\ Mac /\ UNCHANGED <<vbusVars, dmaVars, crcVars, padVars>>
     \/ unit = "pads" /\ Spad /\ UNCHANGED <<vbusVars, dmaVars, crcVars, macVars>>
  /\ UNCHANGED unit

MCSpec == MCInit /\ [][MCNext]_<<unit, vbusVars, dmaVars, crcVars, macVars, padVars>>
-----------------------------------------------------------------------------
\* The arithmetic units return what the reference computes from everything
\* they were fed, whatever was configured, read or reset in between.
ResultsAreExact == /\ unit = "crc" => CrcIsRemainder
                   /\ unit = "mac" => AccumulatorExact

\* What a transfer through a scratchpad gives back is what was put in, and an
\* exchange loses no byte of either side, whatever the shift, the bank and the
\* length.  Scratchpads states the two for the unit at work.
PadsAreExact == unit = "pads" => RoundTrip /\ ExchangeLosesNothing
=============================================================================
