----------------------------- MODULE MCPacedRun -----------------------------
(***************************************************************************)
(* Three cores, two selections with a follower in common, the second PRU   *)
(* on a clock half as fast, and a catch-up budget that calls exhaust.  The *)
(* guard model has one pair on one clock, instructions longer than the     *)
(* guard and the budget of the code.                                       *)
(***************************************************************************)
EXTENDS PacedRun

CONSTANTS pru0, rtu0, pru1

MCUnits == [c \in Cores |-> IF c = pru1 THEN 2 ELSE 1]
MCSelections == {<<pru0, <<pru1, rtu0>>>>, <<rtu0, <<pru1>>>>}
SameClock == [c \in Cores |-> 1]
LeadOnly == {<<pru0, <<pru1>>>>}
=============================================================================
