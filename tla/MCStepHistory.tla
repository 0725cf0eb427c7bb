---------------------------- MODULE MCStepHistory ---------------------------
(***************************************************************************)
(* Two cores, a captured shared part (memory) and one that snapshots do    *)
(* not hold (the ring's queue); a history of two steps, so that the third  *)
(* recorded step drops the oldest.                                         *)
(***************************************************************************)
EXTENDS StepHistory

CONSTANTS pru0, pru1, mem, queue

\* The parts of a snapshot: all but the ring's queue
AllButQueue == {pru0, pru1, mem}
=============================================================================
