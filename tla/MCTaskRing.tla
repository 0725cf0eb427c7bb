----------------------------- MODULE MCTaskRing -----------------------------
(***************************************************************************)
(* A small task ring: two slots with pointers modulo four, so that a fifth *)
(* ID outstanding makes the occupancy alias, as a seventeenth does on the  *)
(* device; copies longer than an instruction, so that several submissions  *)
(* fall into one copy.                                                     *)
(***************************************************************************)
EXTENDS TaskRing

MCRingNums == {0, 3}
=============================================================================
