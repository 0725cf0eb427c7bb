----------------------------- MODULE MCIepTimer -----------------------------
(***************************************************************************)
(* A counter of two words of one bit each, with an increment that has no   *)
(* inverse and one that has, at rates that leave remainders.               *)
(***************************************************************************)
EXTENDS IepTimer

MCByteOf(bit) == bit
Fractional == {<<2, 3>>, <<5, 2>>}
FiveThirds == {<<5, 3>>}
FiveFourths == <<5, 4>>
=============================================================================
