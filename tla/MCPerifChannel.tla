--------------------------- MODULE MCPerifChannel ---------------------------
(***************************************************************************)
(* Bytes of two bits in FIFOs of two.  One setting is continuous and arms  *)
(* the receiver by itself; one sends three bits after both delays; one is  *)
(* a bit longer than a byte in reverse, and receives frames of two bytes.  *)
(***************************************************************************)
EXTENDS PerifChannel

MCBytes == {<<0, 1>>, <<1, 1>>}

MCConfigs ==
  {[frame_size |-> 0, rx_frame_size |-> 1, wire |-> 0, tst |-> 2, arm |-> 2, swap |-> FALSE],
   [frame_size |-> 3, rx_frame_size |-> 2, wire |-> 1, tst |-> 1, arm |-> 0, swap |-> TRUE]}

\* Data alone, a mode alone, an enable alone, and all three at once.
MCWrites ==
  {[strobes |-> {0}, byte |-> b, mode |-> 0, enable |-> FALSE] : b \in Bytes} \cup
  {[strobes |-> {2}, byte |-> <<1, 1>>, mode |-> 3, enable |-> FALSE],
   [strobes |-> {3}, byte |-> <<1, 1>>, mode |-> 0, enable |-> FALSE],
   [strobes |-> {0, 2, 3}, byte |-> <<0, 1>>, mode |-> 0, enable |-> TRUE]}

NoCommand == [reinit |-> FALSE, go |-> FALSE, clr_val |-> FALSE, clr_ovf |-> FALSE]
MCCommands ==
  {[NoCommand EXCEPT !.go = TRUE], [NoCommand EXCEPT !.reinit = TRUE, !.go = TRUE],
   [NoCommand EXCEPT !.clr_val = TRUE, !.clr_ovf = TRUE]}
=============================================================================
