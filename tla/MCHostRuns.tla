----------------------------- MODULE MCHostRuns -----------------------------
(***************************************************************************)
(* Programs of up to three instructions: loads with jitter that fall on    *)
(* and next to a budget, a switch of the pins, a TR that lands after the   *)
(* core has stopped or run off its end, a fault and an endless loop.       *)
(***************************************************************************)
EXTENDS HostRuns

MCPrograms ==
  {<<"load", "perif", "gpio">>, <<"load", "load", "halt">>, <<"submit", "plain">>,
   <<"submit", "halt">>, <<"plain", "fault">>, <<"submit", "again">>}
MCDraws == <<0, 1, 1>>
=============================================================================
