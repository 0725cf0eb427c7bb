----------------------------- MODULE MCDashboard ----------------------------
(***************************************************************************)
(* Three views: an owner, an observer and a third that edits, stops the    *)
(* run or takes it over.  One panel, which a request may change and whose  *)
(* reply may carry it or not.                                              *)
(***************************************************************************)
EXTENDS Dashboard

CONSTANTS v1, v2, v3, pru0
=============================================================================
