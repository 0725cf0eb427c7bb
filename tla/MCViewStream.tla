---------------------------- MODULE MCViewStream ----------------------------
(***************************************************************************)
(* A queue of three messages instead of sixty-four, and more messages than *)
(* the queue and the writer hold together, so that it fills and overflows  *)
(* while a message is being sent.                                          *)
(***************************************************************************)
EXTENDS ViewStream
=============================================================================
