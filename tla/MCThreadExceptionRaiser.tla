----------------------- MODULE MCThreadExceptionRaiser -----------------------
(* An instance of ThreadExceptionRaiser for TLC: two activities on a thread. *)
EXTENDS ThreadExceptionRaiser

CONSTANTS a1, a2, none
=============================================================================
