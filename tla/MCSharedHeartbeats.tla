-------------------------- MODULE MCSharedHeartbeats --------------------------
(* An instance of SharedHeartbeats for TLC: two activities on one loop. *)
EXTENDS SharedHeartbeats

CONSTANTS a1, a2

OneLoop == [t \in {a1, a2} |-> "l1"]
=============================================================================
