-------------------------- MODULE MCActivityWorker --------------------------
(* Instances of ActivityWorker for TLC. *)
EXTENDS ActivityWorker, TLC

CONSTANTS a1, a2

\* A cancel on request, a pause, and a cancel on request that is also a reset.
MCDetails == {{"cancelled"}, {"paused"}, {"cancelled", "reset"}}
=============================================================================
