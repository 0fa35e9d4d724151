---------------------------- MODULE MCNexusWorker ----------------------------
(* Model values for NexusWorker. *)
EXTENDS NexusWorker

CONSTANTS t1, t2
=============================================================================
