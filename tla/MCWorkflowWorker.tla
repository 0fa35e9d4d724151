--------------------------- MODULE MCWorkflowWorker ---------------------------
(* Model values for WorkflowWorker. *)
EXTENDS WorkflowWorker

CONSTANT r1
=============================================================================
