------------------------ MODULE MCDeadlockInterruption ------------------------
(* Model values for DeadlockInterruption. *)
EXTENDS DeadlockInterruption

CONSTANTS r1, r2, r3, t1, t2
=============================================================================
