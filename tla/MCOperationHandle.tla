--------------------------- MODULE MCOperationHandle ---------------------------
(* Two operations: a local and a regular activity, a child workflow or a    *)
(* Nexus operation alone, a signal and a cancel request.                    *)
EXTENDS OperationHandle

CONSTANTS h1, h2

Uses(a, b) == [h \in Handles |-> IF h = h1 THEN a ELSE b]
MCWorkflows == {Uses("local", "activity"), Uses("child", "none"), Uses("nexus", "none"),
                Uses("signal", "cancel")}
=============================================================================
