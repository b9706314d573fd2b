---------------------------- MODULE MCWorkflowRun ----------------------------
(* Small instances of WorkflowRun for TLC.                                   *)
EXTENDS WorkflowRun, TLC
=============================================================================
