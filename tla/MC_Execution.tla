---------------------------- MODULE MC_Execution ----------------------------
(* Execution with three frames: a script, a native callback and a script   *)
(* nested in it, so that termination can reach a nested run.               *)
EXTENDS Execution, TLC

MC_MaxDepth == 3

=============================================================================
