---------------------------- MODULE MCToolCalls ----------------------------
(* Instance of ToolCalls for TLC.  No symmetry: the run checks liveness.   *)
EXTENDS ToolCalls
=============================================================================
