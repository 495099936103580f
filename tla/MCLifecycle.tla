---------------------------- MODULE MCLifecycle ----------------------------
(* Instance of Lifecycle for TLC.  A budget is twice the grace period, as  *)
(* the defaults of 10 s and 5 s are; one retry instead of two.             *)
EXTENDS Lifecycle
=============================================================================
