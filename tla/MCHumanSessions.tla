-------------------------- MODULE MCHumanSessions --------------------------
(* Instance of HumanSessions for TLC: its runs check safety only. *)
EXTENDS HumanSessions
=============================================================================
