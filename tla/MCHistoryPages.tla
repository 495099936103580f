-------------------------- MODULE MCHistoryPages --------------------------
(* Instance of HistoryPages for TLC.  Pages of the default size 2, of 1    *)
(* and, at the bound, of 3; limit 4 is over the bound.                     *)
EXTENDS HistoryPages
=============================================================================
