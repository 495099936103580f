--------------------------- MODULE MCHistoryView ---------------------------
(* Instance of HistoryView for TLC. *)
EXTENDS HistoryView
=============================================================================
