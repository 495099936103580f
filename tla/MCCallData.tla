----------------------------- MODULE MCCallData -----------------------------
(* Instance of CallData for TLC, with the limits of the code on days and a *)
(* preview of 6 bytes or less instead of 64 KiB.  Codes 0 and 45 have a    *)
(* description, 4 has none.                                                *)
EXTENDS CallData

DaysAsked == {-1, 0, 1, 7, 15, 16, 17}
=============================================================================
