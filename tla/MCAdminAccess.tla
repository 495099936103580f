--------------------------- MODULE MCAdminAccess ---------------------------
(* Instance of AdminAccess for TLC. *)
EXTENDS AdminAccess
=============================================================================
