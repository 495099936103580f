--------------------------- MODULE MCHumanActors ---------------------------
(* Instances of HumanActors for TLC.                                       *)
EXTENDS HumanActors

CONSTANTS s1, s2, n1, n2

Claim(s, n, r) == [subject |-> s, name |-> n, role |-> r]

(* One subject under two names and roles, and a namesake of each: a login  *)
(* meets its own twin, its rename, another human and an agent of its name. *)
AllClaims ==
    {Claim(s1, n1, "viewer"), Claim(s1, n2, "admin"),
     Claim(s2, n1, "admin"),  Claim(s2, n2, "viewer")}

(* One human, one name. *)
OneClaim == {Claim(s1, n1, "viewer")}
=============================================================================
