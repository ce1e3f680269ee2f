--------------------------- MODULE MCActionRoute ---------------------------
(* Instances of ActionRoute for TLC. *)
EXTENDS ActionRoute

(* The invocation was issued so that both ends of its window are reached. *)
Issued == {3}
=============================================================================
