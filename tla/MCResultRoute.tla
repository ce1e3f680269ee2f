--------------------------- MODULE MCResultRoute ---------------------------
(* Instances of ResultRoute for TLC. *)
EXTENDS ResultRoute

(* The host's clock agrees with ours or runs ahead of it. *)
Offsets == {0, 1}
=============================================================================
