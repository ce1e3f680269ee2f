---------------------------- MODULE MCTokenCache ----------------------------
(* Instances of TokenCache for TLC. *)
EXTENDS TokenCache

(* Omitted, or long enough to be cached. *)
MCLifetimes == {0, 3}

(* What the host means when it omits expires_in: less than the client assumes. *)
MCUnsaidLifetimes == {1}
=============================================================================
