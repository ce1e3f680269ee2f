--------------------------- MODULE MCExecutorPool ---------------------------
(* Instances of ExecutorPool for TLC. *)
EXTENDS ExecutorPool, TLC

(* Runs differ only in their names, and so do scopes. *)
Symmetry == Permutations(Runs) \cup Permutations(Scopes)
=============================================================================
