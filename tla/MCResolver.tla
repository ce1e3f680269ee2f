----------------------------- MODULE MCResolver -----------------------------
(* Instances of Resolver for TLC. *)
EXTENDS Resolver, TLC

(* Two projects, one of them spelled in two ways. *)
Ids == {"p1", "P1", "p2"}
ToLower == [p \in Ids |-> IF p = "P1" THEN "p1" ELSE p]

(* One secret for all, one for each project, and one project left out. *)
MCConfigs ==
  {[secret |-> "s", secrets |-> [p \in {} |-> ""]],
   [secret |-> "", secrets |-> "p1" :> "s" @@ "p2" :> "t"],
   [secret |-> "", secrets |-> "P1" :> "s"]}

Symmetry == Permutations(Requests) \cup Permutations(Digests)
=============================================================================
