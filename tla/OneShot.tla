------------------------------ MODULE OneShot ------------------------------
(***************************************************************************)
(* What the action route promises of signed invocations, whatever arrives  *)
(* how often: in one life of the nonce store one delivery of an invocation *)
(* claims it, for good; only that delivery is executed, once, and not if   *)
(* the invocation is a dry run; and a delivery is refused as a replay only *)
(* when another one has the claim.                                         *)
(***************************************************************************)
CONSTANTS Invocations, Deliveries

VARIABLES of,       \* the invocation each delivery is of
          dry,      \* the invocations that ask for a dry run
          claimed,  \* the deliveries that consumed a nonce
          executed, \* those handed to the executor
          refused   \* those refused as a replay

vars == <<of, dry, claimed, executed, refused>>

Init ==
  /\ of \in [Deliveries -> Invocations] /\ dry \subseteq Invocations
  /\ claimed = {} /\ executed = {} /\ refused = {}

Claimed(i) == \E d \in claimed : of[d] = i

Claim(d) ==
  /\ ~Claimed(of[d])
  /\ claimed' = claimed \cup {d}
  /\ UNCHANGED <<of, dry, executed, refused>>

Execute(d) ==
  /\ d \in claimed \ executed
  /\ of[d] \notin dry
  /\ executed' = executed \cup {d}
  /\ UNCHANGED <<of, dry, claimed, refused>>

RefuseReplay(d) ==
  /\ Claimed(of[d]) /\ d \notin claimed
  /\ refused' = refused \cup {d}
  /\ UNCHANGED <<of, dry, claimed, executed>>

(* The store is lost with the process that held it. *)
Forget ==
  /\ claimed' = {} /\ executed' = {}
  /\ UNCHANGED <<of, dry, refused>>

Next ==
  \/ \E d \in Deliveries : Claim(d) \/ Execute(d) \/ RefuseReplay(d)
  \/ Forget

Spec == Init /\ [][Next]_vars
=============================================================================
