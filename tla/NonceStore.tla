----------------------------- MODULE NonceStore -----------------------------
(***************************************************************************)
(* The replay envelope shared by the action and the result route           *)
(* (replay.go): the default in-process nonce store and the freshness       *)
(* window on issued_at.  A store is the map `expiries` of the code: a      *)
(* function from the nonces it remembers to the instant each one expires.  *)
(* Time is counted in ticks; Second says how many ticks make a second.     *)
(***************************************************************************)
EXTENDS Integers

CONSTANTS ClockSkew, \* Config.ClockSkew, in ticks
          Second     \* time.Second, in ticks

(* validateAction refuses a ClockSkew that is not positive. *)
ASSUME SkewAssumption == ClockSkew \in Nat \ {0} /\ Second \in Nat \ {0}

EmptyStore == [n \in {} |-> 0]

(* Mutant: only half the window is remembered. *)
MutTtl == ClockSkew + Second

(* recordNonce asks the store to remember a nonce for the full window. *)
Ttl == 2 * ClockSkew + Second

(* The nonces that survive the pruning Add does at instant t. *)
Live(store, t) == {n \in DOMAIN store : store[n] > t}

Seen(store, nonce, t) == nonce \in Live(store, t)

(* Mutant: the deadline is counted backwards. *)
MutAdded(store, nonce, t) ==
  [n \in Live(store, t) \cup {nonce} |->
     IF n \in Live(store, t) THEN store[n] ELSE t - Ttl]

(* The store Add leaves: pruned, with the nonce recorded if it was unseen. *)
Added(store, nonce, t) ==
  [n \in Live(store, t) \cup {nonce} |->
     IF n \in Live(store, t) THEN store[n] ELSE t + Ttl]

(* The store Delete leaves, whoever recorded the nonce. *)
Deleted(store, nonce) == [n \in DOMAIN store \ {nonce} |-> store[n]]

(* checkFreshness: issued_at no more than ClockSkew away, either side. *)
Fresh(issued, t) == t - issued \in -ClockSkew..ClockSkew
=============================================================================
