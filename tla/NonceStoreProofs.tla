-------------------------- MODULE NonceStoreProofs --------------------------
(***************************************************************************)
(* What Add and Delete of the in-process nonce store do to what later      *)
(* calls see, for any store, skew and instants.                            *)
(***************************************************************************)
EXTENDS NonceStore, TLAPS

LEMMA TtlType == Ttl \in Nat
  BY SkewAssumption DEF Ttl

(* Pruning is not observable: after an Add, a later call sees what it saw   *)
(* before and the nonce added, for the time to live counted from the Add    *)
(* that recorded it.  A replay does not prolong it.                         *)
THEOREM PruningIsUnseen ==
  ASSUME NEW store, NEW n, NEW m, NEW t \in Nat, NEW later \in Nat,
         store \in [DOMAIN store -> Nat], t <= later
  PROVE  Seen(Added(store, n, t), m, later) <=>
           \/ Seen(store, m, later)
           \/ m = n /\ ~Seen(store, n, t) /\ later < t + Ttl
  <1> DEFINE after == Added(store, n, t)
             alive == Live(store, t)
  <1>1. /\ DOMAIN after = alive \cup {n}
        /\ \A k \in alive : after[k] = store[k]
        /\ n \notin alive => after[n] = t + Ttl
    BY DEF Added
  <1>2. /\ alive \subseteq DOMAIN store
        /\ \A k \in DOMAIN store : k \in alive <=> store[k] > t
        /\ \A k \in DOMAIN store : store[k] \in Nat
    BY DEF Live
  <1>3. Seen(store, n, t) <=> n \in alive
    BY DEF Seen
  <1>4. Seen(store, m, later) <=> m \in DOMAIN store /\ store[m] > later
    BY DEF Seen, Live
  <1>5. Seen(after, m, later) <=> m \in DOMAIN after /\ after[m] > later
    BY DEF Seen, Live
  <1> HIDE DEF after, alive
  <1> SUFFICES Seen(after, m, later) <=>
                 \/ Seen(store, m, later)
                 \/ m = n /\ ~Seen(store, n, t) /\ later < t + Ttl
    BY DEF after
  <1>6. CASE m \in alive
    BY <1>1, <1>2, <1>3, <1>4, <1>5, <1>6
  <1>7. CASE m \notin alive
    <2>1. ~Seen(store, m, later)
      BY <1>2, <1>4, <1>7
    <2>2. Seen(after, m, later) <=> m = n /\ t + Ttl > later
      BY <1>1, <1>5, <1>7
    <2> QED
      BY <1>3, <1>7, <2>1, <2>2, TtlType
  <1> QED
    BY <1>6, <1>7

(* recordNonce: "past that the freshness check alone refuses, so the store  *)
(* never has to remember more".  Read on one clock that does not go back,   *)
(* an envelope that was fresh when its nonce was recorded is refused as a   *)
(* replay as long as it is fresh.                                           *)
THEOREM FreshIsRemembered ==
  ASSUME NEW store, NEW n, NEW t \in Nat, NEW later \in Nat, NEW issuedAt \in Int,
         store \in [DOMAIN store -> Nat], t <= later,
         ~Seen(store, n, t), Fresh(issuedAt, t), Fresh(issuedAt, later)
  PROVE  Seen(Added(store, n, t), n, later)
  <1>1. later - t <= 2 * ClockSkew
    BY SkewAssumption DEF Fresh
  <1>2. later < t + Ttl
    BY <1>1, SkewAssumption DEF Ttl
  <1> QED
    BY <1>2, PruningIsUnseen

(* Delete forgets its nonce at once and no other. *)
THEOREM DeleteIsLocal ==
  ASSUME NEW store, NEW n, NEW m, NEW t \in Nat
  PROVE  Seen(Deleted(store, n), m, t) <=> m # n /\ Seen(store, m, t)
  BY DEF Seen, Live, Deleted
=============================================================================
