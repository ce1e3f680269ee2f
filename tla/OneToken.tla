------------------------------ MODULE OneToken ------------------------------
(***************************************************************************)
(* What the API caller promises its callers and the host about bearers.    *)
(* The host makes grants, numbered in their order; one that reached us is  *)
(* current at a time, and stays so until it wears out or a refused call    *)
(* burns it.  A call is handed the current grant, or, only when there is   *)
(* none, a new one.  A refused call tries again once, with a grant made    *)
(* after the refusal, and only a second refusal is reported.  A key that   *)
(* is its own bearer is never tried again.                                 *)
(***************************************************************************)
EXTENDS Integers

CONSTANTS Calls, StaticKey

VARIABLES exchangeable, \* the API key is exchanged for tokens
          current,      \* the grant calls are handed
          made,         \* how many grants the host has made
          granted,      \* the grants that reached us
          worn,         \* those of them too old to start a call with
          presented,    \* the bearer each call has put to the host
          refusedAt,    \* how many grants there were when it was refused
          burning,      \* the calls refused that have not burned anything yet
          outcome       \* what each call reported

vars ==
  <<exchangeable, current, made, granted, worn, presented, refusedAt, burning, outcome>>

NoBearer == 0

Init ==
  /\ exchangeable \in BOOLEAN
  /\ current = NoBearer /\ made = 0 /\ granted = {} /\ worn = {}
  /\ presented = [c \in Calls |-> NoBearer]
  /\ refusedAt = [c \in Calls |-> 0] /\ burning = {}
  /\ outcome = [c \in Calls |-> "none"]

(* The host makes a grant, which has yet to reach us. *)
Make ==
  /\ exchangeable
  /\ made' = made + 1
  /\ UNCHANGED <<exchangeable, current, granted, worn, presented, refusedAt, burning, outcome>>

(* A call puts a bearer to the host; after a refusal, only a later grant. *)
Present(c, bearer) ==
  /\ presented[c] = NoBearer /\ outcome[c] = "none" /\ c \notin burning
  /\ presented' = [presented EXCEPT ![c] = bearer]
  /\ UNCHANGED <<exchangeable, made, refusedAt, burning, outcome>>

UseKey(c) ==
  /\ ~exchangeable
  /\ Present(c, StaticKey)
  /\ UNCHANGED <<current, granted, worn>>

UseCurrent(c) ==
  /\ exchangeable /\ current # NoBearer /\ current > refusedAt[c]
  /\ Present(c, current)
  /\ UNCHANGED <<current, granted, worn>>

(* A grant that would wear out at once is used, and not kept. *)
UseNew(c) ==
  /\ exchangeable /\ current = NoBearer
  /\ \E g \in 1..made :
       /\ g \notin granted /\ g > refusedAt[c]
       /\ Present(c, g)
       /\ granted' = granted \cup {g}
       /\ \/ current' = g /\ worn' = worn
          \/ current' = NoBearer /\ worn' = worn \cup {g}

RefusedOnce(c) ==
  /\ exchangeable
  /\ presented[c] # NoBearer /\ refusedAt[c] = 0
  /\ presented' = [presented EXCEPT ![c] = NoBearer]
  /\ refusedAt' = [refusedAt EXCEPT ![c] = made]
  /\ burning' = burning \cup {c}
  /\ UNCHANGED <<exchangeable, current, made, granted, worn, outcome>>

(* A refusal costs the current grant, and only one, before the second try. *)
Burn(c) ==
  /\ c \in burning
  /\ burning' = burning \ {c}
  /\ current' = NoBearer
  /\ UNCHANGED <<exchangeable, made, granted, worn, presented, refusedAt, outcome>>

(* Time passes: some grants wear out, the current one perhaps among them. *)
Wear ==
  /\ worn \subseteq worn' /\ worn' \subseteq granted
  /\ current' = IF current \in worn' THEN NoBearer ELSE current
  /\ UNCHANGED <<exchangeable, made, granted, presented, refusedAt, burning, outcome>>

(* The reports a call may make, after what it has been through. *)
May(c, reply) ==
  CASE reply = "answered" -> presented[c] # NoBearer
    [] reply = "unauthorized" ->
         presented[c] # NoBearer /\ (exchangeable => refusedAt[c] # 0)
    [] reply = "retryable" -> exchangeable \/ presented[c] # NoBearer
    [] reply = "misconfigured" -> refusedAt[c] = 0

Report(c) ==
  /\ outcome[c] = "none" /\ c \notin burning
  /\ \E reply \in {"answered", "unauthorized", "retryable", "misconfigured"} :
       May(c, reply) /\ outcome' = [outcome EXCEPT ![c] = reply]
  /\ presented' = [presented EXCEPT ![c] = NoBearer]
  /\ UNCHANGED <<exchangeable, current, made, granted, worn, refusedAt, burning>>

Next ==
  \/ \E c \in Calls :
       \/ UseKey(c) \/ UseCurrent(c) \/ UseNew(c)
       \/ RefusedOnce(c) \/ Burn(c) \/ Report(c)
  \/ Make
  \/ Wear

Spec == Init /\ [][Next]_vars
=============================================================================
